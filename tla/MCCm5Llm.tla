------------------------------ MODULE MCCm5Llm ------------------------------
(* Small instances of Cm5Llm for TLC: two models on the host and one gone.  *)
EXTENDS Cm5Llm

ThreeModels == {"small", "large", "gone"}
TwoOnHost == {"small", "large"}
=============================================================================
