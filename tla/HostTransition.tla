--------------------------- MODULE HostTransition ---------------------------
(* What HardwareOne's power latch promises the operator of a CM5            *)
(* (ai-service/README.md:711-730), whatever is lost, repeated or restarted: *)
(* a transition runs at most once and only between its Committed boundary   *)
(* and its settlement, is applied only once committed, and is reported      *)
(* failed only if it never ran.                                             *)
EXTENDS Naturals

CONSTANTS
    Request,        \* power requests
    Transition      \* those that stop or suspend the host

VARIABLES
    latch,          \* "open", "committed", "applied" or "failed", per request
    runs            \* times the request's transition was invoked

Init ==
    /\ latch = [r \in Request |-> "open"]
    /\ runs = [r \in Request |-> 0]

Commit(r) ==
    /\ r \in Transition /\ latch[r] = "open"
    /\ latch' = [latch EXCEPT ![r] = "committed"]
    /\ UNCHANGED runs

Run(r) ==
    /\ latch[r] = "committed" /\ runs[r] = 0
    /\ runs' = [runs EXCEPT ![r] = 1]
    /\ UNCHANGED latch

Apply(r) ==
    /\ latch[r] = IF r \in Transition THEN "committed" ELSE "open"
    /\ latch' = [latch EXCEPT ![r] = "applied"]
    /\ UNCHANGED runs

Fail(r) ==
    /\ latch[r] \in {"open", "committed"} /\ runs[r] = 0
    /\ latch' = [latch EXCEPT ![r] = "failed"]
    /\ UNCHANGED runs

Next == \E r \in Request : Commit(r) \/ Run(r) \/ Apply(r) \/ Fail(r)

Spec == Init /\ [][Next]_<<latch, runs>>

=============================================================================
