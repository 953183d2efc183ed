------------------------------- MODULE Orders -------------------------------
(* Ordered dictionaries of the service that keep what was named last: the    *)
(* tombstones of jobs.py, the recent requests of dictation.py, the cancelled *)
(* turns of cm5_llm.py, the records of power.py.  An order is the sequence   *)
(* of its keys, the oldest first, each once.                                 *)
(*                                                                           *)
(* Written as functions of the length, so that what they return is proved    *)
(* (OrderProofs).                                                            *)
EXTENDS Naturals, Sequences, SequencesExt

\* The elements of s that are in S, in their order: SelectSeq, written as a
\* function of the place so that what it returns can be proved.
Select(s, S) ==
    LET f[n \in 0..Len(s)] ==
            IF n = 0 THEN <<>>
            ELSE IF s[n] \in S THEN Append(f[n - 1], s[n]) ELSE f[n - 1]
    IN  f[Len(s)]

\* move_to_end, then popitem(last=False) while there are more than limit; an
\* order that kept to its limit has at most one to give up.
Remembered(order, x, limit) ==
    LET all == Append(Select(order, ToSet(order) \ {x}), x)
    IN  IF Len(all) > limit THEN Tail(all) ELSE all

\* Each of xs in turn.
RememberedAll(order, xs, limit) ==
    LET f[n \in 0..Len(xs)] == IF n = 0 THEN order ELSE Remembered(f[n - 1], xs[n], limit)
    IN  f[Len(xs)]
=============================================================================
