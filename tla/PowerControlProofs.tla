------------------------- MODULE PowerControlProofs -------------------------
(* What PowerControl guarantees for every set of requests, every queue,     *)
(* cache and retry bound, and every number of faults.                       *)
EXTENDS PowerControl, OrderProofs, FiniteSetTheorems

Records == [stage : Stages, ack : Acks, pending : BOOLEAN, retries : Nat,
            timer : BOOLEAN, started : BOOLEAN, enqueued : BOOLEAN]

\* The part of TypeOK the argument needs; the queue's contents are not in it.
CoreTypes ==
    /\ fw \in [Id -> FwStates]
    /\ evts \in Seq(Id)
    /\ rec \in [Id -> Records]
    /\ cached \subseteq Id
    /\ worker \in [at : Places, id : Id \cup {NoId}]
    /\ runs \in [Id -> Nat]

Transition(i) == Kind[i] \in Disruptive
NoEvt(i) == \A n \in 1..Len(evts) : evts[n] # i

\* The firmware works on one request at a time, in order.
OneCurrent ==
    \A i, j \in Id : j < i /\ fw[i] # "idle" => fw[j] \in {"applied", "failed"}

CommittedTransitions == \A i \in Id : fw[i] = "committed" => Transition(i)

\* What is not cached is over: a retried ID cannot find a live record missing.
UncachedOver == \A i \in Id : i \notin cached => rec[i].stage = "terminal"

RecordShape(i) ==
    /\ rec[i].started => rec[i].stage \in {"committed", "terminal"} /\ runs[i] = 1
    /\ rec[i].stage = "committed" => rec[i].ack = "committed"
    /\ rec[i].ack = "committed" => Transition(i) /\ rec[i].stage \in {"committed", "terminal"}
    /\ rec[i].ack = "applied" /\ Transition(i) => runs[i] = 1

\* Up to the helper's start, the record is live and at the worker's stage.
WorkerShape(i) ==
    /\ worker.at = "precheck" => rec[i].stage = "in_flight"
    /\ worker.at = "accept" => rec[i].stage = "in_flight" /\ rec[i].ack = "accepted"
    /\ worker.at \in {"helper", "report"} => ~Transition(i)
    /\ worker.at = "commitReport" => Transition(i) /\ rec[i].stage = "accepted"
    /\ worker.at \in {"commit", "lock"} => rec[i].stage = "committed" /\ ~rec[i].started
    /\ worker.at = "lock" => fw[i] = "committed" /\ NoEvt(i)
    /\ worker.at = "run" => rec[i].started /\ rec[i].stage = "committed"

\* Once its helper ran, a request is committed or applied at the firmware,
\* never announced again, and known to this process as started or not at all.
RunShape(i) ==
    /\ runs[i] \in {0, 1}
    /\ runs[i] = 1 =>
        /\ Transition(i)
        /\ fw[i] \in {"committed", "applied"}
        /\ NoEvt(i)
        /\ \/ rec[i].started /\ rec[i].ack \in {"committed", "applied"}
           \/ ~rec[i].started /\ rec[i].ack = "none" /\ rec[i].stage = "terminal"

Inv ==
    /\ CoreTypes
    /\ OneCurrent /\ CommittedTransitions /\ UncachedOver
    /\ \A i \in Id : RecordShape(i) /\ RunShape(i)
    /\ worker.at \notin {"startReady", "idle", "itemReady", "stopped"} => worker.id \in Id
    /\ \A i \in Id : worker.id = i => WorkerShape(i)

---------------------------------------------------------------------------
(* What the helpers of the model do to records and to the latch.            *)

\* Trimming only ever drops records that are over, and changes none.
LEMMA TrimDropsTheOver ==
    ASSUME NEW rs, NEW keys, NEW order, TrimmedTo(rs, keys, order)
    PROVE  /\ rec' = rs
           /\ cached' \subseteq keys
           /\ \A i \in keys : i \notin cached' => rs[i].stage = "terminal"
<1>1. \A i \in Victims(rs, order) : rs[i].stage = "terminal"
  BY DEF Victims, Evictable
<1>2. QED  BY <1>1 DEF TrimmedTo

LEMMA EnqueuedKeeps ==
    ASSUME NEW r \in Records
    PROVE  /\ Enqueued(r) \in Records /\ Enqueued(r).stage = r.stage
           /\ Enqueued(r).ack = r.ack /\ Enqueued(r).started = r.started
  BY DEF Records, Enqueued

\* Replaying callbacks puts records back in the queue and alters nothing else.
LEMMA RequeuedKeeps ==
    ASSUME rec \in [Id -> Records], NEW q
    PROVE  /\ Requeued(q) \in [Id -> Records]
           /\ \A i \in Id : /\ Requeued(q)[i].stage = rec[i].stage
                            /\ Requeued(q)[i].ack = rec[i].ack
                            /\ Requeued(q)[i].pending = rec[i].pending
                            /\ Requeued(q)[i].started = rec[i].started
                            /\ Requeued(q)[i].retries = rec[i].retries
                            /\ Requeued(q)[i].timer = rec[i].timer
<1>1. ASSUME NEW i \in Id
      PROVE  Requeued(q)[i] = rec[i] \/ Requeued(q)[i] = [rec[i] EXCEPT !.enqueued = TRUE]
  BY DEF Requeued
<1>2. Requeued(q) = [i \in Id |-> Requeued(q)[i]]
  BY DEF Requeued
<1>3. ASSUME NEW i \in Id
      PROVE  LET r == [rec[i] EXCEPT !.enqueued = TRUE]
             IN  /\ r \in Records /\ r.stage = rec[i].stage /\ r.ack = rec[i].ack
                 /\ r.pending = rec[i].pending /\ r.started = rec[i].started
                 /\ r.retries = rec[i].retries /\ r.timer = rec[i].timer
  <2>1. rec[i] \in Records
    OBVIOUS
  <2>2. QED  BY <2>1 DEF Records
<1>4. \A i \in Id : Requeued(q)[i] \in Records
  BY <1>1, <1>3
<1>5. QED  BY <1>1, <1>2, <1>3, <1>4

\* What the acknowledgement bookkeeping keeps of a record.
LEMMA CachingKeeps ==
    ASSUME NEW r \in Records, NEW a \in Acks
    PROVE  /\ CachedAck(r, a) \in Records /\ CachedAck(r, a).ack = a
           /\ CachedAck(r, a).stage = r.stage /\ CachedAck(r, a).started = r.started
BY DEF CachedAck, Records

\* A delivered acknowledgement changes neither the outcome nor the stage.
LEMMA DeliveryKeeps ==
    ASSUME NEW r \in Records
    PROVE  /\ AckDelivered(r) \in Records /\ AckDelivered(r).ack = r.ack
           /\ AckDelivered(r).stage = r.stage /\ AckDelivered(r).started = r.started
BY DEF AckDelivered, Records

\* Nor does an acknowledgement that waits for its retry.
LEMMA RetryKeeps ==
    ASSUME NEW r \in Records
    PROVE  /\ AckRetryLater(r) \in Records /\ AckRetryLater(r).ack = r.ack
           /\ AckRetryLater(r).stage = r.stage /\ AckRetryLater(r).started = r.started
<1>1. r.retries \in Nat /\ r.retries + 1 \in Nat
  BY DEF Records
<1>2. [r EXCEPT !.retries = @ + 1, !.timer = TRUE] \in Records
  BY <1>1 DEF Records
<1>3. QED  BY <1>1, <1>2 DEF AckRetryLater, Records

---------------------------------------------------------------------------
(* Every step of the worker touches one record, one latch and its own       *)
(* place: enough to check the invariant for that request.                   *)

Free == {"startReady", "idle", "itemReady", "stopped"}

LatchStep(i) ==
    \/ fw' = fw
    \/ \E a \in Acks : /\ CanAck(i, a) /\ (a = "committed" => Transition(i))
                       /\ fw' = [fw EXCEPT ![i] = a]

\* An acknowledgement moves the firmware's latch as LatchStep says, or not at all.
LEMMA AckIsLatchStep ==
    ASSUME Inv, NEW i \in Id,
           FwAck(i, rec[i].ack) \/ FwIgnores,
           rec[i].ack = "committed" => Transition(i)
    PROVE  LatchStep(i)
<1>1. rec[i].ack \in Acks
  BY DEF Inv, CoreTypes, Records
<1>2. QED  BY <1>1 DEF LatchStep, FwAck, FwIgnores, fwVars

\* A step of one latch leaves one current request and the other latches alone.
LEMMA LatchStepKeeps ==
    ASSUME Inv, NEW i \in Id, LatchStep(i)
    PROVE  /\ fw' \in [Id -> FwStates]
           /\ OneCurrent' /\ CommittedTransitions'
           /\ \A j \in Id : j # i => fw'[j] = fw[j]
<1>. USE DEF Inv, CoreTypes
<1>1. CASE fw' = fw
  BY <1>1 DEF OneCurrent, CommittedTransitions
<1>2. CASE fw' # fw
  <2>1. PICK a \in Acks : /\ CanAck(i, a) /\ (a = "committed" => Transition(i))
                          /\ fw' = [fw EXCEPT ![i] = a]
    BY <1>2 DEF LatchStep
  <2>2. /\ a \in {"accepted", "committed", "applied", "failed"}
        /\ fw[i] # "idle"
        /\ fw[i] \in {"applied", "failed"} => a = fw[i]
    BY <2>1 DEF CanAck, Acks
  <2>3. OneCurrent'
    BY <2>1, <2>2 DEF OneCurrent
  <2>4. CommittedTransitions'
    BY <2>1, <2>2 DEF CommittedTransitions, Transition
  <2>5. QED  BY <2>1, <2>2, <2>3, <2>4 DEF FwStates
<1>3. QED  BY <1>1, <1>2

\* The frame of a worker step: it touches its own record, and what the others
\* say of the invariant carries over.
LEMMA RecordStep ==
    ASSUME Inv, NEW i \in Id, NEW r \in Records,
           worker' \in [at : Places, id : Id \cup {NoId}],
           worker'.at \in Free \/ worker'.id = i,
           worker'.id \in {i, NoId},
           rec' = [rec EXCEPT ![i] = r],
           cached' \subseteq cached,
           \A j \in cached : j \notin cached' => rec'[j].stage = "terminal",
           i \in cached \/ r.stage = "terminal",
           LatchStep(i), UNCHANGED <<evts, runs>>,
           RecordShape(i)', RunShape(i)',
           worker'.id = i => WorkerShape(i)'
    PROVE  Inv'
<1>. USE DEF Inv
<1>1. /\ fw' \in [Id -> FwStates] /\ OneCurrent' /\ CommittedTransitions'
      /\ \A j \in Id : j # i => fw'[j] = fw[j]
  BY LatchStepKeeps
<1>2. CoreTypes'
  BY <1>1 DEF CoreTypes
<1>3. UncachedOver'
  BY DEF UncachedOver, CoreTypes
<1>4. \A j \in Id : RecordShape(j)' /\ RunShape(j)'
  <2>1. ASSUME NEW j \in Id, j # i  PROVE RecordShape(j)' /\ RunShape(j)'
    BY <2>1, <1>1 DEF RecordShape, RunShape, NoEvt, Transition, CoreTypes
  <2>2. QED  BY <2>1
<1>5. worker'.at \notin Free => worker'.id \in Id
  OBVIOUS
<1>6. \A j \in Id : worker'.id = j => WorkerShape(j)'
  BY IdAssumption DEF NoId
<1>7. QED  BY <1>1, <1>2, <1>3, <1>4, <1>5, <1>6 DEF Free

\* A worker step that goes on with the same request.
LEMMA ContinueStep ==
    ASSUME Inv, NEW i \in Id, NEW r \in Records, NEW place \in Places,
           Continue(i, r, place), LatchStep(i), UNCHANGED <<evts, runs>>,
           i \in cached \/ r.stage = "terminal",
           RecordShape(i)', RunShape(i)', WorkerShape(i)'
    PROVE  Inv'
<1>1. worker' = At(place, i) /\ rec' = [rec EXCEPT ![i] = r] /\ cached' = cached
  BY DEF Continue
<1>2. /\ worker' \in [at : Places, id : Id \cup {NoId}]
      /\ worker'.id = i
  BY <1>1 DEF At
<1>3. QED  BY <1>1, <1>2, RecordStep

\* A worker step that ends its queue item.
LEMMA EndItemStep ==
    ASSUME Inv, NEW i \in Id, NEW r \in Records,
           EndItem(i, r), LatchStep(i), UNCHANGED <<evts, runs>>,
           i \in cached \/ r.stage = "terminal",
           RecordShape(i)', RunShape(i)'
    PROVE  Inv'
<1>1. worker' = Idle /\ TrimmedTo([rec EXCEPT ![i] = r], cached, recency)
  BY DEF EndItem
<1>2. /\ rec' = [rec EXCEPT ![i] = r] /\ cached' \subseteq cached
      /\ \A j \in cached : j \notin cached' => rec'[j].stage = "terminal"
  BY <1>1, TrimDropsTheOver
<1>3. /\ worker' \in [at : Places, id : Id \cup {NoId}]
      /\ worker'.at \in Free /\ worker'.id = NoId /\ worker'.id # i
  BY <1>1, IdAssumption DEF Idle, At, Places, Free, NoId
<1>4. QED  BY <1>2, <1>3, RecordStep

\* A worker step that fails a request whose helper never started.
LEMMA FailStep ==
    ASSUME Inv, NEW i \in Id, NEW r \in Records,
           Fail(i, r), LatchStep(i), UNCHANGED <<evts, runs>>,
           runs[i] = 0, ~r.started
    PROVE  Inv'
<1>. DEFINE t == [r EXCEPT !.stage = "terminal"]
            c == CachedAck(t, "failed")
<1>1. t \in Records /\ t.stage = "terminal" /\ ~t.started
  BY DEF Records, Stages
<1>2. c \in Records /\ c.ack = "failed" /\ c.stage = "terminal" /\ ~c.started
  BY <1>1, CachingKeeps DEF Acks
<1>3. Continue(i, c, "refuse")
  BY DEF Fail
<1>4. rec'[i] = c /\ worker'.at = "refuse" /\ runs'[i] = 0
  BY <1>3 DEF Continue, At, Inv, CoreTypes
<1>5. RecordShape(i)' /\ RunShape(i)' /\ WorkerShape(i)'
  BY <1>2, <1>4 DEF RecordShape, RunShape, WorkerShape
<1>6. QED  BY <1>2, <1>3, <1>5, ContinueStep DEF Places

\* Repeating a record's last acknowledgement, when it has one.
LEMMA ReplayItemStep ==
    ASSUME Inv, NEW i \in Id, NEW r \in Records,
           r.ack = rec[i].ack, r.stage = rec[i].stage, r.started = rec[i].started,
           Replay(i, r), UNCHANGED <<fw, evts, runs>>
    PROVE  Inv'
<1>. USE DEF Inv
<1>1. /\ RecordShape(i) /\ RunShape(i) /\ LatchStep(i)
      /\ i \in cached \/ r.stage = "terminal"
  BY DEF UncachedOver, LatchStep
<1>2. CASE r.ack = "none"
  <2>1. EndItem(i, r)
    BY <1>2 DEF Replay
  <2>2. rec' = [rec EXCEPT ![i] = r]
    BY <2>1, TrimDropsTheOver DEF EndItem
  <2>3. rec'[i] = r
    BY <2>2 DEF CoreTypes
  <2>4. RecordShape(i)' /\ RunShape(i)'
    BY <1>1, <2>3 DEF RecordShape, RunShape, NoEvt, Transition
  <2>5. QED  BY <1>1, <2>1, <2>4, EndItemStep
<1>3. CASE r.ack # "none"
  <2>. DEFINE p == [r EXCEPT !.pending = TRUE]
  <2>1. Continue(i, p, "replay")
    BY <1>3 DEF Replay
  <2>2. /\ p \in Records /\ p.ack = r.ack /\ p.stage = r.stage
        /\ p.started = r.started
    BY DEF Records
  <2>3. rec'[i] = p /\ worker'.at = "replay"
    BY <2>1 DEF Continue, At, CoreTypes
  <2>4. RecordShape(i)' /\ RunShape(i)' /\ WorkerShape(i)'
    BY <1>1, <1>3, <2>2, <2>3
    DEF RecordShape, RunShape, WorkerShape, NoEvt, Transition
  <2>5. QED  BY <1>1, <2>1, <2>2, <2>4, ContinueStep DEF Places
<1>4. QED  BY <1>2, <1>3

---------------------------------------------------------------------------
(* The worker's steps, one by one.                                          *)

\* Every step of the worker on a request keeps the invariant.
LEMMA WorkKeepsInv ==
    ASSUME Inv, NEW i \in Id, Work(i)
    PROVE  Inv'
<1>. USE DEF Inv
<1>a. /\ rec[i] \in Records /\ RecordShape(i) /\ RunShape(i)
      /\ i \in cached \/ rec[i].stage = "terminal"
      /\ worker.id = i => WorkerShape(i)
      /\ fw[i] \in FwStates /\ runs[i] \in Nat
  BY DEF CoreTypes, UncachedOver
<1>b. UNCHANGED fw => LatchStep(i)
  BY DEF LatchStep
<1>c. \A p : worker = At(p, i) => worker.at = p /\ worker.id = i
  BY DEF At
<1>1. CASE TakeReplay(i)
  <2>1. UNCHANGED <<fw, evts, runs>> /\ Replay(i, rec[i])
    BY <1>1 DEF TakeReplay
  <2>2. QED  BY <1>a, <2>1, ReplayItemStep
<1>2. CASE TakeOriginal(i)
  <2>. DEFINE was == [rec[i] EXCEPT !.enqueued = FALSE]
              r == [was EXCEPT !.stage = "in_flight"]
  <2>1. /\ UNCHANGED <<fw, evts, runs>>
        /\ IF was.stage = "queued" THEN Execute(i, was) ELSE Replay(i, was)
    BY <1>2 DEF TakeOriginal
  <2>a. /\ was \in Records /\ was.stage = rec[i].stage /\ was.ack = rec[i].ack
        /\ was.started = rec[i].started
    BY <1>a DEF Records
  <2>b. CASE was.stage # "queued"
    BY <2>1, <2>a, <2>b, ReplayItemStep
  <2>c. SUFFICES ASSUME was.stage = "queued" PROVE Inv'
    BY <2>b
  <2>2. /\ r \in Records /\ r.stage = "in_flight" /\ r.ack = rec[i].ack
        /\ r.started = rec[i].started
    BY <2>a DEF Records, Stages
  <2>3. ~r.started /\ runs[i] = 0 /\ r.ack \notin {"committed"}
    BY <1>a, <2>a, <2>c, <2>2 DEF RecordShape, RunShape
  <2>4. i \in cached
    BY <1>a, <2>a, <2>c
  <2>5. CASE Fail(i, r)
    BY <1>b, <2>1, <2>2, <2>3, <2>5, FailStep
  <2>6. CASE Continue(i, r, "precheck")
    <3>1. rec'[i] = r /\ worker'.at = "precheck" /\ runs'[i] = 0
      BY <2>1, <2>3, <2>6 DEF Continue, At, CoreTypes
    <3>2. RecordShape(i)' /\ RunShape(i)' /\ WorkerShape(i)'
      BY <1>a, <2>1, <2>2, <2>3, <3>1
      DEF RecordShape, RunShape, WorkerShape, Transition
    <3>3. QED  BY <1>b, <2>1, <2>2, <2>4, <2>6, <3>2, ContinueStep DEF Places
  <2>7. CASE Continue(i, CachedAck(r, "accepted"), "accept")
    <3>. DEFINE c == CachedAck(r, "accepted")
    <3>1. /\ c \in Records /\ c.ack = "accepted" /\ c.stage = "in_flight"
          /\ ~c.started
      BY <2>2, <2>3, CachingKeeps DEF Acks
    <3>2. rec'[i] = c /\ worker'.at = "accept" /\ runs'[i] = 0
      BY <2>1, <2>3, <2>7 DEF Continue, At, CoreTypes
    <3>3. RecordShape(i)' /\ RunShape(i)' /\ WorkerShape(i)'
      BY <3>1, <3>2 DEF RecordShape, RunShape, WorkerShape
    <3>4. QED  BY <1>b, <2>1, <2>4, <2>7, <3>1, <3>3, ContinueStep DEF Places
  <2>8. QED  BY <2>1, <2>c, <2>5, <2>6, <2>7 DEF Execute
<1>3. CASE Precheck(i)
  <2>1. /\ UNCHANGED <<fw, evts, runs>> /\ rec[i].stage = "in_flight"
        /\ ~rec[i].started /\ runs[i] = 0
    BY <1>3, <1>a, <1>c DEF Precheck, WorkerShape, RecordShape, RunShape
  <2>2. CASE Fail(i, rec[i])
    BY <1>a, <1>b, <2>1, <2>2, FailStep
  <2>3. CASE Continue(i, CachedAck(rec[i], "accepted"), "accept")
    <3>. DEFINE c == CachedAck(rec[i], "accepted")
    <3>1. /\ c \in Records /\ c.ack = "accepted" /\ c.stage = "in_flight"
          /\ ~c.started
      BY <1>a, <2>1, CachingKeeps DEF Acks
    <3>2. rec'[i] = c /\ worker'.at = "accept" /\ runs'[i] = 0
      BY <2>1, <2>3 DEF Continue, At, CoreTypes
    <3>3. RecordShape(i)' /\ RunShape(i)' /\ WorkerShape(i)'
      BY <3>1, <3>2 DEF RecordShape, RunShape, WorkerShape
    <3>4. i \in cached
      BY <1>a, <2>1
    <3>5. QED  BY <1>b, <2>1, <2>3, <3>1, <3>3, <3>4, ContinueStep DEF Places
  <2>4. QED  BY <1>3, <2>2, <2>3 DEF Precheck
<1>4. CASE AcceptOk(i)
  <2>. DEFINE d == AckDelivered(rec[i])
              r == [d EXCEPT !.stage = "accepted"]
              place == IF Transition(i) THEN "commitReport" ELSE "helper"
  <2>1. /\ rec[i].stage = "in_flight" /\ rec[i].ack = "accepted"
        /\ ~rec[i].started /\ runs[i] = 0
    BY <1>4, <1>a, <1>c DEF AcceptOk, WorkerShape, RecordShape, RunShape
  <2>2. UNCHANGED <<evts, runs>> /\ LatchStep(i)
    BY <1>4, <2>1, AckIsLatchStep DEF AcceptOk, AckOk
  <2>3. d \in Records /\ d.ack = "accepted" /\ ~d.started
    BY <1>a, <2>1, DeliveryKeeps
  <2>4. /\ r \in Records /\ r.stage = "accepted" /\ r.ack = "accepted"
        /\ ~r.started
    BY <2>3 DEF Records, Stages
  <2>5. Continue(i, r, place)
    BY <1>4 DEF AcceptOk, Transition
  <2>6. rec'[i] = r /\ worker'.at = place /\ runs'[i] = 0
    BY <2>1, <2>2, <2>5 DEF Continue, At, CoreTypes
  <2>7. RecordShape(i)' /\ RunShape(i)' /\ WorkerShape(i)'
    BY <2>4, <2>6 DEF RecordShape, RunShape, WorkerShape, Transition
  <2>8. i \in cached /\ place \in Places
    BY <1>a, <2>1 DEF Places
  <2>9. QED  BY <2>2, <2>4, <2>5, <2>7, <2>8, ContinueStep
<1>5. CASE AcceptError(i)
  <2>. DEFINE l == AckRetryLater(rec[i])
              t == [l EXCEPT !.stage = "terminal"]
              c == CachedAck(t, "failed")
  <2>1. rec[i].ack = "accepted" /\ ~rec[i].started /\ runs[i] = 0
    BY <1>5, <1>a, <1>c DEF AcceptError, WorkerShape, RecordShape, RunShape
  <2>2. UNCHANGED <<evts, runs>> /\ LatchStep(i)
    BY <1>5, <2>1, AckIsLatchStep DEF AcceptError, AckError
  <2>3. l \in Records /\ ~l.started
    BY <1>a, <2>1, RetryKeeps
  <2>4. t \in Records /\ t.stage = "terminal" /\ ~t.started
    BY <2>3 DEF Records, Stages
  <2>5. c \in Records /\ c.stage = "terminal" /\ ~c.started /\ c.ack = "failed"
    BY <2>4, CachingKeeps DEF Acks
  <2>6. Continue(i, c, "replay")
    BY <1>5 DEF AcceptError
  <2>7. rec'[i] = c /\ worker'.at = "replay" /\ runs'[i] = 0
    BY <2>1, <2>2, <2>6 DEF Continue, At, CoreTypes
  <2>8. RecordShape(i)' /\ RunShape(i)' /\ WorkerShape(i)'
    BY <2>5, <2>7 DEF RecordShape, RunShape, WorkerShape
  <2>9. QED  BY <2>2, <2>5, <2>6, <2>8, ContinueStep DEF Places
<1>6. CASE HelperDone(i)
  <2>1. UNCHANGED <<fw, evts, runs>> /\ ~Transition(i) /\ runs[i] = 0 /\ ~rec[i].started
    BY <1>6, <1>a, <1>c DEF HelperDone, WorkerShape, RunShape, RecordShape
  <2>2. CASE Fail(i, rec[i])
    BY <1>a, <1>b, <2>1, <2>2, FailStep
  <2>3. CASE ~Fail(i, rec[i])
    <3>. DEFINE r == [rec[i] EXCEPT !.stage = IF Kind[i] = "profile"
                                              THEN "terminal" ELSE @]
    <3>1. Continue(i, r, "report")
      BY <1>6, <2>3 DEF HelperDone
    <3>2. /\ r \in Records /\ r.ack = rec[i].ack /\ ~r.started
          /\ r.stage \in {rec[i].stage, "terminal"}
      BY <1>a, <2>1 DEF Records, Stages
    <3>3. rec'[i] = r /\ worker'.at = "report" /\ runs'[i] = 0
      BY <2>1, <3>1 DEF Continue, At, CoreTypes
    <3>4. RecordShape(i)' /\ RunShape(i)' /\ WorkerShape(i)'
      BY <1>a, <2>1, <3>2, <3>3 DEF RecordShape, RunShape, WorkerShape, Transition
    <3>5. i \in cached \/ r.stage = "terminal"
      BY <1>a, <3>2
    <3>6. QED  BY <1>b, <2>1, <3>1, <3>2, <3>4, <3>5, ContinueStep DEF Places
  <2>4. QED  BY <2>2, <2>3
<1>7. CASE Reported(i)
  <2>. DEFINE t == [rec[i] EXCEPT !.stage = "terminal"]
              c == CachedAck(t, "applied")
  <2>1. UNCHANGED <<fw, evts, runs>> /\ ~Transition(i) /\ runs[i] = 0 /\ ~rec[i].started
    BY <1>7, <1>a, <1>c DEF Reported, WorkerShape, RunShape, RecordShape
  <2>2. t \in Records /\ t.stage = "terminal" /\ ~t.started
    BY <1>a, <2>1 DEF Records, Stages
  <2>3. c \in Records /\ c.stage = "terminal" /\ ~c.started /\ c.ack = "applied"
    BY <2>2, CachingKeeps DEF Acks
  <2>4. Continue(i, c, "final")
    BY <1>7 DEF Reported
  <2>5. rec'[i] = c /\ worker'.at = "final" /\ runs'[i] = 0
    BY <2>1, <2>4 DEF Continue, At, CoreTypes
  <2>6. RecordShape(i)' /\ RunShape(i)' /\ WorkerShape(i)'
    BY <2>1, <2>3, <2>5 DEF RecordShape, RunShape, WorkerShape, Transition
  <2>7. QED  BY <1>b, <2>1, <2>3, <2>4, <2>6, ContinueStep DEF Places
<1>8. CASE CommitReported(i)
  <2>. DEFINE t == [rec[i] EXCEPT !.stage = "committed"]
              c == CachedAck(t, "committed")
  <2>1. /\ UNCHANGED <<fw, evts, runs>> /\ Transition(i) /\ runs[i] = 0
        /\ rec[i].stage = "accepted" /\ ~rec[i].started
    BY <1>8, <1>a, <1>c DEF CommitReported, WorkerShape, RunShape, RecordShape
  <2>2. t \in Records /\ t.stage = "committed" /\ ~t.started
    BY <1>a, <2>1 DEF Records, Stages
  <2>3. c \in Records /\ c.stage = "committed" /\ ~c.started /\ c.ack = "committed"
    BY <2>2, CachingKeeps DEF Acks
  <2>4. Continue(i, c, "commit")
    BY <1>8 DEF CommitReported
  <2>5. rec'[i] = c /\ worker'.at = "commit" /\ runs'[i] = 0
    BY <2>1, <2>4 DEF Continue, At, CoreTypes
  <2>6. RecordShape(i)' /\ RunShape(i)' /\ WorkerShape(i)'
    BY <2>1, <2>3, <2>5 DEF RecordShape, RunShape, WorkerShape, Transition
  <2>7. i \in cached
    BY <1>a, <2>1
  <2>8. QED  BY <1>b, <2>1, <2>3, <2>4, <2>6, <2>7, ContinueStep DEF Places
<1>9. CASE CommitOk(i)
  <2>. DEFINE r == AckDelivered(rec[i])
  <2>1. /\ rec[i].stage = "committed" /\ rec[i].ack = "committed"
        /\ ~rec[i].started /\ runs[i] = 0 /\ Transition(i)
    BY <1>9, <1>a, <1>c DEF CommitOk, WorkerShape, RecordShape, RunShape
  <2>2. /\ UNCHANGED <<evts, runs>> /\ LatchStep(i)
        /\ evts = <<>> /\ fw' = [fw EXCEPT ![i] = "committed"]
    BY <1>9, <2>1, AckIsLatchStep DEF CommitOk, AckOk, FwAck
  <2>3. /\ r \in Records /\ r.stage = "committed" /\ r.ack = "committed"
        /\ ~r.started
    BY <1>a, <2>1, DeliveryKeeps
  <2>4. Continue(i, r, "lock")
    BY <1>9 DEF CommitOk
  <2>5. /\ rec'[i] = r /\ worker'.at = "lock" /\ runs'[i] = 0
        /\ fw'[i] = "committed" /\ NoEvt(i)'
    BY <2>1, <2>2, <2>4 DEF Continue, At, CoreTypes, NoEvt
  <2>6. RecordShape(i)' /\ RunShape(i)' /\ WorkerShape(i)'
    BY <2>1, <2>3, <2>5 DEF RecordShape, RunShape, WorkerShape, Transition
  <2>7. i \in cached
    BY <1>a, <2>1
  <2>8. QED  BY <2>2, <2>3, <2>4, <2>6, <2>7, ContinueStep DEF Places
<1>10. CASE CommitError(i)
  <2>. DEFINE r == AckRetryLater(rec[i])
  <2>1. /\ rec[i].ack = "committed" /\ Transition(i)
        /\ ~rec[i].started /\ runs[i] = 0
    BY <1>10, <1>a, <1>c DEF CommitError, WorkerShape, RecordShape, RunShape
  <2>2. UNCHANGED <<evts, runs>> /\ LatchStep(i)
    BY <1>10, <2>1, AckIsLatchStep DEF CommitError, AckError
  <2>3. r \in Records /\ ~r.started
    BY <1>a, <2>1, RetryKeeps
  <2>4. QED  BY <1>10, <2>1, <2>2, <2>3, FailStep DEF CommitError
<1>11. CASE RefuseReported(i)
  <2>. DEFINE r == [rec[i] EXCEPT !.pending = TRUE]
  <2>1. UNCHANGED <<fw, evts, runs>>
    BY <1>11 DEF RefuseReported
  <2>2. /\ r \in Records /\ r.ack = rec[i].ack /\ r.stage = rec[i].stage
        /\ r.started = rec[i].started
    BY <1>a DEF Records
  <2>3. Continue(i, r, "replay")
    BY <1>11 DEF RefuseReported
  <2>4. rec'[i] = r /\ worker'.at = "replay"
    BY <2>3 DEF Continue, At, CoreTypes
  <2>5. RecordShape(i)' /\ RunShape(i)' /\ WorkerShape(i)'
    BY <1>a, <2>1, <2>2, <2>4 DEF RecordShape, RunShape, WorkerShape, NoEvt, Transition
  <2>6. QED  BY <1>a, <1>b, <2>1, <2>2, <2>3, <2>5, ContinueStep DEF Places
<1>12. CASE ReplayAcked(i)
  <2>. DEFINE r == AckDelivered(rec[i])
  <2>2. /\ UNCHANGED <<evts, runs>> /\ LatchStep(i) /\ evts = <<>>
        /\ CanAck(i, rec[i].ack) /\ fw' = [fw EXCEPT ![i] = rec[i].ack]
    BY <1>12, <1>a, AckIsLatchStep DEF ReplayAcked, AckOk, FwAck, RecordShape
  <2>3. /\ r \in Records /\ r.stage = rec[i].stage /\ r.ack = rec[i].ack
        /\ r.started = rec[i].started
    BY <1>a, DeliveryKeeps
  <2>4. fw'[i] = rec[i].ack /\ NoEvt(i)'
    BY <2>2 DEF CoreTypes, NoEvt
  <2>5. ASSUME rec'[i] = r  PROVE RecordShape(i)' /\ RunShape(i)'
    BY <1>a, <2>2, <2>3, <2>4, <2>5 DEF RecordShape, RunShape, Transition, CanAck
  <2>6. CASE rec[i].stage = "committed" /\ ~rec[i].started
    <3>1. Continue(i, r, "lock")
      BY <1>12, <2>6 DEF ReplayAcked
    <3>2. rec'[i] = r /\ worker'.at = "lock"
      BY <3>1 DEF Continue, At, CoreTypes
    <3>3. WorkerShape(i)'
      BY <1>a, <2>3, <2>4, <2>6, <3>2 DEF WorkerShape, RecordShape
    <3>4. QED  BY <1>a, <2>2, <2>3, <2>5, <3>1, <3>2, <3>3, ContinueStep DEF Places
  <2>7. CASE ~(rec[i].stage = "committed" /\ ~rec[i].started)
    <3>1. EndItem(i, r)
      BY <1>12, <2>7 DEF ReplayAcked
    <3>2. rec' = [rec EXCEPT ![i] = r]
      BY <3>1, TrimDropsTheOver DEF EndItem
    <3>3. QED  BY <1>a, <2>2, <2>3, <2>5, <3>1, <3>2, EndItemStep DEF CoreTypes
  <2>8. QED  BY <2>6, <2>7
<1>13. CASE ReplayError(i)
  <2>. DEFINE r == AckRetryLater(rec[i])
  <2>1. /\ UNCHANGED <<evts, runs>> /\ LatchStep(i)
        /\ FwAck(i, rec[i].ack) \/ UNCHANGED fw
    BY <1>13, <1>a, AckIsLatchStep
    DEF ReplayError, AckError, FwIgnores, fwVars, RecordShape
  <2>2. /\ r \in Records /\ r.stage = rec[i].stage /\ r.ack = rec[i].ack
        /\ r.started = rec[i].started
    BY <1>a, RetryKeeps
  <2>3. EndItem(i, r)
    BY <1>13 DEF ReplayError
  <2>4. rec' = [rec EXCEPT ![i] = r]
    BY <2>3, TrimDropsTheOver DEF EndItem
  <2>5. rec'[i] = r
    BY <2>4 DEF CoreTypes
  <2>6. fw'[i] = fw[i] \/ (fw'[i] = rec[i].ack /\ rec[i].ack # "none")
    BY <2>1 DEF FwAck, CanAck, CoreTypes
  <2>8. RecordShape(i)' /\ RunShape(i)'
    BY <1>a, <2>1, <2>2, <2>5, <2>6 DEF RecordShape, RunShape, NoEvt, Transition
  <2>9. QED  BY <1>a, <2>1, <2>2, <2>3, <2>8, EndItemStep
<1>14. CASE StartHelper(i)
  <2>. DEFINE r == [rec[i] EXCEPT !.started = TRUE]
  <2>1. /\ UNCHANGED <<fw, evts>> /\ fw[i] = "committed" /\ NoEvt(i)
        /\ rec[i].stage = "committed" /\ rec[i].ack = "committed"
        /\ ~rec[i].started /\ runs[i] = 0 /\ Transition(i)
    BY <1>14, <1>a, <1>c DEF StartHelper, WorkerShape, RecordShape, RunShape
  <2>2. /\ r \in Records /\ r.stage = "committed" /\ r.ack = "committed"
        /\ r.started
    BY <1>a, <2>1 DEF Records
  <2>3. /\ worker' = At("run", i) /\ rec' = [rec EXCEPT ![i] = r]
        /\ runs' = [runs EXCEPT ![i] = @ + 1] /\ cached' = cached
    BY <1>14 DEF StartHelper, Continue
  <2>4. CoreTypes'
    BY <2>1, <2>2, <2>3 DEF CoreTypes, At, Places
  <2>5. rec'[i] = r /\ runs'[i] = 1
    BY <2>1, <2>3 DEF CoreTypes
  <2>6. RecordShape(i)' /\ RunShape(i)' /\ WorkerShape(i)'
    BY <2>1, <2>2, <2>3, <2>5 DEF RecordShape, RunShape, WorkerShape, NoEvt, Transition, At
  <2>7. ASSUME NEW j \in Id, j # i  PROVE RecordShape(j)' /\ RunShape(j)'
    BY <2>1, <2>3, <2>7 DEF RecordShape, RunShape, NoEvt, Transition, CoreTypes
  <2>8. OneCurrent' /\ CommittedTransitions' /\ UncachedOver'
    BY <1>a, <2>1, <2>2, <2>3
    DEF OneCurrent, CommittedTransitions, UncachedOver, Transition, CoreTypes
  <2>9. QED  BY <2>3, <2>4, <2>6, <2>7, <2>8 DEF At
<1>15. CASE RunDone(i)
  <2>1. /\ UNCHANGED <<fw, evts, runs>> /\ rec[i].stage = "committed"
        /\ rec[i].started /\ runs[i] = 1
    BY <1>15, <1>a, <1>c DEF RunDone, WorkerShape, RecordShape
  <2>2. CASE EndItem(i, rec[i])
    <3>1. rec' = [rec EXCEPT ![i] = rec[i]]
      BY <2>2, TrimDropsTheOver DEF EndItem
    <3>2. rec'[i] = rec[i]
      BY <3>1 DEF CoreTypes
    <3>3. RecordShape(i)' /\ RunShape(i)'
      BY <1>a, <2>1, <3>2 DEF RecordShape, RunShape, NoEvt, Transition
    <3>4. QED  BY <1>a, <1>b, <2>1, <2>2, <3>3, EndItemStep
  <2>3. CASE ~EndItem(i, rec[i])
    <3>. DEFINE t == [rec[i] EXCEPT !.stage = "terminal"]
                c == CachedAck(t, "applied")
    <3>1. t \in Records /\ t.stage = "terminal" /\ t.started
      BY <1>a, <2>1 DEF Records, Stages
    <3>2. c \in Records /\ c.stage = "terminal" /\ c.started /\ c.ack = "applied"
      BY <3>1, CachingKeeps DEF Acks
    <3>3. Continue(i, c, "final")
      BY <1>15, <2>3 DEF RunDone
    <3>4. rec'[i] = c /\ worker'.at = "final"
      BY <3>3 DEF Continue, At, CoreTypes
    <3>5. RecordShape(i)' /\ RunShape(i)' /\ WorkerShape(i)'
      BY <1>a, <2>1, <3>2, <3>4 DEF RecordShape, RunShape, WorkerShape, NoEvt, Transition
    <3>6. QED  BY <1>b, <2>1, <3>2, <3>3, <3>5, ContinueStep DEF Places
  <2>4. QED  BY <2>2, <2>3
<1>16. CASE Final(i)
  <2>1. PICK r \in {AckDelivered(rec[i]), AckRetryLater(rec[i])} :
             FinalAcked(i, r) /\ (FwAck(i, rec[i].ack) \/ FwIgnores)
    BY <1>16 DEF Final, AckOk, AckError
  <2>2. /\ r \in Records /\ r.stage = rec[i].stage /\ r.ack = rec[i].ack
        /\ r.started = rec[i].started
    BY <1>a, <2>1, DeliveryKeeps, RetryKeeps
  <2>3. UNCHANGED <<evts, runs>> /\ LatchStep(i)
    BY <1>a, <2>1, AckIsLatchStep DEF FinalAcked, RecordShape
  <2>4. fw'[i] = fw[i] \/ (fw'[i] = rec[i].ack /\ rec[i].ack # "none")
    BY <2>1 DEF FwAck, CanAck, FwIgnores, fwVars, CoreTypes
  <2>5. ASSUME rec'[i] = r  PROVE RecordShape(i)' /\ RunShape(i)'
    BY <1>a, <2>2, <2>3, <2>4, <2>5 DEF RecordShape, RunShape, NoEvt, Transition
  <2>6. CASE EndItem(i, r)
    <3>1. rec' = [rec EXCEPT ![i] = r]
      BY <2>6, TrimDropsTheOver DEF EndItem
    <3>2. QED  BY <1>a, <2>2, <2>3, <2>5, <2>6, <3>1, EndItemStep DEF CoreTypes
  <2>7. CASE Continue(i, r, "resumeReport")
    <3>1. rec'[i] = r /\ worker'.at = "resumeReport"
      BY <2>7 DEF Continue, At, CoreTypes
    <3>2. WorkerShape(i)'
      BY <3>1 DEF WorkerShape
    <3>3. QED  BY <1>a, <2>2, <2>3, <2>5, <2>7, <3>1, <3>2, ContinueStep DEF Places
  <2>8. QED  BY <2>1, <2>6, <2>7 DEF FinalAcked
<1>17. CASE ResumeReported(i)
  <2>1. /\ UNCHANGED <<fw, evts, rec, cached, runs>>
        /\ worker' = At("resumeReady", i)
    BY <1>17 DEF ResumeReported
  <2>2. Continue(i, rec[i], "resumeReady")
    BY <1>17 DEF ResumeReported, Continue, CoreTypes
  <2>3. RecordShape(i)' /\ RunShape(i)' /\ WorkerShape(i)'
    BY <1>a, <2>1 DEF RecordShape, RunShape, WorkerShape, NoEvt, Transition, At
  <2>4. QED  BY <1>a, <1>b, <2>1, <2>2, <2>3, ContinueStep DEF Places
<1>18. QED
  BY <1>1, <1>2, <1>3, <1>4, <1>5, <1>6, <1>7, <1>8, <1>9, <1>10, <1>11, <1>12,
     <1>13, <1>14, <1>15, <1>16, <1>17 DEF Work

---------------------------------------------------------------------------
(* Steps that leave the worker between items, or do not move it.            *)

\* A boot-ready claim settles latches, and none of them falls behind its helper.
LEMMA ReadyKeeps ==
    ASSUME Inv, FwReady
    PROVE  /\ fw' \in [Id -> FwStates] /\ OneCurrent' /\ CommittedTransitions'
           /\ \A i \in Id : runs[i] = 1 => fw'[i] \in {"committed", "applied"}
<1>. USE DEF Inv, CoreTypes
<1>1. \A i \in Id : fw'[i] = IF Kind[i] \notin Disruptive THEN fw[i]
                            ELSE IF fw[i] = "accepted" THEN "failed"
                            ELSE IF fw[i] = "committed" /\ snap # boot THEN "applied"
                            ELSE fw[i]
  BY DEF FwReady
<1>2. fw' \in [Id -> FwStates]
  BY DEF FwReady, FwStates
<1>3. OneCurrent' /\ CommittedTransitions'
  BY <1>1 DEF OneCurrent, CommittedTransitions, Transition
<1>4. \A i \in Id : runs[i] = 1 => fw'[i] \in {"committed", "applied"}
  BY <1>1 DEF RunShape
<1>5. QED  BY <1>2, <1>3, <1>4

\* Whatever becomes of the line in flight, a request that ran is not failed.
LEMMA LineKeeps ==
    ASSUME Inv, FwReceives \/ FwIgnores
    PROVE  /\ fw' \in [Id -> FwStates] /\ OneCurrent' /\ CommittedTransitions'
           /\ \A i \in Id : runs[i] = 1 => fw'[i] \in {"committed", "applied"}
<1>. USE DEF Inv
<1>1. CASE worker.at \in SendingAck /\ FwAck(worker.id, rec[worker.id].ack)
  <2>. DEFINE i == worker.id
  <2>1. i \in Id
    BY <1>1 DEF SendingAck
  <2>2. RecordShape(i) /\ RunShape(i)
    BY <2>1
  <2>3. LatchStep(i)
    BY <1>1, <2>1, <2>2, AckIsLatchStep DEF RecordShape
  <2>4. /\ fw' \in [Id -> FwStates] /\ OneCurrent' /\ CommittedTransitions'
        /\ \A j \in Id : j # i => fw'[j] = fw[j]
    BY <2>1, <2>3, LatchStepKeeps
  <2>5. fw'[i] = rec[i].ack /\ rec[i].ack # "none"
    BY <1>1, <2>1 DEF FwAck, CanAck, CoreTypes
  <2>6. \A j \in Id : runs[j] = 1 => fw'[j] \in {"committed", "applied"}
    BY <2>2, <2>4, <2>5 DEF RunShape
  <2>7. QED  BY <2>4, <2>6
<1>2. CASE FwReady
  BY <1>2, ReadyKeeps
<1>3. CASE FwIgnores
  BY <1>3 DEF FwIgnores, fwVars, CoreTypes, OneCurrent, CommittedTransitions, RunShape,
              Transition
<1>4. QED  BY <1>1, <1>2, <1>3 DEF FwReceives

\* The frame of a step after which the worker is on no request.
LEMMA ParkedStep ==
    ASSUME Inv,
           fw' \in [Id -> FwStates], OneCurrent', CommittedTransitions',
           \A i \in Id : runs[i] = 1 => fw'[i] \in {"committed", "applied"},
           evts' \in Seq(Id), \A i \in Id : NoEvt(i) => NoEvt(i)',
           rec' \in [Id -> Records], cached' \subseteq Id, UncachedOver',
           \A i \in Id : /\ rec'[i].ack = rec[i].ack
                        /\ rec'[i].started = rec[i].started
                        /\ \/ rec'[i].stage = rec[i].stage
                           \/ /\ rec[i].stage \in {"in_flight", "accepted"}
                              /\ rec'[i].stage = "queued",
           worker'.at \in Free, worker' = At(worker'.at, NoId), UNCHANGED runs
    PROVE  Inv'
<1>. USE DEF Inv
<1>1. worker' \in [at : Places, id : Id \cup {NoId}] /\ worker'.id \notin Id
  BY IdAssumption DEF Free, Places, At, NoId
<1>2. CoreTypes'
  BY <1>1 DEF CoreTypes
<1>3. ASSUME NEW i \in Id  PROVE RecordShape(i)' /\ RunShape(i)'
  <2>1. RecordShape(i) /\ RunShape(i)
    OBVIOUS
  <2>2. QED  BY <2>1, <1>3 DEF RecordShape, RunShape, Transition
<1>4. QED  BY <1>1, <1>2, <1>3 DEF Free

\* The boot-ready claim, from the queue or at a reconnect, keeps the invariant.
LEMMA EndReadyKeepsInv ==
    ASSUME Inv, TakeReady \/ ItemReadyDone \/ ReportReadyDone \/ Reconnect
    PROVE  Inv'
<1>. USE DEF Inv
<1>1. /\ fw' \in [Id -> FwStates] /\ OneCurrent' /\ CommittedTransitions'
      /\ \A i \in Id : runs[i] = 1 => fw'[i] \in {"committed", "applied"}
  <2>1. FwReady \/ FwIgnores
    BY DEF TakeReady, ItemReadyDone, ReportReadyDone, Reconnect, ReadySettled,
           FwIgnores, fwVars
  <2>2. CASE FwReady
    BY <2>2, ReadyKeeps
  <2>3. CASE FwIgnores
    BY <2>3, LineKeeps
  <2>4. QED  BY <2>1, <2>2, <2>3
<1>2. UNCHANGED <<evts, runs>>
  BY DEF TakeReady, ItemReadyDone, ReportReadyDone, Reconnect
<1>3. worker'.at \in Free /\ worker' = At(worker'.at, NoId)
  BY DEF TakeReady, ItemReadyDone, ReportReadyDone, Reconnect, Free, Idle, At
<1>4. /\ rec' \in [Id -> Records] /\ cached' \subseteq Id /\ UncachedOver'
      /\ \A i \in Id : /\ rec'[i].ack = rec[i].ack
                      /\ rec'[i].started = rec[i].started
                      /\ rec'[i].stage = rec[i].stage
  <2>1. CASE UNCHANGED recVars
    BY <2>1 DEF recVars, CoreTypes, UncachedOver
  <2>2. CASE TrimmedTo(rec, cached, recency)
    <3>1. /\ rec' = rec /\ cached' \subseteq cached
          /\ \A i \in cached : i \notin cached' => rec[i].stage = "terminal"
      BY <2>2, TrimDropsTheOver
    <3>2. QED  BY <3>1 DEF CoreTypes, UncachedOver
  <2>3. CASE \E q : rec' = Requeued(q) /\ cached' = cached
    <3>1. PICK q : rec' = Requeued(q) /\ cached' = cached
      BY <2>3
    <3>2. /\ rec' \in [Id -> Records]
          /\ \A i \in Id : /\ rec'[i].ack = rec[i].ack
                          /\ rec'[i].started = rec[i].started
                          /\ rec'[i].stage = rec[i].stage
      BY <3>1, RequeuedKeeps DEF CoreTypes
    <3>3. cached' \subseteq Id /\ UncachedOver'
      BY <3>1, <3>2 DEF CoreTypes, UncachedOver
    <3>4. QED  BY <3>2, <3>3
  <2>4. CASE \E q : TrimmedTo(Requeued(q), cached, recency)
    <3>1. PICK q : TrimmedTo(Requeued(q), cached, recency)
      BY <2>4
    <3>2. /\ rec' = Requeued(q) /\ cached' \subseteq cached
          /\ \A i \in cached : i \notin cached' => Requeued(q)[i].stage = "terminal"
      BY <3>1, TrimDropsTheOver
    <3>3. /\ rec' \in [Id -> Records]
          /\ \A i \in Id : /\ rec'[i].ack = rec[i].ack
                          /\ rec'[i].started = rec[i].started
                          /\ rec'[i].stage = rec[i].stage
      BY <3>2, RequeuedKeeps DEF CoreTypes
    <3>4. cached' \subseteq Id /\ UncachedOver'
      BY <3>2, <3>3 DEF CoreTypes, UncachedOver
    <3>5. QED  BY <3>3, <3>4
  <2>5. QED
    BY <2>1, <2>2, <2>3, <2>4
    DEF TakeReady, ItemReadyDone, ReportReadyDone, Reconnect, ReplayCallbacks
<1>5. \A i \in Id : NoEvt(i) => NoEvt(i)'
  BY <1>2 DEF NoEvt
<1>6. evts' \in Seq(Id)
  BY <1>2 DEF CoreTypes
<1>7. QED  BY <1>1, <1>2, <1>3, <1>4, <1>5, <1>6, ParkedStep

\* A lost link keeps the invariant, whether or not the line in flight arrived.
LEMMA LinkLostKeepsInv ==
    ASSUME Inv, LinkLost
    PROVE  Inv'
<1>. USE DEF Inv
<1>1. /\ fw' \in [Id -> FwStates] /\ OneCurrent' /\ CommittedTransitions'
      /\ \A i \in Id : runs[i] = 1 => fw'[i] \in {"committed", "applied"}
  BY LineKeeps DEF LinkLost
<1>2. evts' \in Seq(Id) /\ \A i \in Id : NoEvt(i)'
  BY DEF LinkLost, NoEvt
<1>3. worker'.at \in Free /\ worker' = At(worker'.at, NoId) /\ runs' = runs
  BY DEF LinkLost, Free, At
<1>4. PICK rs : /\ TrimmedTo(rs, cached, recency)
                /\ rs \in [Id -> Records]
                /\ \A i \in Id : /\ rs[i].ack = rec[i].ack
                                /\ rs[i].started = rec[i].started
                                /\ \/ rs[i].stage = rec[i].stage
                                   \/ /\ rec[i].stage \in {"in_flight", "accepted"}
                                      /\ rs[i].stage = "queued"
  <2>. DEFINE i == worker.id
              r == [rec[i] EXCEPT !.stage = "queued"]
  <2>1. CASE i # NoId /\ Recoverable(rec[i])
    <3>1. i \in Id /\ rec[i] \in Records
      BY <2>1 DEF CoreTypes
    <3>2. r \in Records /\ Enqueued(r) \in Records
      BY <3>1 DEF Records, Stages, Enqueued
    <3>3. /\ r.ack = rec[i].ack /\ r.started = rec[i].started /\ r.stage = "queued"
          /\ Enqueued(r).ack = rec[i].ack /\ Enqueued(r).started = rec[i].started
          /\ Enqueued(r).stage = "queued"
          /\ rec[i].stage \in {"in_flight", "accepted"}
      BY <2>1, <3>1 DEF Records, Enqueued, Recoverable
    <3>. DEFINE With(t) == [rec EXCEPT ![i] = t]
    <3>4. \/ TrimmedTo(With(Enqueued(r)), cached, recency)
          \/ TrimmedTo(With(r), cached, recency)
      BY <2>1 DEF LinkLost, RecoverUnaccepted
    <3>5. ASSUME NEW t \in {r, Enqueued(r)}
          PROVE  LET rs == With(t)
                 IN  /\ rs \in [Id -> Records]
                     /\ \A j \in Id : /\ rs[j].ack = rec[j].ack
                                     /\ rs[j].started = rec[j].started
                                     /\ \/ rs[j].stage = rec[j].stage
                                        \/ /\ rec[j].stage \in {"in_flight", "accepted"}
                                           /\ rs[j].stage = "queued"
      <4>1. /\ rec \in [Id -> Records] /\ t \in Records
            /\ t.ack = rec[i].ack /\ t.started = rec[i].started
            /\ t.stage = "queued" /\ rec[i].stage \in {"in_flight", "accepted"}
        BY <3>1, <3>2, <3>3, <3>5 DEF CoreTypes
      <4>2. [rec EXCEPT ![i] = t] \in [Id -> Records]
        BY <4>1
      <4>3. ASSUME NEW j \in Id
            PROVE  [rec EXCEPT ![i] = t][j] = IF j = i THEN t ELSE rec[j]
        BY <4>1
      <4>4. QED  BY <4>1, <4>2, <4>3
    <3>. HIDE DEF With, r
    <3>6. CASE TrimmedTo(With(Enqueued(r)), cached, recency)
      BY <3>5, <3>6
    <3>7. CASE TrimmedTo(With(r), cached, recency)
      BY <3>5, <3>7
    <3>8. QED  BY <3>4, <3>6, <3>7
  <2>2. CASE ~(i # NoId /\ Recoverable(rec[i]))
    BY <2>2 DEF LinkLost, RecoverUnaccepted, CoreTypes
  <2>3. QED  BY <2>1, <2>2
<1>5. /\ rec' = rs /\ cached' \subseteq cached
      /\ \A i \in cached : i \notin cached' => rs[i].stage = "terminal"
  BY <1>4, TrimDropsTheOver
<1>6. UncachedOver' /\ cached' \subseteq Id
  BY <1>4, <1>5 DEF UncachedOver, CoreTypes
<1>7. QED  BY <1>1, <1>2, <1>3, <1>4, <1>5, <1>6, ParkedStep

\* A daemon restart or a reboot keeps it: the records go, the latches stay.
LEMMA CrashKeepsInv ==
    ASSUME Inv, Crash
    PROVE  Inv'
<1>. USE DEF Inv
<1>1. /\ fw' \in [Id -> FwStates] /\ OneCurrent' /\ CommittedTransitions'
      /\ \A i \in Id : runs[i] = 1 => fw'[i] \in {"committed", "applied"}
  BY LineKeeps DEF Crash
<1>2. evts' = <<>> /\ cached' = {} /\ rec' = [i \in Id |-> NoRecord] /\ runs' = runs
  BY DEF Crash, FreshProcess
<1>3. worker'.at \in Free /\ worker' \in [at : Places, id : Id \cup {NoId}]
      /\ worker'.id \notin Id
  BY IdAssumption DEF Crash, FreshProcess, At, Free, Places, NoId
<1>4. /\ NoRecord \in Records /\ NoRecord.stage = "terminal"
      /\ NoRecord.ack = "none" /\ ~NoRecord.started
  BY DEF NoRecord, FreshRecord, Records, Stages, Acks
<1>5. CoreTypes' /\ UncachedOver'
  BY <1>1, <1>2, <1>3, <1>4 DEF CoreTypes, UncachedOver
<1>6. ASSUME NEW i \in Id  PROVE RecordShape(i)' /\ RunShape(i)'
  <2>1. rec'[i] = NoRecord /\ NoEvt(i)'
    BY <1>2 DEF NoEvt
  <2>2. QED  BY <1>1, <1>2, <1>4, <2>1 DEF RecordShape, RunShape, Transition
<1>7. QED  BY <1>1, <1>3, <1>5, <1>6 DEF Free

\* Taking an event off the stream leaves a stream of events.
LEMMA EventsKeep ==
    ASSUME evts \in Seq(Id), evts # <<>>
    PROVE  /\ Tail(evts) \in Seq(Id) /\ Head(evts) \in Id
           /\ \A i \in Id : NoEvt(i) =>
                  /\ Head(evts) # i
                  /\ \A n \in 1..Len(Tail(evts)) : Tail(evts)[n] # i
<1>1. Tail(evts) \in Seq(Id) /\ Head(evts) \in Id /\ Head(evts) = evts[1]
  OBVIOUS
<1>2. /\ Len(evts) \in Nat /\ Len(evts) > 0 /\ Len(Tail(evts)) = Len(evts) - 1
      /\ \A n \in 1..Len(Tail(evts)) : Tail(evts)[n] = evts[n + 1]
  OBVIOUS
<1>3. QED  BY <1>1, <1>2 DEF NoEvt

\* submit_event keeps the invariant, whichever of its branches it takes.
LEMMA SubmitKeepsInv ==
    ASSUME Inv, SubmitEvent
    PROVE  Inv'
<1>. USE DEF Inv
<1>. DEFINE i == Head(evts)
<1>1. UNCHANGED <<fw, worker, runs>> /\ evts # <<>> /\ evts' = Tail(evts)
  BY DEF SubmitEvent
<1>2. i \in Id /\ evts' \in Seq(Id)
  BY <1>1, EventsKeep DEF CoreTypes
<1>3. \A j \in Id : NoEvt(j) => i # j /\ NoEvt(j)'
  BY <1>1, EventsKeep DEF CoreTypes, NoEvt
<1>4. runs[i] = 0
  BY <1>2, <1>3 DEF RunShape
<1>5. OneCurrent' /\ CommittedTransitions'
  BY <1>1 DEF OneCurrent, CommittedTransitions, Transition
<1>6. CASE /\ rec' \in [Id -> Records] /\ cached' = cached
           /\ \A j \in Id : /\ rec'[j].stage = rec[j].stage
                           /\ rec'[j].ack = rec[j].ack
                           /\ rec'[j].started = rec[j].started
  <2>1. CoreTypes' /\ UncachedOver'
    BY <1>1, <1>2, <1>6 DEF CoreTypes, UncachedOver
  <2>2. ASSUME NEW j \in Id  PROVE RecordShape(j)' /\ RunShape(j)'
    <3>1. RecordShape(j) /\ RunShape(j)
      OBVIOUS
    <3>2. QED  BY <1>1, <1>3, <1>6, <3>1 DEF RecordShape, RunShape, Transition
  <2>3. ASSUME NEW j \in Id, worker'.id = j  PROVE WorkerShape(j)'
    BY <1>1, <1>3, <1>6, <2>3 DEF WorkerShape, Transition
  <2>4. QED  BY <1>1, <1>5, <2>1, <2>2, <2>3
<1>7. CASE SubmitKnown(i)
  <2>1. rec' = rec \/ rec' = [rec EXCEPT ![i] = Enqueued(@)] \/ rec' = [rec EXCEPT ![i] = @]
    BY <1>7 DEF SubmitKnown
  <2>2. /\ Enqueued(rec[i]) \in Records /\ Enqueued(rec[i]).stage = rec[i].stage
        /\ Enqueued(rec[i]).ack = rec[i].ack /\ Enqueued(rec[i]).started = rec[i].started
    <3>1. rec[i] \in Records
      BY <1>2 DEF CoreTypes
    <3>2. QED  BY <3>1, EnqueuedKeeps
  <2>3. rec' \in [Id -> Records] /\ cached' = cached
    <3>1. rec \in [Id -> Records] /\ i \in Id
      BY <1>2 DEF CoreTypes
    <3>2. \A t \in Records : [rec EXCEPT ![i] = t] \in [Id -> Records]
      BY <3>1
    <3>3. rec[i] \in Records
      BY <3>1
    <3>4. cached' = cached
      BY <1>7 DEF SubmitKnown
    <3>5. QED  BY <2>1, <2>2, <3>1, <3>2, <3>3, <3>4
  <2>4. QED  BY <1>2, <1>6, <2>1, <2>2, <2>3 DEF CoreTypes
<1>8. CASE SubmitNew(i)
  <2>1. CASE ~Room(queue)
    BY <1>6, <1>8, <2>1 DEF SubmitNew, CoreTypes
  <2>2. CASE Room(queue)
    <3>. DEFINE rs == [rec EXCEPT ![i] = Enqueued(FreshRecord)]
    <3>1. i \notin cached /\ TrimmedTo(rs, cached \cup {i}, Append(recency, i))
      BY <1>8, <2>2 DEF SubmitNew
    <3>2. /\ rec' = rs /\ cached' \subseteq cached \cup {i}
          /\ \A j \in cached \cup {i} : j \notin cached' => rs[j].stage = "terminal"
      BY <3>1, TrimDropsTheOver
    <3>3. /\ Enqueued(FreshRecord) \in Records /\ Enqueued(FreshRecord).stage = "queued"
          /\ Enqueued(FreshRecord).ack = "none" /\ ~Enqueued(FreshRecord).started
      BY DEF Enqueued, FreshRecord, Records, Stages, Acks
    <3>4. CoreTypes' /\ UncachedOver'
      BY <1>1, <1>2, <3>2, <3>3 DEF CoreTypes, UncachedOver
    <3>5. rec'[i] = Enqueued(FreshRecord) /\ \A j \in Id : j # i => rec'[j] = rec[j]
      BY <1>2, <3>2 DEF CoreTypes
    <3>6. ASSUME NEW j \in Id  PROVE RecordShape(j)' /\ RunShape(j)'
      <4>1. RecordShape(j) /\ RunShape(j)
        OBVIOUS
      <4>2. CASE j = i
        BY <1>1, <1>4, <3>3, <3>5, <4>2 DEF RecordShape, RunShape
      <4>3. CASE j # i
        BY <1>1, <1>3, <3>5, <4>1, <4>3 DEF RecordShape, RunShape, Transition
      <4>4. QED  BY <4>2, <4>3
    <3>7. ASSUME NEW j \in Id, worker'.id = j  PROVE WorkerShape(j)'
      <4>1. WorkerShape(j)
        BY <1>1, <3>7
      <4>2. CASE j # i
        BY <1>1, <1>3, <3>5, <4>1, <4>2 DEF WorkerShape, Transition
      <4>3. CASE j = i
        <5>1. rec[i].stage = "terminal"
          BY <1>2, <3>1 DEF UncachedOver
        <5>2. QED  BY <1>1, <3>3, <3>5, <4>1, <4>3, <5>1 DEF WorkerShape, Transition
      <4>4. QED  BY <4>2, <4>3
    <3>8. QED  BY <1>1, <1>5, <3>4, <3>6, <3>7
  <2>3. QED  BY <2>1, <2>2
<1>9. QED  BY <1>7, <1>8 DEF SubmitEvent

\* A retry timer only queues, and keeps the invariant.
LEMMA TimerKeepsInv ==
    ASSUME Inv, ReadyTimer \/ \E i \in Id : AckTimer(i)
    PROVE  Inv'
<1>. USE DEF Inv
<1>1. UNCHANGED <<fw, evts, cached, worker, runs>>
  BY DEF ReadyTimer, AckTimer
<1>2. /\ rec' \in [Id -> Records]
      /\ \A j \in Id : /\ rec'[j].stage = rec[j].stage
                      /\ rec'[j].ack = rec[j].ack
                      /\ rec'[j].started = rec[j].started
  <2>1. CASE ReadyTimer
    BY <2>1 DEF ReadyTimer, CoreTypes
  <2>2. CASE \E i \in Id : AckTimer(i)
    <3>1. PICK i \in Id : AckTimer(i)
      BY <2>2
    <3>. DEFINE r == [rec[i] EXCEPT !.timer = FALSE]
    <3>2. /\ r \in Records /\ r.stage = rec[i].stage /\ r.ack = rec[i].ack
          /\ r.started = rec[i].started
      <4>1. rec[i] \in Records
        BY <3>1 DEF CoreTypes
      <4>2. QED  BY <4>1 DEF Records
    <3>3. \/ rec' = [rec EXCEPT ![i] = r]
          \/ rec' = [rec EXCEPT ![i] = AckRetryLater(r)]
      BY <3>1 DEF AckTimer
    <3>4. /\ AckRetryLater(r) \in Records /\ AckRetryLater(r).stage = r.stage
          /\ AckRetryLater(r).ack = r.ack /\ AckRetryLater(r).started = r.started
      BY <3>2, RetryKeeps
    <3>5. rec \in [Id -> Records]
      BY DEF CoreTypes
    <3>. HIDE DEF r
    <3>6. CASE rec' = [rec EXCEPT ![i] = r]
      BY <3>2, <3>5, <3>6
    <3>7. CASE rec' = [rec EXCEPT ![i] = AckRetryLater(r)]
      BY <3>2, <3>4, <3>5, <3>7
    <3>8. QED  BY <3>3, <3>6, <3>7
  <2>3. QED  BY <2>1, <2>2
<1>3. CoreTypes' /\ OneCurrent' /\ CommittedTransitions' /\ UncachedOver'
  BY <1>1, <1>2
  DEF CoreTypes, OneCurrent, CommittedTransitions, UncachedOver, Transition
<1>4. ASSUME NEW j \in Id  PROVE RecordShape(j)' /\ RunShape(j)'
  BY <1>1, <1>2 DEF RecordShape, RunShape, NoEvt, Transition
<1>5. ASSUME NEW j \in Id, worker'.id = j  PROVE WorkerShape(j)'
  BY <1>1, <1>2, <1>5 DEF WorkerShape, NoEvt, Transition
<1>6. QED  BY <1>1, <1>3, <1>4, <1>5

\* What the firmware does of itself keeps it: issue, repeat and give up.
LEMMA FirmwareKeepsInv ==
    ASSUME Inv, Firmware
    PROVE  Inv'
<1>. USE DEF Inv
<1>1. PICK i \in Id : FwIssue(i) \/ FwRetransmit(i) \/ FwGiveUp(i)
  BY DEF Firmware
<1>2. UNCHANGED <<rec, cached, worker, runs>>
  BY <1>1 DEF FwIssue, FwRetransmit, FwGiveUp
<1>3. /\ fw[i] \in {"idle", "pending", "accepted"}
      /\ fw' \in [Id -> FwStates]
      /\ \A j \in Id : j # i => fw'[j] = fw[j]
      /\ fw'[i] \in {"pending", "accepted", "failed"}
  BY <1>1, RetransmitAssumption
  DEF FwIssue, FwRetransmit, FwGiveUp, CoreTypes, FwStates
<1>4. evts' \in Seq(Id) /\ \A j \in Id : j # i /\ NoEvt(j) => NoEvt(j)'
  <2>1. evts' = evts \/ evts' = Append(evts, i)
    BY <1>1 DEF FwIssue, FwRetransmit, FwGiveUp
  <2>2. evts \in Seq(Id)
    BY DEF CoreTypes
  <2>3. CASE evts' = evts
    BY <2>2, <2>3 DEF NoEvt
  <2>4. CASE evts' = Append(evts, i)
    <3>1. /\ evts' \in Seq(Id) /\ Len(evts') = Len(evts) + 1
          /\ \A n \in 1..Len(evts) : evts'[n] = evts[n]
          /\ evts'[Len(evts) + 1] = i
      BY <2>2, <2>4
    <3>2. Len(evts) \in Nat /\ DOMAIN evts = 1..Len(evts)
          /\ DOMAIN evts' = 1..(Len(evts) + 1)
      BY <2>2, <3>1
    <3>3. ASSUME NEW j \in Id, j # i, NoEvt(j)  PROVE NoEvt(j)'
      BY <3>1, <3>2, <3>3 DEF NoEvt
    <3>4. QED  BY <3>1, <3>3
  <2>5. QED  BY <2>1, <2>3, <2>4
<1>5. OneCurrent'
  <2>1. CASE FwIssue(i)
    BY <1>3, <2>1, IdAssumption DEF FwIssue, OneCurrent
  <2>2. CASE ~FwIssue(i)
    BY <1>1, <1>3, <2>2 DEF FwRetransmit, FwGiveUp, OneCurrent
  <2>3. QED  BY <2>1, <2>2
<1>6. CommittedTransitions' /\ UncachedOver' /\ CoreTypes'
  BY <1>2, <1>3, <1>4 DEF CommittedTransitions, UncachedOver, Transition, CoreTypes
<1>7. ASSUME NEW j \in Id  PROVE RecordShape(j)' /\ RunShape(j)'
  BY <1>2, <1>3, <1>4 DEF RecordShape, RunShape, Transition
<1>8. ASSUME NEW j \in Id, worker'.id = j  PROVE WorkerShape(j)'
  <2>1. WorkerShape(j)
    BY <1>2, <1>8
  <2>2. QED  BY <1>2, <1>3, <1>4, <2>1 DEF WorkerShape, Transition
<1>9. QED  BY <1>2, <1>5, <1>6, <1>7, <1>8

\* At boot no record exists and no request was issued.
LEMMA InitInv == Init => Inv
<1>. SUFFICES ASSUME Init PROVE Inv
  OBVIOUS
<1>1. NoRecord \in Records /\ NoRecord.stage = "terminal" /\ ~NoRecord.started
      /\ NoRecord.ack = "none"
  BY DEF NoRecord, FreshRecord, Records, Stages, Acks
<1>2. CoreTypes
  BY <1>1, IdAssumption DEF Init, CoreTypes, FwStates, At, NoId, Places
<1>3. OneCurrent /\ CommittedTransitions /\ UncachedOver
  BY <1>1 DEF Init, OneCurrent, CommittedTransitions, UncachedOver
<1>4. \A i \in Id : RecordShape(i) /\ RunShape(i)
  BY <1>1 DEF Init, RecordShape, RunShape
<1>5. worker = At("startReady", NoId) /\ worker.at = "startReady"
  BY DEF Init, At
<1>6. QED  BY <1>2, <1>3, <1>4, <1>5 DEF Inv, WorkerShape

\* Every step keeps the invariant.
LEMMA NextKeepsInv == Inv /\ [Next]_vars => Inv'
<1>. SUFFICES ASSUME Inv, [Next]_vars  PROVE Inv'
  OBVIOUS
<1>1. CASE UNCHANGED vars
  BY <1>1 DEF vars, Inv, CoreTypes, OneCurrent, CommittedTransitions, UncachedOver,
              RecordShape, RunShape, WorkerShape, NoEvt, Transition
<1>2. CASE Daemon
  BY <1>2, WorkKeepsInv, EndReadyKeepsInv DEF Daemon
<1>3. QED
  BY <1>1, <1>2, FirmwareKeepsInv, SubmitKeepsInv, TimerKeepsInv, LinkLostKeepsInv,
     EndReadyKeepsInv, CrashKeepsInv DEF Next

\* The inductive invariant: every requirement of the theorems below follows.
THEOREM Invariance == Spec => []Inv
BY InitInv, NextKeepsInv, PTL DEF Spec

---------------------------------------------------------------------------
(* The theorems.                                                            *)

\* AtMostOnce, for any number of requests, retransmissions, losses, crashes and
\* reboots: a helper that was started is never started again (README.md:722).
THEOREM HelperAtMostOnce == Spec => []AtMostOnce
<1>1. Inv => AtMostOnce
  BY DEF Inv, RunShape, AtMostOnce
<1>2. QED  BY <1>1, Invariance, PTL

\* No callback or ready claim ever tells the firmware that a request failed
\* whose helper was started, and none is left in the cache to do so later.
THEOREM NoFailureAfterRun == Spec => []NeverFailedAfterRun
<1>1. Inv => NeverFailedAfterRun
  <2>1. ASSUME Inv, NEW i \in Id, runs[i] > 0
        PROVE  fw[i] # "failed" /\ rec[i].ack # "failed"
    <3>1. runs[i] = 1
      BY <2>1 DEF Inv, RunShape
    <3>2. QED  BY <2>1, <3>1 DEF Inv, RunShape
  <2>2. QED  BY <2>1 DEF NeverFailedAfterRun
<1>2. QED  BY <1>1, Invariance, PTL

\* A helper starts only behind both firmware boundaries (README.md:723).
THEOREM HelperOnlyWhenCommitted == Spec => RunOnlyWhenCommitted
<1>1. Inv /\ [Next]_vars => [\A i \in Id : runs'[i] # runs[i] => fw[i] = "committed"]_vars
  <2>. SUFFICES ASSUME Inv, Next, NEW i \in Id, runs'[i] # runs[i]
                PROVE  fw[i] = "committed"
    BY DEF vars
  <2>1. PICK j \in Id : StartHelper(j)
    BY DEF Next, Firmware, FwIssue, FwRetransmit, FwGiveUp, SubmitEvent, Daemon,
       TakeReady, ItemReadyDone, ReportReadyDone, Work, TakeReplay, TakeOriginal,
       Precheck, AcceptOk, AcceptError, HelperDone, Reported, CommitReported,
       CommitOk, CommitError, RefuseReported, ReplayAcked, ReplayError, RunDone,
       Final, FinalAcked, ResumeReported, ReadyTimer, AckTimer, LinkLost, Reconnect,
       Crash
  <2>2. j = i
    BY <2>1 DEF StartHelper, Inv, CoreTypes
  <2>3. QED  BY <2>1, <2>2 DEF StartHelper, At, Inv, WorkerShape
<1>2. QED  BY <1>1, Invariance, PTL DEF Spec, RunOnlyWhenCommitted

---------------------------------------------------------------------------
(* PowerControl implements HostTransition: every step is one step of the    *)
(* promised latch, or none.                                                 *)

Opens == {"idle", "pending", "accepted"}
LatchOf == [i \in Id |-> IF fw[i] \in Opens THEN "open" ELSE fw[i]]
PromiseStep == Promise!Next \/ (LatchOf' = LatchOf /\ runs' = runs)

\* What the firmware may do with one latch while nothing runs.
PromisedMove(i, a) ==
    \/ a \in Opens /\ fw[i] \in Opens
    \/ a = "committed" /\ fw[i] \in {"accepted", "committed"} /\ Transition(i)
    \/ a = "applied" /\ Transition(i) /\ fw[i] \in {"committed", "applied"}
    \/ a = "applied" /\ ~Transition(i) /\ fw[i] \in {"accepted", "applied"}
    \/ a = "failed" /\ fw[i] = "failed"
    \/ a = "failed" /\ fw[i] \in {"pending", "accepted", "committed"} /\ runs[i] = 0

\* A promised move of one latch is a step of HostTransition.
LEMMA MoveIsPromiseStep ==
    ASSUME Inv, runs' = runs, NEW i \in Id, NEW a,
           fw' = [fw EXCEPT ![i] = a], PromisedMove(i, a)
    PROVE  PromiseStep
<1>1. fw \in [Id -> FwStates]
  BY DEF Inv, CoreTypes
<1>2. LatchOf' = [LatchOf EXCEPT ![i] = IF a \in Opens THEN "open" ELSE a]
  BY <1>1 DEF LatchOf
<1>3. LatchOf[i] = IF fw[i] \in Opens THEN "open" ELSE fw[i]
  BY DEF LatchOf
<1>4. ASSUME (IF a \in Opens THEN "open" ELSE a) = LatchOf[i]  PROVE LatchOf' = LatchOf
  BY <1>2, <1>4 DEF LatchOf
<1>5. CASE a \in Opens /\ fw[i] \in Opens
  BY <1>3, <1>4, <1>5 DEF PromiseStep
<1>6. CASE a = fw[i]
  BY <1>3, <1>4, <1>6 DEF PromiseStep
<1>7. CASE a = "committed" /\ fw[i] = "accepted" /\ Transition(i)
  <2>1. Promise!Commit(i)
    BY <1>2, <1>3, <1>7 DEF Promise!Commit, LatchOf, Opens, Transition
  <2>2. QED  BY <2>1 DEF PromiseStep, Promise!Next
<1>8. CASE a = "applied" /\ (IF Transition(i) THEN fw[i] = "committed" ELSE fw[i] = "accepted")
  <2>1. Promise!Apply(i)
    BY <1>2, <1>3, <1>8 DEF Promise!Apply, LatchOf, Opens, Transition
  <2>2. QED  BY <2>1 DEF PromiseStep, Promise!Next
<1>9. CASE a = "failed" /\ fw[i] \in {"pending", "accepted", "committed"} /\ runs[i] = 0
  <2>1. Promise!Fail(i)
    BY <1>2, <1>3, <1>9 DEF Promise!Fail, LatchOf, Opens
  <2>2. QED  BY <2>1 DEF PromiseStep, Promise!Next
<1>10. QED  BY <1>5, <1>6, <1>7, <1>8, <1>9 DEF PromisedMove

\* Every acknowledgement the firmware takes is such a move.
LEMMA AckIsPromiseStep ==
    ASSUME Inv, runs' = runs, NEW i \in Id, FwAck(i, rec[i].ack)
    PROVE  PromiseStep
<1>. DEFINE a == rec[i].ack
<1>1. a \in Acks /\ CanAck(i, a) /\ fw' = [fw EXCEPT ![i] = a]
  BY DEF FwAck, Inv, CoreTypes, Records
<1>2. RecordShape(i) /\ RunShape(i) /\ (fw[i] = "committed" => Transition(i))
  BY DEF Inv, CommittedTransitions
<1>3. PromisedMove(i, a)
  <2>1. CASE a = "failed"
    BY <1>1, <1>2, <2>1 DEF CanAck, RunShape, PromisedMove
  <2>2. CASE a = "applied"
    BY <1>1, <1>2, <2>2 DEF CanAck, RecordShape, RunShape, PromisedMove
  <2>3. CASE a = "committed"
    BY <1>1, <1>2, <2>3 DEF CanAck, RecordShape, PromisedMove
  <2>4. CASE a = "accepted"
    BY <1>1, <2>4 DEF CanAck, PromisedMove, Opens
  <2>5. CASE a = "none"
    BY <1>1, <2>5 DEF CanAck
  <2>6. QED  BY <1>1, <2>1, <2>2, <2>3, <2>4, <2>5 DEF Acks
<1>4. QED  BY <1>1, <1>3, MoveIsPromiseStep

\* A boot-ready claim moves the one request the firmware works on, at most.
LEMMA ReadyIsPromiseStep ==
    ASSUME Inv, runs' = runs, FwReady
    PROVE  PromiseStep
<1>. DEFINE Live(i) == fw[i] \in {"accepted", "committed"}
<1>1. fw \in [Id -> FwStates]
  BY DEF Inv, CoreTypes
<1>2. CASE \A i \in Id : ~Live(i)
  <2>1. \A i \in Id : fw'[i] = fw[i]
    BY <1>2 DEF FwReady
  <2>2. fw' = fw
    BY <1>1, <2>1 DEF FwReady
  <2>3. QED  BY <2>2 DEF PromiseStep, LatchOf
<1>3. CASE \E i \in Id : Live(i)
  <2>1. PICK i \in Id : Live(i)
    BY <1>3
  <2>2. \A j \in Id : j # i => ~Live(j)
    BY <2>1, IdAssumption DEF Inv, OneCurrent
  <2>3. \A j \in Id : j # i => fw'[j] = fw[j]
    BY <2>2 DEF FwReady
  <2>4. fw' = [fw EXCEPT ![i] = fw'[i]]
    BY <1>1, <2>3 DEF FwReady
  <2>5. RunShape(i)
    BY DEF Inv
  <2>6. PromisedMove(i, fw'[i])
    <3>1. \/ fw'[i] = fw[i] /\ (fw[i] = "committed" => Transition(i))
          \/ fw'[i] = "failed" /\ fw[i] = "accepted"
          \/ fw'[i] = "applied" /\ fw[i] = "committed" /\ Transition(i)
      BY <2>1 DEF FwReady, Transition, Inv, CommittedTransitions
    <3>2. QED  BY <2>1, <2>5, <3>1 DEF PromisedMove, RunShape, Opens
  <2>7. QED  BY <2>4, <2>6, MoveIsPromiseStep
<1>4. QED  BY <1>2, <1>3

\* So is what the firmware does of itself.
LEMMA FirmwareIsPromiseStep ==
    ASSUME Inv, Firmware
    PROVE  PromiseStep
<1>1. PICK i \in Id : FwIssue(i) \/ FwRetransmit(i) \/ FwGiveUp(i)
  BY DEF Firmware
<1>2. CASE FwIssue(i)
  BY <1>2, MoveIsPromiseStep DEF FwIssue, PromisedMove, Opens
<1>3. CASE FwRetransmit(i)
  BY <1>3 DEF FwRetransmit, PromiseStep, LatchOf
<1>4. CASE FwGiveUp(i)
  <2>1. RunShape(i)
    BY DEF Inv
  <2>2. PromisedMove(i, "failed")
    BY <1>4, <2>1 DEF FwGiveUp, RunShape, PromisedMove
  <2>3. QED  BY <1>4, <2>2, MoveIsPromiseStep DEF FwGiveUp
<1>5. QED  BY <1>1, <1>2, <1>3, <1>4

\* Starting a helper is the run HostTransition allows once.
LEMMA HelperIsPromiseStep ==
    ASSUME Inv, NEW i \in Id, StartHelper(i)
    PROVE  PromiseStep
<1>1. WorkerShape(i) /\ RunShape(i) /\ worker.at = "lock"
  BY DEF StartHelper, At, Inv
<1>2. fw[i] = "committed" /\ runs[i] = 0
  BY <1>1 DEF WorkerShape, RunShape
<1>3. Promise!Run(i)
  BY <1>2 DEF StartHelper, Promise!Run
<1>4. QED  BY <1>3 DEF PromiseStep, Promise!Next

\* Every step leaves the latch alone, is one of its own moves, or is a helper's start.
LEMMA StepMovesLatch ==
    ASSUME Inv, Next
    PROVE  \/ Firmware
           \/ \E i \in Id : StartHelper(i)
           \/ runs' = runs /\ FwIgnores
           \/ runs' = runs /\ \E i \in Id : FwAck(i, rec[i].ack)
           \/ runs' = runs /\ FwReady
<1>1. CASE SubmitEvent \/ ReadyTimer \/ (\E i \in Id : AckTimer(i)) \/ Reconnect
  BY <1>1 DEF SubmitEvent, ReadyTimer, AckTimer, Reconnect, FwIgnores, fwVars
<1>2. CASE LinkLost \/ Crash
  <2>1. runs' = runs /\ (FwReceives \/ FwIgnores)
    BY <1>2 DEF LinkLost, Crash
  <2>2. worker.at \in SendingAck => worker.id \in Id
    BY DEF Inv, SendingAck
  <2>3. QED  BY <2>1, <2>2 DEF FwReceives
<1>3. CASE TakeReady \/ ItemReadyDone \/ ReportReadyDone
  BY <1>3 DEF TakeReady, ItemReadyDone, ReportReadyDone, ReadySettled, FwIgnores, fwVars
<1>4. ASSUME NEW i \in Id, Work(i)
      PROVE  \/ StartHelper(i)
             \/ runs' = runs /\ (FwIgnores \/ FwAck(i, rec[i].ack))
  BY <1>4 DEF Work, TakeReplay, TakeOriginal, Precheck, AcceptOk, AcceptError,
     HelperDone, Reported, CommitReported, CommitOk, CommitError, RefuseReported,
     ReplayAcked, ReplayError, RunDone, Final, FinalAcked, ResumeReported,
     AckOk, AckError, FwIgnores, fwVars
<1>5. QED  BY <1>1, <1>2, <1>3, <1>4 DEF Next, Daemon

\* ImplementsPromise: whatever is lost, repeated or restarted, the operator sees
\* a transition commit, run once, and settle, as README.md:719-730 promises.
THEOREM Refinement == Spec => ImplementsPromise
<1>1. Init => Promise!Init
  BY DEF Init, Promise!Init
<1>2. Inv /\ [Next]_vars => PromiseStep
  <2>. SUFFICES ASSUME Inv, [Next]_vars  PROVE PromiseStep
    OBVIOUS
  <2>1. CASE UNCHANGED vars
    BY <2>1 DEF vars, PromiseStep, LatchOf
  <2>2. CASE runs' = runs /\ FwIgnores
    BY <2>2 DEF FwIgnores, fwVars, PromiseStep, LatchOf
  <2>3. QED
    BY <2>1, <2>2, StepMovesLatch, FirmwareIsPromiseStep, HelperIsPromiseStep,
       AckIsPromiseStep, ReadyIsPromiseStep
<1>3. PromiseStep => [Promise!Next]_<<[i \in Id |-> IF fw[i] \in Opens
                                                   THEN "open" ELSE fw[i]], runs>>
  BY DEF PromiseStep, LatchOf
<1>4. QED
  BY <1>1, <1>2, <1>3, Invariance, PTL DEF Spec, ImplementsPromise, Promise!Spec, Opens

---------------------------------------------------------------------------
(* The requests are kept: the invariant beside Inv.                         *)

\* What the queue q holds of the records rs: the originals of those that are
\* enqueued, which have not been begun, each once.
Original(i) == Item("original", i)
QueueItems == [kind : {"original", "replay"}, id : Id] \cup {Item("ready", NoId)}
Line(q, rs) ==
    /\ q \in Seq(QueueItems) /\ Len(q) <= QueueSize
    /\ \A m, n \in DOMAIN q : q[m].kind = "original" /\ q[m] = q[n] => m = n
    /\ \A i \in Id : rs[i].enqueued <=> \E n \in DOMAIN q : q[n] = Original(i)
    /\ \A i \in Id : rs[i].enqueued => rs[i].stage = "queued"

\* The worker is at a request it took out of the queue.
Begun == {"precheck", "accept", "helper", "report", "commitReport", "commit", "lock", "run"}
HeldInv == worker.at \in Begun => rec[worker.id].stage # "queued"

\* The firmware asks in order, and asks no more for what is older than a request
\* that somebody here still works at.
Seen(i) ==
    i \in cached \/ rec[i].timer \/ worker.id = i \/ \E n \in DOMAIN queue : queue[n].id = i
OrderInv ==
    /\ \A m, n \in DOMAIN evts : m <= n => evts[m] <= evts[n]
    /\ \A n \in DOMAIN evts : fw[evts[n]] # "idle"
    /\ \A i \in Id : Seen(i) => fw[i] # "idle" /\ \A n \in DOMAIN evts : i <= evts[n]
    /\ \A i \in Id : worker.id = i /\ worker.at \in Begun /\ i \notin cached
          => fw[i] \in {"applied", "failed"} /\ NoEvt(i)

\* The cache is within its size, or all it holds is live, whenever no item is
\* being worked at.
TrimInv ==
    worker.at \in {"idle", "startReady", "stopped"} /\ Len(recency) > CacheSize =>
        \A i \in cached : ~Evictable(rec[i])

\* The cache's order is the cache.
CacheInv == recency \in Seq(Id) /\ IsInjective(recency) /\ ToSet(recency) = cached

BudgetInv == \A i \in Id : rec[i].retries <= MaxAckRetries

KeepInv == Line(queue, rec) /\ HeldInv /\ OrderInv /\ CacheInv /\ TrimInv /\ BudgetInv

\* A set of numbers that is not empty has a least one.
LEMMA Least ==
    ASSUME NEW T \in SUBSET Nat, T # {}
    PROVE  \E m \in T : \A y \in T : m <= y
<1>1. PICK m \in T : \A y \in T : ~(<<y, m>> \in OpToRel(<, Nat))
  BY NatLessThanWellFounded, WFMin
<1>2. ASSUME NEW y \in T PROVE m <= y
  <2>1. ~(y < m)
    BY <1>1 DEF OpToRel
  <2> QED
    BY <2>1
<1> QED
  BY <1>2

\* The first numbers.
LEMMA UpTo ==
    ASSUME NEW n \in Nat
    PROVE  IsFiniteSet(1..n) /\ Cardinality(1..n) = n
<1>1. 1 \in Int /\ n \in Int
  OBVIOUS
<1>2. IsFiniteSet(1..n) /\ Cardinality(1..n) = IF 1 > n THEN 0 ELSE n - 1 + 1
  BY <1>1, FS_Interval
<1> QED
  BY <1>2

\* As many places as elements, when none is there twice.
LEMMA Places1 ==
    ASSUME NEW A, NEW s \in Seq(A), IsInjective(s), NEW D \in SUBSET DOMAIN s
    PROVE  /\ IsFiniteSet(D) /\ IsFiniteSet({s[n] : n \in D})
           /\ Cardinality({s[n] : n \in D}) = Cardinality(D)
<1>1. DOMAIN s = 1..Len(s) /\ Len(s) \in Nat
  BY LenProperties
<1>2. IsFiniteSet(D)
  BY <1>1, UpTo, FS_Subset
<1> DEFINE T == {s[n] : n \in D}
           f == [n \in D |-> s[n]]
<1>3. f \in Bijection(D, T)
  <2>1. f \in [D -> T] /\ \A n \in D : f[n] = s[n]
    OBVIOUS
  <2>2. \A m, n \in D : f[m] = f[n] => m = n
    BY <2>1 DEF IsInjective
  <2>3. \A t \in T : \E n \in D : f[n] = t
    OBVIOUS
  <2> HIDE DEF f, T
  <2> QED
    BY <2>1, <2>2, <2>3 DEF Bijection, Injection, Surjection, IsInjective
<1> HIDE DEF f, T
<1>4. IsFiniteSet(T) /\ Cardinality(T) = Cardinality(D)
  BY <1>2, <1>3, FS_Bijection DEF ExistsBijection
<1> QED
  BY <1>2, <1>4 DEF T

\* A sequence that repeats nothing is as long as it has elements.
LEMMA SizeOfLine ==
    ASSUME NEW A, NEW s \in Seq(A), IsInjective(s)
    PROVE  /\ IsFiniteSet(ToSet(s)) /\ Cardinality(ToSet(s)) = Len(s)
<1>1. DOMAIN s = 1..Len(s) /\ Len(s) \in Nat
  BY LenProperties
<1>2. ToSet(s) = {s[n] : n \in DOMAIN s}
  BY DEF ToSet
<1>3. Cardinality(DOMAIN s) = Len(s)
  BY <1>1, UpTo
<1>4. DOMAIN s \in SUBSET DOMAIN s
  OBVIOUS
<1>5. /\ IsFiniteSet({s[n] : n \in DOMAIN s})
      /\ Cardinality({s[n] : n \in DOMAIN s}) = Cardinality(DOMAIN s)
  BY <1>4, Places1
<1> QED
  BY <1>2, <1>3, <1>5

\* Of the numbers in E those that have at most d up to them are all, or d at least.
LEMMA Earliest ==
    ASSUME NEW N \in Nat, NEW E \in SUBSET (1..N), NEW d \in Int,
           NEW V, V = {m \in E : Cardinality({k \in 1..m : k \in E}) <= d}, V # E
    PROVE  /\ IsFiniteSet(V) /\ Cardinality(V) \in Nat /\ Cardinality(V) >= d
<1>1. PICK m \in E \ V : \A k \in E \ V : m <= k
  <2>1. \A k \in E : k \in Nat
    OBVIOUS
  <2>2. V \subseteq E
    OBVIOUS
  <2> DEFINE T == E \ V
  <2>3. T # {} /\ T \in SUBSET Nat
    BY <2>1, <2>2
  <2> HIDE DEF T
  <2>4. \E m \in T : \A k \in T : m <= k
    BY <2>3, Least
  <2> QED
    BY <2>4 DEF T
<1> DEFINE C == {k \in 1..m : k \in E}
<1>2. m \in Nat /\ m \in C /\ IsFiniteSet(C)
  BY UpTo, FS_Subset
<1>3. Cardinality(C) \in Nat /\ ~(Cardinality(C) <= d)
  BY <1>2, FS_CardinalityType
<1>4. C \ {m} \subseteq V
  <2> SUFFICES ASSUME NEW k \in C, k # m, k \notin V PROVE FALSE
    OBVIOUS
  <2>1. m <= k /\ k \in 1..m
    BY <1>1
  <2> QED
    BY <2>1, <1>2
<1>5. IsFiniteSet(V)
  BY UpTo, FS_Subset
<1> HIDE DEF C
<1>6. Cardinality(C \ {m}) = Cardinality(C) - 1
  BY <1>2, FS_RemoveElement
<1>7. Cardinality(C \ {m}) <= Cardinality(V) /\ Cardinality(V) \in Nat
  BY <1>4, <1>5, FS_Subset, FS_CardinalityType
<1> QED
  BY <1>3, <1>5, <1>6, <1>7

---------------------------------------------------------------------------
(* The cache and the queue.                                                 *)

\* The cache after it was trimmed.
LEMMA TrimmedLine ==
    ASSUME NEW rs, NEW keys, NEW order \in Seq(Id), IsInjective(order), ToSet(order) = keys,
           TrimmedTo(rs, keys, order)
    PROVE  /\ recency' \in Seq(Id) /\ IsInjective(recency') /\ ToSet(recency') = cached'
           /\ Len(recency') > CacheSize => \A i \in cached' : ~Evictable(rs[i])
<1> DEFINE gone == Victims(rs, order)
<1>1. recency' = Select(order, keys \ gone) /\ cached' = keys \ gone
  BY DEF TrimmedTo
<1>2. /\ recency' \in Seq(Id) /\ IsInjective(recency') /\ ToSet(recency') = cached'
  BY <1>1, Selected
<1> DEFINE N == Len(order)
           d == N - CacheSize
           E == {m \in 1..N : Evictable(rs[order[m]])}
           V == {m \in E : Cardinality({k \in 1..m : k \in E}) <= d}
<1>3. N \in Nat /\ DOMAIN order = 1..N /\ CacheSize \in Nat /\ d \in Int
  BY LenProperties, SizeAssumption
<1>4. gone = {order[n] : n \in V}
  <2>1. ASSUME NEW m \in 1..N
        PROVE {k \in 1..m : Evictable(rs[order[k]])} = {k \in 1..m : k \in E}
    <3>1. \A k \in 1..m : k \in 1..N
      BY <1>3
    <3> QED
      BY <3>1
  <2>2. V = {m \in DOMAIN order : /\ Evictable(rs[order[m]])
                                  /\ Cardinality({k \in 1..m : Evictable(rs[order[k]])}) <= d}
    BY <1>3, <2>1
  <2> QED
    BY <2>2 DEF Victims
<1> HIDE DEF gone, N, d, V
<1>5. ASSUME Len(recency') > CacheSize, NEW i \in cached', Evictable(rs[i]) PROVE FALSE
  <2>1. PICK n \in 1..N : order[n] = i /\ n \in E /\ n \notin V
    BY <1>1, <1>3, <1>4, <1>5 DEF ToSet
  <2>2. V \subseteq E /\ V # E /\ E \in SUBSET (1..N)
    BY <2>1 DEF V
  <2>3. IsFiniteSet(V) /\ Cardinality(V) \in Nat /\ Cardinality(V) >= d
    <3>1. V = {m \in E : Cardinality({k \in 1..m : k \in E}) <= d}
      BY DEF V
    <3> HIDE DEF E
    <3> QED
      BY <1>3, <2>2, <3>1, Earliest
  <2> HIDE DEF E
  <2>4. Cardinality(gone) = Cardinality(V)
    BY <1>3, <1>4, <2>2, Places1
  <2>5. gone \subseteq keys
    BY <1>3, <1>4, <2>2 DEF ToSet
  <2>6. IsFiniteSet(keys) /\ Cardinality(keys) = N
    BY SizeOfLine DEF N
  <2>7. Cardinality(keys \ gone) = N - Cardinality(V)
    <3>1. keys \cap gone = gone
      BY <2>5
    <3>2. Cardinality(keys \ gone) = Cardinality(keys) - Cardinality(keys \cap gone)
      BY <2>6, FS_Difference
    <3> QED
      BY <2>4, <2>6, <3>1, <3>2
  <2>8. Len(recency') = N - Cardinality(V)
    BY <1>1, <1>2, <2>7, SizeOfLine
  <2> QED
    BY <1>3, <1>5, <2>3, <2>8 DEF d
<1> QED
  BY <1>2, <1>5

\* e joins q.
LEMMA Joined ==
    ASSUME NEW q \in Seq(QueueItems), NEW e \in QueueItems, Room(q)
    PROVE  /\ Append(q, e) \in Seq(QueueItems) /\ Len(Append(q, e)) <= QueueSize
           /\ Len(q) + 1 \in DOMAIN Append(q, e) /\ Append(q, e)[Len(q) + 1] = e
           /\ Len(q) + 1 \notin DOMAIN q
           /\ \A n \in DOMAIN q : n \in DOMAIN Append(q, e) /\ Append(q, e)[n] = q[n]
           /\ \A n \in DOMAIN Append(q, e) : n \in DOMAIN q \/ n = Len(q) + 1
<1> DEFINE u == Append(q, e)
<1>1. Len(q) \in Nat /\ DOMAIN q = 1..Len(q) /\ Len(q) < QueueSize /\ QueueSize \in Nat
  BY LenProperties, SizeAssumption DEF Room
<1>2. /\ u \in Seq(QueueItems) /\ DOMAIN u = 1..(Len(q) + 1) /\ Len(u) = Len(q) + 1
      /\ u[Len(q) + 1] = e /\ \A n \in 1..Len(q) : u[n] = q[n]
  BY <1>1, AppendProperties, LenProperties
<1> HIDE DEF u
<1>3. /\ u \in Seq(QueueItems) /\ Len(u) <= QueueSize
      /\ Len(q) + 1 \in DOMAIN u /\ u[Len(q) + 1] = e
      /\ Len(q) + 1 \notin DOMAIN q
      /\ \A n \in DOMAIN q : n \in DOMAIN u /\ u[n] = q[n]
      /\ \A n \in DOMAIN u : n \in DOMAIN q \/ n = Len(q) + 1
  BY <1>1, <1>2
<1> QED
  BY <1>3 DEF u

\* What joins is not an original: the queue holds the same records.
LEMMA JoinsOther ==
    ASSUME NEW q, NEW rs, Line(q, rs), NEW e \in QueueItems, e.kind # "original", Room(q)
    PROVE  Line(Append(q, e), rs)
<1> DEFINE u == Append(q, e)
<1>1. q \in Seq(QueueItems)
  BY DEF Line
<1>2. /\ u \in Seq(QueueItems) /\ Len(u) <= QueueSize
      /\ u[Len(q) + 1] = e
      /\ \A n \in DOMAIN q : n \in DOMAIN u /\ u[n] = q[n]
      /\ \A n \in DOMAIN u : n \in DOMAIN q \/ n = Len(q) + 1
  BY <1>1, Joined
<1> HIDE DEF u
<1>3. \A n \in DOMAIN u : u[n].kind = "original" => n \in DOMAIN q /\ u[n] = q[n]
  BY <1>2
<1>4. \A i \in Id : Original(i).kind = "original"
  BY DEF Original, Item
<1>5. \A m, n \in DOMAIN u : u[m].kind = "original" /\ u[m] = u[n] => m = n
  BY <1>3 DEF Line
<1>6. \A i \in Id : rs[i].enqueued <=> \E n \in DOMAIN u : u[n] = Original(i)
  BY <1>2, <1>3, <1>4 DEF Line
<1> QED
  BY <1>2, <1>5, <1>6 DEF Line, u

\* The original of i joins, and its record says so.
LEMMA JoinsOriginal ==
    ASSUME NEW q, NEW rs, Line(q, rs), NEW ss, NEW i \in Id, ~rs[i].enqueued, Room(q),
           \A j \in Id : j # i => /\ ss[j].enqueued <=> rs[j].enqueued
                                  /\ rs[j].enqueued => ss[j].stage = rs[j].stage,
           ss[i].enqueued, ss[i].stage = "queued"
    PROVE  Line(Append(q, Original(i)), ss)
<1> DEFINE e == Original(i)
           u == Append(q, e)
<1>1. q \in Seq(QueueItems) /\ e \in QueueItems
  BY DEF Line, Original, Item, QueueItems
<1>2. /\ u \in Seq(QueueItems) /\ Len(u) <= QueueSize
      /\ Len(q) + 1 \in DOMAIN u /\ u[Len(q) + 1] = e
      /\ \A n \in DOMAIN q : n \in DOMAIN u /\ u[n] = q[n]
      /\ \A n \in DOMAIN u : n \in DOMAIN q \/ n = Len(q) + 1
  BY <1>1, Joined
<1> HIDE DEF u
<1>3. \A j \in Id : Original(j) = e => j = i
  BY DEF Original, Item
<1>4. \A n \in DOMAIN q : q[n] # e
  BY DEF Line
<1>5. \A m, n \in DOMAIN u : u[m].kind = "original" /\ u[m] = u[n] => m = n
  BY <1>2, <1>4 DEF Line
<1>6. \A j \in Id : ss[j].enqueued <=> \E n \in DOMAIN u : u[n] = Original(j)
  <2>1. \A j \in Id : j # i => (rs[j].enqueued <=> \E n \in DOMAIN q : q[n] = Original(j))
    BY DEF Line
  <2>2. ASSUME NEW j \in Id, j # i
        PROVE ss[j].enqueued <=> \E n \in DOMAIN u : u[n] = Original(j)
    <3>1. (\E n \in DOMAIN u : u[n] = Original(j)) <=> \E n \in DOMAIN q : q[n] = Original(j)
      BY <1>2, <1>3, <2>2
    <3> QED
      BY <2>1, <2>2, <3>1
  <2> QED
    BY <2>2, <1>2
<1>7. \A j \in Id : ss[j].enqueued => ss[j].stage = "queued"
  BY DEF Line
<1> QED
  BY <1>2, <1>5, <1>6, <1>7 DEF Line, u

\* The head of q leaves it.
LEMMA Left ==
    ASSUME NEW q \in Seq(QueueItems), q # <<>>, Len(q) <= QueueSize
    PROVE  /\ Tail(q) \in Seq(QueueItems) /\ Len(Tail(q)) <= QueueSize
           /\ 1 \in DOMAIN q /\ Head(q) = q[1]
           /\ \A n \in DOMAIN Tail(q) : /\ n \in Nat /\ n + 1 \in DOMAIN q /\ n + 1 # 1
                                        /\ Tail(q)[n] = q[n + 1]
           /\ \A n \in DOMAIN q : n # 1 => n - 1 \in DOMAIN Tail(q) /\ Tail(q)[n - 1] = q[n]
<1> DEFINE t == Tail(q)
<1>1. Len(q) \in Nat /\ Len(q) # 0 /\ DOMAIN q = 1..Len(q) /\ QueueSize \in Nat
  BY LenProperties, EmptySeq, SizeAssumption
<1>2. /\ t \in Seq(QueueItems) /\ Len(t) = Len(q) - 1 /\ DOMAIN t = 1..(Len(q) - 1)
      /\ Head(q) = q[1] /\ \A n \in 1..(Len(q) - 1) : t[n] = q[n + 1]
  BY <1>1, HeadTailProperties, LenProperties
<1> HIDE DEF t
<1>3. \A n \in DOMAIN t : n \in Nat /\ n + 1 \in DOMAIN q /\ n + 1 # 1 /\ t[n] = q[n + 1]
  BY <1>1, <1>2
<1>4. \A n \in DOMAIN q : n # 1 => n - 1 \in DOMAIN t /\ t[n - 1] = q[n]
  <2>1. \A n \in DOMAIN q : n # 1 => n - 1 \in DOMAIN t /\ (n - 1) + 1 = n
    BY <1>1, <1>2
  <2> QED
    BY <2>1, <1>3
<1>5. Len(t) <= QueueSize /\ 1 \in DOMAIN q
  BY <1>1, <1>2
<1> QED
  BY <1>2, <1>3, <1>4, <1>5 DEF t

\* What leaves is not an original.
LEMMA LeavesOther ==
    ASSUME NEW q, NEW rs, Line(q, rs), q # <<>>, Head(q).kind # "original"
    PROVE  Line(Tail(q), rs)
<1> DEFINE t == Tail(q)
<1>1. /\ t \in Seq(QueueItems) /\ Len(t) <= QueueSize /\ Head(q) = q[1]
      /\ \A n \in DOMAIN t : n \in Nat /\ n + 1 \in DOMAIN q /\ t[n] = q[n + 1]
      /\ \A n \in DOMAIN q : n # 1 => n - 1 \in DOMAIN t /\ t[n - 1] = q[n]
  BY Left DEF Line
<1> HIDE DEF t
<1>2. \A i \in Id : Original(i).kind = "original"
  BY DEF Original, Item
<1>3. \A m, n \in DOMAIN t : t[m].kind = "original" /\ t[m] = t[n] => m = n
  <2> SUFFICES ASSUME NEW m \in DOMAIN t, NEW n \in DOMAIN t,
                      t[m].kind = "original", t[m] = t[n]
               PROVE m = n
    OBVIOUS
  <2>1. /\ m + 1 \in DOMAIN q /\ n + 1 \in DOMAIN q
        /\ q[m + 1].kind = "original" /\ q[m + 1] = q[n + 1]
    BY <1>1
  <2>2. \A k, l \in DOMAIN q : q[k].kind = "original" /\ q[k] = q[l] => k = l
    BY DEF Line
  <2>3. m + 1 = n + 1
    BY <2>1, <2>2
  <2>4. m \in Nat /\ n \in Nat
    BY <1>1
  <2> QED
    BY <2>3, <2>4
<1>4. \A i \in Id : (\E n \in DOMAIN q : q[n] = Original(i)) <=> \E n \in DOMAIN t : t[n] = Original(i)
  BY <1>1, <1>2
<1> QED
  BY <1>1, <1>3, <1>4 DEF Line, t

\* The original of i leaves, and its record says so.
LEMMA LeavesOriginal ==
    ASSUME NEW q, NEW rs, Line(q, rs), q # <<>>, NEW i \in Id, Head(q) = Original(i), NEW ss,
           \A j \in Id : j # i => /\ ss[j].enqueued <=> rs[j].enqueued
                                  /\ rs[j].enqueued => ss[j].stage = rs[j].stage,
           ~ss[i].enqueued
    PROVE  Line(Tail(q), ss)
<1> DEFINE t == Tail(q)
<1>1. /\ t \in Seq(QueueItems) /\ Len(t) <= QueueSize /\ 1 \in DOMAIN q /\ Head(q) = q[1]
      /\ \A n \in DOMAIN t : n \in Nat /\ n + 1 \in DOMAIN q /\ n + 1 # 1 /\ t[n] = q[n + 1]
      /\ \A n \in DOMAIN q : n # 1 => n - 1 \in DOMAIN t /\ t[n - 1] = q[n]
  BY Left DEF Line
<1> HIDE DEF t
<1>2. Original(i).kind = "original" /\ \A j \in Id : Original(j) = Original(i) => j = i
  BY DEF Original, Item
<1>3. \A m, n \in DOMAIN t : t[m].kind = "original" /\ t[m] = t[n] => m = n
  <2> SUFFICES ASSUME NEW m \in DOMAIN t, NEW n \in DOMAIN t,
                      t[m].kind = "original", t[m] = t[n]
               PROVE m = n
    OBVIOUS
  <2>1. /\ m + 1 \in DOMAIN q /\ n + 1 \in DOMAIN q
        /\ q[m + 1].kind = "original" /\ q[m + 1] = q[n + 1]
    BY <1>1
  <2>2. \A k, l \in DOMAIN q : q[k].kind = "original" /\ q[k] = q[l] => k = l
    BY DEF Line
  <2>3. m + 1 = n + 1
    BY <2>1, <2>2
  <2>4. m \in Nat /\ n \in Nat
    BY <1>1
  <2> QED
    BY <2>3, <2>4
<1>4. \A n \in DOMAIN t : t[n] # Original(i)
  BY <1>1, <1>2 DEF Line
<1>5. ASSUME NEW j \in Id PROVE ss[j].enqueued <=> \E n \in DOMAIN t : t[n] = Original(j)
  <2>1. CASE j = i
    BY <2>1, <1>4
  <2>2. CASE j # i
    <3>1. (\E n \in DOMAIN q : q[n] = Original(j)) <=> \E n \in DOMAIN t : t[n] = Original(j)
      BY <1>1, <1>2, <2>2
    <3> QED
      BY <3>1, <2>2 DEF Line
  <2> QED
    BY <2>1, <2>2
<1>6. \A j \in Id : ss[j].enqueued => ss[j].stage = "queued"
  BY DEF Line
<1> QED
  BY <1>1, <1>3, <1>5, <1>6 DEF Line, t

\* A change of the records that is none of the queue's.
LEMMA SameLine ==
    ASSUME NEW q, NEW rs, Line(q, rs), NEW ss,
           \A j \in Id : /\ ss[j].enqueued <=> rs[j].enqueued
                         /\ rs[j].enqueued => ss[j].stage = rs[j].stage
    PROVE  Line(q, ss)
  BY DEF Line

\* What is flushed is put behind the queue, the originals first.
LEMMA FlushedItems ==
    ASSUME NEW q \in Seq(QueueItems), Len(q) <= QueueSize,
           recency \in Seq(Id), IsInjective(recency), ToSet(recency) = cached, cached \subseteq Id
    PROVE  /\ Flushed(q) \in Seq(QueueItems) /\ Len(Flushed(q)) <= QueueSize
           /\ \A n \in DOMAIN q : n \in DOMAIN Flushed(q) /\ Flushed(q)[n] = q[n]
           /\ \E s \in Seq(Id) :
                 /\ IsInjective(s)
                 /\ \A k \in DOMAIN s : k \in Nat /\ s[k] \in cached /\ Stranded(rec[s[k]])
                 /\ \A n \in DOMAIN Flushed(q) :
                       \/ n \in DOMAIN q /\ Flushed(q)[n] = q[n]
                       \/ \E k \in DOMAIN s : n = Len(q) + k /\ Flushed(q)[n] = Original(s[k])
                       \/ \E i \in cached : Flushed(q)[n] = Item("replay", i)
<1> DEFINE newest == Reverse(recency)
           Of(kind, ids) == [n \in DOMAIN ids |-> Item(kind, ids[n])]
           s == Select(newest, {i \in cached : Stranded(rec[i])})
           r == Select(newest, {i \in cached : Owed(rec[i])})
           a == Of("original", s)
           b == Of("replay", r)
           w == q \o (a \o b)
<1>1. newest \in Seq(Id) /\ IsInjective(newest) /\ ToSet(newest) = cached
  <2>1. Len(recency) \in Nat /\ DOMAIN recency = 1..Len(recency)
    BY LenProperties
  <2>2. newest = [i \in 1..Len(recency) |-> recency[(Len(recency) - i) + 1]]
    BY DEF Reverse
  <2>3. \A i \in 1..Len(recency) : (Len(recency) - i) + 1 \in 1..Len(recency)
    BY <2>1
  <2>4. \A i \in 1..Len(recency) : (Len(recency) - ((Len(recency) - i) + 1)) + 1 = i
    BY <2>1
  <2>5. newest \in Seq(Id)
    BY <2>1, <2>2, <2>3, ElementOfSeq, SeqDef
  <2> HIDE DEF newest
  <2>6. IsInjective(newest)
    <3> SUFFICES ASSUME NEW i \in 1..Len(recency), NEW j \in 1..Len(recency), newest[i] = newest[j]
                 PROVE i = j
      BY <2>2 DEF IsInjective
    <3>1. (Len(recency) - i) + 1 = (Len(recency) - j) + 1
      BY <2>1, <2>2, <2>3 DEF IsInjective
    <3> QED
      BY <3>1, <2>1
  <2>7. ToSet(newest) = ToSet(recency)
    <3>1. \A i \in DOMAIN newest : newest[i] \in ToSet(recency)
      BY <2>1, <2>2, <2>3 DEF ToSet
    <3>2. \A i \in DOMAIN recency : recency[i] \in ToSet(newest)
      <4> SUFFICES ASSUME NEW i \in 1..Len(recency) PROVE recency[i] \in ToSet(newest)
        BY <2>1
      <4> DEFINE j == (Len(recency) - i) + 1
      <4>1. j \in DOMAIN newest /\ newest[j] = recency[i]
        BY <2>2, <2>3, <2>4
      <4> HIDE DEF j
      <4> QED
        BY <4>1 DEF ToSet
    <3> QED
      BY <3>1, <3>2 DEF ToSet
  <2> QED
    BY <2>5, <2>6, <2>7
<1> HIDE DEF newest
<1>2. /\ s \in Seq(Id) /\ IsInjective(s)
      /\ \A k \in DOMAIN s : s[k] \in cached /\ Stranded(rec[s[k]])
  <2>1. /\ s \in Seq(Id) /\ IsInjective(s)
        /\ ToSet(s) = ToSet(newest) \cap {i \in cached : Stranded(rec[i])}
    BY <1>1, Selected
  <2> HIDE DEF s
  <2>2. \A k \in DOMAIN s : s[k] \in ToSet(s)
    BY DEF ToSet
  <2> QED
    BY <2>1, <2>2
<1>3. /\ r \in Seq(Id) /\ \A k \in DOMAIN r : r[k] \in cached
  <2>1. /\ r \in Seq(Id) /\ ToSet(r) = ToSet(newest) \cap {i \in cached : Owed(rec[i])}
    BY <1>1, Selected
  <2> HIDE DEF r
  <2>2. \A k \in DOMAIN r : r[k] \in ToSet(r)
    BY DEF ToSet
  <2> QED
    BY <2>1, <2>2
<1>4. Flushed(q) = EnqueueAll(q, a \o b)
  BY DEF Flushed, newest
<1> HIDE DEF s, r
<1>5. /\ a \in Seq(QueueItems) /\ b \in Seq(QueueItems)
      /\ Len(a) = Len(s) /\ DOMAIN a = DOMAIN s /\ DOMAIN s = 1..Len(s) /\ Len(s) \in Nat
      /\ \A k \in DOMAIN s : a[k] = Original(s[k])
      /\ DOMAIN b = DOMAIN r /\ \A k \in DOMAIN r : b[k] = Item("replay", r[k])
  <2>1. DOMAIN s = 1..Len(s) /\ Len(s) \in Nat /\ DOMAIN r = 1..Len(r) /\ Len(r) \in Nat
    BY <1>2, <1>3, LenProperties
  <2>2. \A k \in DOMAIN s : Item("original", s[k]) \in QueueItems
    BY <1>2 DEF Item, QueueItems
  <2>3. \A k \in DOMAIN r : Item("replay", r[k]) \in QueueItems
    BY <1>3 DEF Item, QueueItems
  <2>4. a \in Seq(QueueItems) /\ b \in Seq(QueueItems)
    BY <2>1, <2>2, <2>3, SeqDef
  <2>5. DOMAIN a = DOMAIN s /\ DOMAIN b = DOMAIN r
    OBVIOUS
  <2>6. Len(a) = Len(s)
    BY <2>1, <2>4, <2>5, LenProperties
  <2> QED
    BY <2>1, <2>4, <2>5, <2>6 DEF Original
<1> HIDE DEF a, b
<1> DEFINE ab == a \o b
           last == IF Len(w) > QueueSize THEN QueueSize ELSE Len(w)
<1>6. /\ ab \in Seq(QueueItems) /\ Len(ab) = Len(s) + Len(b) /\ Len(b) \in Nat
      /\ DOMAIN b = 1..Len(b)
      /\ \A n \in 1..Len(ab) : \/ n \in DOMAIN s /\ ab[n] = a[n]
                               \/ n - Len(s) \in DOMAIN b /\ ab[n] = b[n - Len(s)]
  <2>1. /\ ab \in Seq(QueueItems) /\ Len(ab) = Len(a) + Len(b)
        /\ \A n \in 1..(Len(a) + Len(b)) :
              ab[n] = IF n <= Len(a) THEN a[n] ELSE b[n - Len(a)]
    BY <1>5, ConcatProperties
  <2>2. Len(b) \in Nat /\ DOMAIN b = 1..Len(b)
    BY <1>5, LenProperties
  <2> HIDE DEF ab
  <2>3. ASSUME NEW n \in 1..Len(ab)
        PROVE  \/ n \in DOMAIN s /\ ab[n] = a[n]
               \/ n - Len(s) \in DOMAIN b /\ ab[n] = b[n - Len(s)]
    <3>1. CASE n <= Len(s)
      BY <3>1, <2>1, <2>2, <1>5
    <3>2. CASE ~(n <= Len(s))
      BY <3>2, <2>1, <2>2, <1>5
    <3> QED
      BY <3>1, <3>2
  <2> QED
    BY <2>1, <2>2, <2>3, <1>5
<1> HIDE DEF ab
<1>7. /\ w \in Seq(QueueItems) /\ Len(w) = Len(q) + Len(ab)
      /\ Len(q) \in Nat /\ DOMAIN q = 1..Len(q) /\ Len(ab) \in Nat
      /\ \A n \in 1..Len(w) : \/ n \in DOMAIN q /\ w[n] = q[n]
                              \/ n - Len(q) \in 1..Len(ab) /\ w[n] = ab[n - Len(q)]
      /\ \A n \in 1..Len(q) : w[n] = q[n]
  <2>0. w = q \o ab
    BY DEF ab
  <2>1. /\ w \in Seq(QueueItems) /\ Len(w) = Len(q) + Len(ab)
        /\ \A n \in 1..(Len(q) + Len(ab)) :
              w[n] = IF n <= Len(q) THEN q[n] ELSE ab[n - Len(q)]
    BY <1>6, <2>0, ConcatProperties
  <2>2. Len(q) \in Nat /\ DOMAIN q = 1..Len(q) /\ Len(ab) \in Nat
    BY <1>6, LenProperties
  <2> HIDE DEF w
  <2>3. ASSUME NEW n \in 1..Len(w)
        PROVE  \/ n \in DOMAIN q /\ w[n] = q[n]
               \/ n - Len(q) \in 1..Len(ab) /\ w[n] = ab[n - Len(q)]
    <3>1. CASE n <= Len(q)
      BY <3>1, <2>1, <2>2
    <3>2. CASE ~(n <= Len(q))
      BY <3>2, <2>1, <2>2
    <3> QED
      BY <3>1, <3>2
  <2>4. \A n \in 1..Len(q) : w[n] = q[n]
    BY <2>1, <2>2
  <2> QED
    BY <2>1, <2>2, <2>3, <2>4
<1>8. Flushed(q) = SubSeq(w, 1, last)
  BY <1>4 DEF EnqueueAll, ab
<1> HIDE DEF w
<1>9. last \in Nat /\ last <= Len(w) /\ last <= QueueSize /\ Len(q) <= last
  BY <1>7, SizeAssumption
<1> HIDE DEF last
<1> DEFINE full == Flushed(q)
<1>10. /\ full \in Seq(QueueItems) /\ Len(full) = last /\ DOMAIN full = 1..last
       /\ \A n \in 1..last : full[n] = w[n]
  <2>1. Len(w) \in Nat /\ \A n \in 1..last : n \in 1..Len(w) /\ w[n] \in QueueItems
    BY <1>7, <1>9, ElementOfSeq
  <2>2. full = [n \in 1..last |-> w[n]]
    BY <1>7, <1>8, <1>9, <2>1
  <2> HIDE DEF full
  <2>3. full \in Seq(QueueItems) /\ DOMAIN full = 1..last
    BY <1>9, <2>1, <2>2, SeqDef
  <2>4. Len(full) = last
    BY <1>9, <2>3, LenProperties
  <2> QED
    BY <2>2, <2>3, <2>4
<1> HIDE DEF full
<1>11. \A n \in DOMAIN q : n \in DOMAIN full /\ full[n] = q[n]
  BY <1>7, <1>9, <1>10
<1>12. ASSUME NEW n \in DOMAIN full
       PROVE  \/ n \in DOMAIN q /\ full[n] = q[n]
              \/ \E k \in DOMAIN s : n = Len(q) + k /\ full[n] = Original(s[k])
              \/ \E i \in cached : full[n] = Item("replay", i)
  <2>1. full[n] = w[n] /\ n \in 1..Len(w) /\ n \in Nat
    BY <1>7, <1>9, <1>10, <1>12
  <2>2. CASE n \in DOMAIN q /\ w[n] = q[n]
    BY <2>1, <2>2
  <2>3. CASE n - Len(q) \in 1..Len(ab) /\ w[n] = ab[n - Len(q)]
    <3> DEFINE k == n - Len(q)
    <3>1. k \in 1..Len(ab) /\ full[n] = ab[k] /\ n = Len(q) + k
      BY <2>1, <2>3, <1>7
    <3> HIDE DEF k
    <3>2. CASE k \in DOMAIN s /\ ab[k] = a[k]
      BY <3>1, <3>2, <1>5
    <3>3. CASE k - Len(s) \in DOMAIN b /\ ab[k] = b[k - Len(s)]
      BY <3>1, <3>3, <1>3, <1>5
    <3> QED
      BY <3>1, <3>2, <3>3, <1>6
  <2> QED
    BY <2>1, <2>2, <2>3, <1>7
<1>13. \A k \in DOMAIN s : k \in Nat
  BY <1>5
<1> QED
  BY <1>2, <1>9, <1>10, <1>11, <1>12, <1>13 DEF full

\* The flushed queue holds what the requeued records say.
LEMMA FlushedLine ==
    ASSUME NEW q, rec \in [Id -> Records], Line(q, rec),
           recency \in Seq(Id), IsInjective(recency), ToSet(recency) = cached, cached \subseteq Id
    PROVE  /\ Line(Flushed(q), Requeued(Flushed(q)))
           /\ \A n \in DOMAIN Flushed(q) :
                 Flushed(q)[n].id \in cached \/ \E m \in DOMAIN q : Flushed(q)[n] = q[m]
<1> DEFINE full == Flushed(q)
           rs == Requeued(full)
<1>1. q \in Seq(QueueItems) /\ Len(q) <= QueueSize
  BY DEF Line
<1>2. PICK s \in Seq(Id) :
          /\ IsInjective(s)
          /\ \A k \in DOMAIN s : k \in Nat /\ s[k] \in cached /\ Stranded(rec[s[k]])
          /\ \A n \in DOMAIN full :
                \/ n \in DOMAIN q /\ full[n] = q[n]
                \/ \E k \in DOMAIN s : n = Len(q) + k /\ full[n] = Original(s[k])
                \/ \E i \in cached : full[n] = Item("replay", i)
  BY <1>1, FlushedItems
<1>3. /\ full \in Seq(QueueItems) /\ Len(full) <= QueueSize
      /\ \A n \in DOMAIN q : n \in DOMAIN full /\ full[n] = q[n]
  BY <1>1, FlushedItems
<1>4. ASSUME NEW i \in Id
      PROVE  /\ rs[i].enqueued <=>
                    \/ rec[i].enqueued
                    \/ /\ i \in cached /\ Stranded(rec[i])
                       /\ \E n \in DOMAIN full : full[n] = Original(i)
             /\ rs[i].stage = rec[i].stage
  <2>1. rec[i] \in Records
    OBVIOUS
  <2>2. rs[i] = IF i \in cached /\ Stranded(rec[i]) /\ \E n \in DOMAIN full : full[n] = Original(i)
                THEN [rec[i] EXCEPT !.enqueued = TRUE] ELSE rec[i]
    BY DEF Requeued, Original
  <2>3. /\ [rec[i] EXCEPT !.enqueued = TRUE].enqueued
        /\ [rec[i] EXCEPT !.enqueued = TRUE].stage = rec[i].stage
    BY <2>1 DEF Records
  <2> HIDE DEF rs
  <2> QED
    BY <2>2, <2>3
<1> HIDE DEF full, rs
<1>5. \A i, j \in Id : Original(i) = Original(j) => i = j
  BY DEF Original, Item
<1>6. /\ \A i \in Id : Original(i).kind = "original" /\ Original(i).id = i
      /\ \A i \in Id : Item("replay", i).kind # "original" /\ Item("replay", i).id = i
  BY DEF Original, Item
<1>7. ASSUME NEW n \in DOMAIN full, full[n].kind = "original"
      PROVE  \/ n \in DOMAIN q /\ full[n] = q[n]
             \/ \E k \in DOMAIN s : n = Len(q) + k /\ full[n] = Original(s[k])
  BY <1>2, <1>6, <1>7
<1>8. \A k \in DOMAIN s : s[k] \in Id /\ ~rec[s[k]].enqueued /\ rec[s[k]].stage = "queued"
  BY <1>2 DEF Stranded
<1>9. ASSUME NEW k \in DOMAIN s, NEW n \in DOMAIN q PROVE q[n] # Original(s[k])
  BY <1>8, <1>9 DEF Line
<1>10. ASSUME NEW m \in DOMAIN full, NEW n \in DOMAIN full,
              full[m].kind = "original", full[m] = full[n]
       PROVE m = n
  <2>1. full[n].kind = "original"
    BY <1>10
  <2>2. CASE m \in DOMAIN q /\ full[m] = q[m] /\ n \in DOMAIN q /\ full[n] = q[n]
    BY <2>2, <1>10 DEF Line
  <2>3. CASE \E k \in DOMAIN s, l \in DOMAIN s :
                 /\ m = Len(q) + k /\ full[m] = Original(s[k])
                 /\ n = Len(q) + l /\ full[n] = Original(s[l])
    <3>1. PICK k \in DOMAIN s, l \in DOMAIN s :
                 /\ m = Len(q) + k /\ full[m] = Original(s[k])
                 /\ n = Len(q) + l /\ full[n] = Original(s[l])
      BY <2>3
    <3>2. s[k] = s[l]
      BY <3>1, <1>5, <1>8, <1>10
    <3> QED
      BY <3>1, <3>2, <1>2 DEF IsInjective
  <2> QED
    BY <2>1, <2>2, <2>3, <1>7, <1>9, <1>10
<1>11. ASSUME NEW i \in Id PROVE rs[i].enqueued <=> \E n \in DOMAIN full : full[n] = Original(i)
  <2>1. rec[i].enqueued <=> \E n \in DOMAIN q : q[n] = Original(i)
    BY DEF Line
  <2>2. ASSUME NEW n \in DOMAIN full, full[n] = Original(i)
        PROVE  \/ \E m \in DOMAIN q : q[m] = Original(i)
               \/ i \in cached /\ Stranded(rec[i])
    <3>1. \/ n \in DOMAIN q /\ full[n] = q[n]
          \/ \E k \in DOMAIN s : full[n] = Original(s[k])
      BY <1>6, <1>7, <2>2
    <3>2. CASE \E k \in DOMAIN s : full[n] = Original(s[k])
      BY <3>2, <1>2, <1>5, <1>8, <2>2
    <3> QED
      BY <3>1, <3>2, <2>2
  <2>3. (\E n \in DOMAIN q : q[n] = Original(i)) => \E n \in DOMAIN full : full[n] = Original(i)
    BY <1>3
  <2> QED
    BY <2>1, <2>2, <2>3, <1>4
<1>12. \A i \in Id : rs[i].enqueued => rs[i].stage = "queued"
  BY <1>4 DEF Line, Stranded
<1>13. Line(full, rs)
  BY <1>3, <1>10, <1>11, <1>12 DEF Line
<1>14. \A n \in DOMAIN full : full[n].id \in cached \/ \E m \in DOMAIN q : full[n] = q[m]
  BY <1>2, <1>6, <1>8
<1> QED
  BY <1>13, <1>14 DEF full, rs

---------------------------------------------------------------------------
(* What a step does to the order of the requests.                           *)

\* A step after which no more is asked, and which works at nothing new, keeps
\* the order.
LEMMA OrderKeeps ==
    ASSUME OrderInv, evts' = evts \/ evts' = <<>>,
           \A j \in Id : Seen(j)' => Seen(j),
           \A j \in Id : /\ fw[j] # "idle" => fw'[j] # "idle"
                         /\ fw[j] \in {"applied", "failed"} => fw'[j] \in {"applied", "failed"},
           \A j \in Id : worker'.id = j /\ worker'.at \in Begun /\ j \notin cached'
               => worker.id = j /\ worker.at \in Begun /\ j \notin cached,
           evts \in Seq(Id)
    PROVE  OrderInv'
<1>1. \A n \in DOMAIN evts' : n \in DOMAIN evts /\ evts'[n] = evts[n]
  OBVIOUS
<1>2. \A j \in Id : NoEvt(j) => NoEvt(j)'
  BY <1>1, LenProperties DEF NoEvt
<1>3. \A n \in DOMAIN evts : evts[n] \in Id
  BY ElementOfSeq, LenProperties
<1>4. (\A m, n \in DOMAIN evts : m <= n => evts[m] <= evts[n])'
  BY <1>1 DEF OrderInv
<1>5. (\A n \in DOMAIN evts : fw[evts[n]] # "idle")'
  BY <1>1, <1>3 DEF OrderInv
<1>6. (\A j \in Id : Seen(j) => fw[j] # "idle" /\ \A n \in DOMAIN evts : j <= evts[n])'
  BY <1>1 DEF OrderInv
<1>7. (\A j \in Id : worker.id = j /\ worker.at \in Begun /\ j \notin cached
          => fw[j] \in {"applied", "failed"} /\ NoEvt(j))'
  BY <1>2 DEF OrderInv
<1> QED
  BY <1>4, <1>5, <1>6, <1>7 DEF OrderInv

\* No latch is put back to idle, nor is one that is settled opened again.
LEMMA LatchGoesOn ==
    ASSUME Inv, FwReady \/ FwIgnores \/ (\E i \in Id : LatchStep(i))
    PROVE  \A j \in Id :
              /\ fw[j] # "idle" => fw'[j] # "idle"
              /\ fw[j] \in {"applied", "failed"} => fw'[j] \in {"applied", "failed"}
<1>1. CASE FwReady
  BY <1>1 DEF FwReady
<1>2. CASE FwIgnores
  BY <1>2 DEF FwIgnores, fwVars
<1>3. CASE \E i \in Id : LatchStep(i)
  <2>1. PICK i \in Id : LatchStep(i)
    BY <1>3
  <2>2. \A j \in Id : j # i => fw'[j] = fw[j]
    BY <2>1, LatchStepKeeps
  <2>3. /\ fw[i] # "idle" => fw'[i] # "idle"
        /\ fw[i] \in {"applied", "failed"} => fw'[i] \in {"applied", "failed"}
    <3>1. CASE fw' = fw
      BY <3>1
    <3>2. CASE \E a \in Acks : CanAck(i, a) /\ fw' = [fw EXCEPT ![i] = a]
      <4>1. PICK a \in Acks : CanAck(i, a) /\ fw' = [fw EXCEPT ![i] = a]
        BY <3>2
      <4>2. fw'[i] = a /\ a \in {"accepted", "committed", "applied", "failed"}
        BY <4>1 DEF CanAck, Acks, Inv, CoreTypes
      <4>3. fw[i] \in {"applied", "failed"} => a = fw[i]
        BY <4>1, <4>2 DEF CanAck
      <4> QED
        BY <4>2, <4>3
    <3> QED
      BY <2>1, <3>1, <3>2 DEF LatchStep
  <2> QED
    BY <2>2, <2>3
<1> QED
  BY <1>1, <1>2, <1>3

\* Whatever becomes of the line in flight.
LEMMA LineGoesOn ==
    ASSUME Inv, FwReceives \/ FwIgnores
    PROVE  \A j \in Id :
              /\ fw[j] # "idle" => fw'[j] # "idle"
              /\ fw[j] \in {"applied", "failed"} => fw'[j] \in {"applied", "failed"}
<1>1. CASE worker.at \in SendingAck /\ FwAck(worker.id, rec[worker.id].ack)
  <2>1. worker.id \in Id
    BY <1>1 DEF SendingAck, Inv
  <2>2. RecordShape(worker.id)
    BY <2>1 DEF Inv
  <2>3. LatchStep(worker.id)
    BY <1>1, <2>1, <2>2, AckIsLatchStep DEF RecordShape
  <2> QED
    BY <2>1, <2>3, LatchGoesOn
<1> QED
  BY <1>1, LatchGoesOn DEF FwReceives

---------------------------------------------------------------------------
(* The worker's steps.                                                      *)

\* r may follow upon record was: no place in the queue, and no new retry.
Follows(was, r) ==
    /\ r \in Records /\ r.retries <= MaxAckRetries
    /\ r.enqueued = was.enqueued
    /\ r.stage = was.stage \/ was.stage # "queued"

\* What the bookkeeping of acknowledgements leaves of a record.
LEMMA BooksFollow ==
    ASSUME NEW r \in Records, r.retries <= MaxAckRetries, NEW a \in Acks
    PROVE  /\ \A s \in {CachedAck(r, a), AckDelivered(r), AckRetryLater(r),
                        [r EXCEPT !.pending = TRUE], [r EXCEPT !.started = TRUE]} :
                 s \in Records /\ s.retries <= MaxAckRetries
                 /\ s.enqueued = r.enqueued /\ s.stage = r.stage
<1>1. MaxAckRetries \in Nat /\ r.retries \in Nat /\ r.retries + 1 \in Nat
  BY SizeAssumption DEF Records
<1>2. /\ CachedAck(r, a) \in Records /\ CachedAck(r, a).retries <= MaxAckRetries
      /\ CachedAck(r, a).enqueued = r.enqueued /\ CachedAck(r, a).stage = r.stage
  <2>1. CachedAck(r, a).retries \in {0, r.retries} /\ CachedAck(r, a).enqueued = r.enqueued
    BY DEF CachedAck, Records
  <2> QED
    BY <1>1, <2>1, CachingKeeps
<1>3. /\ AckDelivered(r) \in Records /\ AckDelivered(r).retries <= MaxAckRetries
      /\ AckDelivered(r).enqueued = r.enqueued /\ AckDelivered(r).stage = r.stage
  <2>1. AckDelivered(r).retries = 0 /\ AckDelivered(r).enqueued = r.enqueued
    BY DEF AckDelivered, Records
  <2> QED
    BY <1>1, <2>1, DeliveryKeeps
<1>4. /\ AckRetryLater(r) \in Records /\ AckRetryLater(r).retries <= MaxAckRetries
      /\ AckRetryLater(r).enqueued = r.enqueued /\ AckRetryLater(r).stage = r.stage
  <2> DEFINE t == [r EXCEPT !.retries = r.retries + 1, !.timer = TRUE]
  <2>1. AckRetryLater(r) = r \/ (AckRetryLater(r) = t /\ ~(r.retries >= MaxAckRetries))
    BY DEF AckRetryLater
  <2>2. t \in Records /\ t.retries = r.retries + 1 /\ t.enqueued = r.enqueued /\ t.stage = r.stage
    BY <1>1 DEF Records
  <2> HIDE DEF t
  <2> QED
    BY <1>1, <2>1, <2>2
<1>5. \A s \in {[r EXCEPT !.pending = TRUE], [r EXCEPT !.started = TRUE]} :
         s \in Records /\ s.retries <= MaxAckRetries
         /\ s.enqueued = r.enqueued /\ s.stage = r.stage
  BY DEF Records
<1> QED
  BY <1>2, <1>3, <1>4, <1>5

\* A new stage leaves the rest of a record.
LEMMA StageFollows ==
    ASSUME NEW r \in Records, NEW g \in Stages
    PROVE  LET s == [r EXCEPT !.stage = g]
           IN  /\ s \in Records /\ s.stage = g /\ s.enqueued = r.enqueued
               /\ s.retries = r.retries
  BY DEF Records

\* The frame of a worker step, but for the queue and the cache.
LEMMA WorkerStep ==
    ASSUME Inv, KeepInv, NEW i \in Id, NEW r \in Records, r.retries <= MaxAckRetries,
           Seen(i), LatchStep(i), evts' = evts,
           rec' = [rec EXCEPT ![i] = r], Line(queue', rec'),
           \A n \in DOMAIN queue' : \E m \in DOMAIN queue : queue'[n] = queue[m],
           CacheInv', TrimInv', cached' \subseteq cached,
           worker'.id = i \/ worker' = Idle,
           worker'.at \in Begun => /\ r.stage # "queued" /\ cached' = cached
                                   /\ i \in cached \/ (worker.at \in Begun /\ worker.id = i)
    PROVE  KeepInv'
<1>1. rec \in [Id -> Records] /\ evts \in Seq(Id)
  BY DEF Inv, CoreTypes
<1>2. rec'[i] = r /\ \A j \in Id : j # i => rec'[j] = rec[j]
  BY <1>1
<1>3. \A j \in Id : j # i => worker'.id # j
  BY IdAssumption DEF Idle, At, NoId
<1>4. Idle.at \notin Begun
  BY DEF Idle, At, Begun
<1>5. HeldInv'
  BY <1>2, <1>4 DEF HeldInv
<1>6. \A j \in Id : Seen(j)' => Seen(j)
  <2> SUFFICES ASSUME NEW j \in Id, Seen(j)' PROVE Seen(j)
    OBVIOUS
  <2>1. CASE j = i
    BY <2>1
  <2>2. CASE j # i
    <3>1. j \in cached' \/ rec'[j].timer \/ \E n \in DOMAIN queue' : queue'[n].id = j
      BY <1>3, <2>2 DEF Seen
    <3> QED
      BY <1>2, <2>2, <3>1 DEF Seen
  <2> QED
    BY <2>1, <2>2
<1>7. \A j \in Id : worker'.id = j /\ worker'.at \in Begun /\ j \notin cached'
           => worker.id = j /\ worker.at \in Begun /\ j \notin cached
  BY <1>3, <1>4
<1>8. OrderInv'
  BY <1>1, <1>6, <1>7, OrderKeeps, LatchGoesOn DEF KeepInv
<1>9. BudgetInv'
  BY <1>2 DEF BudgetInv, KeepInv
<1> QED
  BY <1>5, <1>8, <1>9 DEF KeepInv

\* The cache as it is, or trimmed.
LEMMA UntouchedCache ==
    ASSUME KeepInv, UNCHANGED <<cached, recency>>,
           worker'.at \notin {"idle", "startReady", "stopped"}
    PROVE  CacheInv' /\ TrimInv' /\ cached' \subseteq cached
  BY DEF KeepInv, CacheInv, TrimInv

\* The cache trimmed for the records rs.
LEMMA TrimmedCache ==
    ASSUME KeepInv, NEW rs, TrimmedTo(rs, cached, recency)
    PROVE  rec' = rs /\ CacheInv' /\ TrimInv' /\ cached' \subseteq cached
<1>1. recency \in Seq(Id) /\ IsInjective(recency) /\ ToSet(recency) = cached
  BY DEF KeepInv, CacheInv
<1>2. /\ recency' \in Seq(Id) /\ IsInjective(recency') /\ ToSet(recency') = cached'
      /\ Len(recency') > CacheSize => \A i \in cached' : ~Evictable(rs[i])
  BY <1>1, TrimmedLine
<1>3. rec' = rs /\ cached' \subseteq cached
  BY DEF TrimmedTo
<1> QED
  BY <1>2, <1>3 DEF CacheInv, TrimInv

\* The worker goes on with a request it holds, or ends with it.
LEMMA HeldStep ==
    ASSUME Inv, KeepInv, NEW i \in Id, NEW r, Follows(rec[i], r),
           worker.id = i, LatchStep(i), UNCHANGED <<evts, queue>>,
           rec' = [rec EXCEPT ![i] = r],
           CacheInv', TrimInv', cached' \subseteq cached,
           worker'.id = i \/ worker' = Idle,
           worker'.at \in Begun => /\ r.stage # "queued" /\ cached' = cached
                                   /\ i \in cached \/ worker.at \in Begun
    PROVE  KeepInv'
<1>1. Seen(i)
  BY DEF Seen
<1>2. \A n \in DOMAIN queue' : \E m \in DOMAIN queue : queue'[n] = queue[m]
  OBVIOUS
<1>3. Line(queue, rec')
  <2>1. rec'[i] = r /\ \A j \in Id : j # i => rec'[j] = rec[j]
    BY DEF Inv, CoreTypes
  <2>2. rec[i].enqueued => rec[i].stage = "queued"
    BY DEF KeepInv, Line
  <2>3. \A j \in Id : /\ rec'[j].enqueued <=> rec[j].enqueued
                      /\ rec[j].enqueued => rec'[j].stage = rec[j].stage
    BY <2>1, <2>2 DEF Follows
  <2>4. Line(queue, rec)
    BY DEF KeepInv
  <2> QED
    BY <2>3, <2>4 DEF Line
<1>4. r \in Records /\ r.retries <= MaxAckRetries
  BY DEF Follows
<1>5. Line(queue', rec')
  BY <1>3
<1> QED
  BY <1>1, <1>2, <1>4, <1>5, WorkerStep

\* The worker goes on with its request.
LEMMA HeldGoesOn ==
    ASSUME Inv, KeepInv, NEW i \in Id, NEW r, Follows(rec[i], r), NEW place,
           worker.id = i, LatchStep(i), UNCHANGED <<evts, queue>>, Continue(i, r, place),
           place \notin {"idle", "startReady", "stopped"},
           place \in Begun => r.stage # "queued" /\ (i \in cached \/ worker.at \in Begun)
    PROVE  KeepInv'
<1>1. /\ worker'.at = place /\ worker'.id = i /\ rec' = [rec EXCEPT ![i] = r]
      /\ UNCHANGED <<cached, recency>>
  BY DEF Continue, At
<1>2. CacheInv' /\ TrimInv' /\ cached' \subseteq cached
  BY <1>1, UntouchedCache
<1> QED
  BY <1>1, <1>2, HeldStep

\* The worker ends with its request, and trims the cache.
LEMMA HeldEnds ==
    ASSUME Inv, KeepInv, NEW i \in Id, NEW r, Follows(rec[i], r),
           worker.id = i, LatchStep(i), UNCHANGED <<evts, queue>>, EndItem(i, r)
    PROVE  KeepInv'
<1>1. worker' = Idle /\ worker'.at \notin Begun /\ TrimmedTo([rec EXCEPT ![i] = r], cached, recency)
  BY DEF EndItem, Idle, At, Begun
<1>2. rec' = [rec EXCEPT ![i] = r] /\ CacheInv' /\ TrimInv' /\ cached' \subseteq cached
  BY <1>1, TrimmedCache
<1> QED
  BY <1>1, <1>2, HeldStep

\* A request that fails in the worker's hands.
LEMMA HeldFails ==
    ASSUME Inv, KeepInv, NEW i \in Id, NEW r, Follows(rec[i], r),
           rec[i].stage # "queued",
           worker.id = i, LatchStep(i), UNCHANGED <<evts, queue>>, Fail(i, r)
    PROVE  KeepInv'
<1> DEFINE t == [r EXCEPT !.stage = "terminal"]
           c == CachedAck(t, "failed")
<1>1. r \in Records /\ r.retries <= MaxAckRetries /\ r.enqueued = rec[i].enqueued
  BY DEF Follows
<1>2. t \in Records /\ t.enqueued = r.enqueued /\ t.retries <= MaxAckRetries
  BY <1>1, StageFollows DEF Stages
<1> HIDE DEF t
<1>3. c \in Records /\ c.enqueued = t.enqueued /\ c.retries <= MaxAckRetries
  BY <1>2, BooksFollow DEF Acks
<1>4. Continue(i, c, "refuse")
  BY DEF Fail, t
<1> HIDE DEF c
<1>5. Follows(rec[i], c)
  BY <1>1, <1>2, <1>3 DEF Follows
<1>6. "refuse" \notin Begun
  BY DEF Begun
<1> QED
  BY <1>4, <1>5, <1>6, HeldGoesOn

\* An item that is taken from the queue, and the acknowledgement it repeats.
LEMMA TakenReplays ==
    ASSUME Inv, KeepInv, NEW i \in Id, NEW r \in Records, r.retries <= MaxAckRetries,
           Seen(i), UNCHANGED <<fw, evts>>, Replay(i, r),
           Line(queue', [rec EXCEPT ![i] = r]),
           Line(queue', [rec EXCEPT ![i] = [r EXCEPT !.pending = TRUE]]),
           \A n \in DOMAIN queue' : \E m \in DOMAIN queue : queue'[n] = queue[m]
    PROVE  KeepInv'
<1>1. LatchStep(i)
  BY DEF LatchStep
<1>2. CASE EndItem(i, r)
  <2>1. worker' = Idle /\ worker'.at \notin Begun /\ TrimmedTo([rec EXCEPT ![i] = r], cached, recency)
    BY <1>2 DEF EndItem, Idle, At, Begun
  <2>2. rec' = [rec EXCEPT ![i] = r] /\ CacheInv' /\ TrimInv' /\ cached' \subseteq cached
    BY <2>1, TrimmedCache
  <2>3. Line(queue', rec')
    BY <2>2
  <2> QED
    BY <1>1, <2>1, <2>2, <2>3, WorkerStep
<1>3. CASE Continue(i, [r EXCEPT !.pending = TRUE], "replay")
  <2> DEFINE p == [r EXCEPT !.pending = TRUE]
  <2>1. p \in Records /\ p.retries <= MaxAckRetries
    BY DEF Records
  <2>2. Line(queue', [rec EXCEPT ![i] = p])
    OBVIOUS
  <2>3. Continue(i, p, "replay")
    BY <1>3
  <2> HIDE DEF p
  <2>4. /\ rec' = [rec EXCEPT ![i] = p] /\ worker'.id = i /\ worker'.at = "replay"
        /\ UNCHANGED <<cached, recency>>
    BY <2>3 DEF Continue, At
  <2>5. worker'.at \notin Begun
    BY <2>4 DEF Begun
  <2>6. CacheInv' /\ TrimInv' /\ cached' \subseteq cached
    BY <2>4, UntouchedCache
  <2>7. Line(queue', rec')
    BY <2>2, <2>4
  <2> QED
    BY <1>1, <2>1, <2>4, <2>5, <2>6, <2>7, WorkerStep
<1> QED
  BY <1>2, <1>3 DEF Replay

\* The acknowledgement that is repeated from the queue.
LEMMA TakeReplayKeeps ==
    ASSUME Inv, KeepInv, NEW i \in Id, TakeReplay(i)
    PROVE  KeepInv'
<1> DEFINE r == rec[i]
           p == [r EXCEPT !.pending = TRUE]
<1>1. /\ r \in Records /\ r.retries <= MaxAckRetries /\ Line(queue, rec)
      /\ rec \in [Id -> Records] /\ queue \in Seq(QueueItems) /\ Len(queue) <= QueueSize
  BY DEF Inv, CoreTypes, KeepInv, BudgetInv, Line
<1>2. /\ queue # <<>> /\ Head(queue) = Item("replay", i) /\ queue' = Tail(queue)
      /\ Replay(i, r) /\ UNCHANGED <<fw, evts>>
  BY DEF TakeReplay
<1>3. /\ 1 \in DOMAIN queue /\ Head(queue) = queue[1]
      /\ \A n \in DOMAIN queue' : \E m \in DOMAIN queue : queue'[n] = queue[m]
  BY <1>1, <1>2, Left
<1>4. Seen(i) /\ Head(queue).kind # "original"
  BY <1>2, <1>3 DEF Seen, Item
<1>5. Line(queue', rec)
  BY <1>1, <1>2, <1>4, LeavesOther
<1>6. p \in Records /\ p.enqueued = r.enqueued /\ p.stage = r.stage
  BY <1>1 DEF Records
<1> DEFINE rs == [rec EXCEPT ![i] = r]
           ps == [rec EXCEPT ![i] = p]
<1>7. rs = rec
  BY <1>1
<1>8. ps[i] = p /\ \A j \in Id : j # i => ps[j] = rec[j]
  BY <1>1
<1> HIDE DEF p, ps
<1>9. Line(queue', ps)
  <2>1. \A j \in Id : ps[j].enqueued = rec[j].enqueued /\ ps[j].stage = rec[j].stage
    BY <1>6, <1>8
  <2> QED
    BY <1>5, <2>1 DEF Line
<1>10. Line(queue', rs)
  BY <1>5, <1>7
<1> HIDE DEF rs, r
<1> QED
  BY <1>1, <1>2, <1>3, <1>4, <1>9, <1>10, TakenReplays DEF ps, p, rs

\* The original of a request that waits: it is begun, unless it was settled meanwhile.
LEMMA TakeOriginalKeeps ==
    ASSUME Inv, KeepInv, NEW i \in Id, TakeOriginal(i)
    PROVE  KeepInv'
<1> DEFINE was == [rec[i] EXCEPT !.enqueued = FALSE]
           r == [was EXCEPT !.stage = "in_flight"]
<1>1. /\ rec[i] \in Records /\ rec[i].retries <= MaxAckRetries /\ Line(queue, rec)
      /\ rec \in [Id -> Records] /\ queue \in Seq(QueueItems) /\ Len(queue) <= QueueSize
  BY DEF Inv, CoreTypes, KeepInv, BudgetInv, Line
<1>2. /\ queue # <<>> /\ Head(queue) = Original(i) /\ queue' = Tail(queue)
      /\ UNCHANGED <<fw, evts>>
      /\ IF was.stage = "queued" THEN Execute(i, was) ELSE Replay(i, was)
  BY DEF TakeOriginal, Original
<1>3. /\ 1 \in DOMAIN queue /\ Head(queue) = queue[1]
      /\ \A n \in DOMAIN queue' : \E m \in DOMAIN queue : queue'[n] = queue[m]
  BY <1>1, <1>2, Left
<1>4. Seen(i)
  BY <1>2, <1>3 DEF Seen, Original, Item
<1>5. rec[i].enqueued /\ rec[i].stage = "queued"
  BY <1>1, <1>2, <1>3 DEF Line
<1>6. /\ was \in Records /\ ~was.enqueued /\ was.stage = "queued"
      /\ was.retries <= MaxAckRetries
  BY <1>1, <1>5 DEF Records
<1>7. Execute(i, was)
  BY <1>2, <1>6
<1> HIDE DEF was
<1>8. r \in Records /\ ~r.enqueued /\ r.stage = "in_flight" /\ r.retries <= MaxAckRetries
  BY <1>6, StageFollows DEF Stages
<1>9. i \in cached
  BY <1>5 DEF Inv, UncachedOver
<1>10. ASSUME NEW s \in Records, ~s.enqueued
       PROVE  Line(queue', [rec EXCEPT ![i] = s])
  <2> DEFINE ss == [rec EXCEPT ![i] = s]
  <2>1. ss[i] = s /\ \A j \in Id : j # i => ss[j] = rec[j]
    BY <1>1
  <2> HIDE DEF ss
  <2>2. \A j \in Id : j # i => /\ ss[j].enqueued <=> rec[j].enqueued
                               /\ rec[j].enqueued => ss[j].stage = rec[j].stage
    BY <2>1
  <2>3. ~ss[i].enqueued
    BY <2>1, <1>10
  <2>4. Line(queue', ss)
    BY <1>1, <1>2, <2>2, <2>3, LeavesOriginal
  <2> QED
    BY <2>4 DEF ss
<1>11. LatchStep(i)
  BY <1>2 DEF LatchStep
<1>12. ASSUME NEW s \in Records, ~s.enqueued, s.stage # "queued", s.retries <= MaxAckRetries,
              NEW place \in {"refuse", "precheck", "accept"}, Continue(i, s, place)
       PROVE  KeepInv'
  <2>1. /\ rec' = [rec EXCEPT ![i] = s] /\ worker'.id = i /\ worker'.at = place
        /\ UNCHANGED <<cached, recency>>
    BY <1>12 DEF Continue, At
  <2>2. CacheInv' /\ TrimInv' /\ cached' \subseteq cached
    BY <2>1, UntouchedCache
  <2>3. Line(queue', rec')
    BY <1>10, <1>12, <2>1
  <2> QED
    BY <1>2, <1>3, <1>4, <1>9, <1>11, <1>12, <2>1, <2>2, <2>3, WorkerStep
<1> HIDE DEF r
<1>13. Fail(i, r) \/ Continue(i, r, "precheck") \/ Continue(i, CachedAck(r, "accepted"), "accept")
  BY <1>7 DEF Execute, r
<1>14. CASE Fail(i, r)
  <2> DEFINE t == [r EXCEPT !.stage = "terminal"]
             c == CachedAck(t, "failed")
  <2>1. t \in Records /\ ~t.enqueued /\ t.retries <= MaxAckRetries /\ t.stage = "terminal"
    BY <1>8, StageFollows DEF Stages
  <2>2. Continue(i, c, "refuse")
    BY <1>14 DEF Fail
  <2> HIDE DEF t
  <2>3. c \in Records /\ ~c.enqueued /\ c.retries <= MaxAckRetries /\ c.stage = "terminal"
    BY <2>1, BooksFollow DEF Acks
  <2> HIDE DEF c
  <2> QED
    BY <2>2, <2>3, <1>12
<1>15. CASE Continue(i, r, "precheck")
  BY <1>8, <1>12, <1>15
<1>16. CASE Continue(i, CachedAck(r, "accepted"), "accept")
  <2> DEFINE c == CachedAck(r, "accepted")
  <2>1. c \in Records /\ ~c.enqueued /\ c.retries <= MaxAckRetries /\ c.stage = "in_flight"
    BY <1>8, BooksFollow DEF Acks
  <2>2. Continue(i, c, "accept")
    BY <1>16
  <2> HIDE DEF c
  <2> QED
    BY <2>1, <2>2, <1>12
<1> QED
  BY <1>13, <1>14, <1>15, <1>16

\* Every step of the worker on a request.
LEMMA WorkKeeps ==
    ASSUME Inv, KeepInv, NEW i \in Id, Work(i)
    PROVE  KeepInv'
<1> DEFINE r == rec[i]
<1>1. r \in Records /\ r.retries <= MaxAckRetries /\ RecordShape(i)
  BY DEF Inv, CoreTypes, KeepInv, BudgetInv
<1>2. worker.id = i => WorkerShape(i)
  BY DEF Inv
<1>3. \A p : worker = At(p, i) => worker.at = p /\ worker.id = i
  BY DEF At
<1>4. worker.at \in Begun /\ worker.id = i => r.stage # "queued"
  BY DEF KeepInv, HeldInv
<1>5. r.stage # "terminal" => i \in cached
  BY DEF Inv, UncachedOver
<1>6. fw' = fw => LatchStep(i)
  BY DEF LatchStep
<1>7. FwAck(i, r.ack) \/ FwIgnores => LatchStep(i)
  BY <1>1, AckIsLatchStep DEF RecordShape
<1>8. \A s \in {r, CachedAck(r, "accepted"), AckDelivered(r), AckRetryLater(r),
                [r EXCEPT !.pending = TRUE], [r EXCEPT !.started = TRUE]} :
          /\ Follows(r, s) /\ s.stage = r.stage
  <2>1. "accepted" \in Acks
    BY DEF Acks
  <2>2. \A s \in {CachedAck(r, "accepted"), AckDelivered(r), AckRetryLater(r),
                  [r EXCEPT !.pending = TRUE], [r EXCEPT !.started = TRUE]} :
            s \in Records /\ s.retries <= MaxAckRetries
            /\ s.enqueued = r.enqueued /\ s.stage = r.stage
    BY <1>1, <2>1, BooksFollow
  <2> HIDE DEF r
  <2> QED
    BY <1>1, <2>2 DEF Follows
<1>9. \A s \in Records : \A g \in Stages \ {"queued"} :
          Follows(r, s) /\ r.stage # "queued" =>
              /\ [s EXCEPT !.stage = g] \in Records /\ [s EXCEPT !.stage = g].stage = g
              /\ Follows(r, [s EXCEPT !.stage = g])
  BY StageFollows DEF Follows
<1>10. \A s \in Records : \A a \in Acks :
          Follows(r, s) => Follows(r, CachedAck(s, a)) /\ CachedAck(s, a).stage = s.stage
  BY BooksFollow DEF Follows
<1>11. {"in_flight", "accepted", "committed", "terminal"} \subseteq Stages \ {"queued"}
       /\ {"applied", "failed", "committed", "accepted"} \subseteq Acks
  BY DEF Stages, Acks
<1>12. \A s : Follows(r, s) => s \in Records
  BY DEF Follows
<1> HIDE DEF r
<1>a. CASE TakeReplay(i)
  BY <1>a, TakeReplayKeeps
<1>b. CASE TakeOriginal(i)
  BY <1>b, TakeOriginalKeeps
<1>c. CASE Precheck(i)
  <2>1. /\ worker.at = "precheck" /\ worker.id = i /\ UNCHANGED <<evts, queue>> /\ LatchStep(i)
    BY <1>3, <1>6, <1>c DEF Precheck
  <2>2. r.stage # "queued" /\ worker.at \in Begun
    BY <1>4, <2>1 DEF Begun
  <2>3. CASE Continue(i, CachedAck(r, "accepted"), "accept")
    BY <1>8, <2>1, <2>2, <2>3, HeldGoesOn DEF r
  <2>4. CASE Fail(i, r)
    BY <1>8, <2>1, <2>2, <2>4, HeldFails DEF r
  <2> QED
    BY <1>c, <2>3, <2>4 DEF Precheck, r
<1>d. CASE AcceptOk(i)
  <2> DEFINE d == AckDelivered(r)
             s == [d EXCEPT !.stage = "accepted"]
             place == IF Kind[i] \in Disruptive THEN "commitReport" ELSE "helper"
  <2>1. /\ worker.at = "accept" /\ worker.id = i /\ UNCHANGED <<evts, queue>> /\ LatchStep(i)
        /\ Continue(i, s, place)
    BY <1>3, <1>7, <1>d DEF AcceptOk, AckOk, r
  <2>2. r.stage # "queued" /\ worker.at \in Begun
    BY <1>4, <2>1 DEF Begun
  <2>3. Follows(r, d)
    BY <1>8
  <2> HIDE DEF d
  <2>4. Follows(r, s) /\ s.stage = "accepted"
    BY <1>9, <1>11, <1>12, <2>2, <2>3
  <2>5. place \notin {"idle", "startReady", "stopped"}
    OBVIOUS
  <2> HIDE DEF s, place
  <2> QED
    BY <2>1, <2>2, <2>4, <2>5, HeldGoesOn DEF r
<1>e. CASE AcceptError(i)
  <2> DEFINE l == AckRetryLater(r)
             t == [l EXCEPT !.stage = "terminal"]
             c == CachedAck(t, "failed")
  <2>1. /\ worker.at = "accept" /\ worker.id = i /\ UNCHANGED <<evts, queue>> /\ LatchStep(i)
        /\ Continue(i, c, "replay")
    BY <1>3, <1>7, <1>e DEF AcceptError, AckError, r
  <2>2. r.stage # "queued" /\ worker.at \in Begun
    BY <1>4, <2>1 DEF Begun
  <2>3. Follows(r, l)
    BY <1>8
  <2> HIDE DEF l
  <2>4. Follows(r, t)
    BY <1>9, <1>11, <1>12, <2>2, <2>3
  <2> HIDE DEF t
  <2>5. Follows(r, c)
    BY <1>10, <1>11, <1>12, <2>4
  <2> HIDE DEF c
  <2>6. "replay" \notin Begun
    BY DEF Begun
  <2> QED
    BY <2>1, <2>5, <2>6, HeldGoesOn DEF r
<1>f. CASE HelperDone(i)
  <2> DEFINE s == [r EXCEPT !.stage = IF Kind[i] = "profile" THEN "terminal" ELSE @]
  <2>1. /\ worker.at = "helper" /\ worker.id = i /\ UNCHANGED <<evts, queue>> /\ LatchStep(i)
    BY <1>3, <1>6, <1>f DEF HelperDone
  <2>2. r.stage # "queued" /\ worker.at \in Begun
    BY <1>4, <2>1 DEF Begun
  <2>3. Follows(r, s) /\ s.stage # "queued"
    <3>1. CASE Kind[i] = "profile"
      <4>1. s = [r EXCEPT !.stage = "terminal"]
        BY <3>1
      <4> QED
        BY <1>8, <1>9, <1>11, <1>12, <2>2, <4>1
    <3>2. CASE Kind[i] # "profile"
      <4>1. s = r
        BY <1>1, <3>2 DEF Records
      <4> QED
        BY <1>8, <2>2, <4>1
    <3> QED
      BY <3>1, <3>2
  <2>4. CASE Continue(i, s, "report")
    <3> HIDE DEF s
    <3> QED
      BY <2>1, <2>2, <2>3, <2>4, HeldGoesOn DEF r
  <2>5. CASE Fail(i, r)
    BY <1>8, <2>1, <2>2, <2>5, HeldFails DEF r
  <2> QED
    BY <1>f, <2>4, <2>5 DEF HelperDone, r
<1>g. CASE Reported(i)
  <2> DEFINE t == [r EXCEPT !.stage = "terminal"]
             c == CachedAck(t, "applied")
  <2>1. /\ worker.at = "report" /\ worker.id = i /\ UNCHANGED <<evts, queue>> /\ LatchStep(i)
        /\ Continue(i, c, "final")
    BY <1>3, <1>6, <1>g DEF Reported, r
  <2>2. r.stage # "queued"
    BY <1>4, <2>1 DEF Begun
  <2>3. Follows(r, t)
    BY <1>8, <1>9, <1>11, <1>12, <2>2
  <2> HIDE DEF t
  <2>4. Follows(r, c)
    BY <1>10, <1>11, <1>12, <2>3
  <2> HIDE DEF c
  <2>5. "final" \notin Begun
    BY DEF Begun
  <2> QED
    BY <2>1, <2>4, <2>5, HeldGoesOn DEF r
<1>h. CASE CommitReported(i)
  <2> DEFINE t == [r EXCEPT !.stage = "committed"]
             c == CachedAck(t, "committed")
  <2>1. /\ worker.at = "commitReport" /\ worker.id = i /\ UNCHANGED <<evts, queue>>
        /\ LatchStep(i) /\ Continue(i, c, "commit")
    BY <1>3, <1>6, <1>h DEF CommitReported, r
  <2>2. r.stage # "queued" /\ worker.at \in Begun
    BY <1>4, <2>1 DEF Begun
  <2>3. Follows(r, t) /\ t.stage = "committed"
    BY <1>8, <1>9, <1>11, <1>12, <2>2
  <2> HIDE DEF t
  <2>4. Follows(r, c) /\ c.stage = "committed"
    BY <1>10, <1>11, <1>12, <2>3
  <2> HIDE DEF c
  <2> QED
    BY <2>1, <2>2, <2>4, HeldGoesOn DEF r
<1>i. CASE CommitOk(i)
  <2>1. /\ worker.at = "commit" /\ worker.id = i /\ UNCHANGED <<evts, queue>> /\ LatchStep(i)
        /\ Continue(i, AckDelivered(r), "lock")
    BY <1>3, <1>7, <1>i DEF CommitOk, AckOk, r
  <2>2. r.stage # "queued" /\ worker.at \in Begun
    BY <1>4, <2>1 DEF Begun
  <2> QED
    BY <1>8, <2>1, <2>2, HeldGoesOn DEF r
<1>j. CASE CommitError(i)
  <2>1. /\ worker.at = "commit" /\ worker.id = i /\ UNCHANGED <<evts, queue>> /\ LatchStep(i)
        /\ Fail(i, AckRetryLater(r))
    BY <1>3, <1>7, <1>j DEF CommitError, AckError, r
  <2>2. r.stage # "queued"
    BY <1>4, <2>1 DEF Begun
  <2> QED
    BY <1>8, <2>1, <2>2, HeldFails DEF r
<1>k. CASE RefuseReported(i)
  <2>1. /\ worker.at = "refuse" /\ worker.id = i /\ UNCHANGED <<evts, queue>> /\ LatchStep(i)
        /\ Continue(i, [r EXCEPT !.pending = TRUE], "replay")
    BY <1>3, <1>6, <1>k DEF RefuseReported, r
  <2>2. "replay" \notin Begun
    BY DEF Begun
  <2> QED
    BY <1>8, <2>1, <2>2, HeldGoesOn DEF r
<1>l. CASE ReplayAcked(i)
  <2>1. /\ worker.at = "replay" /\ worker.id = i /\ UNCHANGED <<evts, queue>> /\ LatchStep(i)
        /\ IF r.stage = "committed" /\ ~r.started
           THEN Continue(i, AckDelivered(r), "lock") ELSE EndItem(i, AckDelivered(r))
    BY <1>3, <1>7, <1>l DEF ReplayAcked, AckOk, r
  <2>2. CASE r.stage = "committed" /\ Continue(i, AckDelivered(r), "lock")
    BY <1>5, <1>8, <2>1, <2>2, HeldGoesOn DEF r
  <2>3. CASE EndItem(i, AckDelivered(r))
    BY <1>8, <2>1, <2>3, HeldEnds DEF r
  <2> QED
    BY <2>1, <2>2, <2>3
<1>m. CASE ReplayError(i)
  <2>1. /\ worker.at = "replay" /\ worker.id = i /\ UNCHANGED <<evts, queue>> /\ LatchStep(i)
        /\ EndItem(i, AckRetryLater(r))
    BY <1>3, <1>7, <1>m DEF ReplayError, AckError, r
  <2> QED
    BY <1>8, <2>1, HeldEnds DEF r
<1>n. CASE StartHelper(i)
  <2> DEFINE s == [r EXCEPT !.started = TRUE]
  <2>1. /\ worker.at = "lock" /\ worker.id = i /\ UNCHANGED <<evts, queue>> /\ LatchStep(i)
        /\ Continue(i, s, "run")
    BY <1>3, <1>6, <1>n DEF StartHelper, r
  <2>2. r.stage # "queued" /\ worker.at \in Begun
    BY <1>4, <2>1 DEF Begun
  <2>3. Follows(r, s) /\ s.stage = r.stage
    BY <1>8
  <2> HIDE DEF s
  <2> QED
    BY <2>1, <2>2, <2>3, HeldGoesOn DEF r
<1>o. CASE RunDone(i)
  <2> DEFINE t == [r EXCEPT !.stage = "terminal"]
             c == CachedAck(t, "applied")
  <2>1. /\ worker.at = "run" /\ worker.id = i /\ UNCHANGED <<evts, queue>> /\ LatchStep(i)
        /\ Continue(i, c, "final") \/ EndItem(i, r)
    BY <1>3, <1>6, <1>o DEF RunDone, r
  <2>2. r.stage # "queued"
    BY <1>4, <2>1 DEF Begun
  <2>3. Follows(r, t)
    BY <1>8, <1>9, <1>11, <1>12, <2>2
  <2> HIDE DEF t
  <2>4. Follows(r, c)
    BY <1>10, <1>11, <1>12, <2>3
  <2> HIDE DEF c
  <2>5. "final" \notin Begun
    BY DEF Begun
  <2>6. CASE Continue(i, c, "final")
    BY <2>1, <2>4, <2>5, <2>6, HeldGoesOn DEF r
  <2>7. CASE EndItem(i, r)
    BY <1>8, <2>1, <2>7, HeldEnds DEF r
  <2> QED
    BY <2>1, <2>6, <2>7
<1>p. CASE Final(i)
  <2>1. PICK s \in {AckDelivered(r), AckRetryLater(r)} :
            LatchStep(i) /\ FinalAcked(i, s)
    BY <1>7, <1>p DEF Final, AckOk, AckError, r
  <2>2. worker.at = "final" /\ worker.id = i /\ UNCHANGED <<evts, queue>> /\ Follows(r, s)
    BY <1>3, <1>8, <1>p, <2>1 DEF Final, FinalAcked
  <2>3. CASE Continue(i, s, "resumeReport")
    <3>1. "resumeReport" \notin Begun
      BY DEF Begun
    <3> QED
      BY <2>1, <2>2, <2>3, <3>1, HeldGoesOn DEF r
  <2>4. CASE EndItem(i, s)
    BY <2>1, <2>2, <2>4, HeldEnds DEF r
  <2> QED
    BY <2>1, <2>3, <2>4 DEF FinalAcked
<1>q. CASE ResumeReported(i)
  <2>1. /\ worker.id = i /\ UNCHANGED <<evts, queue, rec, cached, recency>> /\ LatchStep(i)
        /\ worker'.at = "resumeReady" /\ worker'.id = i
    BY <1>3, <1>6, <1>q DEF ResumeReported, At
  <2>2. Follows(r, r) /\ rec' = [rec EXCEPT ![i] = r] /\ "resumeReady" \notin Begun
    BY <1>8, <2>1 DEF Begun, r, Inv, CoreTypes
  <2>3. CacheInv' /\ TrimInv' /\ cached' \subseteq cached
    BY <2>1, UntouchedCache
  <2> QED
    BY <2>1, <2>2, <2>3, HeldStep DEF r
<1> QED
  BY <1>a, <1>b, <1>c, <1>d, <1>e, <1>f, <1>g, <1>h, <1>i, <1>j, <1>k, <1>l, <1>m, <1>n,
     <1>o, <1>p, <1>q DEF Work

---------------------------------------------------------------------------
(* Steps that leave the worker between items, or do not move it.            *)

\* The frame of a step after which the worker is on no request.
LEMMA ParkedKeeps ==
    ASSUME Inv, KeepInv, evts' = evts \/ evts' = <<>>,
           \A j \in Id : /\ fw[j] # "idle" => fw'[j] # "idle"
                         /\ fw[j] \in {"applied", "failed"} => fw'[j] \in {"applied", "failed"},
           Line(queue', rec'), CacheInv', TrimInv', cached' \subseteq cached,
           \A j \in Id : /\ rec'[j].retries <= MaxAckRetries
                         /\ rec'[j].timer => rec[j].timer,
           \A n \in DOMAIN queue' : \A j \in Id : queue'[n].id = j => Seen(j),
           worker'.id = NoId, worker'.at \notin Begun
    PROVE  KeepInv'
<1>1. \A j \in Id : worker'.id # j
  BY IdAssumption DEF NoId
<1>2. HeldInv' /\ BudgetInv'
  BY DEF HeldInv, BudgetInv
<1>3. \A j \in Id : Seen(j)' => Seen(j)
  <2> SUFFICES ASSUME NEW j \in Id, Seen(j)' PROVE Seen(j)
    OBVIOUS
  <2>1. j \in cached' \/ rec'[j].timer \/ \E n \in DOMAIN queue' : queue'[n].id = j
    BY <1>1 DEF Seen
  <2> QED
    BY <2>1 DEF Seen
<1>4. OrderInv /\ evts \in Seq(Id)
  BY DEF KeepInv, Inv, CoreTypes
<1>5. OrderInv'
  BY <1>1, <1>3, <1>4, OrderKeeps
<1> QED
  BY <1>2, <1>5 DEF KeepInv

\* The frame of a step that does not move the worker nor the cache.
LEMMA AsideKeeps ==
    ASSUME Inv, KeepInv, UNCHANGED <<evts, worker, cached, recency>>,
           \A j \in Id : /\ fw[j] # "idle" => fw'[j] # "idle"
                         /\ fw[j] \in {"applied", "failed"} => fw'[j] \in {"applied", "failed"},
           Line(queue', rec'),
           \A j \in Id : /\ rec'[j].stage = rec[j].stage /\ rec'[j].pending = rec[j].pending
                         /\ rec'[j].retries <= MaxAckRetries
                         /\ rec'[j].timer => rec[j].timer,
           \A n \in DOMAIN queue' : \A j \in Id : queue'[n].id = j => Seen(j)
    PROVE  KeepInv'
<1>1. BudgetInv'
  BY DEF BudgetInv
<1>2. HeldInv'
  <2>1. worker.at \in Begun => worker.id \in Id
    BY DEF Begun, Inv
  <2> QED
    BY <2>1 DEF HeldInv, KeepInv
<1>3. CacheInv'
  BY DEF CacheInv, KeepInv
<1>4. TrimInv'
  <2>1. \A j \in cached : Evictable(rec'[j]) = Evictable(rec[j])
    BY DEF Evictable, Inv, CoreTypes
  <2> QED
    BY <2>1 DEF TrimInv, KeepInv
<1>5. \A j \in Id : Seen(j)' => Seen(j)
  <2> SUFFICES ASSUME NEW j \in Id, Seen(j)' PROVE Seen(j)
    OBVIOUS
  <2>1. j \in cached \/ rec'[j].timer \/ worker.id = j \/ \E n \in DOMAIN queue' : queue'[n].id = j
    BY DEF Seen
  <2> QED
    BY <2>1 DEF Seen
<1>6. OrderInv /\ evts \in Seq(Id)
  BY DEF KeepInv, Inv, CoreTypes
<1>7. OrderInv'
  BY <1>5, <1>6, OrderKeeps
<1> QED
  BY <1>1, <1>2, <1>3, <1>4, <1>7 DEF KeepInv

\* The queue as it is, with what the invariant says of it.
LEMMA LineHere ==
    ASSUME Inv, KeepInv
    PROVE  /\ Line(queue, rec) /\ queue \in Seq(QueueItems) /\ Len(queue) <= QueueSize
           /\ rec \in [Id -> Records] /\ cached \subseteq Id
           /\ recency \in Seq(Id) /\ IsInjective(recency) /\ ToSet(recency) = cached
           /\ \A j \in Id : rec[j].retries <= MaxAckRetries
           /\ \A n \in DOMAIN queue : \A j \in Id : queue[n].id = j => Seen(j)
           /\ \A j \in cached : Seen(j)
  BY DEF Inv, CoreTypes, KeepInv, Line, CacheInv, BudgetInv, Seen

\* The ready item joins the queue.
LEMMA ReadyJoins ==
    ASSUME Inv, KeepInv, Room(queue)
    PROVE  /\ Line(Append(queue, Item("ready", NoId)), rec)
           /\ \A n \in DOMAIN Append(queue, Item("ready", NoId)) :
                 \A j \in Id : Append(queue, Item("ready", NoId))[n].id = j => Seen(j)
<1> DEFINE e == Item("ready", NoId)
           u == Append(queue, e)
<1>1. e \in QueueItems /\ e.kind # "original" /\ e.id = NoId
  BY DEF QueueItems, Item
<1>2. Line(u, rec)
  BY <1>1, LineHere, JoinsOther
<1>3. /\ u[Len(queue) + 1] = e /\ \A n \in DOMAIN queue : u[n] = queue[n]
      /\ \A n \in DOMAIN u : n \in DOMAIN queue \/ n = Len(queue) + 1
  BY <1>1, LineHere, Joined
<1> HIDE DEF u, e
<1>4. \A n \in DOMAIN u : \A j \in Id : u[n].id = j => Seen(j)
  BY <1>1, <1>3, LineHere, IdAssumption DEF NoId
<1> QED
  BY <1>2, <1>4 DEF u, e

\* What the callbacks put in the queue after q.
LEMMA FlushKeeps ==
    ASSUME Inv, KeepInv, NEW q, Line(q, rec),
           \A n \in DOMAIN q : \A j \in Id : q[n].id = j => Seen(j)
    PROVE  LET full == Flushed(q)
               rs == Requeued(full)
           IN  /\ Line(full, rs)
               /\ \A n \in DOMAIN full : \A j \in Id : full[n].id = j => Seen(j)
               /\ \A j \in Id : /\ rs[j].stage = rec[j].stage /\ rs[j].pending = rec[j].pending
                                /\ rs[j].retries <= MaxAckRetries
                                /\ rs[j].timer = rec[j].timer
<1> DEFINE full == Flushed(q)
           rs == Requeued(full)
<1>1. /\ Line(full, rs)
      /\ \A n \in DOMAIN full : full[n].id \in cached \/ \E m \in DOMAIN q : full[n] = q[m]
  BY LineHere, FlushedLine
<1>2. \A j \in Id : /\ rs[j].stage = rec[j].stage /\ rs[j].pending = rec[j].pending
                    /\ rs[j].retries = rec[j].retries /\ rs[j].timer = rec[j].timer
  BY LineHere, RequeuedKeeps
<1> HIDE DEF full, rs
<1>3. \A n \in DOMAIN full : \A j \in Id : full[n].id = j => Seen(j)
  BY <1>1, LineHere
<1>4. \A j \in Id : rs[j].retries <= MaxAckRetries
  BY <1>2, LineHere
<1> QED
  BY <1>1, <1>2, <1>3, <1>4 DEF full, rs

\* The boot-ready claim, from the queue or of its own.
LEMMA ReadyItemsKeep ==
    ASSUME Inv, KeepInv, TakeReady \/ ItemReadyDone \/ ReportReadyDone
    PROVE  KeepInv'
<1>1. /\ evts' = evts /\ worker'.id = NoId /\ worker'.at \notin Begun
      /\ worker'.at \in {"idle", "itemReady"}
  BY DEF TakeReady, ItemReadyDone, ReportReadyDone, Idle, At, Begun
<1>2. FwReady \/ FwIgnores
  BY DEF TakeReady, ItemReadyDone, ReportReadyDone, ReadySettled, FwIgnores, fwVars
<1>3. \A j \in Id : /\ fw[j] # "idle" => fw'[j] # "idle"
                    /\ fw[j] \in {"applied", "failed"} => fw'[j] \in {"applied", "failed"}
  BY <1>2, LatchGoesOn
<1>4. CASE TakeReady
  <2>1. queue # <<>> /\ Head(queue).kind # "original" /\ queue' = Tail(queue)
    BY <1>4 DEF TakeReady
  <2>2. Line(queue', rec)
    BY <2>1, LineHere, LeavesOther
  <2>3. \A n \in DOMAIN queue' : \E m \in DOMAIN queue : queue'[n] = queue[m]
    BY <2>1, LineHere, Left
  <2>4. \A n \in DOMAIN queue' : \A j \in Id : queue'[n].id = j => Seen(j)
    BY <2>3, LineHere
  <2>5. rec' = rec /\ CacheInv' /\ TrimInv' /\ cached' \subseteq cached
    <3>1. CASE worker' = At("itemReady", NoId) /\ UNCHANGED recVars
      <4>1. worker'.at = "itemReady" /\ UNCHANGED <<cached, recency, rec>>
        BY <3>1 DEF recVars, At
      <4> QED
        BY <4>1, UntouchedCache
    <3>2. CASE TrimmedTo(rec, cached, recency)
      BY <3>2, TrimmedCache
    <3> QED
      BY <3>1, <3>2, <1>4 DEF TakeReady
  <2>6. Line(queue', rec')
    BY <2>2, <2>5
  <2>7. \A j \in Id : /\ rec'[j].retries <= MaxAckRetries
                      /\ rec'[j].timer => rec[j].timer
    BY <2>5, LineHere
  <2> QED
    BY <1>1, <1>3, <2>4, <2>5, <2>6, <2>7, ParkedKeeps
<1>5. CASE ItemReadyDone
  <2>1. queue' = queue /\ TrimmedTo(rec, cached, recency)
    BY <1>5 DEF ItemReadyDone
  <2>2. rec' = rec /\ CacheInv' /\ TrimInv' /\ cached' \subseteq cached
    BY <2>1, TrimmedCache
  <2>3. Line(queue', rec')
    BY <2>1, <2>2, LineHere
  <2>4. \A j \in Id : /\ rec'[j].retries <= MaxAckRetries
                      /\ rec'[j].timer => rec[j].timer
    BY <2>2, LineHere
  <2>5. \A n \in DOMAIN queue' : \A j \in Id : queue'[n].id = j => Seen(j)
    BY <2>1, LineHere
  <2> QED
    BY <1>1, <1>3, <2>2, <2>3, <2>4, <2>5, ParkedKeeps
<1>6. CASE ReportReadyDone
  <2> DEFINE full == Flushed(queue)
             rs == Requeued(full)
  <2>1. /\ Line(full, rs)
        /\ \A n \in DOMAIN full : \A j \in Id : full[n].id = j => Seen(j)
        /\ \A j \in Id : /\ rs[j].stage = rec[j].stage /\ rs[j].pending = rec[j].pending
                         /\ rs[j].retries <= MaxAckRetries
                         /\ rs[j].timer = rec[j].timer
    BY LineHere, FlushKeeps
  <2>2. /\ queue' = full
        /\ \/ TrimmedTo(rs, cached, recency)
           \/ worker.at = "startReady" /\ rec' = rs /\ UNCHANGED <<cached, recency>>
    BY <1>6 DEF ReportReadyDone
  <2> HIDE DEF full, rs
  <2>3. rec' = rs /\ CacheInv' /\ TrimInv' /\ cached' \subseteq cached
    <3>1. CASE TrimmedTo(rs, cached, recency)
      BY <3>1, TrimmedCache
    <3>2. CASE worker.at = "startReady" /\ rec' = rs /\ UNCHANGED <<cached, recency>>
      <4>1. CacheInv'
        BY <3>2 DEF KeepInv, CacheInv
      <4>2. \A j \in cached : Evictable(rs[j]) = Evictable(rec[j])
        BY <2>1, LineHere DEF Evictable
      <4>3. TrimInv'
        BY <3>2, <4>2 DEF KeepInv, TrimInv
      <4> QED
        BY <3>2, <4>1, <4>3
    <3> QED
      BY <2>2, <3>1, <3>2
  <2>4. Line(queue', rec')
    BY <2>1, <2>2, <2>3
  <2>5. \A j \in Id : /\ rec'[j].retries <= MaxAckRetries
                      /\ rec'[j].timer => rec[j].timer
    BY <2>1, <2>3
  <2>6. \A n \in DOMAIN queue' : \A j \in Id : queue'[n].id = j => Seen(j)
    BY <2>1, <2>2
  <2> QED
    BY <1>1, <1>3, <2>3, <2>4, <2>5, <2>6, ParkedKeeps
<1> QED
  BY <1>4, <1>5, <1>6

\* What the invariant leaves out: everything that is not about a request.
RestInv ==
    /\ base \in Nat /\ snap \in Nat /\ boot \in Nat \ {0} /\ faults \in 0..MaxFaults
    /\ Len(evts) <= MaxEvts
    /\ link \in {"up", "down"} /\ (link = "down" => worker.at = "stopped")
    /\ ready \in [pending : BOOLEAN, enqueued : BOOLEAN, retries : 0..MaxReadyRetries,
                  timer : BOOLEAN]

\* A reconnected link: the claim is put back in the queue, and what is owed behind it.
LEMMA ReconnectKeeps ==
    ASSUME Inv, KeepInv, RestInv, Reconnect
    PROVE  KeepInv'
<1>1. /\ UNCHANGED <<fw, evts, cached, recency>> /\ worker.at = "stopped"
      /\ worker'.id = NoId /\ worker'.at = "idle" /\ worker'.at \notin Begun
  BY DEF Reconnect, RestInv, Idle, At, Begun
<1>2. PICK q \in {queue, Append(queue, Item("ready", NoId))} :
          ReplayCallbacks(q) /\ (q = queue \/ (Room(queue) /\ q = Append(queue, Item("ready", NoId))))
  BY DEF Reconnect
<1>3. Line(q, rec) /\ \A n \in DOMAIN q : \A j \in Id : q[n].id = j => Seen(j)
  BY <1>2, LineHere, ReadyJoins
<1> DEFINE full == Flushed(q)
           rs == Requeued(full)
<1>4. /\ Line(full, rs)
      /\ \A n \in DOMAIN full : \A j \in Id : full[n].id = j => Seen(j)
      /\ \A j \in Id : /\ rs[j].stage = rec[j].stage /\ rs[j].pending = rec[j].pending
                       /\ rs[j].retries <= MaxAckRetries
                       /\ rs[j].timer = rec[j].timer
  BY <1>3, FlushKeeps
<1>5. queue' = full /\ rec' = rs
  BY <1>2 DEF ReplayCallbacks
<1> HIDE DEF full, rs
<1>6. CacheInv'
  BY <1>1 DEF KeepInv, CacheInv
<1>7. TrimInv'
  <2>1. \A j \in cached : Evictable(rs[j]) = Evictable(rec[j])
    BY <1>4, LineHere DEF Evictable
  <2> QED
    BY <1>1, <1>5, <2>1 DEF KeepInv, TrimInv
<1>8. Line(queue', rec') /\ cached' \subseteq cached
  BY <1>1, <1>4, <1>5
<1>9. \A j \in Id : /\ rec'[j].retries <= MaxAckRetries
                    /\ rec'[j].timer => rec[j].timer
  BY <1>4, <1>5
<1>10. \A n \in DOMAIN queue' : \A j \in Id : queue'[n].id = j => Seen(j)
  BY <1>4, <1>5
<1>11. \A j \in Id : /\ fw[j] # "idle" => fw'[j] # "idle"
                     /\ fw[j] \in {"applied", "failed"} => fw'[j] \in {"applied", "failed"}
  BY <1>1
<1> QED
  BY <1>1, <1>6, <1>7, <1>8, <1>9, <1>10, <1>11, ParkedKeeps

\* A lost link: the request in hand is put back, if it may still be and there is room.
LEMMA LinkLostKeeps ==
    ASSUME Inv, KeepInv, LinkLost
    PROVE  KeepInv'
<1> DEFINE i == worker.id
           r == [rec[i] EXCEPT !.stage = "queued"]
           e == Enqueued(r)
<1>1. /\ evts' = <<>> /\ worker'.id = NoId /\ worker'.at \notin Begun
      /\ FwReceives \/ FwIgnores
  BY DEF LinkLost, At, Begun
<1>2. \A j \in Id : /\ fw[j] # "idle" => fw'[j] # "idle"
                    /\ fw[j] \in {"applied", "failed"} => fw'[j] \in {"applied", "failed"}
  BY <1>1, LineGoesOn
<1>3. PICK rs : /\ TrimmedTo(rs, cached, recency) /\ Line(queue', rs)
                /\ \A j \in Id : /\ rs[j].retries <= MaxAckRetries
                                 /\ rs[j].timer => rec[j].timer
                /\ \A n \in DOMAIN queue' : \A j \in Id : queue'[n].id = j => Seen(j)
  <2>1. CASE ~(i # NoId /\ Recoverable(rec[i]))
    <3>1. queue' = queue /\ TrimmedTo(rec, cached, recency)
      BY <2>1 DEF LinkLost, RecoverUnaccepted
    <3> QED
      BY <3>1, LineHere
  <2>2. CASE i # NoId /\ Recoverable(rec[i])
    <3>1. i \in Id /\ rec[i] \in Records /\ rec[i].retries <= MaxAckRetries /\ Seen(i)
      BY <2>2, LineHere DEF Inv, CoreTypes, Seen
    <3>2. ~rec[i].enqueued
      BY <2>2, <3>1, LineHere DEF Line, Recoverable
    <3>3. /\ r.retries = rec[i].retries /\ r.timer = rec[i].timer
          /\ r.enqueued = rec[i].enqueued /\ r.stage = "queued" /\ r \in Records
      BY <3>1 DEF Records, Stages
    <3>4. /\ e.retries = r.retries /\ e.timer = r.timer /\ e.enqueued /\ e.stage = "queued"
      <4> HIDE DEF r
      <4> QED
        BY <3>3 DEF Records, Enqueued
    <3>5. \/ /\ Room(queue) /\ queue' = Append(queue, Original(i))
             /\ TrimmedTo([rec EXCEPT ![i] = e], cached, recency)
          \/ queue' = queue /\ TrimmedTo([rec EXCEPT ![i] = r], cached, recency)
      BY <2>2 DEF LinkLost, RecoverUnaccepted, Original
    <3> DEFINE With(t) == [rec EXCEPT ![i] = t]
    <3>6. \A t : With(t)[i] = t /\ \A j \in Id : j # i => With(t)[j] = rec[j]
      BY <3>1, LineHere
    <3> HIDE DEF r, e, i
    <3>7. CASE Room(queue) /\ queue' = Append(queue, Original(i)) /\ TrimmedTo(With(e), cached, recency)
      <4> DEFINE rs == With(e)
      <4>0. rs[i] = e /\ \A j \in Id : j # i => rs[j] = rec[j]
        BY <3>6
      <4> HIDE DEF rs, With
      <4>1. \A j \in Id : j # i => /\ rs[j].enqueued <=> rec[j].enqueued
                                   /\ rec[j].enqueued => rs[j].stage = rec[j].stage
        BY <4>0
      <4>2. rs[i].enqueued /\ rs[i].stage = "queued"
        BY <3>4, <4>0
      <4>3. Line(queue', rs)
        BY <3>1, <3>2, <3>7, <4>1, <4>2, LineHere, JoinsOriginal
      <4>4. \A j \in Id : /\ rs[j].retries <= MaxAckRetries
                          /\ rs[j].timer => rec[j].timer
        BY <3>1, <3>3, <3>4, <4>0, LineHere
      <4>5. Original(i) \in QueueItems /\ Original(i).id = i
        BY <3>1 DEF Original, Item, QueueItems
      <4>6. /\ queue'[Len(queue) + 1] = Original(i) /\ \A n \in DOMAIN queue : queue'[n] = queue[n]
            /\ \A n \in DOMAIN queue' : n \in DOMAIN queue \/ n = Len(queue) + 1
        BY <3>7, <4>5, LineHere, Joined
      <4>7. \A n \in DOMAIN queue' : \A j \in Id : queue'[n].id = j => Seen(j)
        BY <3>1, <4>5, <4>6, LineHere
      <4>8. TrimmedTo(rs, cached, recency)
        BY <3>7 DEF rs
      <4> QED
        BY <4>3, <4>4, <4>7, <4>8
    <3>8. CASE queue' = queue /\ TrimmedTo(With(r), cached, recency)
      <4> DEFINE rs == With(r)
      <4>0. rs[i] = r /\ \A j \in Id : j # i => rs[j] = rec[j]
        BY <3>6
      <4> HIDE DEF rs, With
      <4>1. \A j \in Id : /\ rs[j].enqueued <=> rec[j].enqueued
                          /\ rec[j].enqueued => rs[j].stage = rec[j].stage
        BY <3>2, <3>3, <4>0
      <4>2. Line(queue', rs)
        BY <3>8, <4>1, LineHere DEF Line
      <4>3. \A j \in Id : /\ rs[j].retries <= MaxAckRetries
                          /\ rs[j].timer => rec[j].timer
        BY <3>1, <3>3, <4>0, LineHere
      <4>4. \A n \in DOMAIN queue' : \A j \in Id : queue'[n].id = j => Seen(j)
        BY <3>8, LineHere
      <4>5. TrimmedTo(rs, cached, recency)
        BY <3>8 DEF rs
      <4> QED
        BY <4>2, <4>3, <4>4, <4>5
    <3> QED
      BY <3>5, <3>7, <3>8
  <2> QED
    BY <2>1, <2>2
<1> HIDE DEF i, r, e
<1>4. rec' = rs /\ CacheInv' /\ TrimInv' /\ cached' \subseteq cached
  BY <1>3, TrimmedCache
<1>5. Line(queue', rec')
  BY <1>3, <1>4
<1>6. \A j \in Id : /\ rec'[j].retries <= MaxAckRetries
                    /\ rec'[j].timer => rec[j].timer
  BY <1>3, <1>4
<1> QED
  BY <1>1, <1>2, <1>3, <1>4, <1>5, <1>6, ParkedKeeps

\* A process with no record, no queue and no event.
LEMMA FreshKeeps ==
    ASSUME rec = [i \in Id |-> NoRecord], cached = {}, recency = <<>>, queue = <<>>,
           worker.id = NoId, worker.at \notin Begun, evts = <<>>
    PROVE  KeepInv
<1>1. /\ NoRecord.stage = "terminal" /\ ~NoRecord.enqueued /\ NoRecord.retries = 0
      /\ ~NoRecord.timer
  BY DEF NoRecord, FreshRecord
<1>2. /\ queue \in Seq(QueueItems) /\ Len(queue) = 0 /\ DOMAIN queue = {}
      /\ recency \in Seq(Id) /\ Len(recency) = 0 /\ DOMAIN recency = {} /\ DOMAIN evts = {}
  OBVIOUS
<1>3. Line(queue, rec)
  BY <1>1, <1>2, SizeAssumption DEF Line
<1>4. \A j \in Id : ~Seen(j) /\ worker.id # j
  BY <1>1, <1>2, IdAssumption DEF Seen, NoId
<1>5. OrderInv
  BY <1>2, <1>4 DEF OrderInv
<1>6. CacheInv
  BY <1>2 DEF CacheInv, IsInjective, ToSet
<1>7. TrimInv /\ HeldInv
  BY DEF TrimInv, HeldInv
<1>8. BudgetInv
  BY <1>1, SizeAssumption DEF BudgetInv
<1> QED
  BY <1>3, <1>5, <1>6, <1>7, <1>8 DEF KeepInv

\* A daemon restart or a reboot: everything starts over.
LEMMA CrashKeeps ==
    ASSUME Crash
    PROVE  KeepInv'
<1>1. (/\ rec = [i \in Id |-> NoRecord] /\ cached = {} /\ recency = <<>> /\ queue = <<>>
       /\ worker.id = NoId /\ worker.at \notin Begun /\ evts = <<>>)'
  BY DEF Crash, FreshProcess, At, Begun
<1> QED
  BY <1>1, FreshKeeps, PTL

\* The retry timers of the claim and of an acknowledgement.
LEMMA TimersKeep ==
    ASSUME Inv, KeepInv, ReadyTimer \/ \E i \in Id : AckTimer(i)
    PROVE  KeepInv'
<1>1. UNCHANGED <<fw, evts, worker, cached, recency>>
  BY DEF ReadyTimer, AckTimer
<1>2. \A j \in Id : /\ fw[j] # "idle" => fw'[j] # "idle"
                    /\ fw[j] \in {"applied", "failed"} => fw'[j] \in {"applied", "failed"}
  BY <1>1
<1>3. CASE ReadyTimer
  <2>1. /\ rec' = rec
        /\ \/ queue' = queue
           \/ Room(queue) /\ queue' = Append(queue, Item("ready", NoId))
    BY <1>3 DEF ReadyTimer
  <2>2. Line(queue', rec') /\ \A n \in DOMAIN queue' : \A j \in Id : queue'[n].id = j => Seen(j)
    BY <2>1, LineHere, ReadyJoins
  <2>3. \A j \in Id : /\ rec'[j].stage = rec[j].stage /\ rec'[j].pending = rec[j].pending
                      /\ rec'[j].retries <= MaxAckRetries
                      /\ rec'[j].timer => rec[j].timer
    BY <2>1, LineHere
  <2> QED
    BY <1>1, <1>2, <2>2, <2>3, AsideKeeps
<1>4. CASE \E i \in Id : AckTimer(i)
  <2>1. PICK i \in Id : AckTimer(i)
    BY <1>4
  <2> DEFINE r == [rec[i] EXCEPT !.timer = FALSE]
             l == AckRetryLater(r)
             e == Item("replay", i)
  <2>2. rec[i] \in Records /\ rec[i].retries <= MaxAckRetries /\ rec[i].timer /\ Seen(i)
    BY <2>1, LineHere DEF AckTimer, Seen
  <2>3. /\ r \in Records /\ r.retries = rec[i].retries /\ r.stage = rec[i].stage
        /\ r.pending = rec[i].pending /\ r.enqueued = rec[i].enqueued
    BY <2>2 DEF Records
  <2>4. \/ Room(queue) /\ queue' = Append(queue, e) /\ rec' = [rec EXCEPT ![i] = r]
        \/ queue' = queue /\ rec' = [rec EXCEPT ![i] = l]
    BY <2>1 DEF AckTimer
  <2> HIDE DEF r
  <2>5. /\ l.retries <= MaxAckRetries /\ l.stage = r.stage /\ l.enqueued = r.enqueued
        /\ l.pending = r.pending
    <3>1. "none" \in Acks /\ r.retries <= MaxAckRetries
      BY <2>2, <2>3 DEF Acks
    <3>2. /\ l \in Records /\ l.retries <= MaxAckRetries /\ l.stage = r.stage
          /\ l.enqueued = r.enqueued
      BY <2>3, <3>1, BooksFollow
    <3>3. l.pending = r.pending
      BY <2>3 DEF AckRetryLater, Records
    <3> QED
      BY <3>2, <3>3
  <2> HIDE DEF l, e
  <2>6. PICK t \in {r, l} : rec' = [rec EXCEPT ![i] = t]
    BY <2>4
  <2>7. rec'[i] = t /\ \A j \in Id : j # i => rec'[j] = rec[j]
    BY <2>6, LineHere
  <2>8. /\ t.stage = rec[i].stage /\ t.pending = rec[i].pending /\ t.enqueued = rec[i].enqueued
        /\ t.retries <= MaxAckRetries
    BY <2>2, <2>3, <2>5, <2>6
  <2>9. \A j \in Id : /\ rec'[j].stage = rec[j].stage /\ rec'[j].pending = rec[j].pending
                      /\ rec'[j].retries <= MaxAckRetries
                      /\ rec'[j].timer => rec[j].timer
    BY <2>2, <2>7, <2>8, LineHere
  <2>10. \A j \in Id : rec'[j].enqueued = rec[j].enqueued
    BY <2>7, <2>8
  <2>11. e \in QueueItems /\ e.kind # "original" /\ e.id = i
    BY DEF e, Item, QueueItems
  <2>12. Line(queue', rec)
    <3>1. CASE Room(queue) /\ queue' = Append(queue, e)
      <4>1. Line(Append(queue, e), rec)
        BY <2>11, <3>1, LineHere, JoinsOther
      <4> QED
        BY <3>1, <4>1
    <3>2. CASE queue' = queue
      BY <3>2, LineHere
    <3> QED
      BY <2>4, <3>1, <3>2
  <2>13. Line(queue', rec')
    BY <2>9, <2>10, <2>12 DEF Line
  <2>14. \A n \in DOMAIN queue' : \A j \in Id : queue'[n].id = j => Seen(j)
    <3>1. CASE queue' = queue
      BY <3>1, LineHere
    <3>2. CASE Room(queue) /\ queue' = Append(queue, e)
      <4>1. /\ queue'[Len(queue) + 1] = e /\ \A n \in DOMAIN queue : queue'[n] = queue[n]
            /\ \A n \in DOMAIN queue' : n \in DOMAIN queue \/ n = Len(queue) + 1
        BY <3>2, <2>11, LineHere, Joined
      <4> QED
        BY <2>2, <2>11, <4>1, LineHere
    <3> QED
      BY <2>4, <3>1, <3>2
  <2> QED
    BY <1>1, <1>2, <2>9, <2>13, <2>14, AsideKeeps
<1> QED
  BY <1>3, <1>4

\* The firmware asks for i, for the first time or again.
LEMMA AskedKeeps ==
    ASSUME Inv, KeepInv, NEW i \in Id, fw[i] \in {"idle", "pending", "accepted"},
           evts' = Append(evts, i), fw'[i] # "idle", \A j \in Id : j # i => fw'[j] = fw[j],
           UNCHANGED <<rec, cached, recency, queue, worker>>
    PROVE  KeepInv'
<1>1. evts \in Seq(Id) /\ OrderInv /\ OneCurrent
  BY DEF Inv, CoreTypes, KeepInv
<1>2. /\ Len(evts) \in Nat /\ DOMAIN evts = 1..Len(evts)
      /\ DOMAIN evts' = 1..(Len(evts) + 1) /\ Len(evts') = Len(evts) + 1
      /\ evts'[Len(evts) + 1] = i /\ \A n \in DOMAIN evts : evts'[n] = evts[n]
      /\ \A n \in DOMAIN evts : evts[n] \in Id
  BY <1>1, AppendProperties, LenProperties, ElementOfSeq
<1>3. \A n \in DOMAIN evts' : n \in DOMAIN evts \/ n = Len(evts) + 1
  BY <1>2
<1>4. \A j \in Id : fw[j] # "idle" => j <= i
  <2> SUFFICES ASSUME NEW j \in Id, fw[j] # "idle", ~(j <= i) PROVE FALSE
    OBVIOUS
  <2>1. i < j
    BY IdAssumption
  <2> QED
    BY <1>1, <2>1 DEF OneCurrent
<1>5. \A j \in Id : Seen(j)' <=> Seen(j)
  BY DEF Seen
<1>6. (\A m, n \in DOMAIN evts : m <= n => evts[m] <= evts[n])'
  <2> SUFFICES ASSUME NEW m \in DOMAIN evts', NEW n \in DOMAIN evts', m <= n
               PROVE evts'[m] <= evts'[n]
    OBVIOUS
  <2>1. CASE n \in DOMAIN evts
    <3>1. m \in DOMAIN evts
      BY <1>2, <2>1
    <3> QED
      BY <1>1, <1>2, <2>1, <3>1 DEF OrderInv
  <2>2. CASE n = Len(evts) + 1 /\ m \in DOMAIN evts
    BY <1>1, <1>2, <1>4, <2>2 DEF OrderInv
  <2>3. CASE n = Len(evts) + 1 /\ m = Len(evts) + 1
    BY <1>2, <2>3, IdAssumption
  <2> QED
    BY <1>3, <2>1, <2>2, <2>3
<1>7. (\A n \in DOMAIN evts : fw[evts[n]] # "idle")'
  BY <1>1, <1>2, <1>3 DEF OrderInv
<1>8. (\A j \in Id : Seen(j) => fw[j] # "idle" /\ \A n \in DOMAIN evts : j <= evts[n])'
  BY <1>1, <1>2, <1>3, <1>4, <1>5 DEF OrderInv
<1>9. (\A j \in Id : worker.id = j /\ worker.at \in Begun /\ j \notin cached
          => fw[j] \in {"applied", "failed"} /\ NoEvt(j))'
  <2> SUFFICES ASSUME NEW j \in Id, worker.id = j, worker.at \in Begun, j \notin cached
               PROVE fw'[j] \in {"applied", "failed"} /\ NoEvt(j)'
    OBVIOUS
  <2>1. fw[j] \in {"applied", "failed"} /\ NoEvt(j)
    BY <1>1 DEF OrderInv
  <2>2. j # i
    BY <2>1
  <2>3. NoEvt(j)'
    BY <1>2, <1>3, <2>1, <2>2 DEF NoEvt
  <2> QED
    BY <2>1, <2>2, <2>3
<1>10. OrderInv'
  BY <1>6, <1>7, <1>8, <1>9 DEF OrderInv
<1>11. HeldInv' /\ CacheInv' /\ TrimInv' /\ BudgetInv'
  BY DEF KeepInv, HeldInv, CacheInv, TrimInv, BudgetInv
<1>12. Line(queue', rec')
  BY LineHere
<1> QED
  BY <1>10, <1>11, <1>12 DEF KeepInv

\* What the firmware does of itself: issue, repeat and give up.
LEMMA FirmwareKeeps ==
    ASSUME Inv, KeepInv, Firmware
    PROVE  KeepInv'
<1>1. PICK i \in Id : FwIssue(i) \/ FwRetransmit(i) \/ FwGiveUp(i)
  BY DEF Firmware
<1>2. UNCHANGED <<rec, cached, recency, queue, worker>> /\ fw \in [Id -> FwStates]
  BY <1>1 DEF FwIssue, FwRetransmit, FwGiveUp, Inv, CoreTypes
<1>3. CASE FwIssue(i)
  BY <1>2, <1>3, AskedKeeps DEF FwIssue
<1>4. CASE FwRetransmit(i)
  BY <1>2, <1>4, AskedKeeps, RetransmitAssumption DEF FwRetransmit
<1>5. CASE FwGiveUp(i)
  <2>1. evts' = evts /\ fw[i] \in {"pending", "accepted"} /\ fw' = [fw EXCEPT ![i] = "failed"]
    BY <1>5 DEF FwGiveUp
  <2>2. \A j \in Id : /\ fw[j] # "idle" => fw'[j] # "idle"
                      /\ fw[j] \in {"applied", "failed"} => fw'[j] \in {"applied", "failed"}
    BY <1>2, <2>1
  <2>3. Line(queue', rec') /\ \A n \in DOMAIN queue' : \A j \in Id : queue'[n].id = j => Seen(j)
    BY <1>2, LineHere
  <2>4. \A j \in Id : /\ rec'[j].stage = rec[j].stage /\ rec'[j].pending = rec[j].pending
                      /\ rec'[j].retries <= MaxAckRetries
                      /\ rec'[j].timer => rec[j].timer
    BY <1>2, LineHere
  <2> QED
    BY <1>2, <2>1, <2>2, <2>3, <2>4, AsideKeeps
<1> QED
  BY <1>1, <1>3, <1>4, <1>5

\* Something new at the end of the cache's order.
LEMMA LastInOrder ==
    ASSUME NEW s \in Seq(Id), IsInjective(s), NEW i \in Id, i \notin ToSet(s)
    PROVE  /\ Append(s, i) \in Seq(Id) /\ IsInjective(Append(s, i))
           /\ ToSet(Append(s, i)) = ToSet(s) \cup {i}
<1> DEFINE u == Append(s, i)
<1>1. /\ u \in Seq(Id) /\ Len(s) \in Nat /\ DOMAIN s = 1..Len(s)
      /\ DOMAIN u = 1..(Len(s) + 1) /\ u[Len(s) + 1] = i /\ \A n \in DOMAIN s : u[n] = s[n]
  BY AppendProperties, LenProperties
<1> HIDE DEF u
<1>2. \A n \in DOMAIN u : n \in DOMAIN s \/ n = Len(s) + 1
  BY <1>1
<1>3. \A n \in DOMAIN s : s[n] # i
  BY DEF ToSet
<1>4. ASSUME NEW m \in DOMAIN u, NEW n \in DOMAIN u, u[m] = u[n] PROVE m = n
  <2>1. CASE m \in DOMAIN s /\ n \in DOMAIN s
    BY <1>1, <1>4, <2>1 DEF IsInjective
  <2>2. CASE ~(m \in DOMAIN s /\ n \in DOMAIN s)
    BY <1>1, <1>2, <1>3, <1>4, <2>2
  <2> QED
    BY <2>1, <2>2
<1>5. IsInjective(u)
  BY <1>4 DEF IsInjective
<1>6. ToSet(u) = ToSet(s) \cup {i}
  <2>1. \A n \in DOMAIN u : u[n] \in ToSet(s) \cup {i}
    BY <1>1, <1>2 DEF ToSet
  <2>2. \A x \in ToSet(s) \cup {i} : \E n \in DOMAIN u : u[n] = x
    <3>1. \A n \in DOMAIN s : n \in DOMAIN u /\ u[n] = s[n]
      BY <1>1
    <3>2. Len(s) + 1 \in DOMAIN u
      BY <1>1
    <3> QED
      BY <1>1, <3>1, <3>2 DEF ToSet
  <2> QED
    BY <2>1, <2>2 DEF ToSet
<1> QED
  BY <1>1, <1>5, <1>6 DEF u

\* The order of the requests once the oldest event was submitted.
LEMMA SubmitOrder ==
    ASSUME Inv, KeepInv, evts # <<>>, evts' = Tail(evts), UNCHANGED <<fw, worker>>,
           \A j \in Id : Seen(j)' => Seen(j) \/ j = Head(evts),
           \A j \in cached : j \notin cached' => Head(evts) \notin cached
    PROVE  OrderInv'
<1> DEFINE i == Head(evts)
<1>1. evts \in Seq(Id) /\ OrderInv /\ OneCurrent
  BY DEF Inv, CoreTypes, KeepInv
<1>2. /\ Len(evts) \in Nat /\ Len(evts) # 0 /\ DOMAIN evts = 1..Len(evts)
      /\ DOMAIN evts' = 1..(Len(evts) - 1) /\ Len(evts') = Len(evts) - 1
      /\ i = evts[1] /\ \A n \in 1..(Len(evts) - 1) : evts'[n] = evts[n + 1]
      /\ \A n \in DOMAIN evts : evts[n] \in Id
  BY <1>1, HeadTailProperties, EmptySeq, LenProperties, ElementOfSeq
<1>3. \A n \in DOMAIN evts' : /\ n \in Nat /\ n + 1 \in DOMAIN evts /\ 1 \in DOMAIN evts
                              /\ evts'[n] = evts[n + 1] /\ 1 <= n + 1
  BY <1>2
<1>4. 1 \in DOMAIN evts /\ i \in Id /\ evts[1] = i
  BY <1>2
<1> HIDE DEF i
<1>5. (\A m, n \in DOMAIN evts : m <= n => evts[m] <= evts[n])'
  <2> SUFFICES ASSUME NEW m \in DOMAIN evts', NEW n \in DOMAIN evts', m <= n
               PROVE evts'[m] <= evts'[n]
    OBVIOUS
  <2>1. m + 1 <= n + 1
    BY <1>3
  <2> QED
    BY <1>1, <1>3, <2>1 DEF OrderInv
<1>6. (\A n \in DOMAIN evts : fw[evts[n]] # "idle")'
  BY <1>1, <1>3 DEF OrderInv
<1>7. fw[i] # "idle" /\ \A n \in DOMAIN evts : i <= evts[n]
  <2>1. \A n \in DOMAIN evts : 1 <= n
    BY <1>2
  <2> QED
    BY <1>1, <1>4, <2>1 DEF OrderInv
<1>8. (\A j \in Id : Seen(j) => fw[j] # "idle" /\ \A n \in DOMAIN evts : j <= evts[n])'
  <2> SUFFICES ASSUME NEW j \in Id, Seen(j)'
               PROVE fw'[j] # "idle" /\ \A n \in DOMAIN evts' : j <= evts'[n]
    OBVIOUS
  <2>1. fw[j] # "idle" /\ \A n \in DOMAIN evts : j <= evts[n]
    BY <1>1, <1>7 DEF OrderInv, i
  <2> QED
    BY <1>3, <2>1
<1>9. (\A j \in Id : worker.id = j /\ worker.at \in Begun /\ j \notin cached
          => fw[j] \in {"applied", "failed"} /\ NoEvt(j))'
  <2> SUFFICES ASSUME NEW j \in Id, worker.id = j, worker.at \in Begun, j \notin cached'
               PROVE fw[j] \in {"applied", "failed"} /\ NoEvt(j)'
    OBVIOUS
  <2>1. CASE j \notin cached
    <3>1. fw[j] \in {"applied", "failed"} /\ NoEvt(j)
      BY <1>1, <2>1 DEF OrderInv
    <3>2. NoEvt(j)'
      BY <1>2, <1>3, <3>1 DEF NoEvt
    <3> QED
      BY <3>1, <3>2
  <2>2. CASE j \in cached
    <3>1. j # i /\ Seen(j)
      BY <2>2 DEF i, Seen
    <3>2. j <= i
      BY <1>1, <1>4, <3>1 DEF OrderInv
    <3>3. j < i
      BY <3>1, <3>2, <1>4, IdAssumption
    <3>4. fw[j] \in {"applied", "failed"}
      BY <1>1, <1>4, <1>7, <3>3 DEF OneCurrent
    <3>5. \A n \in DOMAIN evts' : evts'[n] # j
      <4>1. \A n \in DOMAIN evts : i <= evts[n] /\ evts[n] \in Nat
        BY <1>2, <1>7, IdAssumption
      <4>2. j \in Nat /\ i \in Nat
        BY <1>4, IdAssumption
      <4>3. \A n \in DOMAIN evts : evts[n] # j
        BY <3>3, <4>1, <4>2
      <4> SUFFICES ASSUME NEW n \in DOMAIN evts' PROVE evts'[n] # j
        OBVIOUS
      <4>4. evts'[n] = evts[n + 1] /\ n + 1 \in DOMAIN evts
        BY <1>3
      <4> QED
        BY <4>3, <4>4
    <3>6. NoEvt(j)'
      BY <1>2, <3>5 DEF NoEvt
    <3> QED
      BY <3>4, <3>6
  <2> QED
    BY <2>1, <2>2
<1> QED
  BY <1>5, <1>6, <1>8, <1>9 DEF OrderInv

\* submit_event, on a request that is known and on one that is not.
LEMMA SubmitKeeps ==
    ASSUME Inv, KeepInv, SubmitEvent
    PROVE  KeepInv'
<1> DEFINE i == Head(evts)
           e == Enqueued(rec[i])
           f == Enqueued(FreshRecord)
           p == Item("replay", i)
<1>1. evts # <<>> /\ evts' = Tail(evts) /\ UNCHANGED <<fw, worker>> /\ evts \in Seq(Id)
  BY DEF SubmitEvent, Inv, CoreTypes
<1>2. i \in Id /\ 1 \in DOMAIN evts /\ evts[1] = i
  BY <1>1, HeadTailProperties, EmptySeq, LenProperties, ElementOfSeq
<1> HIDE DEF i
<1>3. worker.at \in Begun => worker.id \in Id
  BY DEF Begun, Inv
<1>4. worker.at \in Begun /\ worker.id = i => i \in cached
  BY <1>1, <1>2, LenProperties DEF KeepInv, OrderInv, NoEvt
<1>5. /\ rec[i] \in Records
      /\ e.enqueued /\ e.stage = rec[i].stage /\ e.pending = rec[i].pending
      /\ e.retries = rec[i].retries /\ e.timer = rec[i].timer
  <2>1. rec[i] \in Records
    BY <1>2, LineHere
  <2> QED
    BY <2>1 DEF Enqueued, Records
<1>6. f.enqueued /\ f.stage = "queued" /\ f.retries = 0 /\ ~f.timer
  BY DEF Enqueued, FreshRecord
<1>7. /\ Original(i) \in QueueItems /\ Original(i).id = i
      /\ p \in QueueItems /\ p.kind # "original" /\ p.id = i
  BY <1>2 DEF Original, Item, QueueItems
<1> HIDE DEF e, f, p
<1>8. ASSUME NEW x \in {Original(i), p}, Room(queue), queue' = Append(queue, x)
      PROVE  \A n \in DOMAIN queue' : \A j \in Id : queue'[n].id = j => Seen(j) \/ j = i
  <2>1. /\ queue'[Len(queue) + 1] = x /\ \A n \in DOMAIN queue : queue'[n] = queue[n]
        /\ \A n \in DOMAIN queue' : n \in DOMAIN queue \/ n = Len(queue) + 1
    BY <1>7, <1>8, LineHere, Joined
  <2> QED
    BY <1>7, <1>8, <2>1, LineHere
<1>9. CASE SubmitKnown(i)
  <2>1. /\ i \in cached /\ cached' = cached
        /\ recency' = Append(Select(recency, cached \ {i}), i)
    BY <1>9 DEF SubmitKnown
  <2>2. \/ /\ Room(queue) /\ queue' = Append(queue, Original(i))
           /\ rec[i].stage = "queued" /\ ~rec[i].enqueued /\ rec' = [rec EXCEPT ![i] = e]
        \/ Room(queue) /\ queue' = Append(queue, p) /\ rec' = [rec EXCEPT ![i] = rec[i]]
        \/ UNCHANGED <<queue, rec>>
    BY <1>9 DEF SubmitKnown, Original, p, e
  <2>3. recency' \in Seq(Id) /\ IsInjective(recency') /\ ToSet(recency') = cached
    <3> DEFINE s == Select(recency, cached \ {i})
    <3>1. s \in Seq(Id) /\ IsInjective(s) /\ ToSet(s) = cached \ {i}
      BY LineHere, Selected
    <3> HIDE DEF s
    <3>2. i \notin ToSet(s) /\ ToSet(s) \cup {i} = cached
      BY <2>1, <3>1
    <3> QED
      BY <1>2, <2>1, <3>1, <3>2, LastInOrder DEF s
  <2>4. Len(recency') = Len(recency)
    <3>1. Cardinality(cached) = Len(recency')
      BY <2>3, SizeOfLine
    <3>2. Cardinality(cached) = Len(recency)
      BY LineHere, SizeOfLine
    <3> QED
      BY <3>1, <3>2
  <2>5. \A j \in Id : rec'[j] = rec[j] \/ (j = i /\ rec'[j] = e)
    BY <2>2, LineHere
  <2>6. \A j \in Id : /\ rec'[j].stage = rec[j].stage /\ rec'[j].pending = rec[j].pending
                      /\ rec'[j].retries = rec[j].retries /\ rec'[j].timer = rec[j].timer
    BY <1>5, <2>5
  <2>7. Line(queue', rec')
    <3>1. CASE /\ Room(queue) /\ queue' = Append(queue, Original(i))
               /\ rec[i].stage = "queued" /\ ~rec[i].enqueued /\ rec' = [rec EXCEPT ![i] = e]
      <4> DEFINE ss == [rec EXCEPT ![i] = e]
      <4>1. ss[i] = e /\ \A j \in Id : j # i => ss[j] = rec[j]
        BY <1>2, LineHere
      <4> HIDE DEF ss
      <4>2. \A j \in Id : j # i => /\ ss[j].enqueued <=> rec[j].enqueued
                                   /\ rec[j].enqueued => ss[j].stage = rec[j].stage
        BY <4>1
      <4>3. ss[i].enqueued /\ ss[i].stage = "queued"
        BY <1>5, <3>1, <4>1
      <4>4. Line(queue', ss)
        BY <1>2, <3>1, <4>2, <4>3, LineHere, JoinsOriginal
      <4> QED
        BY <3>1, <4>4 DEF ss
    <3>2. CASE Room(queue) /\ queue' = Append(queue, p) /\ rec' = [rec EXCEPT ![i] = rec[i]]
      <4>1. Line(queue', rec)
        BY <1>7, <3>2, LineHere, JoinsOther
      <4>2. rec' = rec
        BY <3>2, LineHere
      <4> QED
        BY <4>1, <4>2
    <3>3. CASE UNCHANGED <<queue, rec>>
      BY <3>3, LineHere
    <3> QED
      BY <2>2, <3>1, <3>2, <3>3
  <2>8. \A n \in DOMAIN queue' : \A j \in Id : queue'[n].id = j => Seen(j) \/ j = i
    BY <1>8, <2>2, LineHere
  <2>9. \A j \in Id : Seen(j)' => Seen(j) \/ j = i
    BY <1>1, <2>1, <2>6, <2>8 DEF Seen
  <2>10. OrderInv'
    <3>1. \A j \in Id : Seen(j)' => Seen(j) \/ j = Head(evts)
      BY <2>9 DEF i
    <3>2. \A j \in cached : j \notin cached' => Head(evts) \notin cached
      BY <2>1
    <3> QED
      BY <1>1, <3>1, <3>2, SubmitOrder
  <2>11. HeldInv'
    BY <1>1, <1>3, <2>6 DEF KeepInv, HeldInv
  <2>12. CacheInv'
    BY <2>1, <2>3 DEF CacheInv
  <2>13. TrimInv'
    <3>1. \A j \in cached : Evictable(rec'[j]) = Evictable(rec[j])
      BY <2>6, LineHere DEF Evictable
    <3> QED
      BY <1>1, <2>1, <2>4, <3>1 DEF KeepInv, TrimInv
  <2>14. BudgetInv'
    BY <2>6, LineHere DEF BudgetInv
  <2> QED
    BY <2>7, <2>10, <2>11, <2>12, <2>13, <2>14 DEF KeepInv
<1>10. CASE SubmitNew(i)
  <2> DEFINE rs == [rec EXCEPT ![i] = f]
  <2>1. i \notin cached /\ rec[i].stage = "terminal" /\ ~rec[i].enqueued
    BY <1>2, <1>10, LineHere DEF SubmitNew, Inv, UncachedOver, Line
  <2>2. CASE UNCHANGED <<queue, rec, cached, recency>>
    <3>1. \A j \in Id : Seen(j)' => Seen(j)
      BY <1>1, <2>2 DEF Seen
    <3>2. OrderInv'
      BY <1>1, <2>2, <3>1, SubmitOrder
    <3>3. HeldInv' /\ CacheInv' /\ TrimInv' /\ BudgetInv'
      BY <1>1, <2>2 DEF KeepInv, HeldInv, CacheInv, TrimInv, BudgetInv
    <3>4. Line(queue', rec')
      BY <2>2, LineHere
    <3> QED
      BY <3>2, <3>3, <3>4 DEF KeepInv
  <2>3. CASE /\ Room(queue) /\ queue' = Append(queue, Original(i))
             /\ TrimmedTo(rs, cached \cup {i}, Append(recency, i))
    <3>1. rs[i] = f /\ \A j \in Id : j # i => rs[j] = rec[j]
      BY <1>2, LineHere
    <3>2. TrimmedTo(rs, cached \cup {i}, Append(recency, i))
      BY <2>3
    <3> HIDE DEF rs
    <3>3. /\ Append(recency, i) \in Seq(Id) /\ IsInjective(Append(recency, i))
          /\ ToSet(Append(recency, i)) = cached \cup {i}
      BY <1>2, <2>1, LineHere, LastInOrder
    <3>4. /\ recency' \in Seq(Id) /\ IsInjective(recency') /\ ToSet(recency') = cached'
          /\ Len(recency') > CacheSize => \A j \in cached' : ~Evictable(rs[j])
      BY <3>2, <3>3, TrimmedLine
    <3>5. rec' = rs /\ cached' \subseteq cached \cup {i}
      BY <3>2 DEF TrimmedTo
    <3>6. CacheInv' /\ TrimInv'
      BY <3>4, <3>5 DEF CacheInv, TrimInv
    <3>7. Line(queue', rs)
      <4>1. \A j \in Id : j # i => /\ rs[j].enqueued <=> rec[j].enqueued
                                   /\ rec[j].enqueued => rs[j].stage = rec[j].stage
        BY <3>1
      <4>2. rs[i].enqueued /\ rs[i].stage = "queued"
        BY <1>6, <3>1
      <4> QED
        BY <1>2, <2>1, <2>3, <4>1, <4>2, LineHere, JoinsOriginal
    <3>8. \A n \in DOMAIN queue' : \A j \in Id : queue'[n].id = j => Seen(j) \/ j = i
      BY <1>8, <2>3
    <3>9. \A j \in Id : Seen(j)' => Seen(j) \/ j = i
      BY <1>1, <3>1, <3>5, <3>8 DEF Seen
    <3>10. OrderInv'
      <4>1. \A j \in Id : Seen(j)' => Seen(j) \/ j = Head(evts)
        BY <3>9 DEF i
      <4>2. Head(evts) \notin cached
        BY <2>1 DEF i
      <4> QED
        BY <1>1, <4>1, <4>2, SubmitOrder
    <3>11. HeldInv'
      BY <1>1, <1>3, <1>4, <2>1, <3>1, <3>5 DEF KeepInv, HeldInv
    <3>12. BudgetInv'
      BY <1>6, <3>1, <3>5, LineHere, SizeAssumption DEF BudgetInv
    <3>13. Line(queue', rec')
      BY <3>5, <3>7
    <3> QED
      BY <3>6, <3>10, <3>11, <3>12, <3>13 DEF KeepInv
  <2> QED
    BY <1>10, <2>2, <2>3 DEF SubmitNew, Original, f
<1> QED
  BY <1>9, <1>10 DEF SubmitEvent, i

\* Every step keeps the requests.
LEMMA NextKeeps == Inv /\ RestInv /\ KeepInv /\ [Next]_vars => KeepInv'
<1> SUFFICES ASSUME Inv, RestInv, KeepInv, [Next]_vars PROVE KeepInv'
  OBVIOUS
<1>1. CASE UNCHANGED vars
  BY <1>1 DEF vars, KeepInv, Line, HeldInv, OrderInv, Seen, NoEvt, CacheInv, TrimInv, BudgetInv
<1>2. CASE Daemon
  BY <1>2, WorkKeeps, ReadyItemsKeep DEF Daemon
<1> QED
  BY <1>1, <1>2, FirmwareKeeps, SubmitKeeps, TimersKeep, LinkLostKeeps, ReconnectKeeps,
     CrashKeeps DEF Next

\* At boot there is no request to keep.
LEMMA InitKeeps == Init => KeepInv /\ RestInv
<1> SUFFICES ASSUME Init PROVE KeepInv /\ RestInv
  OBVIOUS
<1>1. /\ rec = [i \in Id |-> NoRecord] /\ cached = {} /\ recency = <<>> /\ queue = <<>>
      /\ worker.id = NoId /\ worker.at \notin Begun /\ evts = <<>>
  BY DEF Init, At, Begun
<1>2. KeepInv
  BY <1>1, FreshKeeps
<1>3. NewClaim \in [pending : BOOLEAN, enqueued : BOOLEAN, retries : 0..MaxReadyRetries,
                    timer : BOOLEAN]
  <2> DEFINE Claims == [pending : BOOLEAN, enqueued : BOOLEAN, retries : 0..MaxReadyRetries,
                        timer : BOOLEAN]
  <2>1. 0 \in 0..MaxReadyRetries
    BY SizeAssumption
  <2>2. NoClaim \in Claims
    BY <2>1 DEF NoClaim
  <2> HIDE DEF NoClaim
  <2> QED
    BY <2>2 DEF NewClaim
<1>4. RestInv
  BY <1>3, SizeAssumption DEF Init, RestInv
<1> QED
  BY <1>2, <1>4

\* The firmware's tags, the link and the claim.
LEMMA NextRest == Inv /\ RestInv /\ [Next]_vars => RestInv'
<1> SUFFICES ASSUME Inv, RestInv, [Next]_vars PROVE RestInv'
  OBVIOUS
<1> DEFINE Claims == [pending : BOOLEAN, enqueued : BOOLEAN, retries : 0..MaxReadyRetries,
                      timer : BOOLEAN]
           idle == [ready EXCEPT !.timer = FALSE]
           sent == [idle EXCEPT !.enqueued = TRUE]
           taken == [ready EXCEPT !.enqueued = FALSE]
           resumed == [NewClaim EXCEPT !.enqueued = ready.enqueued]
<1>1. ready \in Claims /\ NoClaim \in Claims /\ NewClaim \in Claims
  <2>1. 0 \in 0..MaxReadyRetries
    BY SizeAssumption
  <2>2. NoClaim \in Claims
    BY <2>1 DEF NoClaim
  <2>3. [NoClaim EXCEPT !.pending = TRUE] \in Claims
    <3> HIDE DEF NoClaim
    <3> QED
      BY <2>2
  <2>4. ready \in Claims
    BY DEF RestInv
  <2> QED
    BY <2>2, <2>3, <2>4 DEF NewClaim
<1>r. ASSUME NEW c \in Claims PROVE ReadyRetryLater(c) \in Claims
  <2>1. CASE c.retries >= MaxReadyRetries
    BY <2>1 DEF ReadyRetryLater
  <2>2. CASE ~(c.retries >= MaxReadyRetries)
    <3>1. c.retries + 1 \in 0..MaxReadyRetries
      BY <2>2, SizeAssumption
    <3>2. [c EXCEPT !.retries = c.retries + 1, !.timer = TRUE] \in Claims
      BY <3>1
    <3> QED
      BY <3>2 DEF ReadyRetryLater
  <2> QED
    BY <2>1, <2>2
<1>s. /\ idle \in Claims /\ sent \in Claims /\ taken \in Claims /\ resumed \in Claims
      /\ ReadyRetryLater(idle) \in Claims /\ ReadyRetryLater(ready) \in Claims
  <2>1. idle \in Claims /\ taken \in Claims
    BY <1>1
  <2>2. resumed \in Claims
    BY <1>1
  <2>3. sent \in Claims
    <3> HIDE DEF idle
    <3> QED
      BY <2>1
  <2> HIDE DEF idle, Claims
  <2> QED
    BY <1>1, <1>r, <2>1, <2>2, <2>3
<1>2. ready' \in Claims
  <2> HIDE DEF Claims
  <2>1. CASE ReadyTimer
    <3>1. ready' = sent \/ ready' = ReadyRetryLater(idle)
      BY <2>1 DEF ReadyTimer
    <3> HIDE DEF idle, sent
    <3> QED
      BY <3>1, <1>s
  <2>2. CASE Reconnect
    <3>1. ready' = sent \/ ready' = ReadyRetryLater(idle) \/ ready' = ready
      BY <2>2 DEF Reconnect
    <3> HIDE DEF idle, sent
    <3> QED
      BY <3>1, <1>1, <1>s
  <2>3. CASE ItemReadyDone \/ ReportReadyDone
    BY <1>1, <1>s, <2>3 DEF ItemReadyDone, ReportReadyDone, ReadySettled
  <2>4. CASE SubmitEvent \/ TakeReady
    <3>1. ready' \in {NoClaim, ready, taken}
      BY <2>4 DEF SubmitEvent, TakeReady
    <3> HIDE DEF taken
    <3> QED
      BY <3>1, <1>1, <1>s
  <2>5. CASE Crash
    BY <1>1, <2>5 DEF Crash, FreshProcess
  <2>6. CASE \E i \in Id : ResumeReported(i)
    <3>1. ready' = resumed
      BY <2>6 DEF ResumeReported
    <3> HIDE DEF resumed
    <3> QED
      BY <3>1, <1>s
  <2>7. CASE UNCHANGED ready
    BY <1>1, <2>7
  <2>8. \/ ReadyTimer \/ Reconnect \/ ItemReadyDone \/ ReportReadyDone \/ SubmitEvent \/ TakeReady
        \/ Crash \/ (\E i \in Id : ResumeReported(i)) \/ UNCHANGED ready
    <3>1. CASE \E i \in Id : Work(i) /\ ~ResumeReported(i)
      BY <3>1 DEF Work, TakeReplay, TakeOriginal, Precheck, AcceptOk, AcceptError, HelperDone,
                  Reported, CommitReported, CommitOk, CommitError, RefuseReported, ReplayAcked,
                  ReplayError, StartHelper, RunDone, Final, FinalAcked
    <3>2. CASE Firmware \/ (\E i \in Id : AckTimer(i)) \/ LinkLost \/ UNCHANGED vars
      BY <3>2 DEF Firmware, FwIssue, FwRetransmit, FwGiveUp, AckTimer, LinkLost, vars
    <3> QED
      BY <3>1, <3>2 DEF Next, Daemon
  <2> HIDE DEF Claims
  <2> QED
    BY <2>1, <2>2, <2>3, <2>4, <2>5, <2>6, <2>7, <2>8
<1>3. base' \in Nat /\ snap' \in Nat
  <2>1. \/ base' = base /\ snap' \in {base, snap}
        \/ base' = boot /\ snap' = snap
    <3>1. CASE \E i \in Id : Work(i)
      BY <3>1 DEF Work, TakeReplay, TakeOriginal, Precheck, AcceptOk, AcceptError, HelperDone,
                  Reported, CommitReported, CommitOk, CommitError, RefuseReported, ReplayAcked,
                  ReplayError, StartHelper, RunDone, Final, FinalAcked, ResumeReported,
                  AckOk, AckError, FwAck, FwIgnores, fwVars
    <3>2. CASE Firmware \/ SubmitEvent \/ (\E i \in Id : AckTimer(i)) \/ ReadyTimer
               \/ Reconnect \/ TakeReady \/ UNCHANGED vars
      BY <3>2 DEF Firmware, FwIssue, FwRetransmit, FwGiveUp, SubmitEvent, AckTimer, ReadyTimer,
                  Reconnect, TakeReady, vars
    <3>3. CASE ItemReadyDone \/ ReportReadyDone
      BY <3>3 DEF ItemReadyDone, ReportReadyDone, ReadySettled, FwReady, FwIgnores, fwVars
    <3>4. CASE LinkLost \/ Crash
      BY <3>4 DEF LinkLost, Crash, FwReceives, FwAck, FwReady, FwIgnores, fwVars
    <3> QED
      BY <3>1, <3>2, <3>3, <3>4 DEF Next, Daemon
  <2> QED
    BY <2>1 DEF RestInv
<1>4. /\ boot' \in Nat \ {0} /\ faults' \in 0..MaxFaults /\ Len(evts') <= MaxEvts
      /\ link' \in {"up", "down"} /\ (link' = "down" => worker'.at = "stopped")
  <2>1. CASE \E i \in Id : Work(i)
    <3>1. UNCHANGED <<boot, faults, evts, link>> /\ worker.at # "stopped"
      BY <2>1 DEF Work, TakeReplay, TakeOriginal, Precheck, AcceptOk, AcceptError, HelperDone,
                  Reported, CommitReported, CommitOk, CommitError, RefuseReported, ReplayAcked,
                  ReplayError, StartHelper, RunDone, Final, FinalAcked, ResumeReported, At
    <3> QED
      BY <3>1 DEF RestInv
  <2>2. CASE TakeReady \/ ItemReadyDone \/ ReportReadyDone
    <3>1. UNCHANGED <<boot, faults, evts, link>> /\ worker.at # "stopped"
      BY <2>2 DEF TakeReady, ItemReadyDone, ReportReadyDone
    <3> QED
      BY <3>1 DEF RestInv
  <2>3. CASE (\E i \in Id : AckTimer(i)) \/ ReadyTimer \/ UNCHANGED vars
    BY <2>3 DEF AckTimer, ReadyTimer, vars, RestInv
  <2>4. CASE Firmware
    <3>1. UNCHANGED <<boot, faults, link, worker>>
      BY <2>4 DEF Firmware, FwIssue, FwRetransmit, FwGiveUp
    <3>2. PICK i \in Id : evts' = evts \/ (Len(evts) < MaxEvts /\ evts' = Append(evts, i))
      BY <2>4 DEF Firmware, FwIssue, FwRetransmit, FwGiveUp
    <3>3. Len(evts) \in Nat /\ Len(Append(evts, i)) = Len(evts) + 1
      BY AppendProperties, LenProperties DEF Inv, CoreTypes
    <3> QED
      BY <3>1, <3>2, <3>3, SizeAssumption DEF RestInv
  <2>5. CASE SubmitEvent
    <3>1. UNCHANGED <<boot, faults, link, worker>> /\ evts # <<>> /\ evts' = Tail(evts)
      BY <2>5 DEF SubmitEvent
    <3>2. Len(evts) \in Nat /\ Len(Tail(evts)) = Len(evts) - 1
      BY <3>1, HeadTailProperties, LenProperties DEF Inv, CoreTypes
    <3> QED
      BY <3>1, <3>2, SizeAssumption DEF RestInv
  <2>6. CASE LinkLost
    BY <2>6, SizeAssumption DEF LinkLost, At, RestInv
  <2>7. CASE Reconnect
    BY <2>7 DEF Reconnect, RestInv
  <2>8. CASE Crash
    BY <2>8, SizeAssumption DEF Crash, FreshProcess, At, RestInv
  <2> QED
    BY <2>1, <2>2, <2>3, <2>4, <2>5, <2>6, <2>7, <2>8 DEF Next, Daemon
<1> QED
  BY <1>2, <1>3, <1>4 DEF RestInv

\* The requests are kept, in the same steps as the helper runs at most once.
THEOREM Keeping == Spec => [](Inv /\ KeepInv /\ RestInv)
<1>1. Init => Inv /\ KeepInv /\ RestInv
  BY InitInv, InitKeeps
<1>2. (Inv /\ KeepInv /\ RestInv) /\ [Next]_vars => (Inv /\ KeepInv /\ RestInv)'
  BY NextKeepsInv, NextKeeps, NextRest
<1> QED
  BY <1>1, <1>2, PTL DEF Spec

\* TypeOK, with the order of the cache, the queue's contents and every budget.
THEOREM TypeCorrect == Spec => []TypeOK
<1>1. Inv /\ KeepInv /\ RestInv => TypeOK
  <2> SUFFICES ASSUME Inv, KeepInv, RestInv PROVE TypeOK
    OBVIOUS
  <2>1. rec \in [Id -> [stage : Stages, ack : Acks, pending : BOOLEAN,
                        retries : 0..MaxAckRetries, timer : BOOLEAN,
                        started : BOOLEAN, enqueued : BOOLEAN]]
    <3>1. \A i \in Id : rec[i] \in Records /\ rec[i].retries \in 0..MaxAckRetries
      BY LineHere, SizeAssumption DEF Records
    <3>2. \A i \in Id : rec[i] \in [stage : Stages, ack : Acks, pending : BOOLEAN,
                                    retries : 0..MaxAckRetries, timer : BOOLEAN,
                                    started : BOOLEAN, enqueued : BOOLEAN]
      BY <3>1 DEF Records
    <3> QED
      BY <3>2, LineHere
  <2>2. /\ queue \in Seq([kind : {"original", "replay"}, id : Id] \cup {Item("ready", NoId)})
        /\ Len(queue) <= QueueSize
    BY LineHere DEF QueueItems
  <2>3. recency \in Seq(Id) /\ ToSet(recency) = cached /\ IsInjective(recency)
    BY LineHere
  <2>4. /\ fw \in [Id -> FwStates] /\ evts \in Seq(Id) /\ cached \subseteq Id
        /\ worker.at \in Places /\ worker.id \in Id \cup {NoId} /\ runs \in [Id -> Nat]
    BY DEF Inv, CoreTypes
  <2> QED
    BY <2>1, <2>2, <2>3, <2>4 DEF TypeOK, RestInv
<1> QED
  BY <1>1, Keeping, PTL

\* RequestsKept: whatever is retransmitted, lost or replayed, a request has one
\* original in the queue exactly while its record says so, is not forgotten
\* while it may execute, and does not stay in a cache that is over its size
\* once it may be forgotten (_requeue_record, _trim_records).
THEOREM KeptWhileLive == Spec => []RequestsKept
<1>1. Inv /\ KeepInv => RequestsKept
  <2> SUFFICES ASSUME Inv, KeepInv PROVE RequestsKept
    OBVIOUS
  <2>1. \A i \in Id : rec[i].enqueued => i \in cached
    BY LineHere DEF Line, Inv, UncachedOver
  <2>2. \A i \in Id : Positions(Original(i)) = {} <=> ~rec[i].enqueued
    BY LineHere DEF Line, Positions
  <2>3. SingleOriginal
    <3> SUFFICES ASSUME NEW i \in Id
                 PROVE  Cardinality(Positions(Original(i)))
                          = IF i \in cached /\ rec[i].enqueued THEN 1 ELSE 0
      BY DEF SingleOriginal, Original
    <3>1. CASE rec[i].enqueued
      <4>1. PICK n \in DOMAIN queue : queue[n] = Original(i)
        BY <3>1, LineHere DEF Line
      <4>2. \A m \in DOMAIN queue : queue[m] = Original(i) => m = n
        BY <4>1, LineHere DEF Line, Original, Item
      <4>3. Positions(Original(i)) = {n}
        BY <4>1, <4>2 DEF Positions
      <4> QED
        BY <2>1, <3>1, <4>3, FS_Singleton
    <3>2. CASE ~rec[i].enqueued
      BY <2>2, <3>2, FS_EmptySet
    <3> QED
      BY <3>1, <3>2
  <2>4. LiveRecordsCached
    BY <2>1, <2>2 DEF LiveRecordsCached, Original, Inv, UncachedOver
  <2>5. CacheBounded
    BY DEF CacheBounded, KeepInv, TrimInv
  <2> QED
    BY <2>3, <2>4, <2>5 DEF RequestsKept
<1> QED
  BY <1>1, Keeping, PTL

===========================================================================
