--------------------------- MODULE PowerControl ---------------------------
(* The host-power control plane of ai-service/hw1_ai_service/power.py:      *)
(* PowerController's bounded event queue, request cache, acknowledgement    *)
(* FSM, callback retries and boot-ready claim, together with the part of    *)
(* the firmware's request latch those callbacks drive (external).           *)
(*                                                                          *)
(* One UART line in flight is one value of worker.at; LinkLost and Crash    *)
(* may overtake it, in which case the line may or may not have arrived.     *)
EXTENDS Naturals, Sequences, FiniteSets, Orders

CONSTANTS
    Id,             \* request IDs, an initial segment 1..N in firmware issue order
    Kind,           \* what each request asks for
    Enabled,        \* power.enabled
    AllowSuspend,   \* power.allow_suspend
    Retransmit,     \* latch states in which the firmware still repeats an EVT
    QueueSize,      \* power.event_queue_size
    CacheSize,      \* power.request_cache_size
    MaxAckRetries,  \* length of _ACK_RETRY_DELAYS_S
    MaxReadyRetries,\* length of _READY_RETRY_DELAYS_S
    MaxEvts,        \* bound: EVT frames in flight at once
    MaxFaults       \* bound: link losses, daemon crashes and host reboots

Kinds == {"status", "profile", "reboot", "suspend", "sleep"}
Disruptive == {"reboot", "suspend", "sleep"}

ASSUME IdAssumption == Id \subseteq Nat \ {0}
ASSUME KindAssumption == Kind \in [Id -> Kinds]
ASSUME RetransmitAssumption == Retransmit \subseteq {"pending", "accepted"}
ASSUME FlagAssumption == Enabled \in BOOLEAN /\ AllowSuspend \in BOOLEAN
ASSUME SizeAssumption ==
    /\ QueueSize \in Nat \ {0}
    /\ CacheSize \in Nat /\ QueueSize <= CacheSize
    /\ MaxAckRetries \in Nat /\ MaxReadyRetries \in Nat
    /\ MaxEvts \in Nat /\ MaxFaults \in Nat

VARIABLES
    fw,       \* firmware latch of every request
    base,     \* boot tag the firmware holds as its baseline, 0 before the first
    snap,     \* boot tag the firmware took when it accepted its current request
    evts,     \* EVT frames between the firmware and submit_event, oldest first
    link,     \* "up", or "down" between LinkClosed and the supervisor's reconnect
    rec,      \* the last _Record of every request, NoRecord before the first
    cached,   \* keys of _records
    recency,  \* the same keys in OrderedDict order, oldest first
    queue,    \* _queue
    worker,   \* where run() (or start()) is suspended, and on which record
    ready,    \* _ready_pending, _ready_enqueued, _ready_retry_count, timer armed
    boot,     \* Linux boot tag of the running kernel
    runs,     \* times a disruptive helper was invoked for a request
    faults    \* faults used so far

fwVars == <<fw, base, snap>>
recVars == <<rec, cached, recency>>
envVars == <<boot, runs, faults>>
vars == <<fw, base, snap, evts, link, rec, cached, recency, queue, worker, ready,
          boot, runs, faults>>

FwStates == {"idle", "pending", "accepted", "committed", "applied", "failed"}
Stages == {"queued", "in_flight", "accepted", "committed", "terminal"}
Places == {"startReady", "idle", "itemReady", "resumeReady", "replay",
           "precheck", "accept", "helper", "report", "refuse", "commitReport",
           "commit", "lock", "run", "final", "resumeReport", "stopped"}
Acks == {"none", "accepted", "committed", "applied", "failed"}

NoId == 0
FreshRecord == [stage |-> "queued", ack |-> "none", pending |-> FALSE,
                retries |-> 0, timer |-> FALSE, started |-> FALSE,
                enqueued |-> FALSE]
\* Stands in the table for a request with no record, done with like an evicted one.
NoRecord == [FreshRecord EXCEPT !.stage = "terminal"]
NoClaim == [pending |-> FALSE, enqueued |-> FALSE, retries |-> 0, timer |-> FALSE]
NewClaim == [NoClaim EXCEPT !.pending = TRUE]

At(place, i) == [at |-> place, id |-> i]
Idle == At("idle", NoId)
Item(kind, i) == [kind |-> kind, id |-> i]

---------------------------------------------------------------------------
(* The queue, the cache and the retry timers.                              *)

Room(q) == Len(q) < QueueSize

\* put_nowait of several items in order: those past the bound are dropped.
EnqueueAll(q, items) == SubSeq(q \o items, 1, IF Len(q \o items) > QueueSize
                                              THEN QueueSize ELSE Len(q \o items))

\* Mutant: the cache evicts by age and delivery alone.
EvictableWhenDelivered(r) == ~r.pending

Evictable(r) == r.stage = "terminal" /\ ~r.pending

\* The oldest evictable records, as many as the cache is over its size.
Victims(rs, order) ==
    {order[n] : n \in {m \in DOMAIN order :
        /\ Evictable(rs[order[m]])
        /\ Cardinality({k \in 1..m : Evictable(rs[order[k]])})
             <= Len(order) - CacheSize}}

\* Install rs and order as the cache, trimmed to its size.
TrimmedTo(rs, keys, order) ==
    /\ rec' = rs
    /\ cached' = keys \ Victims(rs, order)
    /\ recency' = Select(order, keys \ Victims(rs, order))

CachedAck(r, a) ==
    IF r.ack = a THEN [r EXCEPT !.pending = TRUE]
    ELSE [r EXCEPT !.ack = a, !.pending = TRUE, !.retries = 0, !.timer = FALSE]

AckDelivered(r) == [r EXCEPT !.pending = FALSE, !.retries = 0, !.timer = FALSE]

\* Mutant: no retry budget.
AckRetryForever(r) ==
    IF ~r.pending \/ r.timer THEN r ELSE [r EXCEPT !.retries = @ + 1, !.timer = TRUE]

AckRetryLater(r) ==
    IF ~r.pending \/ r.timer \/ r.retries >= MaxAckRetries THEN r
    ELSE [r EXCEPT !.retries = @ + 1, !.timer = TRUE]

ReadyRetryLater(c) ==
    IF ~c.pending \/ c.enqueued \/ c.timer \/ c.retries >= MaxReadyRetries THEN c
    ELSE [c EXCEPT !.retries = @ + 1, !.timer = TRUE]

\* Mutant: reconnect resumes committed transitions only.
OwedWhenCommitted(r) == r.stage = "committed" /\ ~r.started

\* _replay_record_callbacks: requeue stranded originals, then every
\* acknowledgement still owed, each newest first.
Owed(r) ==
    /\ r.ack # "none"
    /\ r.pending \/ (r.stage = "committed" /\ ~r.started)

Stranded(r) == r.stage = "queued" /\ ~r.enqueued

Flushed(q) ==
    LET newest == Reverse(recency)
        Items(kind, ids) == [n \in DOMAIN ids |-> Item(kind, ids[n])]
    IN  EnqueueAll(q, Items("original", Select(newest, {i \in cached : Stranded(rec[i])}))
                      \o Items("replay", Select(newest, {i \in cached : Owed(rec[i])})))

Requeued(q) ==
    [i \in Id |-> IF i \in cached /\ Stranded(rec[i])
                     /\ \E n \in DOMAIN q : q[n] = Item("original", i)
                  THEN [rec[i] EXCEPT !.enqueued = TRUE] ELSE rec[i]]

ReplayCallbacks(q) == queue' = Flushed(q) /\ rec' = Requeued(Flushed(q))

---------------------------------------------------------------------------
(* The firmware's latch (external): what each authenticated callback does.  *)

CanAck(i, a) ==
    CASE a = "accepted"  -> fw[i] \in {"pending", "accepted"}
      [] a = "committed" -> fw[i] \in {"accepted", "committed"}
      [] a = "applied"   -> fw[i] \in {"accepted", "committed", "applied"}
      [] a = "failed"    -> fw[i] \in {"pending", "accepted", "committed", "failed"}
      [] OTHER           -> FALSE

FwAck(i, a) ==
    /\ CanAck(i, a)
    /\ fw' = [fw EXCEPT ![i] = a]
    /\ snap' = IF fw[i] = "pending" THEN base ELSE snap
    /\ UNCHANGED base

\* An id=0 awake report: a same-boot claim fails what was only accepted, a
\* changed boot tag completes what was committed.
FwReady ==
    /\ fw' = [i \in Id |->
           IF Kind[i] \notin Disruptive THEN fw[i]
           ELSE IF fw[i] = "accepted" THEN "failed"
           ELSE IF fw[i] = "committed" /\ snap # boot THEN "applied"
           ELSE fw[i]]
    /\ base' = boot
    /\ UNCHANGED snap

SendingAck == {"replay", "accept", "commit", "final"}
SendingReady == {"startReady", "itemReady", "resumeReady"}

\* The firmware handles the line in flight, if it is a callback it acts on.
FwReceives ==
    \/ worker.at \in SendingAck /\ FwAck(worker.id, rec[worker.id].ack)
    \/ worker.at \in SendingReady /\ FwReady

\* The line was lost, rejected, or carries nothing the latch depends on.
FwIgnores == UNCHANGED fwVars

\* An OK reply: handled, and every EVT the firmware sent before it was already
\* routed, because frames and replies share one serial stream. An Error reply
\* or a timeout: Session gives up on it, handled or not.
AckOk(i) == evts = <<>> /\ FwAck(i, rec[i].ack)
AckError(i) == FwAck(i, rec[i].ack) \/ FwIgnores

FwIssue(i) ==
    /\ fw[i] = "idle"
    /\ \A j \in Id : j < i => fw[j] \in {"applied", "failed"}
    /\ Kind[i] \in Disruptive => base # 0
    /\ link = "up" /\ Len(evts) < MaxEvts
    /\ fw' = [fw EXCEPT ![i] = "pending"]
    /\ evts' = Append(evts, i)
    /\ UNCHANGED <<base, snap, link, rec, cached, recency, queue, worker, ready,
                   boot, runs, faults>>

FwRetransmit(i) ==
    /\ fw[i] \in Retransmit
    /\ link = "up" /\ Len(evts) < MaxEvts
    /\ evts' = Append(evts, i)
    /\ UNCHANGED <<fw, base, snap, link, rec, cached, recency, queue, worker,
                   ready, boot, runs, faults>>

\* The firmware's bounded window closes on a request it may still abandon.
FwGiveUp(i) ==
    /\ fw[i] = "pending" \/ (fw[i] = "accepted" /\ Kind[i] \notin Disruptive)
    /\ fw' = [fw EXCEPT ![i] = "failed"]
    /\ UNCHANGED <<base, snap, evts, link, rec, cached, recency, queue, worker,
                   ready, boot, runs, faults>>

---------------------------------------------------------------------------
(* submit_event, on the oldest EVT frame the pump delivers.                 *)

Enqueued(r) == [r EXCEPT !.enqueued = TRUE]

\* A request ID still cached is never executed again: a queued one is put
\* back if it had lost its place, any other one has its reply repeated.
SubmitKnown(i) ==
    /\ i \in cached
    /\ recency' = Append(Select(recency, cached \ {i}), i)
    /\ LET lost == rec[i].stage = "queued" /\ ~rec[i].enqueued
           item == IF rec[i].stage = "queued" THEN Item("original", i)
                                              ELSE Item("replay", i)
       IN  IF Room(queue) /\ (lost \/ rec[i].stage # "queued")
           THEN /\ queue' = Append(queue, item)
                /\ rec' = [rec EXCEPT ![i] = IF lost THEN Enqueued(@) ELSE @]
           ELSE UNCHANGED <<queue, rec>>
    /\ UNCHANGED cached

SubmitNew(i) ==
    /\ i \notin cached
    /\ IF Room(queue)
       THEN /\ queue' = Append(queue, Item("original", i))
            /\ TrimmedTo([rec EXCEPT ![i] = Enqueued(FreshRecord)],
                         cached \cup {i}, Append(recency, i))
       ELSE UNCHANGED <<queue, rec, cached, recency>>

\* Every destructive event retires a boot-ready claim not yet delivered.
SubmitEvent ==
    /\ link = "up" /\ evts # <<>>
    /\ evts' = Tail(evts)
    /\ ready' = IF Kind[Head(evts)] \in Disruptive THEN NoClaim ELSE ready
    /\ SubmitKnown(Head(evts)) \/ SubmitNew(Head(evts))
    /\ UNCHANGED <<fw, base, snap, link, worker, boot, runs, faults>>

---------------------------------------------------------------------------
(* run(): one queue item at a time, each await a location of its own.       *)

\* The worker goes to place with record i now r; an item that ends trims the
\* cache on its way out.
Continue(i, r, place) ==
    /\ worker' = At(place, i)
    /\ rec' = [rec EXCEPT ![i] = r]
    /\ UNCHANGED <<cached, recency>>

EndItem(i, r) ==
    /\ worker' = Idle
    /\ TrimmedTo([rec EXCEPT ![i] = r], cached, recency)

\* _fail: the failed ACK is cached before the best-effort error report.
Fail(i, r) ==
    Continue(i, CachedAck([r EXCEPT !.stage = "terminal"], "failed"), "refuse")

TakeReady ==
    /\ worker.at = "idle" /\ queue # <<>> /\ Head(queue).kind = "ready"
    /\ queue' = Tail(queue)
    /\ ready' = [ready EXCEPT !.enqueued = FALSE]
    /\ IF ready.pending
       THEN worker' = At("itemReady", NoId) /\ UNCHANGED recVars
       ELSE worker' = Idle /\ TrimmedTo(rec, cached, recency)
    /\ UNCHANGED <<fw, base, snap, evts, link, boot, runs, faults>>

Replay(i, r) ==
    IF r.ack = "none" THEN EndItem(i, r)
    ELSE Continue(i, [r EXCEPT !.pending = TRUE], "replay")

TakeReplay(i) ==
    /\ worker.at = "idle" /\ queue # <<>> /\ Head(queue) = Item("replay", i)
    /\ queue' = Tail(queue)
    /\ Replay(i, rec[i])
    /\ UNCHANGED <<fw, base, snap, evts, link, ready, boot, runs, faults>>

\* _execute_record up to its first await.
Execute(i, was) ==
    LET r == [was EXCEPT !.stage = "in_flight"]
    IN  IF ~Enabled \/ (Kind[i] = "suspend" /\ ~AllowSuspend) THEN Fail(i, r)
        ELSE IF Kind[i] \in {"suspend", "sleep"} THEN Continue(i, r, "precheck")
        ELSE Continue(i, CachedAck(r, "accepted"), "accept")

TakeOriginal(i) ==
    /\ worker.at = "idle" /\ queue # <<>> /\ Head(queue) = Item("original", i)
    /\ queue' = Tail(queue)
    /\ LET r == [rec[i] EXCEPT !.enqueued = FALSE]
       IN  IF r.stage = "queued" THEN Execute(i, r) ELSE Replay(i, r)
    /\ UNCHANGED <<fw, base, snap, evts, link, ready, boot, runs, faults>>

\* The helper's capability readback for suspend and timed sleep.
Precheck(i) ==
    /\ worker = At("precheck", i)
    /\ \/ Continue(i, CachedAck(rec[i], "accepted"), "accept")
       \/ Fail(i, rec[i])
    /\ UNCHANGED <<fw, base, snap, evts, link, queue, ready, boot, runs, faults>>

AcceptOk(i) ==
    /\ worker = At("accept", i) /\ AckOk(i)
    /\ Continue(i, [AckDelivered(rec[i]) EXCEPT !.stage = "accepted"],
                IF Kind[i] \in Disruptive THEN "commitReport" ELSE "helper")
    /\ UNCHANGED <<evts, link, queue, ready, boot, runs, faults>>

\* No confirmed acceptance: terminal, and a failed ACK in its stead.
AcceptError(i) ==
    /\ worker = At("accept", i) /\ AckError(i)
    /\ Continue(i, CachedAck([AckRetryLater(rec[i]) EXCEPT !.stage = "terminal"],
                             "failed"), "replay")
    /\ UNCHANGED <<evts, link, queue, ready, boot, runs, faults>>

\* Status readback or profile write. A profile is terminal before its report.
HelperDone(i) ==
    /\ worker = At("helper", i)
    /\ \/ Continue(i, [rec[i] EXCEPT !.stage = IF Kind[i] = "profile"
                                               THEN "terminal" ELSE @], "report")
       \/ Fail(i, rec[i])
    /\ UNCHANGED <<fw, base, snap, evts, link, queue, ready, boot, runs, faults>>

Reported(i) ==
    /\ worker = At("report", i)
    /\ Continue(i, CachedAck([rec[i] EXCEPT !.stage = "terminal"], "applied"), "final")
    /\ UNCHANGED <<fw, base, snap, evts, link, queue, ready, boot, runs, faults>>

\* Mutant: the helper is authorised by Accepted alone.
CommitReportedRuns(i) ==
    /\ worker = At("commitReport", i)
    /\ Continue(i, [rec[i] EXCEPT !.stage = "committed"], "lock")
    /\ UNCHANGED <<fw, base, snap, evts, link, queue, ready, boot, runs, faults>>

\* The transition report answered, whatever the answer: cross into Committed.
CommitReported(i) ==
    /\ worker = At("commitReport", i)
    /\ Continue(i, CachedAck([rec[i] EXCEPT !.stage = "committed"], "committed"),
                "commit")
    /\ UNCHANGED <<fw, base, snap, evts, link, queue, ready, boot, runs, faults>>

CommitOk(i) ==
    /\ worker = At("commit", i) /\ AckOk(i)
    /\ Continue(i, AckDelivered(rec[i]), "lock")
    /\ UNCHANGED <<evts, link, queue, ready, boot, runs, faults>>

\* Mutant: the reply to Committed is not looked at.
CommitErrorRuns(i) ==
    /\ worker = At("commit", i) /\ AckError(i)
    /\ Continue(i, AckRetryLater(rec[i]), "lock")
    /\ UNCHANGED <<evts, link, queue, ready, boot, runs, faults>>

CommitError(i) ==
    /\ worker = At("commit", i) /\ AckError(i)
    /\ Fail(i, AckRetryLater(rec[i]))
    /\ UNCHANGED <<evts, link, queue, ready, boot, runs, faults>>

RefuseReported(i) ==
    /\ worker = At("refuse", i)
    /\ Continue(i, [rec[i] EXCEPT !.pending = TRUE], "replay")
    /\ UNCHANGED <<fw, base, snap, evts, link, queue, ready, boot, runs, faults>>

\* A confirmed replay of Committed resumes a transition never started.
ReplayAcked(i) ==
    /\ worker = At("replay", i) /\ AckOk(i)
    /\ IF rec[i].stage = "committed" /\ ~rec[i].started
       THEN Continue(i, AckDelivered(rec[i]), "lock")
       ELSE EndItem(i, AckDelivered(rec[i]))
    /\ UNCHANGED <<evts, link, queue, ready, boot, runs, faults>>

ReplayError(i) ==
    /\ worker = At("replay", i) /\ AckError(i)
    /\ EndItem(i, AckRetryLater(rec[i]))
    /\ UNCHANGED <<evts, link, queue, ready, boot, runs, faults>>

\* Mutant: execution_started is never set.
StartHelperUnmarked(i) ==
    /\ worker = At("lock", i)
    /\ Continue(i, rec[i], "run")
    /\ runs' = [runs EXCEPT ![i] = @ + 1]
    /\ UNCHANGED <<fw, base, snap, evts, link, queue, ready, boot, faults>>

\* The helper lock is granted: execution starts, and cannot be taken back.
StartHelper(i) ==
    /\ worker = At("lock", i)
    /\ Continue(i, [rec[i] EXCEPT !.started = TRUE], "run")
    /\ runs' = [runs EXCEPT ![i] = @ + 1]
    /\ UNCHANGED <<fw, base, snap, evts, link, queue, ready, boot, faults>>

\* Mutant: a failed helper is reported as a failed request.
RunDoneFails(i) ==
    /\ worker = At("run", i)
    /\ Fail(i, rec[i])
    /\ UNCHANGED <<fw, base, snap, evts, link, queue, ready, boot, runs, faults>>

\* A failed helper leaves the transition Committed and its outcome uncertain.
RunDone(i) ==
    /\ worker = At("run", i)
    /\ \/ Continue(i, CachedAck([rec[i] EXCEPT !.stage = "terminal"], "applied"),
                    "final")
       \/ EndItem(i, rec[i])
    /\ UNCHANGED <<fw, base, snap, evts, link, queue, ready, boot, runs, faults>>

FinalAcked(i, r) ==
    /\ IF Kind[i] = "suspend" THEN Continue(i, r, "resumeReport") ELSE EndItem(i, r)
    /\ UNCHANGED <<evts, link, queue, ready, boot, runs, faults>>

Final(i) ==
    /\ worker = At("final", i)
    /\ \/ AckOk(i) /\ FinalAcked(i, AckDelivered(rec[i]))
       \/ AckError(i) /\ FinalAcked(i, AckRetryLater(rec[i]))

\* The request-correlated awake report, then report_ready for the resume.
ResumeReported(i) ==
    /\ worker = At("resumeReport", i)
    /\ worker' = At("resumeReady", i)
    /\ ready' = [NewClaim EXCEPT !.enqueued = ready.enqueued]
    /\ UNCHANGED <<fw, base, snap, evts, link, rec, cached, recency, queue, boot,
                   runs, faults>>

---------------------------------------------------------------------------
(* The boot-ready claim.                                                    *)

ReadySettled ==
    \/ evts = <<>> /\ FwReady /\ ready' = NoClaim
    \/ (FwReady \/ FwIgnores) /\ ready' = ReadyRetryLater(ready)

ItemReadyDone ==
    /\ worker.at = "itemReady" /\ ReadySettled
    /\ worker' = Idle /\ TrimmedTo(rec, cached, recency)
    /\ UNCHANGED <<evts, link, queue, boot, runs, faults>>

\* The tail of report_ready, from start() or after a resume, which ends its item.
ReportReadyDone ==
    /\ worker.at \in {"startReady", "resumeReady"} /\ ReadySettled
    /\ worker' = Idle
    /\ queue' = Flushed(queue)
    /\ IF worker.at = "resumeReady"
       THEN TrimmedTo(Requeued(queue'), cached, recency)
       ELSE rec' = Requeued(queue') /\ UNCHANGED <<cached, recency>>
    /\ UNCHANGED <<evts, link, boot, runs, faults>>

ReadyTimer ==
    /\ ready.timer
    /\ LET c == [ready EXCEPT !.timer = FALSE]
       IN  IF c.pending /\ ~c.enqueued /\ Room(queue)
           THEN /\ ready' = [c EXCEPT !.enqueued = TRUE]
                /\ queue' = Append(queue, Item("ready", NoId))
           ELSE ready' = ReadyRetryLater(c) /\ UNCHANGED queue
    /\ UNCHANGED <<fw, base, snap, evts, link, rec, cached, recency, worker, boot,
                   runs, faults>>

AckTimer(i) ==
    /\ rec[i].timer
    /\ LET r == [rec[i] EXCEPT !.timer = FALSE]
       IN  IF r.pending /\ Room(queue)
           THEN /\ queue' = Append(queue, Item("replay", i))
                /\ rec' = [rec EXCEPT ![i] = r]
           ELSE rec' = [rec EXCEPT ![i] = AckRetryLater(r)] /\ UNCHANGED queue
    /\ UNCHANGED <<fw, base, snap, evts, link, cached, recency, worker, ready, boot,
                   runs, faults>>

---------------------------------------------------------------------------
(* Link loss, reconnect, daemon crash and host reboot.                      *)

\* What the interrupted coroutine's handlers do to the record it held: what
\* was never started goes back to the queue, if there is room.
Recoverable(r) == ~r.started /\ r.stage \in {"in_flight", "accepted"}

RecoverUnaccepted ==
    LET i == worker.id
    IN  IF i # NoId /\ Recoverable(rec[i])
        THEN LET r == [rec[i] EXCEPT !.stage = "queued"]
             IN  IF Room(queue)
                 THEN /\ queue' = Append(queue, Item("original", i))
                      /\ TrimmedTo([rec EXCEPT ![i] = Enqueued(r)], cached, recency)
                 ELSE /\ TrimmedTo([rec EXCEPT ![i] = r], cached, recency)
                      /\ UNCHANGED queue
        ELSE UNCHANGED queue /\ TrimmedTo(rec, cached, recency)

LinkLost ==
    /\ faults < MaxFaults
    /\ link = "up" /\ worker.at # "startReady"
    /\ FwReceives \/ FwIgnores
    /\ link' = "down" /\ evts' = <<>> /\ worker' = At("stopped", NoId)
    /\ RecoverUnaccepted
    /\ faults' = faults + 1
    /\ UNCHANGED <<ready, boot, runs>>

\* Reopen, log in, replay_pending_callbacks, and run() starts over.
Reconnect ==
    /\ link = "down"
    /\ link' = "up" /\ worker' = Idle
    /\ IF ready.pending /\ ~ready.enqueued
       THEN LET c == [ready EXCEPT !.timer = FALSE]
            IN  IF Room(queue)
                THEN /\ ready' = [c EXCEPT !.enqueued = TRUE]
                     /\ ReplayCallbacks(Append(queue, Item("ready", NoId)))
                ELSE ready' = ReadyRetryLater(c) /\ ReplayCallbacks(queue)
       ELSE UNCHANGED ready /\ ReplayCallbacks(queue)
    /\ UNCHANGED <<fw, base, snap, evts, cached, recency, boot, runs, faults>>

\* A new daemon process, at the boot-ready claim of its start(): nothing of the
\* controller is persisted, and no EVT is routed before start() reports.
FreshProcess ==
    /\ rec' = [i \in Id |-> NoRecord]
    /\ cached' = {} /\ recency' = <<>> /\ queue' = <<>>
    /\ worker' = At("startReady", NoId) /\ ready' = NewClaim
    /\ link' = "up" /\ evts' = <<>>

Crash ==
    /\ faults < MaxFaults
    /\ FwReceives \/ FwIgnores
    /\ FreshProcess
    /\ boot' \in {boot, boot + 1}
    /\ faults' = faults + 1
    /\ UNCHANGED runs

---------------------------------------------------------------------------

Init ==
    /\ fw = [i \in Id |-> "idle"] /\ base = 0 /\ snap = 0
    /\ evts = <<>> /\ link = "up"
    /\ rec = [i \in Id |-> NoRecord]
    /\ cached = {} /\ recency = <<>> /\ queue = <<>>
    /\ worker = At("startReady", NoId) /\ ready = NewClaim
    /\ boot = 1 /\ runs = [i \in Id |-> 0] /\ faults = 0

Firmware == \E i \in Id : FwIssue(i) \/ FwRetransmit(i) \/ FwGiveUp(i)

Work(i) ==
    \/ TakeReplay(i) \/ TakeOriginal(i) \/ Precheck(i)
    \/ AcceptOk(i) \/ AcceptError(i) \/ HelperDone(i) \/ Reported(i)
    \/ CommitReported(i) \/ CommitOk(i) \/ CommitError(i)
    \/ RefuseReported(i) \/ ReplayAcked(i) \/ ReplayError(i)
    \/ StartHelper(i) \/ RunDone(i) \/ Final(i) \/ ResumeReported(i)

Daemon == TakeReady \/ ItemReadyDone \/ ReportReadyDone \/ (\E i \in Id : Work(i))

Next ==
    \/ Firmware \/ SubmitEvent \/ Daemon
    \/ ReadyTimer \/ (\E i \in Id : AckTimer(i))
    \/ LinkLost \/ Reconnect \/ Crash

Spec == Init /\ [][Next]_vars

\* The event loop runs every ready task and every armed timer, the pump reads
\* every frame that arrived, the supervisor reconnects for ever, and the firmware
\* repeats the EVT of a request nobody has answered.
FairSpec ==
    /\ Spec
    /\ WF_vars(SubmitEvent) /\ WF_vars(Daemon) /\ WF_vars(Reconnect)
    /\ WF_vars(ReadyTimer) /\ \A i \in Id : WF_vars(AckTimer(i))
    /\ \A i \in Id : WF_vars(FwRetransmit(i))

---------------------------------------------------------------------------
(* Properties.                                                              *)

TypeOK ==
    /\ fw \in [Id -> FwStates]
    /\ base \in Nat /\ snap \in Nat /\ boot \in Nat \ {0}
    /\ evts \in Seq(Id) /\ Len(evts) <= MaxEvts
    /\ link \in {"up", "down"}
    /\ rec \in [Id -> [stage : Stages, ack : Acks, pending : BOOLEAN,
                      retries : 0..MaxAckRetries, timer : BOOLEAN,
                      started : BOOLEAN, enqueued : BOOLEAN]]
    /\ cached \subseteq Id
    /\ recency \in Seq(Id) /\ ToSet(recency) = cached /\ IsInjective(recency)
    /\ queue \in Seq([kind : {"original", "replay"}, id : Id]
                     \cup {Item("ready", NoId)})
    /\ Len(queue) <= QueueSize
    /\ worker.at \in Places /\ worker.id \in Id \cup {NoId}
    /\ ready \in [pending : BOOLEAN, enqueued : BOOLEAN,
                  retries : 0..MaxReadyRetries, timer : BOOLEAN]
    /\ runs \in [Id -> Nat] /\ faults \in 0..MaxFaults

\* At most once (README.md:722, power.py's _execute_committed_transition): across
\* lost replies, retransmitted EVTs, reconnects, daemon restarts and reboots, a
\* request's disruptive helper is invoked at most once.
AtMostOnce == \A i \in Id : runs[i] <= 1

\* "Every disruptive action must receive OK replies for both accepted and
\* committed before the helper is invoked" (README.md:723): a helper starts only
\* while the firmware's own latch says committed.
RunOnlyWhenCommitted ==
    [][\A i \in Id : runs'[i] # runs[i] => fw[i] = "committed"]_vars

\* The firmware is never told that a request failed once its helper was
\* started, by the ACK path, its replays, or a boot-ready claim.
NeverFailedAfterRun ==
    \A i \in Id : runs[i] > 0 =>
        /\ fw[i] # "failed"
        /\ i \in cached => rec[i].ack # "failed"

\* One original per request ID in the queue, and exactly while the record says
\* so (_requeue_record: "repairs that state without creating two originals").
Positions(item) == {n \in DOMAIN queue : queue[n] = item}
SingleOriginal ==
    \A i \in Id :
        Cardinality(Positions(Item("original", i)))
          = IF i \in cached /\ rec[i].enqueued THEN 1 ELSE 0

\* The cache never forgets a request that may still execute
\* (_trim_records: "that would reopen an at-most-once ID").
LiveRecordsCached ==
    \A i \in Id :
        \/ worker.id = i /\ rec[i].stage # "terminal"
        \/ Positions(Item("original", i)) # {}
        => i \in cached

\* The cache outgrows request_cache_size only by records it may not evict.
CacheBounded ==
    worker.at = "idle" /\ Len(recency) > CacheSize =>
        \A i \in cached : ~Evictable(rec[i])

\* The queue and the cache keep a request as long as it lives and no longer: one
\* original, never forgotten while it may execute, forgotten once it may be
\* (_requeue_record, _trim_records).
RequestsKept == SingleOriginal /\ LiveRecordsCached /\ CacheBounded

\* Comment at power.py:480: no boot-ready claim is sent over a request this
\* very process has already accepted, for the firmware would take the claim
\* for a restart and fail the request.
NoClaimOverAccepted ==
    worker.at \in SendingReady =>
        ~ \E i \in cached : /\ Kind[i] \in Disruptive
                            /\ rec[i].ack = "accepted" /\ fw[i] = "accepted"

\* Comment at power.py:573: a request the daemon is done with owes nothing but
\* its terminal acknowledgement, so that reconnect can flush it.
TerminalHasTerminalAck ==
    \A i \in cached : link = "down" /\ rec[i].stage = "terminal" =>
        rec[i].ack \in {"applied", "failed"}

\* What the operator is promised: PowerControl with its firmware implements
\* HostTransition, the two-boundary transition of README.md:719-730.
Promise == INSTANCE HostTransition WITH
    Request <- Id,
    Transition <- {i \in Id : Kind[i] \in Disruptive},
    latch <- [i \in Id |-> IF fw[i] \in {"idle", "pending", "accepted"}
                           THEN "open" ELSE fw[i]]

ImplementsPromise == Promise!Spec

\* Liveness: an admitted request does not stay queued or half executed: it
\* reaches its committed or terminal stage, unless the firmware abandoned it
\* (its retransmission is what repairs a requeue refused by a full queue).
Unsettled(i) == i \in cached /\ rec[i].stage \in {"queued", "in_flight", "accepted"}
AdmittedRequestsSettle ==
    \A i \in Id : Unsettled(i) ~> (~Unsettled(i) \/ fw[i] = "failed")

\* Liveness: an acknowledgement the firmware has not confirmed is delivered, or
\* its retry budget has been spent on it, as long as the queue never fills (a
\* full queue drops a replay for good).
OwedAcksSettle ==
    [](Len(queue) < QueueSize) => \A i \in Id : (i \in cached /\ rec[i].pending)
        ~> (i \notin cached \/ ~rec[i].pending \/ rec[i].retries = MaxAckRetries)

\* A request and what is owed for it come to their end (the queue worker, its
\* retry timers and the replay at a reconnect).
RequestsSettle == AdmittedRequestsSettle /\ OwedAcksSettle

===========================================================================
