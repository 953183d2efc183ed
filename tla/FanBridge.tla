------------------------------ MODULE FanBridge ------------------------------
(* The host fan bridge of fan.py: firmware fan events become records that   *)
(* one worker takes through ACCEPTED, the root controller's socket, and the *)
(* report and final callbacks, each retried on a timer until its budget is  *)
(* spent.  A lost link ends the epoch and everything tied to it; a login    *)
(* made again in place, for another actor's timeout, ends nothing here.      *)
(*                                                                          *)
(* A record is numbered by the event that made it.  The replay flag of a    *)
(* queue item is left out: run() does the same for both at every stage.     *)
EXTENDS Naturals, Sequences, SequencesExt

CONSTANTS
    FanId,          \* request IDs
    FanEnabled,     \* cfg.enabled
    FanQueueSize,   \* cfg.event_queue_size
    FanCacheSize,   \* cfg.request_cache_size
    FanRetries,     \* Len of _CALLBACK_RETRY_DELAYS_S
    MaxFanEvents,   \* bound: EVT frames
    MaxFanFaults    \* bound: callbacks not confirmed, service failures, link losses, logins

ASSUME FanAssumption ==
    /\ FanEnabled \in BOOLEAN
    /\ FanQueueSize \in Nat \ {0} /\ FanCacheSize \in Nat \ {0}
    /\ FanRetries \in Nat /\ MaxFanEvents \in Nat /\ MaxFanFaults \in Nat

VARIABLES
    fan,        \* the records made so far, forgotten ones too
    fanCache,   \* _records, oldest first
    fanQueue,   \* _queue
    fanWorker,  \* what run() awaits: at, the record r, the attempt
    fanEpoch,   \* links lost so far (history)
    fanLogin,   \* logins so far: the firmware answers to the latest only
    fanEvents, fanFaults

fanVars == <<fan, fanCache, fanQueue, fanWorker, fanEpoch, fanLogin, fanEvents, fanFaults>>

FanIdle == [at |-> "idle", r |-> 0, tries |-> 0]

\* _Record; calls counts the socket requests, got the callbacks the firmware
\* saw, in the order of their first delivery, missed the duplicates that found
\* the queue full, and login the one the request last came in (history).
FanRecord(id, action) ==
    [id |-> id, action |-> action, stage |-> "queued", started |-> FALSE,
     acceptDue |-> FALSE, reportDue |-> FALSE, finalDue |-> FALSE, outcome |-> "none",
     enqueued |-> TRUE, retries |-> 0, timer |-> FALSE, detached |-> FALSE,
     epoch |-> fanEpoch, login |-> fanLogin, calls |-> 0, got |-> <<>>, missed |-> FALSE]

FanPending(rec) == rec.acceptDue \/ rec.reportDue \/ rec.finalDue

NothingDue(rec) ==
    [rec EXCEPT !.acceptDue = FALSE, !.reportDue = FALSE, !.finalDue = FALSE]

FanFault == fanFaults < MaxFanFaults /\ fanFaults' = fanFaults + 1

\* A sequence that holds r at most once, without it.
Without(s, r) == IF r \in Range(s) THEN RemoveAt(s, CHOOSE i \in DOMAIN s : s[i] = r) ELSE s

Known(id) == {r \in Range(fanCache) : fan[r].id = id}

---------------------------------------------------------------------------
(* submit_event, on the event thread.                                      *)

\* What parse_fan_event makes of a payload: a request, or an error that still
\* names its request (one that does not is only logged).
FanPayloads == [id : FanId, action : {"status", "mode"}, sound : BOOLEAN]

FanQueueFull == Len(fanQueue) >= FanQueueSize

\* The cached records a new one may push out.
Evictable == {i \in DOMAIN fanCache :
                /\ fan[fanCache[i]].stage = "terminal" /\ ~FanPending(fan[fanCache[i]])}

\* _make_record_room: the oldest evictable record goes when the cache is full.
RoomMade ==
    IF Len(fanCache) < FanCacheSize THEN fanCache
    ELSE RemoveAt(fanCache, CHOOSE i \in Evictable : \A j \in Evictable : i <= j)

NewEvent == fanEvents < MaxFanEvents /\ fanEvents' = fanEvents + 1

\* Mutant: a new request enters whether or not the cache can make room.
FanSubmitNewUnbounded(id, action) ==
    /\ NewEvent /\ Known(id) = {}
    /\ UNCHANGED <<fanWorker, fanEpoch, fanLogin, fanFaults>>
    /\ fan' = Append(fan, FanRecord(id, action))
    /\ IF FanQueueFull
         THEN UNCHANGED <<fanCache, fanQueue>>
         ELSE /\ fanCache' = Append(fanCache, Len(fan) + 1)
              /\ fanQueue' = Append(fanQueue, Len(fan) + 1)

\* A new request takes a record, room for it permitting; the room stays made
\* when the queue then has none.
FanSubmitNew(id, action) ==
    /\ NewEvent /\ Known(id) = {}
    /\ UNCHANGED <<fanWorker, fanEpoch, fanLogin, fanFaults>>
    /\ IF Len(fanCache) >= FanCacheSize /\ Evictable = {}
         THEN UNCHANGED <<fan, fanCache, fanQueue>>
         ELSE IF FanQueueFull
         THEN fanCache' = RoomMade /\ UNCHANGED <<fan, fanQueue>>
         ELSE /\ fan' = Append(fan, FanRecord(id, action))
              /\ fanCache' = Append(RoomMade, Len(fan) + 1)
              /\ fanQueue' = Append(fanQueue, Len(fan) + 1)

\* A known ID, whatever it now asks for: a finished record owes its callbacks
\* once more, and the record is queued unless it already is.
FanSubmitKnown(id) ==
    /\ NewEvent
    /\ UNCHANGED <<fanWorker, fanEpoch, fanLogin, fanFaults>>
    /\ \E r \in Known(id) :
         LET rec == fan[r]
             over == rec.stage = "terminal"
             queues == ~rec.enqueued /\ ~FanQueueFull IN
         /\ fanCache' = Append(Without(fanCache, r), r)
         /\ fan' = [fan EXCEPT ![r] = [rec EXCEPT
              !.reportDue = IF over THEN rec.outcome = "applied" ELSE rec.reportDue,
              !.finalDue = over \/ rec.finalDue,
              !.enqueued = rec.enqueued \/ queues, !.login = fanLogin,
              !.missed = rec.missed \/ (~rec.enqueued /\ FanQueueFull)]]
         /\ fanQueue' = IF queues THEN Append(fanQueue, r) ELSE fanQueue

\* A malformed event whose ID can be read is answered FAILED from a record
\* outside the cache that is never retried.
FanSubmitMalformed(id) ==
    /\ NewEvent /\ ~FanQueueFull
    /\ fan' = Append(fan, [FanRecord(id, "status") EXCEPT !.stage = "terminal",
                             !.outcome = "failed", !.finalDue = TRUE, !.enqueued = FALSE,
                             !.detached = TRUE])
    /\ fanQueue' = Append(fanQueue, Len(fan) + 1)
    /\ UNCHANGED <<fanCache, fanWorker, fanEpoch, fanLogin, fanFaults>>

---------------------------------------------------------------------------
(* What the worker does with a record between two awaits; rec is the record *)
(* as the last await left it.                                               *)

At(at, r) == fanWorker' = [at |-> at, r |-> r, tries |-> 1]

\* _reset_retry.
FanDone(r, rec) ==
    /\ fan' = [fan EXCEPT ![r] = [rec EXCEPT !.timer = FALSE, !.retries = 0]]
    /\ fanWorker' = FanIdle

\* _begin and the QUEUED branch of _replay.
FanBegin(r, rec) ==
    At("accept", r) /\ fan' = [fan EXCEPT ![r] = [rec EXCEPT !.acceptDue = TRUE]]

\* _finish_failed.
FinishFailed(r, rec) ==
    /\ At("final", r)
    /\ fan' = [fan EXCEPT ![r] = [rec EXCEPT !.stage = "terminal", !.outcome = "failed",
                                             !.finalDue = TRUE]]

\* _execute up to its await.
FanExecute(r, rec) ==
    IF ~FanEnabled THEN FinishFailed(r, rec)
    ELSE /\ At("call", r)
         /\ fan' = [fan EXCEPT ![r] = [rec EXCEPT !.started = TRUE, !.calls = @ + 1]]

\* _flush_terminal.
Flush(r, rec) ==
    IF rec.reportDue THEN At("report", r) /\ fan' = [fan EXCEPT ![r] = rec]
    ELSE IF rec.finalDue THEN At("final", r) /\ fan' = [fan EXCEPT ![r] = rec]
    ELSE FanDone(r, rec)

\* run() takes an item.
FanTake ==
    /\ fanWorker = FanIdle /\ fanQueue # <<>>
    /\ fanQueue' = Tail(fanQueue)
    /\ LET r == Head(fanQueue)
           rec == [fan[r] EXCEPT !.enqueued = FALSE]
       IN CASE rec.stage = "queued" -> FanBegin(r, rec)
            [] rec.stage = "accepted" /\ ~rec.started -> FanExecute(r, rec)
            [] OTHER -> Flush(r, rec)
    /\ UNCHANGED <<fanCache, fanEpoch, fanLogin, fanEvents, fanFaults>>

---------------------------------------------------------------------------
(* The root controller answers (FanServiceClient.request).                 *)

FanCalling == fanWorker.at = "call"

\* A status whose requested mode is the one asked for.
FanServed ==
    /\ FanCalling
    /\ LET r == fanWorker.r IN
       Flush(r, [fan[r] EXCEPT !.stage = "terminal", !.outcome = "applied",
                               !.reportDue = TRUE, !.finalDue = TRUE])
    /\ UNCHANGED <<fanCache, fanQueue, fanEpoch, fanLogin, fanEvents, fanFaults>>

\* Not ok, or another mode than the one asked for.
FanRefused ==
    /\ FanCalling /\ FanFault
    /\ FinishFailed(fanWorker.r, fan[fanWorker.r])
    /\ UNCHANGED <<fanCache, fanQueue, fanEpoch, fanLogin, fanEvents>>

\* No valid bounded reply: a mode is asked for once more, a status is not.
FanUnavailable ==
    /\ FanCalling /\ FanFault
    /\ LET r == fanWorker.r IN
       IF fan[r].action = "mode" /\ fanWorker.tries = 1
         THEN /\ fanWorker' = [fanWorker EXCEPT !.tries = 2]
              /\ fan' = [fan EXCEPT ![r] = [fan[r] EXCEPT !.calls = @ + 1]]
         ELSE FinishFailed(r, fan[r])
    /\ UNCHANGED <<fanCache, fanQueue, fanEpoch, fanLogin, fanEvents>>

---------------------------------------------------------------------------
(* _send_uart: a callback confirmed, or not.                               *)

Sending == fanWorker.at \in {"accept", "report", "final"}

\* The callback under way, as the firmware tells them apart.
Callback == IF fanWorker.at = "final" THEN fan[fanWorker.r].outcome ELSE fanWorker.at

Shown(rec) == IF Contains(rec.got, Callback) THEN rec
              ELSE [rec EXCEPT !.got = Append(@, Callback)]

\* The firmware refuses a callback whose request came in an earlier login.
FanCurrent == fan[fanWorker.r].login = fanLogin

\* Reply ok: the step that awaited it goes on.
FanConfirmed ==
    /\ Sending /\ FanCurrent
    /\ LET r == fanWorker.r
           rec == Shown(fan[r])
       IN CASE fanWorker.at = "accept" ->
                 FanExecute(r, [rec EXCEPT !.acceptDue = FALSE, !.stage = "accepted"])
            [] fanWorker.at = "report" -> Flush(r, [rec EXCEPT !.reportDue = FALSE])
            [] fanWorker.at = "final"  -> FanDone(r, [rec EXCEPT !.finalDue = FALSE])
    /\ UNCHANGED <<fanCache, fanQueue, fanEpoch, fanLogin, fanEvents, fanFaults>>

\* _schedule_retry: one timer per record, and a budget; a record that spent
\* it, or that is detached, drops what it owes.
OutOfRetries(rec) == ~rec.detached /\ ~rec.timer /\ rec.retries >= FanRetries
Retried(rec) ==
    IF ~FanPending(rec) THEN rec
    ELSE IF rec.detached \/ OutOfRetries(rec) THEN NothingDue(rec)
    ELSE IF rec.timer THEN rec
    ELSE [rec EXCEPT !.timer = TRUE, !.retries = @ + 1]
Scheduled(r, rec) ==
    /\ fan' = [fan EXCEPT ![r] = Retried(rec)]
    /\ fanCache' = IF FanPending(rec) /\ OutOfRetries(rec) THEN Without(fanCache, r)
                   ELSE fanCache

\* Mutant: an unconfirmed callback is dropped without a timer.
FanUnconfirmedDropped ==
    /\ Sending /\ IF FanCurrent THEN FanFault ELSE UNCHANGED fanFaults
    /\ \E seen \in BOOLEAN :
         fan' = [fan EXCEPT ![fanWorker.r] =
                   IF seen /\ FanCurrent THEN Shown(fan[fanWorker.r]) ELSE fan[fanWorker.r]]
    /\ fanWorker' = FanIdle
    /\ UNCHANGED <<fanCache, fanQueue, fanEpoch, fanLogin, fanEvents>>

\* A timeout or an error reply; the firmware may have seen the line.
FanUnconfirmed ==
    /\ Sending /\ IF FanCurrent THEN FanFault ELSE UNCHANGED fanFaults
    /\ LET r == fanWorker.r IN
       \E seen \in BOOLEAN : Scheduled(r, IF seen /\ FanCurrent THEN Shown(fan[r]) ELSE fan[r])
    /\ fanWorker' = FanIdle
    /\ UNCHANGED <<fanQueue, fanEpoch, fanLogin, fanEvents>>

\* later(): the timer of a record fires and queues it; a full queue costs one
\* more retry.
FanTimer(r) ==
    /\ r \in DOMAIN fan /\ fan[r].timer
    /\ LET rec == [fan[r] EXCEPT !.timer = FALSE] IN
       IF ~FanPending(rec) \/ rec.enqueued
         THEN fan' = [fan EXCEPT ![r] = rec] /\ UNCHANGED <<fanCache, fanQueue>>
         ELSE IF FanQueueFull THEN Scheduled(r, rec) /\ UNCHANGED fanQueue
         ELSE /\ fan' = [fan EXCEPT ![r] = [rec EXCEPT !.enqueued = TRUE]]
              /\ fanQueue' = Append(fanQueue, r) /\ UNCHANGED fanCache
    /\ UNCHANGED <<fanWorker, fanEpoch, fanLogin, fanEvents, fanFaults>>

\* Mutant: the reset clears the cache and the queue but leaves timers running.
FanLinkResetTimers ==
    /\ FanFault
    /\ fanCache' = <<>> /\ fanQueue' = <<>> /\ fanWorker' = FanIdle
    /\ fanEpoch' = fanEpoch + 1 /\ fanLogin' = fanLogin + 1
    /\ fan' = [r \in DOMAIN fan |-> [fan[r] EXCEPT !.enqueued = FALSE]]
    /\ UNCHANGED fanEvents

\* LinkClosed cancels the worker; link_reset then drops the epoch's work, and
\* a login starts the next one.
FanLinkReset ==
    /\ FanFault
    /\ fanCache' = <<>> /\ fanQueue' = <<>> /\ fanWorker' = FanIdle
    /\ fanEpoch' = fanEpoch + 1 /\ fanLogin' = fanLogin + 1
    /\ fan' = [r \in DOMAIN fan |-> [fan[r] EXCEPT !.timer = FALSE]]
    /\ UNCHANGED fanEvents

\* Session.command: another actor's command timed out and logs in again in
\* place.  No listener of the bridge hears of it.
FanRelogin ==
    /\ FanFault /\ fanLogin' = fanLogin + 1
    /\ UNCHANGED <<fan, fanCache, fanQueue, fanWorker, fanEpoch, fanEvents>>

---------------------------------------------------------------------------
FanInit ==
    /\ fan = <<>> /\ fanCache = <<>> /\ fanQueue = <<>> /\ fanWorker = FanIdle
    /\ fanEpoch = 0 /\ fanLogin = 0 /\ fanEvents = 0 /\ fanFaults = 0

FanStep ==
    FanTake \/ FanServed \/ FanRefused \/ FanUnavailable \/ FanConfirmed \/ FanUnconfirmed

FanNext ==
    \/ \E ev \in FanPayloads :
         \/ ev.sound /\ FanSubmitNew(ev.id, ev.action)
         \/ ev.sound /\ FanSubmitKnown(ev.id)
         \/ ~ev.sound /\ FanSubmitMalformed(ev.id)
    \/ FanStep
    \/ \E r \in 1..MaxFanEvents : FanTimer(r)
    \/ FanLinkReset \/ FanRelogin

FanSpec == FanInit /\ [][FanNext]_fanVars

---------------------------------------------------------------------------
(* Properties.                                                             *)

FanRecords ==
    [id : FanId, action : {"status", "mode"}, stage : {"queued", "accepted", "terminal"},
     started : BOOLEAN, acceptDue : BOOLEAN, reportDue : BOOLEAN, finalDue : BOOLEAN,
     outcome : {"none", "applied", "failed"}, enqueued : BOOLEAN, retries : 0..FanRetries,
     timer : BOOLEAN, detached : BOOLEAN, epoch : Nat, login : Nat, calls : Nat,
     got : Seq({"accept", "report", "applied", "failed"}), missed : BOOLEAN]

\* The type of the state; queue and cache hold records and keep to their sizes
\* (submit_event, _make_record_room).
FanTypeOK ==
    /\ fan \in Seq(FanRecords)
    /\ fanCache \in Seq(DOMAIN fan) /\ Len(fanCache) <= FanCacheSize
    /\ fanQueue \in Seq(DOMAIN fan) /\ Len(fanQueue) <= FanQueueSize
    /\ fanWorker \in [at : {"idle", "accept", "report", "final", "call"},
                      r : 0..Len(fan), tries : 0..2]
    /\ fanWorker.at # "idle" => fanWorker.r \in DOMAIN fan
    /\ fanEpoch \in Nat /\ fanLogin \in Nat
    /\ fanEvents \in 0..MaxFanEvents /\ fanFaults \in 0..MaxFanFaults

\* What the firmware sees of one record is a finite conversation: APPLIED only
\* after its report, never both APPLIED and FAILED, and no ACCEPTED after a
\* final ack (_flush_terminal, _replay, and duplicates in between).
FanOrder ==
    \A r \in DOMAIN fan :
      LET got == fan[r].got IN
      /\ ~({"applied", "failed"} \subseteq Range(got))
      /\ \A i \in DOMAIN got :
           /\ got[i] = "applied" => "report" \in {got[j] : j \in 1..(i - 1)}
           /\ got[i] = "accept" => i = 1

\* The worker, the queue and the timers hold only requests that arrived since
\* the link was last lost: none outlives the reset and is served or answered over
\* the next link (link_reset, racing the timers and the worker it cancels).
FanEpochs ==
    /\ fanWorker.at # "idle" => fan[fanWorker.r].epoch = fanEpoch
    /\ \A r \in DOMAIN fan : r \in Range(fanQueue) \/ fan[r].timer => fan[r].epoch = fanEpoch

\* However often the event is duplicated and its callbacks retried, one record
\* reaches the root controller for at most one round: a status once, a mode
\* twice (_execute, execution_started).
FanOneRound ==
    \A r \in DOMAIN fan : fan[r].calls <= IF fan[r].action = "mode" THEN 2 ELSE 1

\* A queue slot is one record's, and enqueued says whether it holds one: a
\* timer racing a duplicate never queues a record twice (_queue_record).
FanOneSlot ==
    /\ IsInjective(fanQueue)
    /\ \A r \in Range(fanQueue) : fan[r].enqueued \/ fan[r].detached
    /\ \A r \in DOMAIN fan : fan[r].enqueued /\ fan[r].epoch = fanEpoch => r \in Range(fanQueue)

\* A cached record with work left is served by the worker, a queue entry or a
\* timer; only a duplicate that found the queue full may have left it owing
\* callbacks to nobody (submit_event ignores what _queue_record returns).
FanServable ==
    \A r \in Range(fanCache) :
      \/ fan[r].stage = "terminal" /\ ~FanPending(fan[r])
      \/ fanWorker.r = r \/ r \in Range(fanQueue) \/ fan[r].timer
      \/ fan[r].missed

\* A request in the cache is answered with its outcome, or forgotten when the
\* retries are spent, or its epoch ends; short of a duplicate that found the
\* queue full nothing else can become of it.
FanSettles ==
    \A r \in 1..MaxFanEvents :
      r \in Range(fanCache) ~>
        \/ r \notin Range(fanCache)
        \/ fan[r].stage = "terminal" /\ ~FanPending(fan[r])
        \/ fan[r].missed

\* A request is answered in order, by one round at the controller, over the link it
\* came by, and none with work left is forgotten by worker, queue and timers.
FanSafe == FanOrder /\ FanEpochs /\ FanOneRound /\ FanOneSlot /\ FanServable
=============================================================================
