----------------------------- MODULE LiveWorker -----------------------------
(* The model that listens: stt/live.py LiveMoonshineWorker, and the warm     *)
(* slot of stt/live_gate.py that keeps one of them loaded.                   *)
(*                                                                           *)
(* Four kinds of thread: the event loop keeps the slot filled, takes the     *)
(* warm worker for a capture (LwTake), cancels it and closes the gate; the capture thread offers PCM,  *)
(* ends the input and waits for the result; the worker thread, one for each  *)
(* worker, runs the native stream; the build thread refills the slot.        *)
(* A capture offers LwFrames frames of PCM, LwChunk of them to a logical     *)
(* chunk.  Where the PCM comes from is module LiveCapture; which text the    *)
(* result carries is module Transcript.                                       *)
EXTENDS Integers, Sequences, FiniteSets, SequencesExt

CONSTANTS LwCaptures,       \* captures, 1 before 2
          LwFrames,         \* frames of a whole utterance
          LwChunk,          \* frames in a LOGICAL_CHUNK
          LwQueueMax,       \* queue_chunks
          WarmFailureLimit, \* _ARM_FAILURE_LIMIT, for failed builds
          MaxLwBuilds,      \* bound: workers ever built
          MaxLwFaults       \* bound: native errors, cancels, the closing

ASSUME LwAssumption == LwCaptures \subseteq Nat /\ {MaxLwBuilds, LwFrames} \subseteq Nat

VARIABLES lwWorker,  \* the workers
          lwSlot,    \* the warm slot and its build thread
          lwRun,     \* the captures
          lwFaults

lwVars == <<lwWorker, lwSlot, lwRun, lwFaults>>

LwIds == 1 .. MaxLwBuilds

LwFaulty == lwFaults < MaxLwFaults /\ lwFaults' = lwFaults + 1

-----------------------------------------------------------------------------
(* What its callers do to a worker.                                          *)

LwNone == [at |-> "none", open |-> FALSE, ended |-> FALSE, queue |-> <<>>,
           staged |-> <<>>, heard |-> <<>>, failed |-> FALSE]

LwNew == [LwNone EXCEPT !.at = "loading", !.open = TRUE]

\* Mutant: an overflow closes the input but does not mark the worker.
PublishedQuietly(w, chunk) ==
    IF Len(w.queue) < LwQueueMax THEN [w EXCEPT !.queue = Append(@, chunk)]
    ELSE [w EXCEPT !.open = FALSE]

\* _publish: a full queue fails the worker and closes its input.
PublishedChunk(w, chunk) ==
    IF Len(w.queue) < LwQueueMax THEN [w EXCEPT !.queue = Append(@, chunk)]
    ELSE [w EXCEPT !.failed = TRUE, !.open = FALSE]

\* offer_pcm: frames are staged until they fill a chunk.
WorkerOffered(w, n) ==
    IF ~w.open \/ w.ended THEN w
    ELSE IF Len(w.staged) + 1 < LwChunk THEN [w EXCEPT !.staged = Append(@, n)]
    ELSE PublishedChunk([w EXCEPT !.staged = <<>>], Append(w.staged, n))

\* end_input: what is staged goes too.
WorkerEnded(w) ==
    IF w.ended THEN w
    ELSE [(IF w.open /\ w.staged # <<>> THEN PublishedChunk(w, w.staged) ELSE w)
             EXCEPT !.staged = <<>>, !.ended = TRUE]

\* abort: the failure is durable, and the thread may finish.
WorkerAborted(w) ==
    [w EXCEPT !.failed = TRUE, !.open = FALSE, !.staged = <<>>, !.ended = TRUE]

LwChanges(i, w) == lwWorker' = [lwWorker EXCEPT ![i] = w]

-----------------------------------------------------------------------------
(* The worker thread: _run.                                                  *)

\* The factory loads the model and starts the stream, or raises.
LwLoads(i) ==
    /\ lwWorker[i].at = "loading"
    /\ \/ LwChanges(i, [lwWorker[i] EXCEPT !.at = "running"]) /\ UNCHANGED lwFaults
       \/ LwChanges(i, [lwWorker[i] EXCEPT !.at = "broken", !.failed = TRUE]) /\ LwFaulty
    /\ UNCHANGED <<lwSlot, lwRun>>

\* One turn of the loop: a chunk goes to the model, or the queue is empty.
LwTurns(i) ==
    LET w == lwWorker[i]
    IN  /\ w.at = "running"
        /\ LwChanges(i, IF w.queue = <<>> THEN [w EXCEPT !.at = "empty"]
                        ELSE [w EXCEPT !.queue = Tail(@), !.heard = @ \o Head(w.queue)])
        /\ UNCHANGED <<lwSlot, lwRun, lwFaults>>

\* The flag is read after the queue was found empty: the producer may have
\* published and finished in between.
LwLooks(i) ==
    /\ lwWorker[i].at = "empty"
    /\ LwChanges(i, [lwWorker[i] EXCEPT
                        !.at = IF lwWorker[i].ended THEN "stopping" ELSE "running"])
    /\ UNCHANGED <<lwSlot, lwRun, lwFaults>>

\* stream.stop() and the end of the thread; native code may raise before.
LwStops(i) ==
    /\ \/ /\ lwWorker[i].at = "stopping"
          /\ LwChanges(i, [lwWorker[i] EXCEPT !.at = "done"]) /\ UNCHANGED lwFaults
       \/ /\ lwWorker[i].at \in {"running", "stopping"}
          /\ LwChanges(i, [lwWorker[i] EXCEPT !.at = "done", !.failed = TRUE])
          /\ LwFaulty
    /\ UNCHANGED <<lwSlot, lwRun>>

-----------------------------------------------------------------------------
(* The warm slot and its build thread.                                       *)

\* _spawn_warm: one build at a time, none once the gate closes or gave up.
Spawned(slot, retiring) ==
    IF slot.pc # "off" \/ slot.closing # "no" \/ slot.disabled THEN slot
    ELSE [slot EXCEPT !.pc = "joining", !.worker = retiring]

\* ensure_armed looks at the slot under its lock, lets it go and spawns; other
\* threads run in between.
LwEnsures ==
    /\ lwSlot.closing = "no" /\ ~lwSlot.disabled /\ ~lwSlot.wanted
    /\ lwSlot.warm = 0 /\ lwSlot.pc = "off"
    /\ lwSlot' = [lwSlot EXCEPT !.wanted = TRUE]
    /\ UNCHANGED <<lwWorker, lwRun, lwFaults>>
LwEnsured ==
    /\ lwSlot.wanted
    /\ lwSlot' = [Spawned(lwSlot, 0) EXCEPT !.wanted = FALSE]
    /\ UNCHANGED <<lwWorker, lwRun, lwFaults>>

\* link_reset: a gate that gave up tries again.
LwLinkReset ==
    /\ lwSlot.disabled /\ LwFaulty
    /\ lwSlot' = [lwSlot EXCEPT !.disabled = FALSE]
    /\ UNCHANGED <<lwWorker, lwRun>>

\* _warm_build joins the retiring worker, for a bounded time, and builds.
WarmJoined ==
    /\ lwSlot.pc = "joining"
    /\ IF lwSlot.closing # "no"
       THEN lwSlot' = [lwSlot EXCEPT !.pc = "ending"] /\ UNCHANGED lwWorker
       ELSE /\ lwSlot.built < MaxLwBuilds
            /\ lwSlot' = [lwSlot EXCEPT !.pc = "starting", !.built = @ + 1,
                                        !.worker = lwSlot.built + 1]
            /\ LwChanges(lwSlot.built + 1, LwNew)
    /\ UNCHANGED <<lwRun, lwFaults>>

\* Mutant: a build that landed while the slot was closed or filled is left to itself
WarmLandsLeaky ==
    LET stale == lwSlot.closing # "no" \/ lwSlot.warm # 0
    IN  /\ lwSlot.pc = "starting"
        /\ lwWorker[lwSlot.worker].at \notin {"loading", "broken"}
        /\ lwSlot' = [lwSlot EXCEPT !.pc = "ending", !.fails = 0,
                                    !.warm = IF stale THEN @ ELSE lwSlot.worker]
        /\ UNCHANGED <<lwWorker, lwRun, lwFaults>>

\* start() returned: into the slot, unless the gate closes or it is filled.
WarmLands ==
    LET w == lwSlot.worker
        stale == lwSlot.closing # "no" \/ lwSlot.warm # 0
    IN  /\ lwSlot.pc = "starting"
        /\ lwWorker[w].at \notin {"loading", "broken"}
        /\ lwSlot' = [lwSlot EXCEPT !.pc = "ending", !.fails = 0,
                                    !.warm = IF stale THEN @ ELSE w]
        /\ IF stale THEN LwChanges(w, WorkerAborted(lwWorker[w])) ELSE UNCHANGED lwWorker
        /\ UNCHANGED <<lwRun, lwFaults>>

BuildFailed(slot) ==
    [slot EXCEPT !.pc = "ending", !.fails = @ + 1,
                 !.disabled = @ \/ slot.fails + 1 >= WarmFailureLimit]

\* start() raised: the model did not load, or not in time, and is aborted.
WarmFails ==
    LET w == lwSlot.worker
    IN  /\ lwSlot.pc = "starting"
        /\ \/ lwWorker[w].at = "broken" /\ UNCHANGED lwFaults
           \/ lwWorker[w].at = "loading" /\ LwFaulty
        /\ LwChanges(w, WorkerAborted(lwWorker[w]))
        /\ lwSlot' = BuildFailed(lwSlot)
        /\ UNCHANGED lwRun

\* The finally of _warm_build, under the lock a second time.
WarmEnds ==
    /\ lwSlot.pc = "ending"
    /\ lwSlot' = [lwSlot EXCEPT !.pc = "off", !.worker = 0]
    /\ UNCHANGED <<lwWorker, lwRun, lwFaults>>

-----------------------------------------------------------------------------
(* The captures.                                                             *)

LwGoes(x, pc, outcome) == lwRun' = [lwRun EXCEPT ![x].pc = pc, ![x].outcome = outcome]

\* capture(): takes the warm worker, or asks for one and does without.  The
\* next capture may start while the thread of a cancelled one still runs.
LwTake(x) ==
    /\ lwRun[x].pc = "idle" /\ lwSlot.closing = "no" /\ ~lwSlot.disabled
    /\ \A y \in LwCaptures : y < x => lwRun[y].pc = "over" \/ lwRun[y].cancel
    /\ IF lwSlot.warm # 0
       THEN /\ lwRun' = [lwRun EXCEPT ![x].pc = "offering", ![x].worker = lwSlot.warm]
            /\ lwSlot' = [lwSlot EXCEPT !.warm = 0]
       ELSE /\ LwGoes(x, "over", "invalid")
            /\ lwSlot' = Spawned(lwSlot, 0)
    /\ UNCHANGED <<lwWorker, lwFaults>>

\* A frame of the stream; a full queue does not stop the drain.
LwOffer(x) ==
    LET w == lwRun[x].worker
    IN  /\ lwRun[x].pc = "offering" /\ lwRun[x].offered < LwFrames
        /\ lwRun' = [lwRun EXCEPT ![x].offered = @ + 1]
        /\ LwChanges(w, WorkerOffered(lwWorker[w], lwRun[x].offered))
        /\ UNCHANGED <<lwSlot, lwFaults>>

\* The stream ended well, and so does the input; or it did not.
LwInputEnds(x) ==
    LET w == lwRun[x].worker
    IN  /\ lwRun[x].pc = "offering"
        /\ \/ /\ lwRun[x].offered = LwFrames
              /\ LwChanges(w, WorkerEnded(lwWorker[w]))
              /\ LwGoes(x, "waiting", "none")
           \/ LwGoes(x, "discarded", "invalid") /\ UNCHANGED lwWorker
        /\ UNCHANGED <<lwSlot, lwFaults>>

\* wait(): valid when the thread is done and nothing failed; at the final
\* timeout the worker is failed and left to finish.
LwResult(x) ==
    LET w == lwRun[x].worker
    IN  /\ lwRun[x].pc = "waiting"
        /\ IF lwWorker[w].at = "done"
           THEN /\ LwGoes(x, "finalized", IF lwWorker[w].failed THEN "invalid" ELSE "valid")
                /\ UNCHANGED lwWorker
           ELSE /\ LwGoes(x, "finalized", "invalid")
                /\ LwChanges(w, [lwWorker[w] EXCEPT !.failed = TRUE])
        /\ UNCHANGED <<lwSlot, lwFaults>>

\* The finally of run(): a worker without a result is aborted, and the slot
\* filled again.
LwFinally(x) ==
    LET w == lwRun[x].worker
    IN  /\ lwRun[x].pc \in {"discarded", "finalized"}
        /\ IF lwRun[x].pc = "discarded" THEN LwChanges(w, WorkerAborted(lwWorker[w]))
           ELSE UNCHANGED lwWorker
        /\ lwSlot' = Spawned(lwSlot, w)
        /\ LwGoes(x, "over", lwRun[x].outcome)
        /\ UNCHANGED lwFaults

\* _CaptureRun.cancel from the event loop, at any point of the thread.
LwCancel(x) ==
    LET w == lwRun[x].worker
    IN  /\ lwRun[x].pc \in {"offering", "waiting", "discarded", "finalized"}
        /\ ~lwRun[x].cancel
        /\ LwFaulty
        /\ lwRun' = [lwRun EXCEPT ![x].cancel = TRUE]
        /\ LwChanges(w, WorkerAborted(lwWorker[w]))
        /\ UNCHANGED lwSlot

\* close(): no build may land any more; when the capture has ended, the slot
\* is emptied.
LwClosing ==
    /\ lwSlot.closing = "no"
    /\ LwFaulty
    /\ lwSlot' = [lwSlot EXCEPT !.closing = "yes"]
    /\ UNCHANGED <<lwWorker, lwRun>>

LwEmptied ==
    LET w == lwSlot.warm
    IN  /\ lwSlot.closing = "yes"
        /\ \A x \in LwCaptures : lwRun[x].pc \in {"idle", "over"} \/ lwRun[x].cancel
        /\ lwSlot' = [lwSlot EXCEPT !.closing = "done", !.warm = 0]
        /\ IF w = 0 THEN UNCHANGED lwWorker
           ELSE LwChanges(w, WorkerAborted(lwWorker[w]))
        /\ UNCHANGED <<lwRun, lwFaults>>

-----------------------------------------------------------------------------
\* start() has just spawned the first build.
LwInit ==
    /\ lwWorker = [i \in LwIds |-> LwNone]
    /\ lwSlot = [warm |-> 0, pc |-> "joining", worker |-> 0, built |-> 0,
                 fails |-> 0, disabled |-> FALSE, closing |-> "no", wanted |-> FALSE]
    /\ lwRun = [x \in LwCaptures |-> [pc |-> "idle", worker |-> 0, offered |-> 0,
                                     cancel |-> FALSE, outcome |-> "none"]]
    /\ lwFaults = 0

LwThread(i) == LwLoads(i) \/ LwTurns(i) \/ LwLooks(i) \/ LwStops(i)

WarmThread == WarmJoined \/ WarmLands \/ WarmFails \/ WarmEnds

LwCaptureThread(x) == LwOffer(x) \/ LwInputEnds(x) \/ LwResult(x) \/ LwFinally(x)

LwNext ==
    \/ WarmThread \/ LwEnsures \/ LwEnsured \/ LwLinkReset \/ LwClosing \/ LwEmptied
    \/ \E i \in LwIds : LwThread(i)
    \/ \E x \in LwCaptures : LwTake(x) \/ LwCaptureThread(x) \/ LwCancel(x)

LwSpec == LwInit /\ [][LwNext]_lwVars

-----------------------------------------------------------------------------
(* Properties.                                                               *)

\* The type of the state; no queue or staged chunk passes its bound.
LwTypeOK ==
    /\ \A i \in LwIds :
          /\ lwWorker[i].at \in {"none", "loading", "broken", "running", "empty",
                                 "stopping", "done"}
          /\ Len(lwWorker[i].queue) <= LwQueueMax
          /\ Len(lwWorker[i].staged) < LwChunk
    /\ lwSlot.warm \in 0 .. MaxLwBuilds /\ lwSlot.built \in 0 .. MaxLwBuilds
    /\ \A x \in LwCaptures :
          /\ lwRun[x].pc \in {"idle", "offering", "waiting", "discarded", "finalized",
                              "over"}
          /\ lwRun[x].outcome \in {"none", "valid", "invalid"}
    /\ lwFaults \in 0 .. MaxLwFaults

LwUtterance == [i \in 1 .. LwFrames |-> i - 1]

\* A valid result comes from a worker that was given the whole utterance in
\* order: an overflow, a cancellation or an error of the model never passes
\* for a short question (_publish, 453-462; snapshot, 501-554).  The
\* last chunks may still be in its queue, unheard: see LwLooks.
LwGiven ==
    \A x \in LwCaptures : lwRun[x].outcome = "valid" =>
        LET w == lwWorker[lwRun[x].worker]
        IN  w.heard \o FlattenSeq(w.queue) = LwUtterance

\* A loaded model always has somebody who will let it go: the warm slot, the
\* build thread or a running capture; any other worker's input has ended, so
\* that its thread finishes and frees the model.
LwOwned ==
    \A i \in LwIds :
        lwWorker[i].at \in {"loading", "running", "empty"} /\ ~lwWorker[i].ended =>
            \/ i = lwSlot.warm
            \/ lwSlot.pc = "starting" /\ lwSlot.worker = i
            \/ \E x \in LwCaptures : lwRun[x].worker = i /\ lwRun[x].pc # "over"

\* A worker whose input ended frees its model.
LwFreed ==
    \A i \in LwIds : lwWorker[i].ended ~> lwWorker[i].at \in {"done", "broken"}
=============================================================================
