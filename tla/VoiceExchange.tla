--------------------------- MODULE VoiceExchange ---------------------------
(***************************************************************************)
(* One wearer exchange from the device's wake event to the answer on the   *)
(* lens: the exchange registry and its queue (jobs.py), the serving loop   *)
(* and the exchange itself (pipeline.py).  Questions the operator records   *)
(* or types are in module Recording.                                       *)
(*                                                                         *)
(* The registry, the queue and the tombstones belong to the loop thread.   *)
(* Four tasks run on it: the router of device events, the daemon serving   *)
(* one job at a time, the task that paints the question while the answer   *)
(* is generated, and the job-owned clean-up of the recording.  A command   *)
(* is one step: the firmware accepts a display command of the exchange     *)
(* whose card is open, and refuses any other; its reply may be lost, and   *)
(* then the command was executed or not.                                   *)
(***************************************************************************)
EXTENDS Integers, Sequences, FiniteSets, Orders

CONSTANTS
  ExId,            \* exchange IDs the firmware issues, each for one wake
  NoEx,            \* no exchange
  TombLimit,       \* self._tombstone_limit
  MaxParts,        \* bound: physical reply parts of one exchange
  MaxExFaults      \* bound: lost or repeated events, lost replies, link losses, reboots

ASSUME ExAssumption == /\ NoEx \notin ExId
                       /\ TombLimit \in Nat \ {0}
                       /\ {MaxParts, MaxExFaults} \subseteq Nat

VARIABLES
  exDevice,   \* the firmware: card, IDs issued, events in flight
  exTrigger,  \* ManualTrigger: registry, tombstones, queue
  exchange,   \* [ExId -> EvenAiExchange]: cancel reason, delivered, tail task
  exRun,      \* the daemon: location, job, question task, stream, leases
  exLens,     \* history: what the lens was told for each ID, in order
  exServed,   \* history: exchanges started, dismissals routed, tombstones given
              \* up, jobs dropped in the probation of _dispatch
  exFaults    \* faults so far

exDevVars == <<exDevice, exTrigger>>
exVars == <<exDevice, exTrigger, exchange, exRun, exLens, exServed, exFaults>>

Reasons == {"", "dismissed", "superseded", "stale", "device_rejected",
            "recorder_discarded", "host_incomplete"}
Fresh == [cancel |-> "", delivered |-> FALSE, tail |-> FALSE]
Display == {"ask", "part", "end", "reply", "sorry"}
Awaits == {"live", "lane", "fetch", "stt", "generate", "hold", "part", "whole",
           "end", "sorry"}

\* The type of the state; the registry and its tombstones keep to their bounds.
ExTypeOK ==
  /\ exDevice \in [card : ExId \cup {NoEx}, issued : SUBSET ExId,
                   air : Seq([ev : {"wake", "cancel"}, id : ExId])]
  /\ exTrigger.registry \subseteq ExId
  /\ exTrigger.queue \in Seq(ExId) /\ IsInjective(exTrigger.queue)
  /\ exTrigger.tombs \in Seq(ExId) /\ IsInjective(exTrigger.tombs)
  /\ Len(exTrigger.tombs) <= TombLimit
  /\ exchange \in [ExId -> [cancel : Reasons, delivered : BOOLEAN, tail : BOOLEAN]]
  /\ exRun \in [pc : Awaits \cup {"off", "probation", "idle", "quiesce", "admit",
                                  "heard", "commit", "collect", "abort", "drain", "rearm"},
                job : ExId \cup {NoEx}, ask : {"none", "sending", "acked", "failed"},
                then : {"", "part", "whole", "end"}, opened : BOOLEAN, split : BOOLEAN,
                link : BOOLEAN, hint : BOOLEAN, busy : BOOLEAN, power : BOOLEAN]
  /\ \A i \in ExId : exLens[i] \in Seq(Display \cup {"exit"})
  /\ exServed \in [started : [ExId -> Nat], dismissed : SUBSET ExId, lost : SUBSET ExId,
                  dropped : SUBSET ExId]
  /\ IsFiniteSet(exTrigger.registry)
  /\ exFaults \in 0 .. MaxExFaults

ExInit ==
  /\ exDevice = [card |-> NoEx, issued |-> {}, air |-> <<>>]
  /\ exTrigger = [registry |-> {}, tombs |-> <<>>, queue |-> <<>>]
  /\ exchange = [i \in ExId |-> Fresh]
  /\ exRun = [pc |-> "probation", job |-> NoEx, ask |-> "none", then |-> "",
              opened |-> FALSE, split |-> FALSE, link |-> TRUE, hint |-> FALSE,
              busy |-> FALSE, power |-> FALSE]
  /\ exLens = [i \in ExId |-> <<>>]
  /\ exServed = [started |-> [i \in ExId |-> 0], dismissed |-> {}, lost |-> {},
               dropped |-> {}]
  /\ exFaults = 0

-----------------------------------------------------------------------------
(* The firmware.  A wake opens the card of a new ID and replaces an older  *)
(* card silently; the wearer, or the 60-second cap, closes it.             *)

ExPush(ev, i) == Append(exDevice.air, [ev |-> ev, id |-> i])

ExWake(i) ==
  /\ i \notin exDevice.issued /\ exRun.link
  /\ exDevice' = [exDevice EXCEPT !.card = i, !.issued = @ \cup {i}, !.air = ExPush("wake", i)]
  /\ UNCHANGED <<exTrigger, exchange, exRun, exLens, exServed, exFaults>>

ExDismiss ==
  /\ exDevice.card # NoEx
  /\ exDevice' = [exDevice EXCEPT !.card = NoEx, !.air = ExPush("cancel", exDevice.card)]
  /\ UNCHANGED <<exTrigger, exchange, exRun, exLens, exServed, exFaults>>

-----------------------------------------------------------------------------
(* The registry.                                                           *)

\* _remember_terminal: to the end of the bounded order, the oldest out
RememberTerminal(tombs, i) == Remembered(tombs, i, TombLimit)

\* What the tombstones of this step are, and which were given up to the limit.
TombsGivenUp(served) ==
  exServed' = [served EXCEPT !.lost = @ \cup (Range(exTrigger.tombs) \ Range(exTrigger'.tombs))]

ExCancelled(i) == exchange[i].cancel # ""

\* EvenAiExchange.cancel: the first reason stays
CancelWith(e, reason) == IF e.cancel = "" THEN [e EXCEPT !.cancel = reason] ELSE e

\* evenai_done
Forget(t, i) == [t EXCEPT !.registry = @ \ {i}, !.tombs = RememberTerminal(@, i)]

\* submit_evenai: a terminal or a known ID is ignored, and the newest wake wins
SubmitEvenai(i) ==
  LET older == {j \in exTrigger.registry : ~ExCancelled(j)} IN
  IF i \in Range(exTrigger.tombs) \cup exTrigger.registry
  THEN UNCHANGED <<exTrigger, exchange>>
  ELSE /\ exTrigger' = [exTrigger EXCEPT
              !.registry = @ \cup {i}, !.queue = Append(@, i),
              !.tombs = RememberedAll(@, SetToSeq(older), TombLimit)]
       /\ exchange' = [j \in ExId |-> IF j = i THEN Fresh
                                      ELSE IF j \in older
                                      THEN CancelWith(exchange[j], "superseded")
                                      ELSE exchange[j]]

\* Mutant: a cancel of an exchange it does not know leaves no tombstone
CancelEvenaiKnown(i) ==
  /\ exTrigger' = IF i \in exTrigger.registry
                  THEN [exTrigger EXCEPT !.tombs = RememberTerminal(@, i)] ELSE exTrigger
  /\ exchange' = IF i \in exTrigger.registry
                 THEN [exchange EXCEPT ![i] = CancelWith(@, "dismissed")] ELSE exchange

\* cancel_evenai, also of an exchange it does not know
CancelEvenai(i) ==
  /\ exTrigger' = [exTrigger EXCEPT !.tombs = RememberTerminal(@, i)]
  /\ exchange' = IF i \in exTrigger.registry
                 THEN [exchange EXCEPT ![i] = CancelWith(@, "dismissed")] ELSE exchange

\* route_link_event; keep: the frame is delivered twice
ExRoute(keep) ==
  /\ exDevice.air # <<>> /\ exRun.link
  /\ LET event == Head(exDevice.air) IN
     /\ \/ event.ev = "wake" /\ SubmitEvenai(event.id)
        \/ event.ev = "cancel" /\ CancelEvenai(event.id)
     /\ TombsGivenUp(IF event.ev = "cancel"
                      THEN [exServed EXCEPT !.dismissed = @ \cup {event.id}] ELSE exServed)
  /\ exDevice' = IF keep THEN exDevice ELSE [exDevice EXCEPT !.air = Tail(@)]
  /\ exFaults' = exFaults + (IF keep THEN 1 ELSE 0) /\ exFaults' <= MaxExFaults
  /\ UNCHANGED <<exRun, exLens>>

\* an event frame is lost on the wire: events have no acknowledgement
ExLoseEvent ==
  /\ exDevice.air # <<>> /\ exFaults < MaxExFaults
  /\ exDevice' = [exDevice EXCEPT !.air = Tail(@)] /\ exFaults' = exFaults + 1
  /\ UNCHANGED <<exTrigger, exchange, exRun, exLens, exServed>>

\* two events cross: a cancel arrives before its own wake
ExReorder ==
  /\ Len(exDevice.air) >= 2 /\ exFaults < MaxExFaults
  /\ exDevice' = [exDevice EXCEPT !.air = <<@[2], @[1]>> \o SubSeq(@, 3, Len(@))]
  /\ exFaults' = exFaults + 1
  /\ UNCHANGED <<exTrigger, exchange, exRun, exLens, exServed>>

-----------------------------------------------------------------------------
(* The daemon takes a job.                                                 *)

ExAt(pc) == exRun.pc = pc
ExGo(pc) == exRun' = [exRun EXCEPT !.pc = pc]

\* daemon(): probation after a reboot, arm, announce READY
ExReady ==
  /\ ExAt("probation") /\ exRun.link
  /\ exRun' = [exRun EXCEPT !.pc = "idle", !.hint = FALSE]
  /\ UNCHANGED <<exDevVars, exchange, exLens, exServed, exFaults>>

\* next_job: a wake cancelled in the queue is finished without being served
ExSkip ==
  /\ ExAt("idle") /\ exTrigger.queue # <<>> /\ ExCancelled(Head(exTrigger.queue))
  /\ exTrigger' = Forget([exTrigger EXCEPT !.queue = Tail(@)], Head(exTrigger.queue))
  /\ TombsGivenUp(exServed)
  /\ UNCHANGED <<exDevice, exchange, exRun, exLens, exFaults>>

\* a reboot seen meanwhile: _dispatch serves its probation before the exchange
ExTake ==
  /\ ExAt("idle") /\ exRun.link
  /\ exTrigger.queue # <<>> /\ ~ExCancelled(Head(exTrigger.queue))
  /\ exTrigger' = [exTrigger EXCEPT !.queue = Tail(@)]
  /\ exRun' = [exRun EXCEPT !.pc = IF exRun.hint THEN "quiesce" ELSE "admit",
                            !.job = Head(exTrigger.queue)]
  /\ UNCHANGED <<exDevice, exchange, exLens, exServed, exFaults>>

exJob == exRun.job

\* the probation of _dispatch is served: STARTING, quiesce, settle, arm
ExQuiesced ==
  /\ ExAt("quiesce") /\ exRun.link
  /\ exRun' = [exRun EXCEPT !.pc = "admit", !.hint = FALSE]
  /\ UNCHANGED <<exDevVars, exchange, exLens, exServed, exFaults>>

\* an exception of that probation is raised before the try of _dispatch: no
\* finalizer runs, and the job is gone with its entry still in the registry
ExDropped ==
  /\ ExAt("quiesce")
  /\ \/ ~exRun.link /\ exRun' = [exRun EXCEPT !.pc = "off", !.job = NoEx]
        /\ UNCHANGED exFaults
     \/ exRun.link /\ exFaults < MaxExFaults /\ exFaults' = exFaults + 1
        /\ exRun' = [exRun EXCEPT !.pc = "idle", !.job = NoEx]
  /\ exServed' = [exServed EXCEPT !.dropped = @ \cup {exJob}]
  /\ UNCHANGED <<exDevVars, exchange, exLens>>

\* the locals of run_evenai end with it
Unwound(run) == [run EXCEPT !.then = "", !.opened = FALSE, !.split = FALSE]

\* where an exception of the exchange leads: the question task is collected
\* first, then the finalizer runs
ExRaise(run) ==
  [Unwound(run) EXCEPT !.pc = IF run.ask = "sending" THEN "collect" ELSE "abort",
                       !.ask = IF run.ask = "sending" THEN run.ask ELSE "none"]

\* too old to answer, or dismissed while it was queued or quiesced
ExStale ==
  /\ ExAt("admit")
  /\ \/ exFaults < MaxExFaults /\ exFaults' = exFaults + 1
        /\ exchange' = [exchange EXCEPT ![exJob] = CancelWith(@, "stale")]
     \/ ExCancelled(exJob) /\ UNCHANGED <<exFaults, exchange>>
  /\ exRun' = ExRaise(exRun)
  /\ UNCHANGED <<exDevVars, exLens, exServed>>

\* the busy lease, the power lease, then run_evenai
ExAdmit ==
  /\ ExAt("admit") /\ ~ExCancelled(exJob)
  /\ \E first \in {"live", "fetch"} :
       exRun' = [exRun EXCEPT !.pc = first, !.busy = TRUE, !.power = TRUE]
  /\ exServed' = [exServed EXCEPT !.started[exJob] = @ + 1]
  /\ UNCHANGED <<exDevVars, exchange, exLens, exFaults>>

-----------------------------------------------------------------------------
(* run_evenai: the transcript.                                             *)

StartTail(i) == [exchange EXCEPT ![i].tail = TRUE]

\* the live gate's capture: a transcript, a miss with the lane to free, or a
\* miss without a lane
ExLive ==
  /\ ExAt("live") /\ ~ExCancelled(exJob)
  /\ \/ ExGo("heard") /\ exchange' = StartTail(exJob)
     \/ ExGo("lane") /\ UNCHANGED exchange
     \/ ExGo("fetch") /\ UNCHANGED exchange
  /\ UNCHANGED <<exDevVars, exLens, exServed, exFaults>>

\* abort_stream is best effort
ExLane ==
  /\ ExAt("lane") /\ ~ExCancelled(exJob) /\ ExGo("fetch")
  /\ UNCHANGED <<exDevVars, exchange, exLens, exServed, exFaults>>

\* fetch_wake_utterance: the stopped recording's path by event or by command,
\* and its bytes; the delete is the exchange's own task
ExFetch ==
  /\ ExAt("fetch") /\ ~ExCancelled(exJob)
  /\ ExGo("stt") /\ exchange' = StartTail(exJob)
  /\ UNCHANGED <<exDevVars, exLens, exServed, exFaults>>

\* the recorder answers that a dismissal has discarded the recording: the
\* cancel event was lost
ExDiscarded ==
  /\ ExAt("fetch") /\ ~ExCancelled(exJob) /\ exDevice.card # exJob
  /\ exchange' = [exchange EXCEPT ![exJob] = CancelWith(@, "recorder_discarded")]
  /\ exRun' = ExRaise(exRun)
  /\ UNCHANGED <<exDevVars, exLens, exServed, exFaults>>

\* batch inference is not interrupted; its result is discarded if dismissed
ExTranscribe ==
  /\ ExAt("stt") /\ ~ExCancelled(exJob) /\ ExGo("heard")
  /\ UNCHANGED <<exDevVars, exchange, exLens, exServed, exFaults>>

\* an empty transcript is answered with a fixed sentence; any other starts the
\* question task beside the generation
ExHeard ==
  /\ ExAt("heard")
  /\ \/ ExGo("sorry")
     \/ exRun' = [exRun EXCEPT !.pc = "generate", !.ask = "sending"]
  /\ UNCHANGED <<exDevVars, exchange, exLens, exServed, exFaults>>

-----------------------------------------------------------------------------
(* _display_command: the guard, then the firmware's verdict.               *)

\* accepted, refused as no longer the open card, or without an answer; the
\* effect on the caller is in the two operators
DisplayCommand(i, op, accepted, failed) ==
  \/ /\ ExCancelled(i) \/ ~exRun.link
     /\ failed /\ UNCHANGED <<exLens, exchange, exFaults>>
  \/ /\ ~ExCancelled(i) /\ exRun.link /\ exDevice.card = i
     /\ accepted /\ exLens' = [exLens EXCEPT ![i] = Append(@, op)]
     /\ UNCHANGED <<exchange, exFaults>>
  \/ /\ ~ExCancelled(i) /\ exRun.link /\ exDevice.card # i
     /\ failed /\ exchange' = [exchange EXCEPT ![i] = CancelWith(@, "device_rejected")]
     /\ UNCHANGED <<exLens, exFaults>>
  \/ /\ ~ExCancelled(i) /\ exRun.link /\ exFaults < MaxExFaults
     /\ failed /\ exFaults' = exFaults + 1 /\ UNCHANGED exchange
     /\ exLens' \in {exLens} \cup (IF exDevice.card = i
                                   THEN {[exLens EXCEPT ![i] = Append(@, op)]} ELSE {})

\* _send_ask, the question task
ExAsk ==
  /\ exRun.ask = "sending"
  /\ DisplayCommand(exJob, "ask", exRun' = [exRun EXCEPT !.ask = "acked"],
                                exRun' = [exRun EXCEPT !.ask = "failed"])
  /\ UNCHANGED <<exDevVars, exServed>>

\* one display command of the daemon itself
Shows(op, next) ==
  /\ DisplayCommand(exJob, op, exRun' = next, exRun' = ExRaise(exRun))
  /\ UNCHANGED <<exDevVars, exServed>>

ExRoom == Len(exLens[exJob]) < MaxParts + 1

\* _stream_reply: a piece of the answer is ready to be flushed (_flush_point)
ExFlush ==
  /\ ExAt("generate") /\ ~ExCancelled(exJob) /\ ExRoom
  /\ exRun' = [exRun EXCEPT !.pc = "hold", !.then = "part"]
  /\ UNCHANGED <<exDevVars, exchange, exLens, exServed, exFaults>>

\* the answer is complete: the rest of an opened stream, or all of it
ExGenerated ==
  /\ ExAt("generate") /\ ~ExCancelled(exJob)
  /\ \/ ~exRun.opened /\ exRun' = [exRun EXCEPT !.pc = "hold", !.then = "whole"]
     \/ /\ exRun.opened
        /\ \/ exRun' = [exRun EXCEPT !.pc = "end"]
           \/ ExRoom /\ exRun' = [exRun EXCEPT !.pc = "hold", !.then = "end"]
  /\ UNCHANGED <<exDevVars, exchange, exLens, exServed, exFaults>>

\* no model, or it died: the transcript itself is the answer, whatever part of
\* the stream was already shown
ExOffline ==
  /\ ExAt("generate") /\ ~ExCancelled(exJob)
  /\ exRun' = [exRun EXCEPT !.pc = "hold", !.then = "whole"]
  /\ UNCHANGED <<exDevVars, exchange, exLens, exServed, exFaults>>

\* Mutant: the reply does not wait for the acknowledgement of the question
ExHoldEager ==
  /\ ExAt("hold")
  /\ \/ ExCancelled(exJob) /\ exRun' = ExRaise(exRun)
     \/ ~ExCancelled(exJob) /\ exRun.ask = "failed" /\ exRun' = ExRaise(exRun)
     \/ ~ExCancelled(exJob) /\ exRun.ask # "failed"
        /\ exRun' = [exRun EXCEPT !.pc = IF exRun.then = "whole" THEN "whole" ELSE "part"]
  /\ UNCHANGED <<exDevVars, exchange, exLens, exServed, exFaults>>

\* _hold_for_ask_render: nothing is written before the question task has its
\* acknowledgement, and a failed question fails the reply
ExHold ==
  /\ ExAt("hold")
  /\ \/ ExCancelled(exJob) /\ exRun' = ExRaise(exRun)
     \/ ~ExCancelled(exJob) /\ exRun.ask = "failed" /\ exRun' = ExRaise(exRun)
     \/ ~ExCancelled(exJob) /\ exRun.ask \in {"acked", "none"}
        /\ exRun' = [exRun EXCEPT !.ask = "none",
                                  !.pc = IF exRun.then = "whole" THEN "whole" ELSE "part"]
  /\ UNCHANGED <<exDevVars, exchange, exLens, exServed, exFaults>>

\* _send_physical_part; a split whole answer and the rest of a stream go on to
\* the finalizer, a flushed delta back to the generation
ExPart ==
  /\ ExAt("part")
  /\ Shows("part", [exRun EXCEPT !.opened = ~exRun.split,
                                 !.pc = IF exRun.then = "part" THEN "generate" ELSE "end"])

\* _send_reply_whole: one message, or parts and the finalizer
ExWhole ==
  \/ ExAt("whole") /\ Shows("reply", [exRun EXCEPT !.pc = "commit"])
  \/ /\ ExAt("whole") /\ ExRoom
     /\ exRun' = [exRun EXCEPT !.pc = "part", !.then = "end", !.split = TRUE]
     /\ UNCHANGED <<exDevVars, exchange, exLens, exServed, exFaults>>

\* _end_reply
ExEnd == ExAt("end") /\ Shows("end", [exRun EXCEPT !.pc = "commit"])

ExSorry == ExAt("sorry") /\ Shows("sorry", [exRun EXCEPT !.pc = "commit"])

\* mark_delivered: the one outcome that suppresses the host's exit
ExCommit ==
  /\ ExAt("commit")
  /\ \/ ExCancelled(exJob) /\ exRun' = ExRaise(exRun) /\ UNCHANGED exchange
     \/ /\ ~ExCancelled(exJob) /\ exRun' = [Unwound(exRun) EXCEPT !.pc = "drain"]
        /\ exchange' = [exchange EXCEPT ![exJob].delivered = TRUE]
  /\ UNCHANGED <<exDevVars, exLens, exServed, exFaults>>

\* a dismissal, a stage that fails, or the torn-down task group while the
\* daemon waits in the exchange
ExStageFails ==
  /\ exRun.pc \in Awaits
  /\ \/ ExCancelled(exJob) /\ UNCHANGED exFaults
     \/ ~exRun.link /\ UNCHANGED exFaults
     \/ exRun.pc \in {"live", "fetch", "stt"}
        /\ exFaults < MaxExFaults /\ exFaults' = exFaults + 1
  /\ exRun' = ExRaise(exRun)
  /\ UNCHANGED <<exDevVars, exchange, exLens, exServed>>

\* _drain_ask: no reply path reached its first write
ExCollect ==
  /\ ExAt("collect") /\ exRun.ask # "sending"
  /\ exRun' = [exRun EXCEPT !.pc = "abort", !.ask = "none"]
  /\ UNCHANGED <<exDevVars, exchange, exLens, exServed, exFaults>>
-----------------------------------------------------------------------------
(* The finalizer of _dispatch.                                             *)

\* abort_evenai_best_effort: the ID fences the exit of a card that is gone
ExAbort ==
  /\ ExAt("abort") /\ ExGo("drain")
  /\ exchange' = [exchange EXCEPT ![exJob] = CancelWith(@, "host_incomplete")]
  /\ \/ /\ exRun.link /\ exDevice.card = exJob
        /\ exDevice' = [exDevice EXCEPT !.card = NoEx]
        /\ exLens' = [exLens EXCEPT ![exJob] = Append(@, "exit")]
        /\ UNCHANGED exFaults
     \/ /\ ~exRun.link \/ exDevice.card # exJob
        /\ UNCHANGED <<exDevice, exLens, exFaults>>
     \/ /\ exRun.link /\ exFaults < MaxExFaults /\ exFaults' = exFaults + 1
        /\ UNCHANGED <<exDevice, exLens>>
  /\ UNCHANGED <<exTrigger, exServed>>

\* Mutant: an exchange that was not delivered keeps its registry entry
ExDrainDelivered ==
  /\ ExAt("drain") /\ ~exchange[exJob].tail
  /\ exRun' = [exRun EXCEPT !.pc = "rearm", !.power = FALSE]
  /\ exTrigger' = IF exchange[exJob].delivered THEN Forget(exTrigger, exJob) ELSE exTrigger
  /\ TombsGivenUp(exServed)
  /\ UNCHANGED <<exDevice, exchange, exLens, exFaults>>

\* the job's own tasks are drained, the power lease goes, the registry entry
\* goes whatever the release did
ExDrain ==
  /\ ExAt("drain") /\ ~exchange[exJob].tail
  /\ exRun' = [exRun EXCEPT !.pc = "rearm", !.power = FALSE]
  /\ exTrigger' = Forget(exTrigger, exJob)
  /\ TombsGivenUp(exServed)
  /\ UNCHANGED <<exDevice, exchange, exLens, exFaults>>

\* ensure_armed for the next wake, then the busy lease; a dead link ends the loop
ExRearm ==
  /\ ExAt("rearm")
  /\ exRun' = [exRun EXCEPT !.pc = IF exRun.link THEN "idle" ELSE "off",
                            !.job = NoEx, !.busy = FALSE]
  /\ UNCHANGED <<exDevVars, exchange, exLens, exServed, exFaults>>

\* the job-owned clean-up of the recording ends, whatever its outcome
ExTailEnds(i) ==
  /\ exchange[i].tail /\ exchange' = [exchange EXCEPT ![i].tail = FALSE]
  /\ UNCHANGED <<exDevVars, exRun, exLens, exServed, exFaults>>

-----------------------------------------------------------------------------
(* The link.                                                               *)

ExLinkLost ==
  /\ exRun.link /\ exFaults < MaxExFaults /\ exFaults' = exFaults + 1
  /\ exRun' = [exRun EXCEPT !.link = FALSE]
  /\ UNCHANGED <<exDevVars, exchange, exLens, exServed>>

\* the device reboots under a live link: its card is gone, and boot noise sets
\* the session's hint
ExReboot ==
  /\ exRun.link /\ exFaults < MaxExFaults /\ exFaults' = exFaults + 1
  /\ exDevice' = [exDevice EXCEPT !.card = NoEx, !.air = <<>>]
  /\ exRun' = [exRun EXCEPT !.hint = TRUE]
  /\ UNCHANGED <<exTrigger, exchange, exLens, exServed>>

\* the supervisor ends the idle loop of a dead link
ExLoopEnds ==
  /\ exRun.pc \in {"idle", "probation"} /\ ~exRun.link /\ ExGo("off")
  /\ UNCHANGED <<exDevVars, exchange, exLens, exServed, exFaults>>

\* a new link serves what the registry still holds
ExReconnect ==
  /\ ExAt("off")
  /\ exRun' = [exRun EXCEPT !.link = TRUE, !.pc = "probation"]
  /\ UNCHANGED <<exDevVars, exchange, exLens, exServed, exFaults>>

ExDaemon ==
  \/ ExReady \/ ExSkip \/ ExTake \/ ExAdmit \/ ExLive \/ ExLane \/ ExFetch
  \/ ExDiscarded \/ ExTranscribe \/ ExHeard \/ ExGenerated \/ ExHold \/ ExPart \/ ExWhole
  \/ ExEnd \/ ExSorry \/ ExCommit \/ ExCollect \/ ExAbort \/ ExDrain \/ ExRearm
  \/ ExLoopEnds \/ ExReconnect \/ ExQuiesced
  \/ ~exRun.link /\ ExDropped
  \/ exRun.pc \in Awaits /\ (ExCancelled(exJob) \/ ~exRun.link) /\ ExStageFails
  \/ ExAt("admit") /\ ExCancelled(exJob) /\ ExStale

ExRouter == ExRoute(FALSE)
ExTails == \E i \in ExId : ExTailEnds(i)

ExNext ==
  \/ \E i \in ExId : ExWake(i) \/ ExTailEnds(i)
  \/ ExDismiss \/ ExRoute(TRUE) \/ ExRoute(FALSE)
  \/ ExLoseEvent \/ ExReorder
  \/ ExReady \/ ExSkip \/ ExTake \/ ExQuiesced \/ ExDropped \/ ExStale \/ ExAdmit
  \/ ExReboot \/ ExLive \/ ExLane \/ ExFetch \/ ExDiscarded \/ ExTranscribe \/ ExHeard
  \/ ExAsk \/ ExFlush \/ ExGenerated \/ ExOffline \/ ExHold \/ ExPart \/ ExWhole \/ ExEnd
  \/ ExSorry \/ ExCommit \/ ExStageFails \/ ExCollect \/ ExAbort \/ ExDrain \/ ExRearm
  \/ ExLinkLost \/ ExLoopEnds \/ ExReconnect

ExSpec == ExInit /\ [][ExNext]_exVars

-----------------------------------------------------------------------------
(* Properties.                                                             *)

\* The question is on the lens before anything that replaces it, although it
\* is painted by a task of its own while the answer is already generated
\* (pipeline.py _hold_for_ask_render).
ExQuestionFirst ==
  \A i \in ExId : exLens[i] # <<>> => exLens[i][1] \in {"ask", "sorry", "exit"}

\* An exchange marked delivered has its whole answer on the lens, finalizer
\* included, and the host never sends the exit of its card afterwards
\* (pipeline.py mark_delivered and the finalizer of _dispatch).
ExDeliveredWhole ==
  \A i \in ExId : exchange[i].delivered =>
    exLens[i] # <<>> /\ Last(exLens[i]) \in {"reply", "end", "sorry"}

\* An exchange is started once, whatever the wire repeats or reorders, and
\* never after its dismissal was routed, as long as the tombstones did not have
\* to give its ID up (jobs.py submit_evenai, _remember_terminal).
ExServedOnce ==
  \A i \in ExId \ exServed.lost :
    /\ exServed.started[i] <= 1
    /\ ExAt("admit") /\ exJob = i /\ i \in exServed.dismissed => ExCancelled(i)

\* The tasks an exchange started end before the next job starts, and between
\* jobs neither lease is held (pipeline.py _dispatch, drain_tasks).
ExTailsOwned ==
  /\ \A i \in ExId : exchange[i].tail => exJob = i
  /\ exRun.ask = "sending" => exJob \in ExId
  /\ ExAt("idle") => ~exRun.busy /\ ~exRun.power

\* Every accepted wake leaves the registry: served, skipped or failed, with
\* the link up or lost; all but a job dropped in the probation of _dispatch,
\* before the try whose finally releases it (pipeline.py _dispatch, jobs.py next_job).
ExSettles ==
  \A i \in ExId : i \in exTrigger.registry ~>
                  i \notin exTrigger.registry \/ i \in exServed.dropped

\* An exchange paints in order and completely, and leaves nothing behind to paint
\* or hold a lease after it (pipeline.py _dispatch and the tasks of run_evenai).
ExPaints == ExQuestionFirst /\ ExDeliveredWhole /\ ExTailsOwned
=============================================================================
