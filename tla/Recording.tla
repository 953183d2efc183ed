----------------------------- MODULE Recording -----------------------------
(* Audio recorded on the device and fetched over the command channel:        *)
(* audio/fetch.py, with its callers in pipeline.py (run_ask) and deliver.py. *)
(*                                                                           *)
(* Two kinds of job use the one recorder of the device.  An "ask" starts a   *)
(* recording itself, waits for silence or the end of the window, and stops   *)
(* it; a "wake" was started by the device, and the job only waits for its    *)
(* end.  Then both fetch the file, as frames or in base64 chunks, and an ask *)
(* delivers the answer to the displays.                                      *)
(*                                                                           *)
(* A command has three ends: it is answered, it raises without having        *)
(* reached the device, or it raises after the device did it (a lost reply).  *)
(* A raise is a timeout, a lost link, or the cancellation of the job.  The   *)
(* file is RcFrames pieces; a piece is a frame, or a chunk of fileread.      *)
EXTENDS Integers, Sequences, FiniteSets

CONSTANTS RcFrames,     \* pieces in a recording
          RcTransfer,   \* cfg.transfer: "auto", "voicefetch" or "fileread"
          RcKnowsVad,   \* the firmware has `micrecord start vad`
          RcChunks,     \* chunks of an answer on the displays
          MaxRcJobs,    \* bound: jobs
          MaxRcFaults   \* bound: raises, refusals, lost frames and events

ASSUME RcAssumption == RcFrames \in Nat \ {0}

VARIABLES rcMic,    \* the recorder: [on, owner, dropped]
          rcJob,    \* the job in hand
          rcJobs,   \* how many there were
          rcFaults

rcVars == <<rcMic, rcJob, rcJobs, rcFaults>>

RcFile == [i \in 1 .. RcFrames |-> i]

RcFaulty == rcFaults < MaxRcFaults /\ rcFaults' = rcFaults + 1
RcSound == UNCHANGED rcFaults

\* at: where the job is; event: the stop event came, with the path; got: the
\* pieces fetched; blind: a start raised, so that nobody knows whether it
\* records; unheard: the last word of the guard did not reach the device.
RcNoJob == [kind |-> "none", at |-> "idle", vad |-> FALSE, retried |-> FALSE,
            event |-> FALSE, cancel |-> FALSE, got |-> <<>>, blind |-> FALSE,
            unheard |-> FALSE, chunk |-> 0, oled |-> FALSE, result |-> "none"]

RcAt(at) == rcJob.at = at
RcTo(at) == rcJob' = [rcJob EXCEPT !.at = at]
RcEnds(result) == rcJob' = [rcJob EXCEPT !.at = "over", !.result = result]
RcMicOff == rcMic' = [rcMic EXCEPT !.on = FALSE]

-----------------------------------------------------------------------------
(* The device (external).                                                    *)

\* The recording ends on silence; the event may be lost.
RcSilence ==
    /\ rcMic.on
    /\ RcMicOff
    /\ \/ rcJob' = [rcJob EXCEPT !.event = rcMic.owner = rcJob.kind] /\ RcSound
       \/ UNCHANGED rcJob /\ RcFaulty
    /\ UNCHANGED rcJobs

\* The wearer dismisses a wake: its recording is discarded, and the cancel
\* event may be lost.
RcDismiss ==
    /\ rcJob.kind = "wake" /\ rcJob.at \notin {"idle", "over"} /\ ~rcMic.dropped
    /\ rcMic' = [rcMic EXCEPT !.on = FALSE, !.dropped = TRUE]
    /\ \/ rcJob' = [rcJob EXCEPT !.cancel = TRUE] /\ RcSound
       \/ UNCHANGED rcJob /\ RcFaulty
    /\ UNCHANGED rcJobs

\* Somebody at the device records.
RcOther ==
    /\ ~rcMic.on /\ rcJob.kind # "wake" /\ RcFaulty
    /\ rcMic' = [on |-> TRUE, owner |-> "other", dropped |-> FALSE]
    /\ UNCHANGED <<rcJob, rcJobs>>

-----------------------------------------------------------------------------
(* The jobs begin.                                                           *)

RcBegins ==
    /\ rcJob.at \in {"idle", "over"} /\ rcJobs < MaxRcJobs
    /\ rcJobs' = rcJobs + 1
    /\ UNCHANGED rcFaults

\* run_ask: record_utterance.  What an earlier ask left running is another's.
RcAsk ==
    /\ RcBegins
    /\ rcJob' = [RcNoJob EXCEPT !.kind = "ask", !.at = "mic", !.vad = TRUE]
    /\ rcMic' = [rcMic EXCEPT !.owner = IF @ = "ask" THEN "other" ELSE @]

\* A wake: the device has confirmed that it records.
RcWake ==
    /\ RcBegins /\ ~rcMic.on
    /\ rcMic' = [on |-> TRUE, owner |-> "wake", dropped |-> FALSE]
    /\ rcJob' = [RcNoJob EXCEPT !.kind = "wake", !.at = "await"]

\* _ensure_mic: any refusal but "already" ends the job.
RcOpensMic ==
    /\ RcAt("mic")
    /\ \/ RcTo("start") /\ RcSound
       \/ RcEnds("failed") /\ RcFaulty
    /\ UNCHANGED <<rcMic, rcJobs>>

-----------------------------------------------------------------------------
(* The recording of an ask: _record_window.                                  *)

\* micrecord start is never sent twice for one reply: a firmware without vad
\* is asked for a plain window, a busy recorder is stopped once.
RcStart ==
    /\ RcAt("start")
    /\ \/ /\ rcJob.vad /\ ~RcKnowsVad
          /\ rcJob' = [rcJob EXCEPT !.vad = FALSE]
          /\ RcSound /\ UNCHANGED rcMic
       \/ /\ rcJob.vad => RcKnowsVad
          /\ rcMic.on
          /\ IF rcJob.retried THEN RcEnds("failed") ELSE RcTo("clear")
          /\ RcSound /\ UNCHANGED rcMic
       \/ /\ rcJob.vad => RcKnowsVad
          /\ ~rcMic.on
          /\ rcMic' = [on |-> TRUE, owner |-> "ask", dropped |-> FALSE]
          /\ rcJob' = [rcJob EXCEPT !.at = "window", !.event = FALSE]
          /\ RcSound
    /\ UNCHANGED rcJobs

\* The start raises: the guard below is not entered yet.
RcStartRaises ==
    /\ RcAt("start")
    /\ RcFaulty
    /\ \/ UNCHANGED rcMic
       \/ /\ ~rcMic.on
          /\ rcMic' = [on |-> TRUE, owner |-> "ask", dropped |-> FALSE]
    /\ rcJob' = [rcJob EXCEPT !.at = "over", !.result = "failed", !.blind = TRUE]
    /\ UNCHANGED rcJobs

\* "start refused (already recording?) - stop + retry"
RcClear ==
    /\ RcAt("clear")
    /\ \/ RcMicOff /\ RcSound
       \/ UNCHANGED rcMic /\ RcFaulty
    /\ rcJob' = [rcJob EXCEPT !.at = "start", !.retried = TRUE]
    /\ UNCHANGED rcJobs

\* _await_auto_stop or the sleep: the event, a poll that finds the recorder
\* stopped, or the end of the window, whichever comes first.
RcWindow ==
    /\ RcAt("window")
    /\ RcTo("stop") /\ RcSound
    /\ UNCHANGED <<rcMic, rcJobs>>

\* Mutant: a raise in the window ends the job as a raise of the start does.
RcWindowRaisesBare ==
    /\ RcAt("window") /\ RcFaulty
    /\ RcEnds("failed")
    /\ UNCHANGED <<rcMic, rcJobs>>

RcWindowRaises ==
    /\ RcAt("window") /\ RcFaulty
    /\ RcTo("leaving")
    /\ UNCHANGED <<rcMic, rcJobs>>

\* micrecord stop: it finalizes the recording and returns its path, after an
\* auto-stop too.  A refusal is final: the window counts as stopped.
RcStop ==
    /\ RcAt("stop")
    /\ \/ RcMicOff /\ RcTo("frames") /\ RcSound
       \/ UNCHANGED rcMic /\ RcFaulty
          /\ rcJob' = [rcJob EXCEPT !.at = "over", !.result = "failed", !.unheard = TRUE]
       \/ (RcMicOff \/ UNCHANGED rcMic) /\ RcFaulty /\ RcTo("leaving")
    /\ UNCHANGED rcJobs

\* The finally: a last, best-effort stop.
RcLeaving ==
    /\ RcAt("leaving")
    /\ \/ RcMicOff /\ RcSound /\ RcEnds("failed")
       \/ UNCHANGED rcMic /\ RcFaulty
          /\ rcJob' = [rcJob EXCEPT !.at = "over", !.result = "failed", !.unheard = TRUE]
    /\ UNCHANGED rcJobs

-----------------------------------------------------------------------------
(* The recording of a wake: fetch_wake_utterance, _await_exchange_stop.      *)

\* The cancellation is looked at first, wherever the job waits.
RcCancelled ==
    /\ rcJob.kind = "wake" /\ rcJob.cancel
    /\ rcJob.at \notin {"idle", "over"}
    /\ RcEnds("cancelled") /\ RcSound
    /\ UNCHANGED <<rcMic, rcJobs>>

RcEvent ==
    /\ RcAt("await") /\ ~rcJob.cancel /\ rcJob.event
    /\ RcTo("frames") /\ RcSound
    /\ UNCHANGED <<rcMic, rcJobs>>

\* The status poll is scoped to the exchange; an error of it is terminal.
RcPoll ==
    /\ RcAt("await") /\ ~rcJob.cancel /\ ~rcJob.event
    /\ \/ rcMic.dropped /\ rcJob' = [rcJob EXCEPT !.cancel = TRUE] /\ RcSound
       \/ ~rcMic.dropped /\ ~rcMic.on /\ RcTo("close") /\ RcSound
       \/ RcEnds("failed") /\ RcFaulty
    /\ UNCHANGED <<rcMic, rcJobs>>

RcDeadline ==
    /\ RcAt("await") /\ ~rcJob.cancel
    /\ RcTo("close") /\ RcSound
    /\ UNCHANGED <<rcMic, rcJobs>>

\* The scoped stop: the path, or the news that the recording was discarded.
RcClose ==
    /\ RcAt("close") /\ ~rcJob.cancel
    /\ \/ /\ rcMic.dropped
          /\ rcJob' = [rcJob EXCEPT !.cancel = TRUE]
          /\ RcSound /\ UNCHANGED rcMic
       \/ ~rcMic.dropped /\ RcMicOff /\ RcTo("frames") /\ RcSound
       \/ (RcMicOff \/ UNCHANGED rcMic) /\ RcEnds("failed") /\ RcFaulty
    /\ UNCHANGED rcJobs

-----------------------------------------------------------------------------
(* The transfer.                                                             *)

Contiguous(seqs) == seqs = 1 .. Cardinality(seqs)

\* fetch_frames: the checks on the frames that came, with a META frame, a
\* repeated frame, a CRC in the reply.
Reassembled(seqs, meta, twice, crc) ==
    /\ meta /\ ~twice /\ Contiguous(seqs)
    /\ Cardinality(seqs) = RcFrames
    /\ crc => seqs = DOMAIN RcFile

\* Only with transfer "auto" does another try, by fileread, follow a failure.
RcFramesFail == IF RcTransfer = "auto" THEN RcTo("reading") ELSE RcEnds("failed")

\* One voicefetch: all frames, or what a lossy line leaves of them; or the
\* firmware does not know the command, or keeps the lane busy too long.
RcVoicefetch ==
    /\ RcAt("frames") /\ ~rcJob.cancel
    /\ IF RcTransfer = "fileread" THEN RcTo("reading") /\ RcSound
       ELSE \/ /\ rcJob' = [rcJob EXCEPT !.at = "fetched", !.got = RcFile]
               /\ RcSound /\ ~rcMic.dropped
            \/ /\ ~rcMic.dropped /\ RcFaulty
               /\ \E seqs \in SUBSET DOMAIN RcFile, meta, twice, crc \in BOOLEAN :
                     IF Reassembled(seqs, meta, twice, crc)
                     THEN rcJob' = [rcJob EXCEPT !.at = "fetched",
                                        !.got = [i \in 1 .. Cardinality(seqs) |-> i]]
                     ELSE RcFramesFail
            \/ RcFramesFail /\ RcFaulty
            \/ rcMic.dropped /\ RcFramesFail /\ RcSound
            \/ RcEnds("failed") /\ RcFaulty
    /\ UNCHANGED <<rcMic, rcJobs>>

\* read_file_b64, one round: the next piece, the last with eof; an empty piece
\* ends the loop, and the total is compared with the size.
RcReads ==
    LET n == Len(rcJob.got)
    IN  /\ RcAt("reading") /\ ~rcJob.cancel
        /\ \/ /\ ~rcMic.dropped /\ RcSound
              /\ rcJob' = [rcJob EXCEPT !.got = Append(@, RcFile[n + 1]),
                                        !.at = IF n + 1 = RcFrames THEN "fetched" ELSE @]
           \/ RcEnds("failed") /\ (IF rcMic.dropped THEN RcSound ELSE RcFaulty)
        /\ UNCHANGED <<rcMic, rcJobs>>

\* The caller has the bytes; the file is deleted beside it, best-effort.
RcFetched ==
    /\ RcAt("fetched") /\ ~rcJob.cancel
    /\ IF rcJob.kind = "ask" THEN RcTo("answer") ELSE RcEnds("fetched")
    /\ RcSound
    /\ UNCHANGED <<rcMic, rcJobs>>

-----------------------------------------------------------------------------
(* The answer of an ask: run_ask, deliver.                                   *)

\* Speech recognition, then the model or, without one, the transcript itself.
RcAnswer ==
    /\ RcAt("answer")
    /\ \/ rcJob' = [rcJob EXCEPT !.at = "deliver", !.chunk = 1] /\ RcSound
       \/ RcEnds("failed") /\ RcFaulty
    /\ UNCHANGED <<rcMic, rcJobs>>

RcNextChunk(shown) ==
    rcJob' = [rcJob EXCEPT !.chunk = @ + 1,
                           !.result = IF shown THEN "shown" ELSE @,
                           !.at = IF rcJob.chunk = RcChunks THEN "over" ELSE @]

\* _deliver_oled: the first chunk that is refused starts the display, once a
\* delivery.
RcDeliver ==
    /\ RcAt("deliver")
    /\ \/ RcNextChunk(TRUE) /\ RcSound
       \/ ~rcJob.oled /\ rcJob' = [rcJob EXCEPT !.oled = TRUE] /\ RcFaulty
       \/ rcJob.oled /\ RcNextChunk(FALSE) /\ RcFaulty
    /\ UNCHANGED <<rcMic, rcJobs>>

-----------------------------------------------------------------------------
RcInit ==
    /\ rcMic = [on |-> FALSE, owner |-> "none", dropped |-> FALSE]
    /\ rcJob = RcNoJob
    /\ rcJobs = 0
    /\ rcFaults = 0

RcNext ==
    \/ RcSilence \/ RcDismiss \/ RcOther
    \/ RcAsk \/ RcWake \/ RcOpensMic
    \/ RcStart \/ RcStartRaises \/ RcClear \/ RcWindow \/ RcWindowRaises
    \/ RcStop \/ RcLeaving
    \/ RcCancelled \/ RcEvent \/ RcPoll \/ RcDeadline \/ RcClose
    \/ RcVoicefetch \/ RcReads \/ RcFetched \/ RcAnswer \/ RcDeliver

RcSpec == RcInit /\ [][RcNext]_rcVars

-----------------------------------------------------------------------------
(* Properties.                                                               *)

\* The type of the state; nothing is fetched that the file has not.
RcTypeOK ==
    /\ rcMic.owner \in {"none", "ask", "wake", "other"}
    /\ rcJob.at \in {"idle", "mic", "start", "clear", "window", "stop", "leaving",
                     "await", "close", "frames", "reading", "fetched", "answer",
                     "deliver", "over"}
    /\ Len(rcJob.got) <= RcFrames
    /\ rcJobs \in 0 .. MaxRcJobs /\ rcFaults \in 0 .. MaxRcFaults

\* What a transfer returns is the whole file, each piece once and in order,
\* whatever frames were lost or repeated, and after a fallback too
\* (fetch_frames, read_file_b64).
RcWhole == RcAt("fetched") \/ RcAt("answer") => rcJob.got = RcFile

\* An ask that ended, however it ended, does not leave its recording running:
\* except that its start raised, or that its last stop did not reach the
\* device (_record_window, fetch.py:215-249).
RcReleased ==
    rcJob.kind = "ask" /\ rcJob.at \in {"frames", "reading", "fetched", "answer",
                                        "deliver", "over"}
    /\ rcMic.on /\ rcMic.owner = "ask" => rcJob.blind \/ rcJob.unheard

\* A transfer is whole, and an ask leaves no recorder running behind it.
RcSafe == RcWhole /\ RcReleased
=============================================================================
