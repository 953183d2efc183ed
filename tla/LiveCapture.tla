---------------------------- MODULE LiveCapture ----------------------------
(* Speech that reaches the daemon while it is spoken.                        *)
(*                                                                           *)
(* The device streams one exchange at a time as BEGIN, PCM and END or ABORT  *)
(* frames; the wire may lose, repeat or spoil one.  Two threads meet at the  *)
(* stream record:                                                            *)
(*   the UART reader    audio/live.py LivePcmInbox.offer_frame, which keeps  *)
(*                      one record per exchange with a durable terminal      *)
(*   the capture thread stt/live_gate.py _CaptureRun.run, one per exchange,  *)
(*                      started by LiveSttGate.capture, which it may outlive *)
(* The wire is a FIFO and nothing the daemon does here reaches the device,   *)
(* so a frame arrives in the step that sends it.  A PCM frame is one unit of *)
(* audio, numbered by its offset; a frame damaged on the wire is a lost one, *)
(* a spoilt one has a payload that does not parse.  The worker the capture   *)
(* feeds is module LiveWorker, the lease that arms a wake is LiveLease.      *)
EXTENDS Integers, Sequences, FiniteSets, SequencesExt

CONSTANTS LcEx,           \* exchanges the device streams, 1 before 2
          LcSpoken,       \* PCM frames in a whole utterance
          LcSeqMod,       \* the wire sequence wraps here (65536 in the code)
          LcQueueMax,     \* _max_queue_frames
          LcTombs,        \* tombstone limit
          MaxLcFaults     \* bound: frames lost, repeated, spoilt, links closed

ASSUME LcAssumption ==
    /\ LcEx \subseteq Nat \ {0} /\ LcSeqMod \in Nat \ {0}
    /\ {LcSpoken, LcQueueMax, LcTombs, MaxLcFaults} \subseteq Nat

VARIABLES lcDev,     \* the device: [now, seq, last, at[x], said[x]]
          lcInbox,   \* [active, fresh, tomb]; fresh is generation # delivered
          lcStream,  \* the stream record of each exchange
          lcRun,     \* the capture of each exchange: coroutine and thread
          lcFaults

lcVars == <<lcDev, lcInbox, lcStream, lcRun, lcFaults>>

LcFaulty == lcFaults < MaxLcFaults /\ lcFaults' = lcFaults + 1

-----------------------------------------------------------------------------
(* The reader thread: LivePcmInbox.offer_frame.                              *)

\* LivePcmStream.__init__ at a BEGIN of this sequence number.
LcOpened(seq) == [last |-> seq, got |-> 0, queue |-> <<>>, terminal |-> "none"]

\* _invalidate_locked: the first terminal stays; queued audio is dropped.
Invalidated(s) ==
    IF s.terminal # "none" THEN s
    ELSE [s EXCEPT !.terminal = "invalid", !.queue = <<>>]

InvalidatedIn(streams, x) == [streams EXCEPT ![x] = Invalidated(@)]

\* _remember_tombstone_locked
Entombed(tomb, x) ==
    IF Contains(tomb, x) THEN tomb
    ELSE LET t == Append(tomb, x)
         IN  IF Len(t) > LcTombs THEN Tail(t) ELSE t

InSequence(s, f) == f.seq = (s.last + 1) % LcSeqMod

\* offer_pcm: in sequence, at the next offset, and room in the queue.
PcmOffered(s, f) ==
    IF s.terminal # "none" THEN s
    ELSE IF InSequence(s, f) /\ f.n = s.got /\ Len(s.queue) < LcQueueMax
    THEN [s EXCEPT !.last = f.seq, !.got = @ + 1, !.queue = Append(@, f.n)]
    ELSE Invalidated(s)

\* offer_terminal: an ABORT drops what is queued, an END keeps it.
TerminalOffered(s, f) ==
    IF s.terminal # "none" THEN s
    ELSE IF ~InSequence(s, f) \/ f.n # s.got THEN Invalidated(s)
    ELSE IF f.kind = "abort"
    THEN [s EXCEPT !.last = f.seq, !.terminal = "abort", !.queue = <<>>]
    ELSE [s EXCEPT !.last = f.seq, !.terminal = "end"]

\* _malformed: a frame that does not parse ends the active stream, unless it
\* was a BEGIN.
LcMalformed(f) ==
    /\ f.bad
    /\ IF /\ lcInbox.active # 0 /\ f.kind # "begin"
          /\ lcStream[lcInbox.active].terminal = "none"
       THEN /\ lcStream' = InvalidatedIn(lcStream, lcInbox.active)
            /\ lcInbox' = [lcInbox EXCEPT !.tomb = Entombed(@, lcInbox.active)]
       ELSE UNCHANGED <<lcInbox, lcStream>>

\* _offer_begin: a duplicate ends its own stream, a new one supersedes.
LcOfferBegin(f) ==
    LET prior == lcInbox.active
    IN  /\ ~f.bad /\ f.kind = "begin"
        /\ IF Contains(lcInbox.tomb, f.ex) THEN UNCHANGED <<lcInbox, lcStream>>
           ELSE IF prior = f.ex
           THEN /\ lcStream' = InvalidatedIn(lcStream, f.ex)
                /\ lcInbox' = [lcInbox EXCEPT !.tomb = Entombed(@, f.ex)]
           ELSE /\ lcStream' = [x \in LcEx |->
                      IF x = f.ex THEN LcOpened(f.seq)
                      ELSE IF x = prior THEN Invalidated(lcStream[x])
                      ELSE lcStream[x]]
                /\ lcInbox' = [active |-> f.ex, fresh |-> TRUE,
                               tomb |-> IF prior = 0 THEN lcInbox.tomb
                                        ELSE Entombed(lcInbox.tomb, prior)]

\* _matching_stream and the offer to it.  A frame of an unknown exchange ends
\* the active stream; one of a buried exchange is late and ignored.
LcOfferFrame(f) ==
    LET x == lcInbox.active
    IN  /\ ~f.bad /\ f.kind # "begin"
        /\ IF Contains(lcInbox.tomb, f.ex) \/ x = 0
           THEN UNCHANGED <<lcInbox, lcStream>>
           ELSE LET s == IF f.ex # x THEN Invalidated(lcStream[x])
                         ELSE IF f.kind = "pcm" THEN PcmOffered(lcStream[x], f)
                         ELSE TerminalOffered(lcStream[x], f)
                IN  /\ lcStream' = [lcStream EXCEPT ![x] = s]
                    /\ lcInbox' = IF s.terminal = "none" THEN lcInbox
                                  ELSE [lcInbox EXCEPT !.tomb = Entombed(@, x)]

\* offer_frame
LcOffer(f) == LcMalformed(f) \/ LcOfferBegin(f) \/ LcOfferFrame(f)

-----------------------------------------------------------------------------
(* The device and the wire (external).                                       *)

\* The device sends a frame; it arrives, or is spoilt, or does not arrive.
LcSends(kind, x, at, said) ==
    LET f == [kind |-> kind, ex |-> x, seq |-> lcDev.seq, n |-> lcDev.said[x],
              bad |-> FALSE]
    IN  /\ lcDev' = [lcDev EXCEPT !.now = x, !.seq = (@ + 1) % LcSeqMod, !.last = f,
                                  !.at[x] = at, !.said[x] = said]
        /\ \/ LcOffer(f) /\ UNCHANGED lcFaults
           \/ LcOffer([f EXCEPT !.bad = TRUE]) /\ LcFaulty
           \/ LcFaulty /\ UNCHANGED <<lcInbox, lcStream>>
        /\ UNCHANGED lcRun

\* A wake opens the lane; the stream of an earlier exchange just stops.
LcBegins(x) ==
    /\ lcDev.at[x] = "idle" /\ x > lcDev.now
    /\ LcSends("begin", x, "open", 0)

LcSpeaks(x) ==
    /\ lcDev.now = x /\ lcDev.at[x] = "open" /\ lcDev.said[x] < LcSpoken
    /\ LcSends("pcm", x, "open", lcDev.said[x] + 1)

LcCloses(x) ==
    /\ lcDev.now = x /\ lcDev.at[x] = "open"
    /\ \/ /\ lcDev.said[x] = LcSpoken
          /\ LcSends("end", x, "ended", lcDev.said[x])
       \/ LcSends("abort", x, "aborted", lcDev.said[x])

\* The last frame again.
LcRepeats ==
    /\ lcDev.now # 0
    /\ LcFaulty
    /\ LcOffer(lcDev.last)
    /\ UNCHANGED <<lcDev, lcRun>>

\* link_closed: the line is gone.
LcLinkClosed ==
    /\ LcFaulty
    /\ IF lcInbox.active # 0 /\ lcStream[lcInbox.active].terminal = "none"
       THEN /\ lcStream' = InvalidatedIn(lcStream, lcInbox.active)
            /\ lcInbox' = [lcInbox EXCEPT !.tomb = Entombed(@, lcInbox.active)]
       ELSE UNCHANGED <<lcInbox, lcStream>>
    /\ UNCHANGED <<lcDev, lcRun>>

-----------------------------------------------------------------------------
(* The capture: LiveSttGate.capture and _CaptureRun.run.                     *)

LcQuiet(x) == lcRun[x].pc \in {"idle", "over"}
LcGoes(x, pc) == lcRun' = [lcRun EXCEPT ![x].pc = pc]

\* The thread ends, and keeps nothing but its outcome and the PCM of a valid one.
LcEnds(x, outcome) ==
    lcRun' = [lcRun EXCEPT ![x] = [pc |-> "over", awaited |-> @.awaited, cancel |-> FALSE,
                                   holds |-> 0, outcome |-> outcome,
                                   pcm |-> IF outcome = "valid" THEN @.pcm ELSE <<>>]]

\* capture(): with a warm worker the thread starts, without one the stream is
\* buried; when the gate is not armed nothing is touched.  The pipeline
\* awaits one capture at a time, in the order of the wakes.
LcCapture(x) ==
    /\ lcRun[x].pc = "idle"
    /\ \A y \in LcEx : ~lcRun[y].awaited /\ (y < x => lcRun[y].pc # "idle")
    /\ \/ \E pc \in {"begin", "bury"} :
             lcRun' = [lcRun EXCEPT ![x].pc = pc, ![x].awaited = TRUE]
       \/ LcEnds(x, "inactive")
    /\ UNCHANGED <<lcDev, lcInbox, lcStream, lcFaults>>

\* Mutant: the one delivery is consumed by whoever waits.
OfferedAny(x) == lcInbox.fresh /\ x \in LcEx

\* next_stream(for_exchange): a new generation, and ours.
Offered(x) == lcInbox.fresh /\ lcInbox.active = x

\* _tombstone_own_stream
LcBury(x) ==
    /\ lcRun[x].pc = "bury"
    /\ IF Offered(x)
       THEN /\ lcStream' = InvalidatedIn(lcStream, lcInbox.active)
            /\ lcInbox' = [lcInbox EXCEPT !.fresh = FALSE]
       ELSE UNCHANGED <<lcInbox, lcStream>>
    /\ LcEnds(x, "invalid")
    /\ UNCHANGED <<lcDev, lcFaults>>

LcClaim(x) ==
    /\ lcRun[x].pc = "begin" /\ ~lcRun[x].cancel /\ Offered(x)
    /\ lcInbox' = [lcInbox EXCEPT !.fresh = FALSE]
    /\ lcRun' = [lcRun EXCEPT ![x].pc = "claimed", ![x].holds = lcInbox.active]
    /\ UNCHANGED <<lcDev, lcStream, lcFaults>>

\* The BEGIN did not come in time, or the capture was cancelled first.
LcGivesUp(x) ==
    /\ lcRun[x].pc = "begin"
    /\ LcEnds(x, "invalid")
    /\ UNCHANGED <<lcDev, lcInbox, lcStream, lcFaults>>

\* Under the run's lock: the stream is noted, and a cancellation that came
\* since the claim is seen.
LcNoted(x) ==
    /\ lcRun[x].pc = "claimed"
    /\ IF lcRun[x].cancel
       THEN /\ lcStream' = InvalidatedIn(lcStream, lcRun[x].holds)
            /\ LcEnds(x, "invalid")
       ELSE LcGoes(x, "items") /\ UNCHANGED lcStream
    /\ UNCHANGED <<lcDev, lcInbox, lcFaults>>

\* One chunk from next_item to the collector and the worker.
LcItem(x) ==
    LET s == lcStream[lcRun[x].holds]
    IN  /\ lcRun[x].pc = "items" /\ s.queue # <<>>
        /\ lcStream' = [lcStream EXCEPT ![lcRun[x].holds].queue = Tail(@)]
        /\ lcRun' = [lcRun EXCEPT ![x].pcm = Append(@, Head(s.queue))]
        /\ UNCHANGED <<lcDev, lcInbox, lcFaults>>

\* Mutant: only the wait for the first frame has a deadline.
LcExpiresFirst(x) ==
    /\ lcRun[x].pc = "items"
    /\ lcStream[lcRun[x].holds].terminal = "none"
    /\ lcStream[lcRun[x].holds].got = 0
    /\ lcStream' = InvalidatedIn(lcStream, lcRun[x].holds)
    /\ UNCHANGED <<lcDev, lcInbox, lcRun, lcFaults>>

\* The first-frame, interframe, absolute and capture deadlines.
LcExpires(x) ==
    /\ lcRun[x].pc = "items"
    /\ lcStream[lcRun[x].holds].terminal = "none"
    /\ lcStream' = InvalidatedIn(lcStream, lcRun[x].holds)
    /\ UNCHANGED <<lcDev, lcInbox, lcRun, lcFaults>>

\* The durable terminal, after all that was queued: only a valid END goes on
\* to wait for the worker.
LcTerminal(x) ==
    LET s == lcStream[lcRun[x].holds]
    IN  /\ lcRun[x].pc = "items" /\ s.queue = <<>> /\ s.terminal # "none"
        /\ IF s.terminal = "end" THEN LcGoes(x, "waiting")
           ELSE LcEnds(x, "invalid")
        /\ UNCHANGED <<lcDev, lcInbox, lcStream, lcFaults>>

\* The worker's result; a cancelled one is aborted, and so invalid.
LcResult(x) ==
    /\ lcRun[x].pc = "waiting"
    /\ \E o \in {"valid", "invalid"} :
          /\ lcRun[x].cancel => o = "invalid"
          /\ LcEnds(x, o)
    /\ UNCHANGED <<lcDev, lcInbox, lcStream, lcFaults>>

\* _CaptureRun.cancel, by the exchange's cancel event, or by the end of the
\* coroutine, which leaves the thread to itself.
LcCancel(x) ==
    /\ lcRun[x].awaited /\ ~lcRun[x].cancel
    /\ lcRun[x].pc \in {"begin", "claimed", "items", "waiting"}
    /\ \E left \in BOOLEAN :
          lcRun' = [lcRun EXCEPT ![x].cancel = TRUE, ![x].awaited = ~left]
    /\ lcStream' = IF lcRun[x].pc \in {"begin", "claimed"} THEN lcStream
                   ELSE InvalidatedIn(lcStream, lcRun[x].holds)
    /\ UNCHANGED <<lcDev, lcInbox, lcFaults>>

\* The coroutine has the thread's outcome.
LcReturned(x) ==
    /\ lcRun[x].awaited /\ lcRun[x].pc = "over"
    /\ lcRun' = [lcRun EXCEPT ![x].awaited = FALSE]
    /\ UNCHANGED <<lcDev, lcInbox, lcStream, lcFaults>>

-----------------------------------------------------------------------------
LcInit ==
    /\ lcDev = [now |-> 0, seq |-> LcSeqMod - 2,
                last |-> [kind |-> "none", ex |-> 0, seq |-> 0, n |-> 0, bad |-> FALSE],
                at |-> [x \in LcEx |-> "idle"], said |-> [x \in LcEx |-> 0]]
    /\ lcInbox = [active |-> 0, fresh |-> FALSE, tomb |-> <<>>]
    /\ lcStream = [x \in LcEx |-> Invalidated(LcOpened(0))]
    /\ lcRun = [x \in LcEx |-> [pc |-> "idle", awaited |-> FALSE, cancel |-> FALSE,
                               holds |-> 0, pcm |-> <<>>, outcome |-> "none"]]
    /\ lcFaults = 0

LcThread(x) ==
    \/ LcBury(x) \/ LcClaim(x) \/ LcGivesUp(x) \/ LcNoted(x) \/ LcItem(x)
    \/ LcExpires(x) \/ LcTerminal(x) \/ LcResult(x)

LcNext ==
    \/ LcRepeats \/ LcLinkClosed
    \/ \E x \in LcEx :
          \/ LcBegins(x) \/ LcSpeaks(x) \/ LcCloses(x)
          \/ LcCapture(x) \/ LcThread(x) \/ LcCancel(x) \/ LcReturned(x)

LcSpec == LcInit /\ [][LcNext]_lcVars

-----------------------------------------------------------------------------
(* Properties.                                                               *)

\* The type of the state; the queues and tombstones keep to their bounds.
LcTypeOK ==
    /\ lcDev.now \in LcEx \cup {0} /\ lcDev.seq \in 0 .. LcSeqMod - 1
    /\ lcInbox.active \in LcEx \cup {0} /\ Len(lcInbox.tomb) <= LcTombs
    /\ \A x \in LcEx :
          /\ lcDev.said[x] \in 0 .. LcSpoken
          /\ lcDev.at[x] \in {"idle", "open", "ended", "aborted"}
          /\ Len(lcStream[x].queue) <= LcQueueMax
          /\ lcStream[x].terminal \in {"none", "end", "abort", "invalid"}
          /\ lcRun[x].pc \in {"idle", "begin", "bury", "claimed", "items", "waiting",
                              "over"}
          /\ lcRun[x].outcome \in {"none", "valid", "invalid", "inactive"}
    /\ lcFaults \in 0 .. MaxLcFaults

LcUtterance == [i \in 1 .. LcSpoken |-> i - 1]

\* A capture that gets as far as the worker's result holds the PCM of the whole
\* utterance, once and in order, of a stream its device ended: whatever was
\* lost, repeated, spoilt, superseded or overflowed (audio/live.py 137-305).
LcWhole ==
    \A x \in LcEx :
        lcRun[x].pc = "waiting" \/ lcRun[x].outcome = "valid" =>
            lcDev.at[x] = "ended" /\ lcRun[x].pcm = LcUtterance

\* A capture that wakes for the stream of a successor does not consume the
\* one delivery of it: a stream in someone's hands is in those of its own
\* exchange, and is delivered as long as that one waits (next_stream,
\* audio/live.py 480-518).
LcSuccessorKept ==
    /\ \A x \in LcEx : lcRun[x].holds \in {0, x}
    /\ \A x \in LcEx :
          lcInbox.active = x /\ lcRun[x].pc \in {"idle", "begin"} => lcInbox.fresh

\* Every capture comes to its end, whatever the wire did with the terminal
\* frame and whoever waits for it (next_item's deadlines).
LcReturns ==
    \A x \in LcEx : lcRun[x].pc # "idle" ~> lcRun[x].pc = "over" /\ ~lcRun[x].awaited

\* A capture hears its own utterance whole, and none takes its successor's.
LcSound == LcWhole /\ LcSuccessorKept
=============================================================================
