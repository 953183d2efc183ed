---------------------------- MODULE VoiceProofs ----------------------------
(* What Recording guarantees for every length of a recording and every setting *)
(* of the transfer, and VoiceExchange for every number of exchanges, reply     *)
(* parts and faults.                                                          *)
EXTENDS Recording, VoiceExchange, Dictation, OrderProofs

-----------------------------------------------------------------------------
(* Recording.                                                                *)

Begun == {"mic", "start", "clear", "window", "stop", "leaving", "await", "close", "frames"}
Recorders == {"window", "stop", "leaving"}

\* The first n pieces of a recording.
Pieces(n) == [i \in 1 .. n |-> i]

\* What has been fetched at each place: nothing, some pieces, the whole.
GotInv ==
    /\ rcJob.at \in Begun => rcJob.got = <<>>
    /\ rcJob.at = "reading" => \E n \in 0 .. RcFrames - 1 : rcJob.got = Pieces(n)
    /\ RcWhole

\* An ask's recording runs only between its start and its stop, or excused.
MicInv ==
    /\ rcJob.at \in {"mic", "start", "clear"} => rcMic.owner # "ask"
    /\ rcJob.at \in {"mic", "start", "clear"} \cup Recorders => rcJob.kind = "ask"
    /\ rcJob.at \in {"await", "close"} => rcJob.kind = "wake"
    /\ RcReleased

Places == Begun \cup {"idle", "reading", "fetched", "answer", "deliver", "over"}
Results == {"none", "failed", "cancelled", "fetched", "shown"}
Jobs == [kind : {"none", "ask", "wake"}, at : Places,
         vad : BOOLEAN, retried : BOOLEAN, event : BOOLEAN, cancel : BOOLEAN, got : Seq(Nat),
         blind : BOOLEAN, unheard : BOOLEAN, chunk : Nat, oled : BOOLEAN, result : Results]
Mics == [on : BOOLEAN, owner : {"none", "ask", "wake", "other"}, dropped : BOOLEAN]

RcInv == rcJob \in Jobs /\ rcMic \in Mics /\ GotInv /\ MicInv

-----------------------------------------------------------------------------
\* A recording is its pieces, and the next piece makes one more.
LEMMA PiecesGrow ==
    /\ RcFile = Pieces(RcFrames) /\ Pieces(0) = <<>>
    /\ \A n \in Nat : Pieces(n) \in Seq(Nat) /\ Len(Pieces(n)) = n
    /\ \A n \in 0 .. RcFrames - 1 : Append(Pieces(n), RcFile[n + 1]) = Pieces(n + 1)
<1>1. RcFrames \in Nat \ {0}
  BY RcAssumption DEF RcAssumption
<1>2. RcFile = Pieces(RcFrames)
  BY DEF RcFile, Pieces
<1>3. \A n \in Nat : Pieces(n) \in Seq(Nat) /\ Len(Pieces(n)) = n
  BY DEF Pieces
<1>4. Pieces(0) = <<>>
  BY <1>3
<1>5. ASSUME NEW n \in 0 .. RcFrames - 1 PROVE Append(Pieces(n), RcFile[n + 1]) = Pieces(n + 1)
  <2>1. RcFile[n + 1] = n + 1 /\ n \in Nat /\ n + 1 \in Nat
    BY <1>1 DEF RcFile
  <2>2. /\ Len(Append(Pieces(n), n + 1)) = n + 1
        /\ \A i \in 1 .. n + 1 : Append(Pieces(n), n + 1)[i] = i
        /\ Append(Pieces(n), n + 1) \in Seq(Nat)
    BY <1>3, <2>1 DEF Pieces
  <2>3. Append(Pieces(n), n + 1) = [i \in 1 .. n + 1 |-> i]
    BY <2>1, <2>2
  <2> QED
    BY <2>1, <2>3 DEF Pieces
<1> QED
  BY <1>2, <1>3, <1>4, <1>5

\* Nothing is recorded and nobody fetches.
LEMMA RcInitInv == RcInit => RcInv
<1> SUFFICES ASSUME RcInit PROVE RcInv
  OBVIOUS
<1>1. rcJob \in Jobs /\ rcJob.got = <<>> /\ rcJob.at = "idle" /\ rcJob.kind = "none"
  <2>1. <<>> \in Seq(Nat)
    OBVIOUS
  <2> QED
    BY <2>1 DEF RcInit, RcNoJob, Jobs, Places, Results
<1>2. rcMic \in Mics
  BY DEF RcInit, Mics
<1> QED
  BY <1>1, <1>2 DEF RcInv, Begun, GotInv, MicInv, RcWhole, RcReleased, RcAt, Recorders

-----------------------------------------------------------------------------
(* The steps.                                                                *)

\* The job goes to a place, with what it has fetched, and keeps what excuses it.
Fetches(at, got) ==
    /\ rcJob' \in Jobs /\ rcJob'.at = at /\ rcJob'.kind = rcJob.kind /\ rcJob'.got = got
    /\ rcJob'.blind = rcJob.blind /\ rcJob'.unheard = rcJob.unheard

Moves(at) == Fetches(at, rcJob.got)

\* What the changes of a job that are not a fetch or an excuse amount to.
LEMMA JobMoves ==
    ASSUME rcJob \in Jobs
    PROVE  /\ rcJob' = rcJob => Moves(rcJob.at)
           /\ \A at \in Places : RcTo(at) => Moves(at)
           /\ \A result \in Results : RcEnds(result) => Moves("over")
           /\ rcJob' = [rcJob EXCEPT !.vad = FALSE] => Moves(rcJob.at)
           /\ rcJob' = [rcJob EXCEPT !.cancel = TRUE] => Moves(rcJob.at)
           /\ \A b \in BOOLEAN : rcJob' = [rcJob EXCEPT !.event = b] => Moves(rcJob.at)
           /\ rcJob' = [rcJob EXCEPT !.oled = TRUE] => Moves(rcJob.at)
           /\ rcJob' = [rcJob EXCEPT !.at = "start", !.retried = TRUE] => Moves("start")
           /\ rcJob' = [rcJob EXCEPT !.at = "window", !.event = FALSE] => Moves("window")
           /\ rcJob' = [rcJob EXCEPT !.at = "deliver", !.chunk = 1] => Moves("deliver")
<1> USE DEF Moves, Fetches
<1>1. {"start", "window", "deliver", "over"} \subseteq Places
  BY DEF Places, Begun
<1>2. rcJob' = rcJob => Moves(rcJob.at)
  OBVIOUS
<1> USE DEF Jobs
<1>3. ASSUME NEW at \in Places, RcTo(at) PROVE Moves(at)
  BY <1>3 DEF RcTo
<1>4. ASSUME NEW result \in Results, RcEnds(result) PROVE Moves("over")
  BY <1>1, <1>4 DEF RcEnds
<1>5. ASSUME rcJob' = [rcJob EXCEPT !.vad = FALSE] PROVE Moves(rcJob.at)
  BY <1>5
<1>6. ASSUME rcJob' = [rcJob EXCEPT !.cancel = TRUE] PROVE Moves(rcJob.at)
  BY <1>6
<1>7. ASSUME NEW b \in BOOLEAN, rcJob' = [rcJob EXCEPT !.event = b] PROVE Moves(rcJob.at)
  BY <1>7
<1>8. ASSUME rcJob' = [rcJob EXCEPT !.oled = TRUE] PROVE Moves(rcJob.at)
  BY <1>8
<1>9. ASSUME rcJob' = [rcJob EXCEPT !.at = "start", !.retried = TRUE] PROVE Moves("start")
  BY <1>1, <1>9
<1>10. ASSUME rcJob' = [rcJob EXCEPT !.at = "window", !.event = FALSE] PROVE Moves("window")
  BY <1>1, <1>10
<1>11. ASSUME rcJob' = [rcJob EXCEPT !.at = "deliver", !.chunk = 1] PROVE Moves("deliver")
  BY <1>1, <1>11
<1> HIDE DEF Moves, Fetches, Jobs
<1> QED
  BY <1>2, <1>3, <1>4, <1>5, <1>6, <1>7, <1>8, <1>9, <1>10, <1>11

\* A fetched piece or recording, and a chunk of the answer shown.
LEMMA JobFetches ==
    ASSUME rcJob \in Jobs, NEW at \in Places
    PROVE  /\ \A got \in Seq(Nat) :
                rcJob' = [rcJob EXCEPT !.at = at, !.got = got] => Fetches(at, got)
           /\ \A chunk \in Nat, result \in Results :
                rcJob' = [rcJob EXCEPT !.chunk = chunk, !.result = result, !.at = at] => Moves(at)
<1>1. ASSUME NEW got \in Seq(Nat), rcJob' = [rcJob EXCEPT !.at = at, !.got = got]
      PROVE  Fetches(at, got)
  BY <1>1 DEF Jobs, Fetches
<1>2. ASSUME NEW chunk \in Nat, NEW result \in Results,
             rcJob' = [rcJob EXCEPT !.chunk = chunk, !.result = result, !.at = at]
      PROVE  Moves(at)
  BY <1>2 DEF Jobs, Fetches, Moves
<1> QED
  BY <1>1, <1>2

\* The recorder is left alone or switched off.
LEMMA MicStays ==
    ASSUME rcMic \in Mics, UNCHANGED rcMic \/ RcMicOff
    PROVE  /\ rcMic' \in Mics /\ rcMic'.owner = rcMic.owner
           /\ rcMic'.on => rcMic.on
           /\ RcMicOff => ~rcMic'.on
  BY DEF Mics, RcMicOff

\* The recorder may stop under a job that stays where it is.
LEMMA StaysPut ==
    ASSUME RcInv, Moves(rcJob.at), rcMic' \in Mics,
           rcMic'.on => rcMic.on, rcMic'.owner = rcMic.owner
    PROVE RcInv'
<1>1. GotInv'
  BY DEF RcInv, GotInv, RcWhole, RcAt, Moves, Fetches, RcFile, Pieces
<1>2. MicInv'
  BY DEF RcInv, MicInv, RcReleased, Moves, Fetches
<1> QED
  BY <1>1, <1>2 DEF RcInv, Moves, Fetches

\* An ask that fetches nothing yet, or nothing any more, and whose recording
\* runs only between its start and its stop.
LEMMA AskMoves ==
    ASSUME rcJob' \in Jobs, rcMic' \in Mics, rcJob'.kind = "ask",
           rcJob'.at \in {"start", "clear", "over", "frames"} \cup Recorders,
           rcJob'.at \in Begun => rcJob'.got = <<>>,
           rcJob'.at \in {"start", "clear"} => rcMic'.owner # "ask",
           rcJob'.at \in {"over", "frames"} =>
               ~rcMic'.on \/ rcMic'.owner # "ask" \/ rcJob'.blind \/ rcJob'.unheard
    PROVE RcInv'
<1>1. GotInv'
  BY DEF GotInv, RcWhole, RcAt, Begun, Recorders
<1>2. MicInv'
  BY DEF MicInv, RcReleased, Recorders
<1> QED
  BY <1>1, <1>2 DEF RcInv

\* A wake that fetches nothing yet, or nothing any more.
LEMMA WakeMoves ==
    ASSUME RcInv, NEW at, Moves(at), rcMic' \in Mics, rcJob.kind = "wake",
           at \in {"await", "close", "frames", "over"}, at \in Begun => rcJob.got = <<>>
    PROVE RcInv'
<1>1. GotInv'
  BY DEF GotInv, RcWhole, RcAt, Begun, Moves, Fetches
<1>2. MicInv'
  BY DEF MicInv, RcReleased, Recorders, Moves, Fetches
<1> QED
  BY <1>1, <1>2 DEF RcInv, Moves, Fetches

\* The device and the beginnings.
LEMMA RcDeviceInv ==
    ASSUME RcInv, RcSilence \/ RcDismiss \/ RcOther \/ RcAsk \/ RcWake \/ RcOpensMic
    PROVE RcInv'
<1>0. rcJob \in Jobs /\ rcMic \in Mics /\ GotInv /\ MicInv
  BY DEF RcInv
<1>1. CASE RcSilence
  <2>1. (rcMic.owner = rcJob.kind) \in BOOLEAN
    OBVIOUS
  <2>2. RcMicOff /\ (rcJob' = [rcJob EXCEPT !.event = rcMic.owner = rcJob.kind] \/ rcJob' = rcJob)
    BY <1>1 DEF RcSilence
  <2>3. Moves(rcJob.at)
    BY <1>0, <2>1, <2>2, JobMoves
  <2> QED
    BY <1>0, <2>2, <2>3, MicStays, StaysPut
<1>2. CASE RcDismiss
  <2>1. rcMic' \in Mics /\ ~rcMic'.on /\ rcMic'.owner = rcMic.owner
    BY <1>0, <1>2 DEF RcDismiss, Mics
  <2>2. Moves(rcJob.at)
    BY <1>0, <1>2, JobMoves DEF RcDismiss
  <2> QED
    BY <2>1, <2>2, StaysPut
<1>3. CASE RcOther
  <2>1. rcMic' \in Mics /\ rcMic'.owner = "other"
    BY <1>3 DEF RcOther, Mics
  <2>2. GotInv' /\ rcJob' = rcJob
    BY <1>0, <1>3 DEF RcOther, GotInv, RcWhole, RcAt, RcFile, Pieces
  <2>3. MicInv'
    BY <1>0, <2>1, <2>2 DEF MicInv, RcReleased
  <2> QED
    BY <1>0, <2>1, <2>2, <2>3 DEF RcInv
<1>4. RcNoJob \in Jobs /\ RcNoJob.got = <<>>
  <2>1. <<>> \in Seq(Nat)
    OBVIOUS
  <2> QED
    BY <2>1 DEF RcNoJob, Jobs, Places, Results
<1>5. {"mic", "await"} \subseteq Places
  BY DEF Places, Begun
<1>6. CASE RcAsk
  <2>1. rcJob' \in Jobs /\ rcJob'.at = "mic" /\ rcJob'.kind = "ask" /\ rcJob'.got = <<>>
    BY <1>4, <1>5, <1>6 DEF RcAsk, Jobs
  <2>2. rcMic' \in Mics /\ rcMic'.owner # "ask"
    BY <1>0, <1>6 DEF RcAsk, Mics
  <2> QED
    BY <2>1, <2>2 DEF RcInv, GotInv, MicInv, RcWhole, RcReleased, RcAt, Begun, Recorders
<1>7. CASE RcWake
  <2>1. rcJob' \in Jobs /\ rcJob'.at = "await" /\ rcJob'.kind = "wake" /\ rcJob'.got = <<>>
    BY <1>4, <1>5, <1>7 DEF RcWake, Jobs
  <2>2. rcMic' \in Mics
    BY <1>7 DEF RcWake, Mics
  <2> QED
    BY <2>1, <2>2 DEF RcInv, GotInv, MicInv, RcWhole, RcReleased, RcAt, Begun, Recorders
<1>8. CASE RcOpensMic
  <2>1. rcMic' = rcMic /\ rcJob.kind = "ask" /\ rcMic.owner # "ask" /\ rcJob.got = <<>>
    BY <1>0, <1>8 DEF RcOpensMic, RcAt, MicInv, GotInv, Begun
  <2>2. Moves("start") \/ Moves("over")
    BY <1>0, <1>8, JobMoves DEF RcOpensMic, Places, Begun, Results
  <2> QED
    BY <1>0, <2>1, <2>2, AskMoves DEF Moves, Fetches
<1> QED
  BY <1>1, <1>2, <1>3, <1>6, <1>7, <1>8

\* The recording of an ask.
LEMMA RcRecordInv ==
    ASSUME RcInv,
           RcStart \/ RcStartRaises \/ RcClear \/ RcWindow \/ RcWindowRaises \/ RcStop \/ RcLeaving
    PROVE RcInv'
<1>0. rcJob \in Jobs /\ rcMic \in Mics
  BY DEF RcInv
<1>1. rcJob.at \in {"start", "clear", "window", "stop", "leaving"}
  BY DEF RcAt, RcStart, RcStartRaises, RcClear, RcWindow, RcWindowRaises, RcStop, RcLeaving
<1>2. /\ rcJob.kind = "ask" /\ rcJob.got = <<>>
      /\ rcJob.at \in {"start", "clear"} => rcMic.owner # "ask"
  BY <1>1 DEF RcInv, GotInv, MicInv, Begun, Recorders
<1>3. {"start", "clear", "window", "stop", "leaving", "over", "frames"} \subseteq Places
      /\ "failed" \in Results
  BY DEF Places, Begun, Results
<1>4. [on |-> TRUE, owner |-> "ask", dropped |-> FALSE] \in Mics
  BY DEF Mics
<1>5. CASE RcStart
  <2>1. CASE UNCHANGED rcMic
    <3>1. Moves("start") \/ Moves("clear") \/ Moves("over") \/ Moves("window")
      BY <1>0, <1>3, <1>5, JobMoves DEF RcStart, RcAt
    <3>2. rcMic.owner # "ask"
      BY <1>2, <1>5 DEF RcStart, RcAt
    <3> QED
      BY <1>0, <1>2, <2>1, <3>1, <3>2, AskMoves DEF Moves, Fetches, Recorders
  <2>2. CASE /\ rcMic' = [on |-> TRUE, owner |-> "ask", dropped |-> FALSE]
             /\ rcJob' = [rcJob EXCEPT !.at = "window", !.event = FALSE]
    BY <1>0, <1>2, <1>4, <2>2, JobMoves, AskMoves DEF Moves, Fetches, Recorders
  <2> QED
    BY <1>5, <2>1, <2>2 DEF RcStart
<1>6. CASE RcStartRaises
  <2>1. /\ rcJob' \in Jobs /\ rcJob'.at = "over" /\ rcJob'.blind /\ rcJob'.kind = "ask"
    BY <1>0, <1>2, <1>3, <1>6 DEF RcStartRaises, Jobs
  <2>2. rcMic' \in Mics
    BY <1>0, <1>4, <1>6 DEF RcStartRaises
  <2> QED
    BY <2>1, <2>2, AskMoves DEF Begun
<1>7. CASE RcClear
  <2>1. Moves("start") /\ rcMic.owner # "ask"
    BY <1>0, <1>2, <1>7, JobMoves DEF RcClear, RcAt
  <2>2. rcMic' \in Mics /\ rcMic'.owner = rcMic.owner
    BY <1>0, <1>7, MicStays DEF RcClear
  <2> QED
    BY <1>2, <2>1, <2>2, AskMoves DEF Moves, Fetches
<1>8. CASE RcWindow \/ RcWindowRaises
  <2>1. (Moves("stop") \/ Moves("leaving")) /\ rcMic' = rcMic
    BY <1>0, <1>3, <1>8, JobMoves DEF RcWindow, RcWindowRaises
  <2> QED
    BY <1>0, <1>2, <2>1, AskMoves DEF Moves, Fetches, Recorders
<1>9. ASSUME rcJob' = [rcJob EXCEPT !.at = "over", !.result = "failed", !.unheard = TRUE]
      PROVE  rcJob' \in Jobs /\ rcJob'.at = "over" /\ rcJob'.unheard /\ rcJob'.kind = "ask"
  BY <1>0, <1>2, <1>3, <1>9 DEF Jobs
<1>10. CASE RcStop \/ RcLeaving
  <2>1. rcMic' \in Mics /\ (RcMicOff => ~rcMic'.on)
    BY <1>0, <1>10, MicStays DEF RcStop, RcLeaving
  <2>2. \/ Moves("frames") /\ RcMicOff
        \/ Moves("over") /\ RcMicOff
        \/ Moves("leaving")
        \/ rcJob' = [rcJob EXCEPT !.at = "over", !.result = "failed", !.unheard = TRUE]
    BY <1>0, <1>3, <1>10, JobMoves DEF RcStop, RcLeaving
  <2> QED
    BY <1>2, <1>9, <2>1, <2>2, AskMoves DEF Moves, Fetches, Recorders, Begun
<1> QED
  BY <1>5, <1>6, <1>7, <1>8, <1>10

\* The recording of a wake.
LEMMA RcWakeInv ==
    ASSUME RcInv, RcCancelled \/ RcEvent \/ RcPoll \/ RcDeadline \/ RcClose
    PROVE RcInv'
<1>0. rcJob \in Jobs /\ rcMic \in Mics
  BY DEF RcInv
<1>1. {"close", "frames", "over"} \subseteq Places /\ {"failed", "cancelled"} \subseteq Results
  BY DEF Places, Begun, Results
<1>2. rcMic' \in Mics
  BY <1>0, MicStays DEF RcCancelled, RcEvent, RcPoll, RcDeadline, RcClose
<1>3. rcJob.kind = "wake"
  BY DEF RcInv, MicInv, RcAt, RcCancelled, RcEvent, RcPoll, RcDeadline, RcClose
<1>4. rcJob.at \in {"await", "close"} \/ RcCancelled
  BY DEF RcAt, RcCancelled, RcEvent, RcPoll, RcDeadline, RcClose
<1>5. \/ Moves("over")
      \/ (Moves(rcJob.at) \/ Moves("frames") \/ Moves("close")) /\ rcJob.at \in {"await", "close"}
  BY <1>0, <1>1, <1>4, JobMoves DEF RcCancelled, RcEvent, RcPoll, RcDeadline, RcClose
<1>6. rcJob.at \in {"await", "close"} => rcJob.got = <<>>
  BY DEF RcInv, GotInv, Begun
<1> QED
  BY <1>2, <1>3, <1>5, <1>6, WakeMoves DEF Begun

\* A job that fetches or has fetched: the recorder is not touched any more.
LEMMA FetchMoves ==
    ASSUME RcInv, rcJob.at \in {"frames", "reading", "fetched", "answer", "deliver"},
           rcMic' = rcMic, NEW at, NEW got, Fetches(at, got),
           \/ at = "reading" /\ \E n \in 0 .. RcFrames - 1 : got = Pieces(n)
           \/ at \in {"fetched", "answer"} /\ got = RcFile
           \/ at \in {"deliver", "over"}
    PROVE RcInv'
<1>1. rcJob' \in Jobs /\ rcJob'.at = at /\ rcJob'.got = got /\ rcMic' \in Mics
  BY DEF Fetches, Moves, RcInv
<1>2. GotInv'
  BY <1>1 DEF GotInv, RcWhole, RcAt, Begun, Pieces, RcFile
<1>3. MicInv'
  BY DEF RcInv, MicInv, RcReleased, Recorders, Fetches, Moves
<1> QED
  BY <1>1, <1>2, <1>3 DEF RcInv

\* The transfer by frames.
LEMMA RcVoicefetchInv == ASSUME RcInv, RcVoicefetch PROVE RcInv'
<1>0. RcFrames \in Nat \ {0} /\ rcJob \in Jobs /\ rcMic' = rcMic /\ rcJob.at = "frames"
      /\ rcJob.got = <<>>
  BY RcAssumption DEF RcAssumption, RcInv, RcVoicefetch, RcAt, GotInv, Begun
<1>1. \/ rcJob' = [rcJob EXCEPT !.at = "fetched", !.got = RcFile]
      \/ rcJob' = [rcJob EXCEPT !.at = "reading"]
      \/ rcJob' = [rcJob EXCEPT !.at = "over", !.result = "failed"]
  <2>1. ASSUME NEW seqs \in SUBSET DOMAIN RcFile, NEW meta \in BOOLEAN, NEW twice \in BOOLEAN,
               NEW crc \in BOOLEAN, Reassembled(seqs, meta, twice, crc)
        PROVE  [i \in 1 .. Cardinality(seqs) |-> i] = RcFile
    BY <2>1 DEF Reassembled, RcFile
  <2>2. CASE RcTo("reading") \/ RcEnds("failed") \/ RcFramesFail
    BY <2>2 DEF RcFramesFail, RcTo, RcEnds
  <2>3. CASE \E seqs \in SUBSET DOMAIN RcFile, meta, twice, crc \in BOOLEAN :
               /\ Reassembled(seqs, meta, twice, crc)
               /\ rcJob' = [rcJob EXCEPT !.at = "fetched",
                                         !.got = [i \in 1 .. Cardinality(seqs) |-> i]]
    BY <2>1, <2>3
  <2>4. \/ rcJob' = [rcJob EXCEPT !.at = "fetched", !.got = RcFile]
        \/ RcTo("reading") \/ RcEnds("failed") \/ RcFramesFail
        \/ \E seqs \in SUBSET DOMAIN RcFile, meta, twice, crc \in BOOLEAN :
               /\ Reassembled(seqs, meta, twice, crc)
               /\ rcJob' = [rcJob EXCEPT !.at = "fetched",
                                         !.got = [i \in 1 .. Cardinality(seqs) |-> i]]
    BY DEF RcVoicefetch
  <2> QED
    BY <2>2, <2>3, <2>4
<1>2. RcFile \in Seq(Nat) /\ RcFile = Pieces(RcFrames)
  BY <1>0, PiecesGrow
<1>3. 0 \in 0 .. RcFrames - 1 /\ Pieces(0) = <<>>
  BY <1>0, PiecesGrow
<1>4. {"fetched", "reading", "over"} \subseteq Places /\ "failed" \in Results
  BY DEF Places, Begun, Results
<1>5. CASE rcJob' = [rcJob EXCEPT !.at = "fetched", !.got = RcFile]
  <2>1. Fetches("fetched", RcFile)
    BY <1>0, <1>2, <1>4, <1>5, JobFetches
  <2> QED
    BY <1>0, <2>1, FetchMoves DEF Moves
<1>6. CASE rcJob' = [rcJob EXCEPT !.at = "reading"]
  <2>1. Moves("reading")
    BY <1>0, <1>4, <1>6, JobMoves DEF RcTo
  <2> QED
    BY <1>0, <1>3, <2>1, FetchMoves DEF Moves
<1>7. CASE rcJob' = [rcJob EXCEPT !.at = "over", !.result = "failed"]
  <2>1. Moves("over")
    BY <1>0, <1>4, <1>7, JobMoves DEF RcEnds
  <2> QED
    BY <1>0, <2>1, FetchMoves DEF Moves
<1> QED
  BY <1>1, <1>5, <1>6, <1>7

\* The transfer by chunks: each makes one piece more of the recording.
LEMMA RcReadsInv == ASSUME RcInv, RcReads PROVE RcInv'
<1>0. RcFrames \in Nat \ {0} /\ rcJob \in Jobs /\ rcMic' = rcMic /\ rcJob.at = "reading"
  BY RcAssumption DEF RcAssumption, RcInv, RcReads, RcAt
<1>1. PICK n \in 0 .. RcFrames - 1 : rcJob.got = Pieces(n)
  BY <1>0 DEF RcInv, GotInv
<1>2. /\ Len(rcJob.got) = n /\ n \in Nat /\ n + 1 \in 1 .. RcFrames
      /\ Append(rcJob.got, RcFile[n + 1]) = Pieces(n + 1) /\ Pieces(n + 1) \in Seq(Nat)
      /\ RcFile = Pieces(RcFrames)
  <2>1. n \in Nat /\ n + 1 \in Nat /\ n + 1 \in 1 .. RcFrames
    BY <1>0
  <2>2. Len(Pieces(n)) = n /\ Pieces(n + 1) \in Seq(Nat)
    BY <2>1, PiecesGrow
  <2>3. Append(Pieces(n), RcFile[n + 1]) = Pieces(n + 1) /\ RcFile = Pieces(RcFrames)
    BY PiecesGrow
  <2> QED
    BY <1>1, <2>1, <2>2, <2>3
<1> HIDE DEF Pieces
<1>3. {"reading", "fetched", "over"} \subseteq Places /\ "failed" \in Results
  BY DEF Places, Begun, Results
<1>4. CASE RcEnds("failed")
  <2>1. Moves("over")
    BY <1>0, <1>3, <1>4, JobMoves
  <2> QED
    BY <1>0, <2>1, FetchMoves DEF Moves
<1>5. CASE rcJob' = [rcJob EXCEPT !.got = Append(@, RcFile[Len(rcJob.got) + 1]),
                       !.at = IF Len(rcJob.got) + 1 = RcFrames THEN "fetched" ELSE @]
  <2>1. rcJob' = [rcJob EXCEPT !.got = Pieces(n + 1),
                               !.at = IF n + 1 = RcFrames THEN "fetched" ELSE "reading"]
    BY <1>0, <1>2, <1>5
  <2>2. CASE n + 1 = RcFrames
    <3>1. rcJob' = [rcJob EXCEPT !.at = "fetched", !.got = RcFile]
      BY <1>2, <2>1, <2>2
    <3>2. Fetches("fetched", RcFile)
      BY <1>0, <1>2, <1>3, <2>2, <3>1, JobFetches
    <3> QED
      BY <1>0, <3>2, FetchMoves DEF Moves
  <2>3. CASE n + 1 # RcFrames
    <3>1. rcJob' = [rcJob EXCEPT !.at = "reading", !.got = Pieces(n + 1)]
      BY <2>1, <2>3
    <3>2. Fetches("reading", Pieces(n + 1))
      BY <1>0, <1>2, <1>3, <3>1, JobFetches
    <3>3. n + 1 \in 0 .. RcFrames - 1
      BY <1>0, <1>2, <2>3
    <3> QED
      BY <1>0, <3>2, <3>3, FetchMoves DEF Moves
  <2> QED
    BY <2>2, <2>3
<1> QED
  BY <1>4, <1>5 DEF RcReads

\* What the caller does with the bytes.
LEMMA RcAnswerInv == ASSUME RcInv, RcFetched \/ RcAnswer \/ RcDeliver PROVE RcInv'
<1>0. /\ rcJob \in Jobs /\ rcMic' = rcMic /\ rcJob.at \in {"fetched", "answer", "deliver"}
      /\ rcJob.at \in {"fetched", "answer"} => rcJob.got = RcFile
  BY DEF RcInv, GotInv, RcWhole, RcFetched, RcAnswer, RcDeliver, RcAt
<1>1. {"answer", "deliver", "over"} \subseteq Places /\ {"fetched", "failed", "shown"} \subseteq Results
  BY DEF Places, Begun, Results
<1>2. (Moves("answer") /\ rcJob.at = "fetched") \/ Moves("deliver") \/ Moves("over")
  <2>1. CASE RcFetched
    BY <1>0, <1>1, <2>1, JobMoves DEF RcFetched, RcAt
  <2>2. CASE RcAnswer
    BY <1>0, <1>1, <2>2, JobMoves DEF RcAnswer
  <2>3. ASSUME rcJob.at = "deliver", NEW shown \in BOOLEAN, RcNextChunk(shown)
        PROVE  Moves("deliver") \/ Moves("over")
    <3> DEFINE result == IF shown THEN "shown" ELSE rcJob.result
               at == IF rcJob.chunk = RcChunks THEN "over" ELSE "deliver"
               chunk == rcJob.chunk + 1
    <3>1. rcJob' = [rcJob EXCEPT !.chunk = chunk, !.result = result, !.at = at]
      BY <2>3 DEF RcNextChunk
    <3>2. result \in Results /\ at \in {"deliver", "over"} /\ chunk \in Nat
      BY <1>0, <1>1 DEF Jobs
    <3> HIDE DEF result, at, chunk
    <3>3. Moves(at)
      BY <1>0, <1>1, <3>1, <3>2, JobFetches
    <3> QED
      BY <3>2, <3>3
  <2>4. CASE RcDeliver
    BY <1>0, <2>3, <2>4, JobMoves DEF RcDeliver, RcAt
  <2> QED
    BY <2>1, <2>2, <2>4
<1> QED
  BY <1>0, <1>2, FetchMoves DEF Moves

\* Every step keeps the invariant.
LEMMA RcStepInv == RcInv /\ [RcNext]_rcVars => RcInv'
<1> SUFFICES ASSUME RcInv, [RcNext]_rcVars PROVE RcInv'
  OBVIOUS
<1>1. CASE UNCHANGED rcVars
  BY <1>1, JobMoves, StaysPut DEF rcVars, RcInv
<1>2. CASE RcNext
  BY <1>2, RcDeviceInv, RcRecordInv, RcWakeInv, RcVoicefetchInv, RcReadsInv, RcAnswerInv DEF RcNext
<1> QED
  BY <1>1, <1>2

-----------------------------------------------------------------------------
\* For every length of a recording, way of transfer and number of jobs and
\* faults: what a transfer returns is the whole recording, and an ask leaves no
\* recorder running behind it, unless its start raised or its last stop did not
\* reach the device (_record_window, fetch_frames, read_file_b64).
THEOREM RecordingSound == RcSpec => []RcSafe
<1>1. RcInv => RcSafe
  BY DEF RcInv, GotInv, MicInv, RcSafe
<1> QED
  BY RcInitInv, RcStepInv, <1>1, PTL DEF RcSpec

-----------------------------------------------------------------------------
(* The exchange.                                                             *)

Lines == Display \cup {"exit"}
Exchanges == [cancel : Reasons, delivered : BOOLEAN, tail : BOOLEAN]
Resting == {"off", "probation", "idle"}
Serving == Awaits \cup {"admit", "heard", "commit", "collect", "abort"}
Runs == [pc : Resting \cup Serving \cup {"quiesce", "drain", "rearm"},
         job : ExId \cup {NoEx}, ask : {"none", "sending", "acked", "failed"},
         then : {"", "part", "whole", "end"}, opened : BOOLEAN, split : BOOLEAN,
         link : BOOLEAN, hint : BOOLEAN, busy : BOOLEAN, power : BOOLEAN]
EvFrames == [ev : {"wake", "cancel"}, id : ExId]
Devices == [card : ExId \cup {NoEx}, issued : SUBSET ExId, air : Seq(EvFrames)]

ExTypes ==
  /\ exDevice \in Devices
  /\ exTrigger.registry \subseteq ExId /\ exTrigger.queue \in Seq(ExId)
  /\ \E tombs : exTrigger = [registry |-> exTrigger.registry, tombs |-> tombs,
                             queue |-> exTrigger.queue]
  /\ exchange \in [ExId -> Exchanges] /\ exRun \in Runs
  /\ exLens \in [ExId -> Seq(Lines)]

\* What waits to be served is registered, once, and not yet delivered; so is
\* what is being served, and it waits no more.
QueueInv ==
  /\ \A k \in DOMAIN exTrigger.queue :
        /\ exTrigger.queue[k] \in exTrigger.registry
        /\ ~exchange[exTrigger.queue[k]].delivered
        /\ exRun.pc \in Serving \cup {"quiesce", "drain"} => exTrigger.queue[k] # exJob
  /\ \A k, l \in DOMAIN exTrigger.queue : exTrigger.queue[k] = exTrigger.queue[l] => k = l
  /\ exRun.pc \in Serving \cup {"quiesce", "drain"} => exJob \in exTrigger.registry
  /\ exRun.pc \in Serving \cup {"quiesce"} => ~exchange[exJob].delivered

\* The tasks and leases of an exchange are its own.
OwnInv ==
  /\ exRun.pc \in Resting <=> exJob = NoEx
  /\ \A i \in ExId : exchange[i].tail => exJob = i /\ exRun.pc \notin {"quiesce", "rearm"}
  /\ exRun.pc \in Resting \cup {"quiesce", "rearm"} => ~exRun.power
  /\ exRun.pc \in Resting \cup {"quiesce"} => ~exRun.busy

\* The question is asked beside the answer only; whoever writes part of an answer has the question on the lens.
Painted == exLens[exJob] # <<>>
PaintInv ==
  /\ exRun.pc \in {"part", "whole", "end", "commit"} => Painted
  /\ exRun.pc \in {"generate", "hold"} /\ (exRun.ask \in {"none", "acked"} \/ exRun.opened)
        => Painted
  /\ exRun.pc \in {"generate", "hold"} /\ exRun.opened => exRun.ask = "none"
  /\ exRun.opened => exRun.pc \in {"generate", "hold", "part", "whole", "end", "commit"}
  /\ exRun.pc = "commit" => Last(exLens[exJob]) \in {"reply", "end", "sorry"}
  /\ exRun.pc \in {"generate", "hold", "collect"} \/ exRun.ask = "none"


ExInv == ExTypes /\ QueueInv /\ OwnInv /\ PaintInv /\ ExQuestionFirst /\ ExDeliveredWhole

-----------------------------------------------------------------------------
\* An element joins a sequence.
LEMMA LineJoins ==
    ASSUME NEW S, NEW s \in Seq(S), NEW e \in S
    PROVE  /\ Append(s, e) \in Seq(S) /\ Append(s, e) # <<>> /\ Last(Append(s, e)) = e
           /\ Append(s, e)[1] = IF s = <<>> THEN e ELSE s[1]
  BY DEF Last

\* Nobody is served who is none.
LEMMA JobIs ==
    ASSUME ExInv, exRun.pc \notin Resting
    PROVE  exJob \in ExId /\ exRun.job \in ExId /\ exJob # NoEx
  BY ExAssumption DEF ExInv, ExTypes, OwnInv, Runs, exJob

\* Exchanges are cancelled and their tasks come and go, but none is delivered.
Quietly ==
    /\ exchange' \in [ExId -> Exchanges]
    /\ \A i \in ExId : /\ exchange'[i].delivered = exchange[i].delivered
                       /\ exchange'[i].tail => exchange[i].tail \/ i = exJob

\* The lens of the exchange is left alone, or told something in its turn.
LensGrows ==
    \/ exLens' = exLens
    \/ \E op \in Lines :
          /\ exLens' = [exLens EXCEPT ![exJob] = Append(@, op)]
          /\ Painted \/ op \in {"ask", "sorry", "exit"}

\* What the lens shows after that.
LEMMA LensIs ==
    ASSUME ExInv, exJob \in ExId, LensGrows
    PROVE  /\ exLens' \in [ExId -> Seq(Lines)] /\ ExQuestionFirst'
           /\ \A i \in ExId : i # exJob => exLens'[i] = exLens[i]
           /\ Painted => exLens'[exJob] # <<>>
<1>1. CASE exLens' = exLens
  BY <1>1 DEF ExInv, ExTypes, ExQuestionFirst, Painted
<1>2. ASSUME NEW op \in Lines, exLens' = [exLens EXCEPT ![exJob] = Append(@, op)],
             Painted \/ op \in {"ask", "sorry", "exit"}
      PROVE  /\ exLens' \in [ExId -> Seq(Lines)] /\ ExQuestionFirst'
             /\ \A i \in ExId : i # exJob => exLens'[i] = exLens[i]
             /\ exLens'[exJob] # <<>>
  <2> DEFINE told == Append(exLens[exJob], op)
  <2>1. /\ told \in Seq(Lines) /\ told # <<>>
        /\ told[1] = IF exLens[exJob] = <<>> THEN op ELSE exLens[exJob][1]
    BY <1>2, LineJoins DEF ExInv, ExTypes
  <2>2. exLens' = [exLens EXCEPT ![exJob] = told]
    BY <1>2
  <2>3. told[1] \in {"ask", "sorry", "exit"}
    BY <1>2, <2>1 DEF ExInv, ExQuestionFirst, Painted
  <2> HIDE DEF told
  <2> QED
    BY <2>1, <2>2, <2>3 DEF ExInv, ExTypes, ExQuestionFirst
<1> QED
  BY <1>1, <1>2 DEF LensGrows

\* A step of an exchange that goes on, or comes to its end.
LEMMA ServesKeeps ==
    ASSUME ExInv, exRun.pc \in Serving, exRun' \in Runs, exRun'.pc \in Serving \cup {"drain"},
           exRun'.job = exJob, PaintInv', LensGrows, Quietly, exDevice' \in Devices,
           UNCHANGED exTrigger
    PROVE  ExInv'
<1>0. exJob \in ExId /\ exJob # NoEx /\ exRun.pc \notin Resting /\ exRun'.pc \notin Resting
      /\ exRun'.pc \notin {"quiesce", "rearm"} /\ exRun.pc \notin {"quiesce", "rearm"}
  BY JobIs DEF Serving, Resting, Awaits
<1>1. ExTypes'
  BY <1>0, LensIs DEF ExInv, ExTypes, Quietly
<1>2. QueueInv'
  <2>1. \A k \in DOMAIN exTrigger.queue : exTrigger.queue[k] \in ExId
    BY DEF ExInv, QueueInv, ExTypes
  <2> QED
    BY <1>0, <2>1 DEF ExInv, QueueInv, Quietly, exJob
<1>3. OwnInv'
  BY <1>0 DEF ExInv, OwnInv, Quietly, exJob
<1>4. ExDeliveredWhole'
  <2>1. ~exchange[exJob].delivered
    BY DEF ExInv, QueueInv
  <2> QED
    BY <1>0, <2>1, LensIs DEF ExInv, ExDeliveredWhole, Quietly
<1> QED
  BY <1>0, <1>1, <1>2, <1>3, <1>4, LensIs DEF ExInv

\* Nothing changes but what is on the way.
LEMMA StaysKeeps ==
    ASSUME ExInv, exDevice' \in Devices,
           UNCHANGED <<exTrigger, exchange, exRun, exLens>>
    PROVE  ExInv'
  BY DEF ExInv, ExTypes, QueueInv, OwnInv, PaintInv, Painted, ExQuestionFirst, ExDeliveredWhole,
         exJob

-----------------------------------------------------------------------------
(* The device and the wire.                                                  *)

LEMMA DeviceKeeps ==
    ASSUME ExInv,
           (\E i \in ExId : ExWake(i)) \/ ExDismiss \/ ExLoseEvent \/ ExReorder
           \/ UNCHANGED exVars
    PROVE  ExInv'
<1> DEFINE air == exDevice.air
<1>0. exDevice \in Devices /\ air \in Seq(EvFrames)
  BY DEF ExInv, ExTypes, Devices
<1>1. ASSUME NEW i \in ExId, ExWake(i) PROVE ExInv'
  <2> DEFINE next == Append(air, [ev |-> "wake", id |-> i])
  <2>1. exDevice' = [exDevice EXCEPT !.card = i, !.issued = @ \cup {i}, !.air = next]
    BY <1>1 DEF ExWake, ExPush
  <2>2. [ev |-> "wake", id |-> i] \in EvFrames
    BY DEF EvFrames
  <2>3. next \in Seq(EvFrames)
    BY <1>0, <2>2, LineJoins
  <2> HIDE DEF next
  <2>4. exDevice' \in Devices
    BY <1>0, <2>1, <2>3 DEF Devices
  <2> QED
    BY <1>1, <2>4, StaysKeeps DEF ExWake
<1>2. CASE ExDismiss
  <2> DEFINE next == Append(air, [ev |-> "cancel", id |-> exDevice.card])
  <2>1. exDevice' = [exDevice EXCEPT !.card = NoEx, !.air = next] /\ exDevice.card \in ExId
    BY <1>0, <1>2 DEF ExDismiss, ExPush, Devices
  <2>2. [ev |-> "cancel", id |-> exDevice.card] \in EvFrames
    BY <2>1 DEF EvFrames
  <2>3. next \in Seq(EvFrames)
    BY <1>0, <2>2, LineJoins
  <2> HIDE DEF next
  <2>4. exDevice' \in Devices
    BY <1>0, <2>1, <2>3 DEF Devices
  <2> QED
    BY <1>2, <2>4, StaysKeeps DEF ExDismiss
<1>3. CASE ExLoseEvent
  <2>1. air # <<>> /\ exDevice' = [exDevice EXCEPT !.air = Tail(air)]
    BY <1>3 DEF ExLoseEvent
  <2>2. Tail(air) \in Seq(EvFrames)
    BY <1>0, <2>1, HeadTailProperties
  <2>3. exDevice' \in Devices
    BY <1>0, <2>1, <2>2 DEF Devices
  <2> QED
    BY <1>3, <2>3, StaysKeeps DEF ExLoseEvent
<1>4. CASE ExReorder
  <2> DEFINE next == <<air[2], air[1]>> \o SubSeq(air, 3, Len(air))
  <2>1. Len(air) >= 2 /\ exDevice' = [exDevice EXCEPT !.air = next]
    BY <1>4 DEF ExReorder
  <2>2. <<air[2], air[1]>> \in Seq(EvFrames)
    BY <1>0, <2>1, ElementOfSeq
  <2>3. SubSeq(air, 3, Len(air)) \in Seq(EvFrames)
    <3>1. \A i \in 3 .. Len(air) : air[i] \in EvFrames
      BY <1>0, ElementOfSeq
    <3>2. Len(air) \in Int /\ 3 \in Int
      BY <1>0, LenProperties
    <3> HIDE DEF air
    <3> QED
      BY <3>1, <3>2, SubSeqProperties
  <2>4. next \in Seq(EvFrames)
    BY <2>2, <2>3, ConcatProperties
  <2> HIDE DEF next
  <2>5. exDevice' \in Devices
    BY <1>0, <2>1, <2>4 DEF Devices
  <2> QED
    BY <1>4, <2>5, StaysKeeps DEF ExReorder
<1>5. CASE UNCHANGED exVars
  BY <1>0, <1>5, StaysKeeps DEF exVars, exDevVars
<1> QED
  BY <1>1, <1>2, <1>3, <1>4, <1>5

\* Cancelling changes nothing else of an exchange.
LEMMA CancelIs ==
    ASSUME NEW e \in Exchanges, NEW reason \in Reasons
    PROVE  /\ CancelWith(e, reason) \in Exchanges
           /\ CancelWith(e, reason).delivered = e.delivered
           /\ CancelWith(e, reason).tail = e.tail
  BY DEF CancelWith, Exchanges

\* The registry takes a wake that it does not know, and cancels.
LEMMA RouteKeeps ==
    ASSUME ExInv, NEW keep \in BOOLEAN, ExRoute(keep)
    PROVE  ExInv'
<1> DEFINE air == exDevice.air
           event == Head(air)
<1>1. /\ exDevice \in Devices /\ air \in Seq(EvFrames) /\ air # <<>>
      /\ event \in EvFrames /\ event.id \in ExId
      /\ exchange \in [ExId -> Exchanges]
  <2>1. exDevice \in Devices /\ air \in Seq(EvFrames) /\ air # <<>>
    BY DEF ExInv, ExTypes, Devices, ExRoute
  <2>2. event \in EvFrames
    BY <2>1, HeadTailProperties
  <2> QED
    BY <2>1, <2>2 DEF EvFrames, ExInv, ExTypes
<1>2. exDevice' \in Devices
  <2>1. exDevice' = exDevice \/ exDevice' = [exDevice EXCEPT !.air = Tail(air)]
    BY DEF ExRoute
  <2>2. Tail(air) \in Seq(EvFrames)
    BY <1>1, HeadTailProperties
  <2> QED
    BY <1>1, <2>1, <2>2 DEF Devices
<1>3. UNCHANGED <<exRun, exLens>> /\ (SubmitEvenai(event.id) \/ CancelEvenai(event.id))
  BY DEF ExRoute
<1> DEFINE i == event.id
<1> HIDE DEF event, air
<1>4. i \in ExId
  BY <1>1
<1> HIDE DEF i
<1>5. CASE CancelEvenai(i)
  <2> DEFINE order == RememberTerminal(exTrigger.tombs, i)
  <2>1. /\ exTrigger' = [exTrigger EXCEPT !.tombs = order]
        /\ exchange' = IF i \in exTrigger.registry
                       THEN [exchange EXCEPT ![i] = CancelWith(@, "dismissed")] ELSE exchange
    BY <1>5 DEF CancelEvenai
  <2> HIDE DEF order
  <2>2. PICK tombs : exTrigger = [registry |-> exTrigger.registry, tombs |-> tombs,
                                  queue |-> exTrigger.queue]
    BY DEF ExInv, ExTypes
  <2>3. exTrigger' = [registry |-> exTrigger.registry, tombs |-> order, queue |-> exTrigger.queue]
    BY <2>1, <2>2
  <2>4. /\ exchange' \in [ExId -> Exchanges]
        /\ \A j \in ExId : exchange'[j].delivered = exchange[j].delivered
                           /\ exchange'[j].tail = exchange[j].tail
    <3>1. "dismissed" \in Reasons /\ exchange[i] \in Exchanges
      BY <1>1, <1>4 DEF Reasons
    <3> DEFINE e == CancelWith(exchange[i], "dismissed")
    <3>2. e \in Exchanges /\ e.delivered = exchange[i].delivered /\ e.tail = exchange[i].tail
      BY <3>1, CancelIs
    <3>3. exchange' = exchange \/ exchange' = [exchange EXCEPT ![i] = e]
      BY <2>1
    <3> HIDE DEF e
    <3> QED
      BY <1>1, <1>4, <3>2, <3>3
  <2>5. exTrigger'.registry = exTrigger.registry /\ exTrigger'.queue = exTrigger.queue
    BY <2>3
  <2>6. ExTypes'
    BY <1>2, <1>3, <2>3, <2>4, <2>5 DEF ExInv, ExTypes
  <2>7. QueueInv'
    <3>1. \A k \in DOMAIN exTrigger.queue : exTrigger.queue[k] \in ExId
      BY DEF ExInv, ExTypes
    <3>2. exRun.pc \notin Resting => exJob \in ExId
      BY JobIs
    <3>3. exRun.pc \in Serving \cup {"quiesce"} => exRun.pc \notin Resting
      BY DEF Serving, Resting, Awaits
    <3> QED
      BY <1>3, <2>4, <2>5, <3>1, <3>2, <3>3 DEF ExInv, QueueInv, exJob
  <2>8. OwnInv' /\ PaintInv' /\ ExQuestionFirst' /\ ExDeliveredWhole'
    BY <1>3, <2>4 DEF ExInv, OwnInv, PaintInv, Painted, ExQuestionFirst, ExDeliveredWhole, exJob
  <2> QED
    BY <2>6, <2>7, <2>8 DEF ExInv
<1>6. CASE SubmitEvenai(i) /\ UNCHANGED <<exTrigger, exchange>>
  BY <1>2, <1>3, <1>6, StaysKeeps
<1>7. CASE SubmitEvenai(i) /\ i \notin exTrigger.registry /\ ~UNCHANGED <<exTrigger, exchange>>
  <2> DEFINE older == {j \in exTrigger.registry : ~ExCancelled(j)}
             order == RememberedAll(exTrigger.tombs, SetToSeq(older), TombLimit)
             registry == exTrigger.registry \cup {i}
             queue == Append(exTrigger.queue, i)
  <2>1. /\ exTrigger' = [exTrigger EXCEPT !.registry = registry, !.queue = queue, !.tombs = order]
        /\ exchange' = [j \in ExId |-> IF j = i THEN Fresh
                                       ELSE IF j \in older
                                       THEN CancelWith(exchange[j], "superseded")
                                       ELSE exchange[j]]
    BY <1>7 DEF SubmitEvenai
  <2>2. PICK tombs : exTrigger = [registry |-> exTrigger.registry, tombs |-> tombs,
                                  queue |-> exTrigger.queue]
    BY DEF ExInv, ExTypes
  <2> HIDE DEF order, older
  <2>3. exTrigger.registry \subseteq ExId /\ exTrigger.queue \in Seq(ExId)
    BY DEF ExInv, ExTypes
  <2>4. /\ queue \in Seq(ExId) /\ Len(exTrigger.queue) \in Nat
        /\ DOMAIN exTrigger.queue = 1 .. Len(exTrigger.queue)
        /\ DOMAIN queue = 1 .. Len(exTrigger.queue) + 1
        /\ \A k \in DOMAIN exTrigger.queue : queue[k] = exTrigger.queue[k]
        /\ queue[Len(exTrigger.queue) + 1] = i
    BY <1>4, <2>3, AppendProperties, LenProperties
  <2>5. registry \subseteq ExId
    BY <1>4, <2>3
  <2>6. i \in registry /\ exTrigger.registry \subseteq registry
    OBVIOUS
  <2> HIDE DEF registry, queue
  <2>7. /\ exTrigger' = [registry |-> registry, tombs |-> order, queue |-> queue]
        /\ exTrigger'.registry = registry /\ exTrigger'.queue = queue
    BY <2>1, <2>2
  <2>8. /\ exchange' \in [ExId -> Exchanges] /\ ~exchange'[i].delivered /\ ~exchange'[i].tail
        /\ \A j \in ExId : j # i => exchange'[j].delivered = exchange[j].delivered
                                    /\ exchange'[j].tail = exchange[j].tail
    <3>1. Fresh \in Exchanges /\ ~Fresh.delivered /\ ~Fresh.tail /\ "superseded" \in Reasons
      BY DEF Fresh, Exchanges, Reasons
    <3>2. \A j \in ExId : exchange'[j] = IF j = i THEN Fresh
                                         ELSE IF j \in older
                                         THEN CancelWith(exchange[j], "superseded")
                                         ELSE exchange[j]
      BY <2>1
    <3>3. \A j \in ExId :
             LET e == CancelWith(exchange[j], "superseded") IN
             e \in Exchanges /\ e.delivered = exchange[j].delivered /\ e.tail = exchange[j].tail
      BY <1>1, <3>1, CancelIs
    <3>4. \A j \in ExId : exchange[j] \in Exchanges
      BY <1>1
    <3>5. exchange' \in [ExId -> Exchanges]
      <4>1. \A j \in ExId : exchange'[j] \in Exchanges
        BY <3>1, <3>2, <3>3, <3>4
      <4>2. exchange' = [j \in ExId |-> exchange'[j]]
        BY <2>1
      <4> QED
        BY <4>1, <4>2
    <3> QED
      BY <1>4, <3>1, <3>2, <3>3, <3>5
  <2>9. ExTypes'
    BY <1>2, <1>3, <2>4, <2>5, <2>7, <2>8 DEF ExInv, ExTypes
  <2>10. QueueInv'
    <3>1. \A k \in DOMAIN exTrigger.queue :
             exTrigger.queue[k] \in exTrigger.registry /\ exTrigger.queue[k] # i
      BY <1>7 DEF ExInv, QueueInv
    <3>2. exRun.pc \in Serving \cup {"quiesce", "drain"} => exJob \in exTrigger.registry /\ exJob # i
      BY <1>7 DEF ExInv, QueueInv
    <3>3. \A k \in DOMAIN queue : \/ k \in DOMAIN exTrigger.queue /\ queue[k] = exTrigger.queue[k]
                                  \/ k = Len(exTrigger.queue) + 1 /\ queue[k] = i
      BY <2>4
    <3>4. \A k, l \in DOMAIN queue : queue[k] = queue[l] => k = l
      BY <3>1, <3>3 DEF ExInv, QueueInv
    <3>5. \A k \in DOMAIN queue :
             /\ queue[k] \in registry /\ ~exchange'[queue[k]].delivered
             /\ exRun.pc \in Serving \cup {"quiesce", "drain"} => queue[k] # exJob
      <4> SUFFICES ASSUME NEW k \in DOMAIN queue
                   PROVE  /\ queue[k] \in registry /\ ~exchange'[queue[k]].delivered
                          /\ exRun.pc \in Serving \cup {"quiesce", "drain"} => queue[k] # exJob
        OBVIOUS
      <4>1. CASE k \in DOMAIN exTrigger.queue /\ queue[k] = exTrigger.queue[k]
        BY <2>3, <2>6, <2>8, <3>1, <4>1 DEF ExInv, QueueInv
      <4>2. CASE queue[k] = i
        BY <2>6, <2>8, <3>2, <4>2
      <4> QED
        BY <3>3, <4>1, <4>2
    <3>6. exRun.pc \in Serving \cup {"quiesce"} => ~exchange'[exJob].delivered
      BY <2>3, <2>8, <3>2 DEF ExInv, QueueInv
    <3> QED
      BY <1>3, <2>6, <2>7, <3>2, <3>4, <3>5, <3>6 DEF QueueInv, exJob
  <2>11. OwnInv'
    BY <1>3, <2>8 DEF ExInv, OwnInv, exJob
  <2>12. PaintInv' /\ ExQuestionFirst'
    BY <1>3 DEF ExInv, PaintInv, Painted, ExQuestionFirst, exJob
  <2>13. ExDeliveredWhole'
    BY <1>3, <2>8 DEF ExInv, ExDeliveredWhole
  <2> QED
    BY <2>9, <2>10, <2>11, <2>12, <2>13 DEF ExInv
<1> QED
  BY <1>3, <1>5, <1>6, <1>7 DEF SubmitEvenai, i

-----------------------------------------------------------------------------
(* The steps of the exchange that is served.                                 *)

\* A step that leaves the lens, the registry and the device alone.
LEMMA RunKeeps ==
    ASSUME ExInv, exRun.pc \in Serving, exRun' \in Runs, exRun'.pc \in Serving,
           exRun'.job = exJob, Painted => PaintInv', ~Painted => PaintInv', Quietly,
           UNCHANGED <<exTrigger, exDevice, exLens>>
    PROVE  ExInv'
<1>1. exDevice' \in Devices
  BY DEF ExInv, ExTypes
<1> QED
  BY <1>1, ServesKeeps DEF LensGrows

\* Exchanges are left as they are, are cancelled, or start their clean-up.
LEMMA QuietlyIs ==
    ASSUME ExInv, exJob \in ExId,
           \/ UNCHANGED exchange
           \/ \E reason \in Reasons :
                 exchange' = [exchange EXCEPT ![exJob] = CancelWith(@, reason)]
           \/ exchange' = StartTail(exJob)
    PROVE  Quietly
<1>0. exchange \in [ExId -> Exchanges] /\ exchange[exJob] \in Exchanges
  BY DEF ExInv, ExTypes
<1>1. CASE UNCHANGED exchange
  BY <1>0, <1>1 DEF Quietly
<1>2. ASSUME NEW reason \in Reasons,
             exchange' = [exchange EXCEPT ![exJob] = CancelWith(@, reason)]
      PROVE  Quietly
  <2> DEFINE e == CancelWith(exchange[exJob], reason)
  <2>1. /\ e \in Exchanges /\ e.delivered = exchange[exJob].delivered
        /\ e.tail = exchange[exJob].tail
    BY <1>0, CancelIs
  <2>2. exchange' = [exchange EXCEPT ![exJob] = e]
    BY <1>2
  <2> HIDE DEF e
  <2> QED
    BY <1>0, <2>1, <2>2 DEF Quietly
<1>3. CASE exchange' = StartTail(exJob)
  <2> DEFINE e == [exchange[exJob] EXCEPT !.tail = TRUE]
  <2>1. e \in Exchanges /\ e.delivered = exchange[exJob].delivered
    BY <1>0 DEF Exchanges
  <2>2. exchange' = [exchange EXCEPT ![exJob] = e]
    BY <1>0, <1>3 DEF StartTail
  <2> HIDE DEF e
  <2> QED
    BY <1>0, <2>1, <2>2 DEF Quietly
<1> QED
  BY <1>1, <1>2, <1>3

\* Where an exception leads there is nothing left to paint.
LEMMA RaiseIs ==
    ASSUME ExInv, exRun.pc \in Serving \ {"collect", "abort"}, exRun' = ExRaise(exRun)
    PROVE  exRun' \in Runs /\ exRun'.pc \in Serving /\ exRun'.job = exJob /\ PaintInv'
<1>0. exRun \in Runs
  BY DEF ExInv, ExTypes
<1> DEFINE pc == IF exRun.ask = "sending" THEN "collect" ELSE "abort"
           ask == IF exRun.ask = "sending" THEN exRun.ask ELSE "none"
<1>1. /\ exRun' = [exRun EXCEPT !.pc = pc, !.ask = ask, !.then = "", !.opened = FALSE,
                                !.split = FALSE]
      /\ pc \in {"collect", "abort"} /\ ask \in {"none", "sending"}
      /\ pc = "abort" => ask = "none"
  BY <1>0 DEF ExRaise, Unwound, Runs
<1> HIDE DEF pc, ask
<1>2. exRun' \in Runs
  BY <1>0, <1>1 DEF Runs, Serving, Awaits
<1>3. /\ exRun'.pc = pc /\ exRun'.ask = ask /\ exRun'.opened = FALSE
      /\ exRun'.job = exRun.job
  BY <1>0, <1>1 DEF Runs
<1>4. exRun'.pc \in Serving
  BY <1>1, <1>3 DEF Serving
<1> QED
  BY <1>1, <1>2, <1>3, <1>4 DEF PaintInv, exJob

LEMMA RaiseKeeps ==
    ASSUME ExInv, exRun.pc \in Serving \ {"collect", "abort"}, exRun' = ExRaise(exRun),
           LensGrows, Quietly, UNCHANGED <<exTrigger, exDevice>>
    PROVE  ExInv'
<1>1. exDevice' \in Devices
  BY DEF ExInv, ExTypes
<1> QED
  BY <1>1, RaiseIs, ServesKeeps

\* The transcript, up to the generation.
LEMMA HearKeeps ==
    ASSUME ExInv,
           ExAdmit \/ ExLive \/ ExLane \/ ExFetch \/ ExTranscribe \/ ExHeard
    PROVE  ExInv'
<1>0. exRun \in Runs
  BY DEF ExInv, ExTypes
<1>1. exRun.pc \in {"admit", "live", "lane", "fetch", "stt", "heard"}
  BY DEF ExAdmit, ExLive, ExLane, ExFetch, ExTranscribe, ExHeard, ExAt
<1>2. exRun.pc \in Serving /\ exJob \in ExId /\ exRun.ask = "none" /\ ~exRun.opened
  BY <1>0, <1>1, JobIs DEF Serving, Awaits, Resting, ExInv, PaintInv, Runs
<1>3. UNCHANGED <<exTrigger, exDevice, exLens>> /\ Quietly
  <2>1. UNCHANGED exchange \/ exchange' = StartTail(exJob)
    BY DEF ExAdmit, ExLive, ExLane, ExFetch, ExTranscribe, ExHeard
  <2> QED
    BY <1>2, <2>1, QuietlyIs DEF ExAdmit, ExLive, ExLane, ExFetch, ExTranscribe, ExHeard, exDevVars
<1>4. /\ exRun' \in Runs /\ exRun'.job = exRun.job /\ ~exRun'.opened
      /\ \/ /\ exRun'.pc \in {"live", "lane", "fetch", "stt", "heard", "sorry"}
            /\ exRun'.ask = "none"
         \/ exRun'.pc = "generate" /\ exRun'.ask = "sending"
  <2>1. CASE ExAdmit
    <3>1. PICK first \in {"live", "fetch"} :
             exRun' = [exRun EXCEPT !.pc = first, !.busy = TRUE, !.power = TRUE]
      BY <2>1 DEF ExAdmit
    <3> QED
      BY <1>0, <1>2, <3>1 DEF Runs, Serving, Awaits
  <2>2. CASE \E pc \in {"heard", "lane", "fetch", "stt", "sorry"} : exRun' = [exRun EXCEPT !.pc = pc]
    BY <1>0, <1>2, <2>2 DEF Runs, Serving, Awaits
  <2>3. CASE exRun' = [exRun EXCEPT !.pc = "generate", !.ask = "sending"]
    BY <1>0, <1>2, <2>3 DEF Runs, Serving, Awaits
  <2> QED
    BY <2>1, <2>2, <2>3 DEF ExLive, ExLane, ExFetch, ExTranscribe, ExHeard, ExGo
<1>5. exRun'.pc \in Serving /\ PaintInv'
  BY <1>4 DEF Serving, Awaits, PaintInv
<1> QED
  BY <1>2, <1>3, <1>4, <1>5, RunKeeps DEF exJob

\* What ends an exchange before its answer.
LEMMA FailKeeps ==
    ASSUME ExInv, ExStale \/ ExDiscarded \/ ExStageFails
    PROVE  ExInv'
<1>0. exRun \in Runs
  BY DEF ExInv, ExTypes
<1>1. exRun.pc \in Serving \ {"collect", "abort"} /\ exRun' = ExRaise(exRun)
      /\ UNCHANGED <<exTrigger, exDevice, exLens>>
  BY DEF ExStale, ExDiscarded, ExStageFails, ExAt, Serving, Awaits, exDevVars
<1>2. exJob \in ExId
  BY <1>1, JobIs DEF Serving, Awaits, Resting
<1>3. Quietly
  <2>1. \/ UNCHANGED exchange
        \/ exchange' = [exchange EXCEPT ![exJob] = CancelWith(@, "stale")]
        \/ exchange' = [exchange EXCEPT ![exJob] = CancelWith(@, "recorder_discarded")]
    BY DEF ExStale, ExDiscarded, ExStageFails
  <2> QED
    BY <1>2, <2>1, QuietlyIs DEF Reasons
<1> QED
  BY <1>1, <1>3, RaiseKeeps DEF LensGrows

\* The answer is made while the question is painted.
LEMMA AnswerKeeps ==
    ASSUME ExInv, ExFlush \/ ExGenerated \/ ExOffline \/ ExHold
    PROVE  ExInv'
<1>0. exRun \in Runs /\ PaintInv
  BY DEF ExInv, ExTypes
<1>1. exRun.pc \in {"generate", "hold"} /\ UNCHANGED <<exTrigger, exDevice, exLens, exchange>>
  BY DEF ExFlush, ExGenerated, ExOffline, ExHold, ExAt, exDevVars
<1>2. exRun.pc \in Serving \ {"collect", "abort"} /\ exJob \in ExId
  BY <1>1, JobIs DEF Serving, Awaits, Resting
<1>3. Quietly
  BY <1>1, <1>2, QuietlyIs
<1>4. CASE ExFlush \/ ExOffline \/ ExGenerated
  <2>1. \/ \E then \in {"part", "whole", "end"} :
              exRun' = [exRun EXCEPT !.pc = "hold", !.then = then]
        \/ exRun.opened /\ exRun' = [exRun EXCEPT !.pc = "end"]
    BY <1>4 DEF ExFlush, ExOffline, ExGenerated
  <2>2. exRun.pc = "generate"
    BY <1>4 DEF ExFlush, ExOffline, ExGenerated, ExAt
  <2>3. /\ exRun' \in Runs /\ exRun'.job = exRun.job /\ exRun'.ask = exRun.ask
        /\ exRun'.opened = exRun.opened
        /\ exRun'.pc = "hold" \/ (exRun'.pc = "end" /\ exRun.opened)
    BY <1>0, <2>1 DEF Runs, Serving, Awaits
  <2>4. exRun'.pc \in Serving
    BY <2>3 DEF Serving, Awaits
  <2>5. PaintInv'
    BY <1>0, <1>1, <2>2, <2>3 DEF PaintInv, Painted, exJob
  <2> QED
    BY <1>1, <1>2, <1>3, <2>3, <2>4, <2>5, RunKeeps DEF exJob
<1>5. CASE ExHold /\ exRun' = ExRaise(exRun)
  BY <1>1, <1>2, <1>3, <1>5, RaiseKeeps DEF LensGrows
<1>6. CASE ExHold /\ exRun' # ExRaise(exRun)
  <2> DEFINE pc == IF exRun.then = "whole" THEN "whole" ELSE "part"
  <2>1. exRun.ask \in {"acked", "none"} /\ exRun' = [exRun EXCEPT !.ask = "none", !.pc = pc]
    BY <1>6 DEF ExHold
  <2>2. pc \in {"whole", "part"}
    OBVIOUS
  <2> HIDE DEF pc
  <2>3. /\ exRun' \in Runs /\ exRun'.job = exRun.job /\ exRun'.ask = "none"
        /\ exRun'.pc = pc /\ exRun'.opened = exRun.opened
    BY <1>0, <2>1, <2>2 DEF Runs, Serving, Awaits
  <2>4. exRun'.pc \in Serving
    BY <2>2, <2>3 DEF Serving, Awaits
  <2>5. PaintInv'
    BY <1>0, <1>1, <2>1, <2>2, <2>3 DEF PaintInv, Painted, exJob
  <2> QED
    BY <1>1, <1>2, <1>3, <2>3, <2>4, <2>5, RunKeeps DEF exJob
<1> QED
  BY <1>4, <1>5, <1>6

\* What the lens shows once it was told something.
LEMMA ToldIs ==
    ASSUME ExInv, exJob \in ExId, NEW op \in Lines,
           exLens' = [exLens EXCEPT ![exJob] = Append(@, op)]
    PROVE  exLens'[exJob] # <<>> /\ Last(exLens'[exJob]) = op
<1>1. exLens[exJob] \in Seq(Lines) /\ exLens'[exJob] = Append(exLens[exJob], op)
  BY DEF ExInv, ExTypes
<1> QED
  BY <1>1, LineJoins

\* The question task has told the lens, or has failed.
LEMMA AskKeeps ==
    ASSUME ExInv, ExAsk
    PROVE  ExInv'
<1>0. exRun \in Runs /\ PaintInv /\ exRun.ask = "sending"
  BY DEF ExInv, ExTypes, ExAsk
<1>1. exRun.pc \in {"generate", "hold", "collect"} /\ ~exRun.opened
  BY <1>0 DEF PaintInv
<1>2. exRun.pc \in Serving /\ exJob \in ExId
  BY <1>1, JobIs DEF Serving, Awaits, Resting
<1>3. /\ \/ UNCHANGED exchange
         \/ exchange' = [exchange EXCEPT ![exJob] = CancelWith(@, "device_rejected")]
      /\ exLens' = exLens \/ exLens' = [exLens EXCEPT ![exJob] = Append(@, "ask")]
      /\ \/ exRun' = [exRun EXCEPT !.ask = "failed"]
         \/ /\ exRun' = [exRun EXCEPT !.ask = "acked"]
            /\ exLens' = [exLens EXCEPT ![exJob] = Append(@, "ask")]
      /\ UNCHANGED <<exTrigger, exDevice>>
  BY DEF ExAsk, DisplayCommand, exDevVars
<1>4. Quietly /\ LensGrows
  BY <1>2, <1>3, QuietlyIs DEF Reasons, LensGrows, Lines, Display
<1>5. /\ exRun' \in Runs /\ exRun'.pc = exRun.pc /\ exRun'.job = exRun.job /\ ~exRun'.opened
      /\ exRun'.ask \in {"acked", "failed"}
  BY <1>0, <1>1, <1>3 DEF Runs
<1>6. exRun'.ask = "acked" => exLens'[exJob] # <<>>
  <2>1. "ask" \in Lines
    BY DEF Lines, Display
  <2> QED
    BY <1>0, <1>2, <1>3, <2>1, ToldIs DEF Runs
<1>7. PaintInv'
  BY <1>1, <1>5, <1>6 DEF PaintInv, Painted, exJob
<1>8. exDevice' \in Devices
  BY <1>3 DEF ExInv, ExTypes
<1> QED
  BY <1>2, <1>3, <1>4, <1>5, <1>7, <1>8, ServesKeeps DEF exJob

\* A display command of the daemon told the lens, or ends the exchange.
LEMMA ShowsIs ==
    ASSUME ExInv, exJob \in ExId, NEW op \in Lines, NEW next, Shows(op, next),
           Painted \/ op = "sorry"
    PROVE  /\ Quietly /\ LensGrows /\ UNCHANGED <<exTrigger, exDevice>>
           /\ exRun' = ExRaise(exRun) \/ (exRun' = next /\ exLens'[exJob] # <<>> /\ Last(exLens'[exJob]) = op)
<1>1. /\ \/ UNCHANGED exchange
         \/ exchange' = [exchange EXCEPT ![exJob] = CancelWith(@, "device_rejected")]
      /\ exLens' = exLens \/ exLens' = [exLens EXCEPT ![exJob] = Append(@, op)]
      /\ \/ exRun' = ExRaise(exRun)
         \/ exRun' = next /\ exLens' = [exLens EXCEPT ![exJob] = Append(@, op)]
      /\ UNCHANGED <<exTrigger, exDevice>>
  BY DEF Shows, DisplayCommand, exDevVars
<1>2. Quietly
  BY <1>1, QuietlyIs DEF Reasons
<1>3. LensGrows
  BY <1>1 DEF LensGrows
<1> QED
  BY <1>1, <1>2, <1>3, ToldIs

\* What the daemon tells the lens.
LEMMA ShowKeeps ==
    ASSUME ExInv, ExPart \/ ExWhole \/ ExEnd \/ ExSorry
    PROVE  ExInv'
<1>0. exRun \in Runs /\ PaintInv
  BY DEF ExInv, ExTypes
<1>1. exRun.pc \in {"part", "whole", "end", "sorry"}
  BY DEF ExPart, ExWhole, ExEnd, ExSorry, ExAt
<1>2. /\ exRun.pc \in Serving \ {"collect", "abort"} /\ exJob \in ExId
      /\ exRun.ask = "none" /\ (exRun.pc # "sorry" => Painted)
  BY <1>0, <1>1, JobIs DEF Serving, Awaits, Resting, PaintInv
<1>3. ASSUME NEW op \in {"part", "reply", "end", "sorry"}, NEW next \in Runs, Shows(op, next),
             Painted \/ op = "sorry", next.job = exRun.job, next.ask = "none",
             \/ next.pc \in {"generate", "end"}
             \/ next.pc = "commit" /\ op # "part"
      PROVE  ExInv'
  <2>1. op \in Lines
    BY DEF Lines, Display
  <2>2. /\ Quietly /\ LensGrows /\ UNCHANGED <<exTrigger, exDevice>>
        /\ \/ exRun' = ExRaise(exRun)
           \/ exRun' = next /\ exLens'[exJob] # <<>> /\ Last(exLens'[exJob]) = op
    BY <1>2, <1>3, <2>1, ShowsIs
  <2>3. CASE exRun' = ExRaise(exRun)
    BY <1>2, <2>2, <2>3, RaiseKeeps
  <2>4. CASE exRun' = next /\ exLens'[exJob] # <<>> /\ Last(exLens'[exJob]) = op
    <3>1. exRun' \in Runs /\ exRun'.pc \in Serving /\ exRun'.job = exJob
      BY <1>3, <2>4 DEF Serving, Awaits, exJob
    <3>2. PaintInv'
      BY <1>3, <2>4, <3>1 DEF PaintInv, Painted, exJob
    <3>3. exDevice' \in Devices
      BY <2>2 DEF ExInv, ExTypes
    <3> QED
      BY <1>2, <2>2, <3>1, <3>2, <3>3, ServesKeeps
  <2> QED
    BY <2>2, <2>3, <2>4
<1>4. CASE ExPart
  <2> DEFINE pc == IF exRun.then = "part" THEN "generate" ELSE "end"
             opened == ~exRun.split
             next == [exRun EXCEPT !.opened = opened, !.pc = pc]
  <2>1. Shows("part", next) /\ exRun.pc = "part"
    BY <1>4 DEF ExPart, ExAt
  <2>2. pc \in {"generate", "end"} /\ opened \in BOOLEAN
    OBVIOUS
  <2> HIDE DEF pc, opened
  <2>3. next \in Runs /\ next.pc = pc /\ next.job = exRun.job /\ next.ask = "none"
    BY <1>0, <1>2, <2>2 DEF Runs, Serving, Awaits
  <2> HIDE DEF next
  <2> QED
    BY <1>2, <1>3, <2>1, <2>2, <2>3
<1>5. ASSUME NEW op \in {"reply", "end", "sorry"},
             Shows(op, [exRun EXCEPT !.pc = "commit"]), Painted \/ op = "sorry"
      PROVE  ExInv'
  <2> DEFINE next == [exRun EXCEPT !.pc = "commit"]
  <2>1. next \in Runs /\ next.pc = "commit" /\ next.job = exRun.job /\ next.ask = "none"
    BY <1>0, <1>2 DEF Runs, Serving, Awaits
  <2>2. Shows(op, next)
    BY <1>5
  <2> HIDE DEF next
  <2> QED
    BY <1>3, <1>5, <2>1, <2>2
<1>6. CASE ExWhole /\ exRun' = [exRun EXCEPT !.pc = "part", !.then = "end", !.split = TRUE]
            /\ UNCHANGED <<exDevVars, exchange, exLens, exServed, exFaults>>
  <2>1. /\ exRun' \in Runs /\ exRun'.pc = "part" /\ exRun'.job = exRun.job
        /\ exRun'.ask = "none" /\ exRun.pc = "whole"
    BY <1>0, <1>2, <1>6 DEF Runs, Serving, Awaits, ExWhole, ExAt
  <2>2. exRun'.pc \in Serving
    BY <2>1 DEF Serving, Awaits
  <2>3. PaintInv'
    BY <1>2, <1>6, <2>1 DEF PaintInv, Painted, exJob
  <2>4. Quietly
    BY <1>2, <1>6, QuietlyIs
  <2> QED
    BY <1>2, <1>6, <2>1, <2>2, <2>3, <2>4, RunKeeps DEF exJob, exDevVars
<1> QED
  BY <1>2, <1>4, <1>5, <1>6 DEF ExWhole, ExEnd, ExSorry, ExAt

\* The exchange is delivered, or aborted.
LEMMA EndKeeps ==
    ASSUME ExInv, ExCollect \/ ExCommit \/ ExAbort
    PROVE  ExInv'
<1>0. exRun \in Runs /\ PaintInv /\ exDevice \in Devices /\ exchange \in [ExId -> Exchanges]
  BY DEF ExInv, ExTypes
<1>1. exRun.pc \in {"collect", "commit", "abort"}
  BY DEF ExCollect, ExCommit, ExAbort, ExAt
<1>2. exRun.pc \in Serving /\ exJob \in ExId
  BY <1>1, JobIs DEF Serving, Awaits, Resting
<1>3. CASE ExCollect
  <2>1. /\ exRun' \in Runs /\ exRun'.pc = "abort" /\ exRun'.job = exRun.job
        /\ exRun'.ask = "none" /\ ~exRun'.opened /\ exRun'.pc \in Serving
    BY <1>0, <1>3 DEF ExCollect, ExAt, Runs, Serving, Awaits, PaintInv
  <2>2. PaintInv'
    BY <2>1 DEF PaintInv
  <2>3. Quietly
    BY <1>2, <1>3, QuietlyIs DEF ExCollect
  <2> QED
    BY <1>2, <1>3, <2>1, <2>2, <2>3, RunKeeps DEF ExCollect, exJob, exDevVars
<1>4. CASE ExAbort
  <2>1. /\ exRun' \in Runs /\ exRun'.pc = "drain" /\ exRun'.job = exRun.job
        /\ exRun'.ask = "none" /\ ~exRun'.opened
    BY <1>0, <1>4 DEF ExAbort, ExAt, ExGo, Runs, Serving, Awaits, PaintInv
  <2>2. PaintInv'
    BY <2>1 DEF PaintInv
  <2>3. Quietly /\ LensGrows
    BY <1>2, <1>4, QuietlyIs DEF ExAbort, Reasons, LensGrows, Lines
  <2>4. exDevice' \in Devices
    BY <1>0, <1>4 DEF ExAbort, Devices
  <2> QED
    BY <1>2, <1>4, <2>1, <2>2, <2>3, <2>4, ServesKeeps DEF ExAbort, exJob
<1>5. CASE ExCommit /\ exRun' = ExRaise(exRun) /\ UNCHANGED exchange
  <2>1. Quietly
    BY <1>2, <1>5, QuietlyIs
  <2> QED
    BY <1>2, <1>5, <2>1, RaiseKeeps DEF ExCommit, ExAt, LensGrows, exDevVars
<1>6. CASE /\ ExCommit /\ exRun' = [Unwound(exRun) EXCEPT !.pc = "drain"]
           /\ exchange' = [exchange EXCEPT ![exJob].delivered = TRUE]
  <2>1. exRun.pc = "commit" /\ UNCHANGED <<exTrigger, exDevice, exLens>>
    BY <1>6 DEF ExCommit, ExAt, exDevVars
  <2>2. exRun' = [exRun EXCEPT !.then = "", !.opened = FALSE, !.split = FALSE, !.pc = "drain"]
    BY <1>0, <1>6 DEF Unwound, Runs
  <2>3. /\ exRun' \in Runs /\ exRun'.pc = "drain" /\ exRun'.job = exRun.job
        /\ exRun'.ask = "none" /\ ~exRun'.opened
    BY <1>0, <2>1, <2>2 DEF Runs, PaintInv
  <2> DEFINE e == [exchange[exJob] EXCEPT !.delivered = TRUE]
  <2>4. e \in Exchanges /\ e.tail = exchange[exJob].tail
    BY <1>0, <1>2 DEF Exchanges
  <2>5. exchange' = [exchange EXCEPT ![exJob] = e]
    BY <1>6
  <2> HIDE DEF e
  <2>6. /\ exchange' \in [ExId -> Exchanges]
        /\ \A i \in ExId : exchange'[i].tail = exchange[i].tail
        /\ \A i \in ExId : i # exJob => exchange'[i] = exchange[i]
    BY <1>0, <1>2, <2>4, <2>5
  <2>7. ExTypes'
    BY <2>1, <2>3, <2>6 DEF ExInv, ExTypes
  <2>8. QueueInv'
    <3>1. \A k \in DOMAIN exTrigger.queue : exTrigger.queue[k] \in ExId
      BY DEF ExInv, ExTypes
    <3>2. exRun'.pc \notin Serving
      BY <2>3 DEF Serving, Awaits
    <3> QED
      BY <1>2, <2>1, <2>3, <2>6, <3>1, <3>2 DEF ExInv, QueueInv, exJob
  <2>9. OwnInv'
    BY <1>2, <2>1, <2>3, <2>6 DEF ExInv, OwnInv, exJob, Resting
  <2>10. PaintInv' /\ ExQuestionFirst'
    BY <2>1, <2>3 DEF ExInv, PaintInv, ExQuestionFirst
  <2>11. ExDeliveredWhole'
    <3>1. exLens[exJob] # <<>> /\ Last(exLens[exJob]) \in {"reply", "end", "sorry"}
      BY <1>0, <2>1 DEF PaintInv, Painted
    <3> QED
      BY <2>1, <2>6, <3>1 DEF ExInv, ExDeliveredWhole
  <2> QED
    BY <2>7, <2>8, <2>9, <2>10, <2>11 DEF ExInv
<1> QED
  BY <1>3, <1>4, <1>5, <1>6 DEF ExCommit

-----------------------------------------------------------------------------
(* Between two exchanges.                                                    *)

\* An ID leaves the registry; which tombstones are kept does not matter here.
LEMMA ForgetIs ==
    ASSUME NEW t, NEW i, \E tombs : t = [registry |-> t.registry, tombs |-> tombs, queue |-> t.queue]
    PROVE  /\ \E tombs : Forget(t, i) = [registry |-> t.registry \ {i}, tombs |-> tombs,
                                         queue |-> t.queue]
           /\ Forget(t, i).registry = t.registry \ {i} /\ Forget(t, i).queue = t.queue
<1> DEFINE order == RememberTerminal(t.tombs, i)
<1>1. Forget(t, i) = [t EXCEPT !.registry = t.registry \ {i}, !.tombs = order]
  BY DEF Forget
<1> HIDE DEF order
<1> QED
  BY <1>1

\* The rest of the queue holds no job twice, and not the one that is taken.
LEMMA QueueTail ==
    ASSUME NEW q \in Seq(ExId), q # <<>>,
           \A k, l \in DOMAIN q : q[k] = q[l] => k = l
    PROVE  /\ Tail(q) \in Seq(ExId) /\ Head(q) \in ExId /\ 1 \in DOMAIN q /\ q[1] = Head(q)
           /\ \A k \in DOMAIN Tail(q) : /\ k + 1 \in DOMAIN q /\ Tail(q)[k] = q[k + 1]
                                        /\ Tail(q)[k] # Head(q)
           /\ \A k, l \in DOMAIN Tail(q) : Tail(q)[k] = Tail(q)[l] => k = l
<1>1. /\ Tail(q) \in Seq(ExId) /\ Head(q) \in ExId /\ Len(q) \in Nat \ {0}
      /\ Len(Tail(q)) = Len(q) - 1 /\ q[1] = Head(q)
      /\ \A k \in 1 .. Len(Tail(q)) : Tail(q)[k] = q[k + 1]
  BY HeadTailProperties, LenProperties, EmptySeq
<1>2. DOMAIN q = 1 .. Len(q) /\ DOMAIN Tail(q) = 1 .. Len(Tail(q))
  BY <1>1, LenProperties
<1>3. \A k \in DOMAIN Tail(q) : k \in Nat /\ k + 1 \in DOMAIN q /\ k + 1 # 1
  BY <1>1, <1>2
<1> QED
  BY <1>1, <1>2, <1>3

\* A step that touches only where the daemon rests.
LEMMA RestKeeps ==
    ASSUME ExInv, ExReady \/ ExLoopEnds \/ ExReconnect \/ ExLinkLost \/ ExRearm \/ ExQuiesced
           \/ ExDropped
    PROVE  ExInv'
<1>0. exRun \in Runs /\ UNCHANGED <<exTrigger, exDevice, exchange, exLens>>
  BY DEF ExInv, ExTypes, ExReady, ExLoopEnds, ExReconnect, ExLinkLost, ExRearm, ExQuiesced,
         ExDropped, exDevVars
<1>1. CASE ExReady \/ ExLoopEnds \/ ExReconnect
  <2>1. /\ exRun.pc \in Resting /\ exRun' \in Runs /\ exRun'.pc \in Resting /\ exRun'.job = exRun.job
        /\ exRun'.ask = exRun.ask /\ exRun'.opened = exRun.opened /\ exRun'.power = exRun.power
        /\ exRun'.busy = exRun.busy
    BY <1>0, <1>1 DEF ExReady, ExLoopEnds, ExReconnect, ExGo, ExAt, Runs, Resting
  <2>2. exRun'.pc \notin Serving \cup {"quiesce", "drain", "rearm"}
        /\ exRun.pc \notin Serving \cup {"quiesce", "drain", "rearm"}
    BY <2>1 DEF Serving, Awaits, Resting
  <2>3. ExTypes' /\ QueueInv'
    BY <1>0, <2>1, <2>2 DEF ExInv, ExTypes, QueueInv
  <2>4. OwnInv'
    BY <1>0, <2>1, <2>2 DEF ExInv, OwnInv, exJob
  <2>5. PaintInv'
    BY <2>1, <2>2 DEF ExInv, PaintInv, Serving, Awaits
  <2> QED
    BY <1>0, <2>3, <2>4, <2>5 DEF ExInv, ExQuestionFirst, ExDeliveredWhole
<1>2. CASE ExLinkLost
  <2>1. /\ exRun' \in Runs /\ exRun'.pc = exRun.pc /\ exRun'.job = exRun.job
        /\ exRun'.ask = exRun.ask /\ exRun'.opened = exRun.opened /\ exRun'.power = exRun.power
        /\ exRun'.busy = exRun.busy
    BY <1>0, <1>2 DEF ExLinkLost, Runs
  <2>2. ExTypes' /\ QueueInv'
    BY <1>0, <2>1 DEF ExInv, ExTypes, QueueInv, exJob
  <2>3. OwnInv'
    BY <1>0, <2>1 DEF ExInv, OwnInv, exJob
  <2>4. PaintInv'
    BY <1>0, <2>1 DEF ExInv, PaintInv, Painted, exJob
  <2> QED
    BY <1>0, <2>2, <2>3, <2>4 DEF ExInv, ExQuestionFirst, ExDeliveredWhole
<1>3. CASE ExRearm
  <2> DEFINE pc == IF exRun.link THEN "idle" ELSE "off"
  <2>1. exRun' = [exRun EXCEPT !.pc = pc, !.job = NoEx, !.busy = FALSE] /\ exRun.pc = "rearm"
    BY <1>3 DEF ExRearm, ExAt
  <2>2. pc \in {"idle", "off"}
    OBVIOUS
  <2> HIDE DEF pc
  <2>3. /\ exRun' \in Runs /\ exRun'.pc \in Resting /\ exRun'.job = NoEx
        /\ exRun'.ask = exRun.ask /\ exRun'.opened = exRun.opened /\ exRun'.power = exRun.power
        /\ ~exRun'.busy
    BY <1>0, <2>1, <2>2 DEF Runs, Resting
  <2>4. exRun'.pc \notin Serving \cup {"quiesce", "drain", "rearm"}
    BY <2>3 DEF Serving, Awaits, Resting
  <2>5. ExTypes' /\ QueueInv'
    BY <1>0, <2>3, <2>4 DEF ExInv, ExTypes, QueueInv
  <2>6. OwnInv'
    BY <1>0, <2>1, <2>3, <2>4 DEF ExInv, OwnInv, exJob
  <2>7. PaintInv'
    BY <2>1, <2>3, <2>4 DEF ExInv, PaintInv, Serving, Awaits
  <2> QED
    BY <1>0, <2>5, <2>6, <2>7 DEF ExInv, ExQuestionFirst, ExDeliveredWhole
<1>4. CASE ExQuiesced
  <2>1. exRun.pc = "quiesce" /\ exRun' = [exRun EXCEPT !.pc = "admit", !.hint = FALSE]
    BY <1>4 DEF ExQuiesced, ExAt
  <2>2. /\ exRun' \in Runs /\ exRun'.pc = "admit" /\ exRun'.job = exRun.job
        /\ exRun'.ask = exRun.ask /\ exRun'.opened = exRun.opened
    BY <1>0, <2>1 DEF Runs, Serving
  <2>3. ExTypes' /\ QueueInv'
    BY <1>0, <2>1, <2>2 DEF ExInv, ExTypes, QueueInv, exJob
  <2>4. OwnInv'
    BY <1>0, <2>1, <2>2 DEF ExInv, OwnInv, Resting, exJob
  <2>5. PaintInv'
    BY <2>1, <2>2 DEF ExInv, PaintInv
  <2> QED
    BY <1>0, <2>3, <2>4, <2>5 DEF ExInv, ExQuestionFirst, ExDeliveredWhole
<1>5. CASE ExDropped
  <2>1. /\ exRun.pc = "quiesce"
        /\ \E pc \in {"off", "idle"} : exRun' = [exRun EXCEPT !.pc = pc, !.job = NoEx]
    BY <1>5 DEF ExDropped, ExAt
  <2>2. /\ exRun' \in Runs /\ exRun'.pc \in Resting /\ exRun'.job = NoEx
        /\ exRun'.ask = exRun.ask /\ exRun'.opened = exRun.opened
        /\ exRun'.power = exRun.power /\ exRun'.busy = exRun.busy
    BY <1>0, <2>1 DEF Runs, Resting
  <2>3. exRun'.pc \notin Serving \cup {"quiesce", "drain", "rearm"}
    BY <2>2 DEF Serving, Awaits, Resting
  <2>4. ExTypes' /\ QueueInv'
    BY <1>0, <2>2, <2>3 DEF ExInv, ExTypes, QueueInv
  <2>5. OwnInv'
    BY <1>0, <2>1, <2>2, <2>3 DEF ExInv, OwnInv, exJob
  <2>6. PaintInv'
    BY <2>1, <2>2, <2>3 DEF ExInv, PaintInv, Serving, Awaits
  <2> QED
    BY <1>0, <2>4, <2>5, <2>6 DEF ExInv, ExQuestionFirst, ExDeliveredWhole
<1> QED
  BY <1>1, <1>2, <1>3, <1>4, <1>5

\* The device restarts: its card and its events are gone, and the hint is set.
LEMMA RebootKeeps ==
    ASSUME ExInv, ExReboot
    PROVE  ExInv'
<1>0. exRun \in Runs /\ exDevice \in Devices /\ UNCHANGED <<exTrigger, exchange, exLens>>
  BY DEF ExInv, ExTypes, ExReboot
<1>1. exDevice' \in Devices
  <2> DEFINE air == <<>>
  <2>1. exDevice' = [exDevice EXCEPT !.card = NoEx, !.air = air] /\ air \in Seq(EvFrames)
    BY DEF ExReboot
  <2> HIDE DEF air
  <2> QED
    BY <1>0, <2>1 DEF Devices
<1>2. /\ exRun' \in Runs /\ exRun'.pc = exRun.pc /\ exRun'.job = exRun.job
      /\ exRun'.ask = exRun.ask /\ exRun'.opened = exRun.opened /\ exRun'.power = exRun.power
      /\ exRun'.busy = exRun.busy
  BY <1>0 DEF ExReboot, Runs
<1>3. ExTypes' /\ QueueInv'
  BY <1>0, <1>1, <1>2 DEF ExInv, ExTypes, QueueInv, exJob
<1>4. OwnInv'
  BY <1>0, <1>2 DEF ExInv, OwnInv, exJob
<1>5. PaintInv'
  BY <1>0, <1>2 DEF ExInv, PaintInv, Painted, exJob
<1> QED
  BY <1>0, <1>3, <1>4, <1>5 DEF ExInv, ExQuestionFirst, ExDeliveredWhole

\* A clean-up ends.
LEMMA TailKeeps ==
    ASSUME ExInv, NEW i \in ExId, ExTailEnds(i)
    PROVE  ExInv'
<1> DEFINE e == [exchange[i] EXCEPT !.tail = FALSE]
<1>0. exchange \in [ExId -> Exchanges]
  BY DEF ExInv, ExTypes
<1>1. exchange' = [exchange EXCEPT ![i] = e] /\ UNCHANGED <<exTrigger, exDevice, exRun, exLens>>
  BY DEF ExTailEnds, exDevVars
<1>2. e \in Exchanges /\ e.delivered = exchange[i].delivered /\ ~e.tail
  BY <1>0 DEF Exchanges
<1> HIDE DEF e
<1>3. /\ exchange' \in [ExId -> Exchanges]
      /\ \A j \in ExId : exchange'[j].delivered = exchange[j].delivered
                         /\ (exchange'[j].tail => exchange[j].tail)
  BY <1>0, <1>1, <1>2
<1>4. ExTypes'
  BY <1>1, <1>3 DEF ExInv, ExTypes
<1>5. QueueInv'
  <2>1. \A k \in DOMAIN exTrigger.queue : exTrigger.queue[k] \in ExId
    BY DEF ExInv, ExTypes
  <2>2. exRun.pc \in Serving \cup {"quiesce"} => exJob \in ExId
    BY DEF ExInv, ExTypes, QueueInv
  <2> QED
    BY <1>1, <1>3, <2>1, <2>2 DEF ExInv, QueueInv, exJob
<1>6. OwnInv'
  BY <1>1, <1>3 DEF ExInv, OwnInv, exJob
<1>7. PaintInv' /\ ExQuestionFirst' /\ ExDeliveredWhole'
  BY <1>1, <1>3 DEF ExInv, PaintInv, Painted, ExQuestionFirst, ExDeliveredWhole, exJob
<1> QED
  BY <1>4, <1>5, <1>6, <1>7 DEF ExInv

\* The job is taken from the queue, or from the registry.
LEMMA TakeKeeps ==
    ASSUME ExInv, ExTake \/ ExSkip \/ ExDrain
    PROVE  ExInv'
<1> DEFINE queue == exTrigger.queue
<1>0. /\ exRun \in Runs /\ UNCHANGED <<exDevice, exchange, exLens>>
      /\ queue \in Seq(ExId) /\ exTrigger.registry \subseteq ExId
      /\ \A k, l \in DOMAIN queue : queue[k] = queue[l] => k = l
      /\ exchange \in [ExId -> Exchanges]
  BY DEF ExInv, ExTypes, QueueInv, ExTake, ExSkip, ExDrain
<1>1. PICK tombs : exTrigger = [registry |-> exTrigger.registry, tombs |-> tombs, queue |-> queue]
  BY DEF ExInv, ExTypes
<1>2. ExQuestionFirst' /\ ExDeliveredWhole'
  BY <1>0 DEF ExInv, ExQuestionFirst, ExDeliveredWhole
<1>3. CASE ExTake
  <2>1. /\ queue # <<>> /\ exRun.pc = "idle" /\ exTrigger' = [exTrigger EXCEPT !.queue = Tail(queue)]
        /\ \E pc \in {"quiesce", "admit"} : exRun' = [exRun EXCEPT !.pc = pc, !.job = Head(queue)]
    BY <1>3 DEF ExTake, ExAt
  <2>2. /\ Tail(queue) \in Seq(ExId) /\ Head(queue) \in ExId /\ 1 \in DOMAIN queue
        /\ queue[1] = Head(queue)
        /\ \A k \in DOMAIN Tail(queue) : /\ k + 1 \in DOMAIN queue
                                         /\ Tail(queue)[k] = queue[k + 1]
                                         /\ Tail(queue)[k] # Head(queue)
        /\ \A k, l \in DOMAIN Tail(queue) : Tail(queue)[k] = Tail(queue)[l] => k = l
    BY <1>0, <2>1, QueueTail
  <2> DEFINE rest == Tail(queue)
             job == Head(queue)
  <2> HIDE DEF rest, job
  <2>3. exTrigger' = [registry |-> exTrigger.registry, tombs |-> tombs, queue |-> rest]
    <3>1. exTrigger' = [exTrigger EXCEPT !.queue = rest]
      BY <2>1 DEF rest
    <3> QED
      BY <1>1, <3>1
  <2>4. /\ exRun' \in Runs /\ exRun'.pc \in {"quiesce", "admit"} /\ exRun'.job = job
        /\ exRun'.ask = exRun.ask /\ exRun'.opened = exRun.opened
        /\ exRun'.power = exRun.power /\ exRun'.busy = exRun.busy
    BY <1>0, <2>1, <2>2 DEF Runs, Serving, job
  <2>5. job \in exTrigger.registry /\ job \in ExId /\ ~exchange[job].delivered /\ job # NoEx
    BY <2>2, ExAssumption DEF ExInv, QueueInv, job
  <2>6. \A k \in DOMAIN rest : /\ rest[k] \in exTrigger.registry /\ rest[k] # job
                               /\ ~exchange[rest[k]].delivered
    BY <2>2 DEF ExInv, QueueInv, job, rest
  <2>7. ExTypes'
    BY <1>0, <2>2, <2>3, <2>4 DEF ExInv, ExTypes, rest
  <2>8. QueueInv'
    <3>1. \A k, l \in DOMAIN rest : rest[k] = rest[l] => k = l
      BY <2>2 DEF rest
    <3> QED
      BY <1>0, <2>3, <2>4, <2>5, <2>6, <3>1 DEF QueueInv, exJob
  <2>9. OwnInv'
    <3>1. exRun.job = NoEx
      BY <2>1 DEF ExInv, OwnInv, Resting, exJob
    <3>2. \A i \in ExId : ~exchange[i].tail
      BY <3>1, ExAssumption DEF ExInv, OwnInv, exJob
    <3>3. ~exRun.power /\ ~exRun.busy
      BY <2>1 DEF ExInv, OwnInv, Resting
    <3> QED
      BY <1>0, <2>4, <2>5, <3>2, <3>3 DEF OwnInv, Resting, exJob
  <2>10. PaintInv'
    BY <2>1, <2>4 DEF ExInv, PaintInv
  <2> QED
    BY <1>2, <2>7, <2>8, <2>9, <2>10 DEF ExInv
<1>4. CASE ExSkip
  <2> DEFINE rest == Tail(queue)
             job == Head(queue)
             t == [exTrigger EXCEPT !.queue = rest]
  <2>1. /\ queue # <<>> /\ exRun.pc = "idle" /\ UNCHANGED exRun
        /\ exTrigger' = Forget(t, job)
    BY <1>4 DEF ExSkip, ExAt
  <2>2. /\ rest \in Seq(ExId)
        /\ \A k \in DOMAIN rest : /\ k + 1 \in DOMAIN queue /\ rest[k] = queue[k + 1]
                                  /\ rest[k] # job
        /\ \A k, l \in DOMAIN rest : rest[k] = rest[l] => k = l
    BY <1>0, <2>1, QueueTail
  <2> HIDE DEF rest, job
  <2>3. t = [registry |-> exTrigger.registry, tombs |-> tombs, queue |-> rest]
    BY <1>1
  <2> HIDE DEF t
  <2>4. /\ \E keeps : exTrigger' = [registry |-> exTrigger.registry \ {job}, tombs |-> keeps,
                                    queue |-> rest]
        /\ exTrigger'.registry = exTrigger.registry \ {job} /\ exTrigger'.queue = rest
    <3>1. \E keeps : t = [registry |-> t.registry, tombs |-> keeps, queue |-> t.queue]
      BY <2>3
    <3>2. t.registry = exTrigger.registry /\ t.queue = rest
      BY <2>3
    <3> QED
      BY <2>1, <3>1, <3>2, ForgetIs
  <2>5. \A k \in DOMAIN rest : /\ rest[k] \in exTrigger.registry \ {job}
                               /\ ~exchange[rest[k]].delivered
    BY <2>2 DEF ExInv, QueueInv
  <2>6. ExTypes'
    BY <1>0, <2>1, <2>2, <2>4 DEF ExInv, ExTypes
  <2>7. QueueInv'
    <3>1. exRun.pc \notin Serving \cup {"quiesce", "drain"}
      BY <2>1 DEF Serving, Awaits
    <3> QED
      BY <1>0, <2>1, <2>2, <2>4, <2>5, <3>1 DEF QueueInv
  <2>8. OwnInv' /\ PaintInv'
    BY <1>0, <2>1 DEF ExInv, OwnInv, PaintInv, Painted, exJob
  <2> QED
    BY <1>2, <2>6, <2>7, <2>8 DEF ExInv
<1>5. CASE ExDrain
  <2>1. /\ exRun.pc = "drain" /\ ~exchange[exJob].tail
        /\ exRun' = [exRun EXCEPT !.pc = "rearm", !.power = FALSE]
        /\ exTrigger' = Forget(exTrigger, exJob)
    BY <1>5 DEF ExDrain, ExAt
  <2>2. /\ exRun' \in Runs /\ exRun'.pc = "rearm" /\ exRun'.job = exRun.job
        /\ exRun'.ask = exRun.ask /\ exRun'.opened = exRun.opened /\ ~exRun'.power
    BY <1>0, <2>1 DEF Runs
  <2>3. /\ \E keeps : exTrigger' = [registry |-> exTrigger.registry \ {exJob}, tombs |-> keeps,
                                    queue |-> queue]
        /\ exTrigger'.registry = exTrigger.registry \ {exJob} /\ exTrigger'.queue = queue
    BY <1>1, <2>1, ForgetIs
  <2>4. ExTypes'
    BY <1>0, <2>2, <2>3 DEF ExInv, ExTypes
  <2>5. QueueInv'
    <3>1. exRun'.pc \notin Serving \cup {"quiesce", "drain"}
      BY <2>2 DEF Serving, Awaits
    <3>2. \A k \in DOMAIN queue : queue[k] \in exTrigger.registry /\ queue[k] # exJob
      BY <2>1 DEF ExInv, QueueInv
    <3> QED
      BY <1>0, <2>1, <2>3, <3>1, <3>2 DEF ExInv, QueueInv
  <2>6. OwnInv'
    <3>1. \A i \in ExId : ~exchange[i].tail
      BY <2>1 DEF ExInv, OwnInv
    <3>2. exRun.pc \notin Resting /\ exRun'.pc \notin Resting
      BY <2>1, <2>2 DEF Resting
    <3> QED
      BY <1>0, <2>2, <3>1, <3>2 DEF ExInv, OwnInv, exJob
  <2>7. PaintInv'
    BY <2>1, <2>2 DEF ExInv, PaintInv
  <2> QED
    BY <1>2, <2>4, <2>5, <2>6, <2>7 DEF ExInv
<1> QED
  BY <1>3, <1>4, <1>5

-----------------------------------------------------------------------------
\* The invariant holds at the start.
LEMMA ExInitInv ==
    ASSUME ExInit
    PROVE  ExInv
<1>1. Fresh \in Exchanges /\ Fresh.delivered = FALSE /\ Fresh.tail = FALSE
  BY DEF Fresh, Exchanges, Reasons
<1>2. exchange = [i \in ExId |-> Fresh] /\ exLens = [i \in ExId |-> <<>>]
  BY DEF ExInit
<1>3. exRun \in Runs /\ exRun.pc = "probation" /\ exRun.job = NoEx /\ exRun.ask = "none"
      /\ exRun.opened = FALSE /\ exRun.power = FALSE /\ exRun.busy = FALSE
  BY DEF ExInit, Runs, Resting
<1>4. exTrigger = [registry |-> {}, tombs |-> <<>>, queue |-> <<>>] /\ DOMAIN exTrigger.queue = {}
  <2>1. exTrigger = [registry |-> {}, tombs |-> <<>>, queue |-> <<>>] /\ exTrigger.queue = <<>>
    BY DEF ExInit
  <2>2. DOMAIN <<>> = {}
    OBVIOUS
  <2> QED
    BY <2>1, <2>2
<1>5. exDevice \in Devices
  <2> DEFINE air == <<>>
  <2>1. exDevice = [card |-> NoEx, issued |-> {}, air |-> air]
    BY DEF ExInit
  <2>2. air \in Seq(EvFrames)
    OBVIOUS
  <2> HIDE DEF air
  <2> QED
    BY <2>1, <2>2 DEF Devices
<1>6. ExTypes
  <2>1. exTrigger.registry \subseteq ExId
    BY <1>4
  <2>2. exTrigger.queue \in Seq(ExId)
    BY <1>4
  <2>3. exTrigger = [registry |-> exTrigger.registry, tombs |-> exTrigger.tombs,
                     queue |-> exTrigger.queue]
    BY <1>4
  <2>4. exchange \in [ExId -> Exchanges]
    BY <1>1, <1>2
  <2>5. exLens \in [ExId -> Seq(Lines)]
    <3>1. <<>> \in Seq(Lines)
      OBVIOUS
    <3> QED
      BY <1>2, <3>1
  <2> QED
    BY <1>3, <1>5, <2>1, <2>2, <2>3, <2>4, <2>5 DEF ExTypes
<1>7. QueueInv
  BY <1>3, <1>4 DEF QueueInv, Serving, Awaits
<1>8. OwnInv
  BY <1>1, <1>2, <1>3 DEF OwnInv, Resting, exJob
<1>9. PaintInv
  BY <1>3 DEF PaintInv
<1>10. ExQuestionFirst /\ ExDeliveredWhole
  BY <1>1, <1>2 DEF ExQuestionFirst, ExDeliveredWhole
<1> QED
  BY <1>6, <1>7, <1>8, <1>9, <1>10 DEF ExInv

\* The invariant is kept by every step.
LEMMA ExStepInv ==
    ASSUME ExInv, [ExNext]_exVars
    PROVE  ExInv'
<1>1. CASE (\E i \in ExId : ExWake(i)) \/ ExDismiss \/ ExLoseEvent \/ ExReorder \/ UNCHANGED exVars
  BY <1>1, DeviceKeeps
<1>2. CASE ExRoute(TRUE) \/ ExRoute(FALSE)
  BY <1>2, RouteKeeps
<1>3. CASE \E i \in ExId : ExTailEnds(i)
  BY <1>3, TailKeeps
<1>4. CASE ExReady \/ ExLoopEnds \/ ExReconnect \/ ExLinkLost \/ ExRearm
           \/ ExQuiesced \/ ExDropped
  BY <1>4, RestKeeps
<1>5. CASE ExTake \/ ExSkip \/ ExDrain
  BY <1>5, TakeKeeps
<1>6. CASE ExAdmit \/ ExLive \/ ExLane \/ ExFetch \/ ExTranscribe \/ ExHeard
  BY <1>6, HearKeeps
<1>7. CASE ExStale \/ ExDiscarded \/ ExStageFails
  BY <1>7, FailKeeps
<1>8. CASE ExFlush \/ ExGenerated \/ ExOffline \/ ExHold
  BY <1>8, AnswerKeeps
<1>9. CASE ExAsk
  BY <1>9, AskKeeps
<1>10. CASE ExPart \/ ExWhole \/ ExEnd \/ ExSorry
  BY <1>10, ShowKeeps
<1>11. CASE ExCollect \/ ExCommit \/ ExAbort
  BY <1>11, EndKeeps
<1>12. CASE ExReboot
  BY <1>12, RebootKeeps
<1> QED
  BY <1>1, <1>2, <1>3, <1>4, <1>5, <1>6, <1>7, <1>8, <1>9, <1>10, <1>11, <1>12 DEF ExNext

\* The question is on the lens before anything that replaces it, what is marked
\* delivered has its whole answer there and no exit after it, and no task or
\* lease outlives its exchange: for any number of exchanges and parts, whatever
\* the wire loses, repeats or reorders (pipeline.py _hold_for_ask_render,
\* mark_delivered, _dispatch).
THEOREM PaintsInOrder == ExSpec => []ExPaints
<1>1. ExInv => ExPaints
  <2>1. ASSUME ExInv PROVE ExTailsOwned
    <3>1. exRun.ask = "sending" => exJob \in ExId
      BY <2>1, JobIs DEF ExInv, PaintInv, Resting
    <3> QED
      BY <2>1, <3>1 DEF ExInv, OwnInv, ExTailsOwned, Resting, ExAt
  <2> QED
    BY <2>1 DEF ExInv, ExPaints
<1> QED
  BY <1>1, ExInitInv, ExStepInv, PTL DEF ExSpec
-----------------------------------------------------------------------------
(* Served once.                                                              *)

\* Where an exchange is that was started and has not come to its end.
Under == (Serving \ {"admit"}) \cup {"drain"}

Services == [started : [ExId -> Nat], dismissed : SUBSET ExId, lost : SUBSET ExId,
             dropped : SUBSET ExId]
USE DEF Services

TombsInv ==
  /\ exTrigger.tombs \in Seq(ExId) /\ IsInjective(exTrigger.tombs)
  /\ Len(exTrigger.tombs) <= TombLimit
  /\ IsFiniteSet(exTrigger.registry)
  /\ exServed \in Services

\* What was dismissed has its tombstone, and is cancelled while it is registered.
DismissedInv ==
  \A i \in exServed.dismissed \ exServed.lost :
    i \in ToSet(exTrigger.tombs) /\ (i \in exTrigger.registry => ExCancelled(i))

\* What was started is on its way or has its tombstone; what waits was not.
StartedInv ==
  \A i \in ExId \ exServed.lost :
    /\ exServed.started[i] <= 1
    /\ exServed.started[i] = 1 => i \in ToSet(exTrigger.tombs) \/ (exRun.pc \in Under /\ exJob = i)
    /\ i \in ToSet(exTrigger.queue) => exServed.started[i] = 0
    /\ exRun.pc \in {"quiesce", "admit"} /\ exJob = i => exServed.started[i] = 0

ServeInv == ExInv /\ TombsInv /\ DismissedInv /\ StartedInv

\* A step that admits nobody and settles nobody: what is cancelled stays so.
Unsettled ==
  /\ UNCHANGED <<exTrigger, exServed>>
  /\ \A i \in ExId : ExCancelled(i) => ExCancelled(i)'
  /\ exRun.pc \in Under => exRun'.pc \in Under /\ exRun'.job = exJob
  /\ exRun'.pc \in {"quiesce", "admit"} =>
        exRun.pc \in {"quiesce", "admit"} /\ exRun'.job = exJob

LEMMA UnsettledServes ==
    ASSUME ServeInv, ExInv', Unsettled
    PROVE  ServeInv'
<1>1. TombsInv'
  BY DEF ServeInv, TombsInv, Unsettled
<1>2. DismissedInv'
  BY DEF ServeInv, TombsInv, DismissedInv, Unsettled
<1>3. StartedInv'
  <2>1. UNCHANGED <<exTrigger, exServed>>
    BY DEF Unsettled
  <2>2. \A i \in ExId : /\ exRun.pc \in Under /\ exJob = i => exRun'.pc \in Under /\ exJob' = i
                        /\ exRun'.pc \in {"quiesce", "admit"} /\ exJob' = i =>
                              exRun.pc \in {"quiesce", "admit"} /\ exJob = i
    BY DEF Unsettled, exJob
  <2> SUFFICES ASSUME NEW i \in ExId \ exServed.lost
               PROVE  /\ exServed.started[i] <= 1
                      /\ exServed.started[i] = 1 => \/ i \in ToSet(exTrigger.tombs)
                                                    \/ exRun'.pc \in Under /\ exJob' = i
                      /\ i \in ToSet(exTrigger.queue) => exServed.started[i] = 0
                      /\ exRun'.pc \in {"quiesce", "admit"} /\ exJob' = i => exServed.started[i] = 0
    BY <2>1 DEF StartedInv
  <2> QED
    BY <2>2 DEF ServeInv, StartedInv
<1> QED
  BY <1>1, <1>2, <1>3 DEF ServeInv

\* A cancelled exchange stays cancelled, and cancelling cancels.
LEMMA CancelStays ==
    ASSUME NEW e \in Exchanges, NEW reason \in Reasons \ {""}
    PROVE  CancelWith(e, reason).cancel # "" /\ (e.cancel # "" => CancelWith(e, reason) = e)
  BY DEF CancelWith, Exchanges

\* Nothing of an exchange changes, or it is cancelled, or a task of it ends.
LEMMA CancelsOnly ==
    ASSUME ExInv, NEW i \in ExId,
           \/ exchange' = exchange
           \/ \E reason \in Reasons \ {""} :
                 exchange' = [exchange EXCEPT ![i] = CancelWith(@, reason)]
           \/ \E b \in BOOLEAN : exchange' = [exchange EXCEPT ![i].tail = b]
           \/ exchange' = [exchange EXCEPT ![i].delivered = TRUE]
    PROVE  \A j \in ExId : ExCancelled(j) => ExCancelled(j)'
<1>1. exchange \in [ExId -> Exchanges]
  BY DEF ExInv, ExTypes
<1>2. CASE exchange' = exchange
  BY <1>2 DEF ExCancelled
<1>3. ASSUME NEW reason \in Reasons \ {""},
             exchange' = [exchange EXCEPT ![i] = CancelWith(@, reason)]
      PROVE  \A j \in ExId : ExCancelled(j) => ExCancelled(j)'
  <2> DEFINE e == CancelWith(exchange[i], reason)
  <2>1. e.cancel # ""
    BY <1>1, CancelStays
  <2>2. exchange' = [exchange EXCEPT ![i] = e]
    BY <1>3
  <2> HIDE DEF e
  <2> QED
    BY <1>1, <2>1, <2>2 DEF ExCancelled
<1>4. ASSUME NEW b \in BOOLEAN, exchange' = [exchange EXCEPT ![i].tail = b]
      PROVE  \A j \in ExId : ExCancelled(j) => ExCancelled(j)'
  BY <1>1, <1>4 DEF ExCancelled, Exchanges
<1>5. CASE exchange' = [exchange EXCEPT ![i].delivered = TRUE]
  BY <1>1, <1>5 DEF ExCancelled, Exchanges
<1> QED
  BY <1>2, <1>3, <1>4, <1>5

\* The steps of the device, of the wire and of the exchange itself.
LEMMA GoesOn ==
    ASSUME ExInv, [ExNext]_exVars,
           ~(\E keep \in BOOLEAN : ExRoute(keep)), ~ExTake, ~ExSkip, ~ExDrain, ~ExAdmit,
           ~ExDropped
    PROVE  Unsettled
<1> USE DEF exJob
<1>0. exRun \in Runs
  BY DEF ExInv, ExTypes
<1>1. CASE (\E i \in ExId : ExWake(i)) \/ ExDismiss \/ ExLoseEvent \/ ExReorder \/ UNCHANGED exVars
  BY <1>1 DEF ExWake, ExDismiss, ExLoseEvent, ExReorder, exVars, Unsettled, ExCancelled
<1>2. ASSUME NEW i \in ExId, ExTailEnds(i) PROVE Unsettled
  BY <1>2, CancelsOnly DEF ExTailEnds, exDevVars, Unsettled
<1>3. CASE ExReady \/ ExLoopEnds \/ ExReconnect \/ ExLinkLost \/ ExRearm \/ ExReboot \/ ExQuiesced
  <2>1. UNCHANGED <<exTrigger, exServed, exchange>>
    BY <1>3 DEF ExReady, ExLoopEnds, ExReconnect, ExLinkLost, ExRearm, ExReboot, ExQuiesced, exDevVars
  <2>2. CASE ExReady \/ ExLoopEnds \/ ExReconnect \/ ExRearm
    <3>1. exRun.pc \notin Under /\ exRun'.pc \notin {"quiesce", "admit"}
      BY <1>0, <2>2 DEF ExReady, ExLoopEnds, ExReconnect, ExRearm, Runs, Under, Serving,
                        Awaits, Resting, ExAt, ExGo
    <3> QED
      BY <2>1, <3>1 DEF Unsettled, ExCancelled
  <2>3. CASE ExLinkLost \/ ExReboot \/ ExQuiesced
    <3>1. /\ exRun'.job = exRun.job
          /\ exRun'.pc = exRun.pc \/ (exRun'.pc = "admit" /\ exRun.pc = "quiesce")
      BY <1>0, <2>3 DEF ExLinkLost, ExReboot, ExQuiesced, ExAt, Runs
    <3>2. "quiesce" \notin Under
      BY DEF Under, Serving, Awaits
    <3> QED
      BY <2>1, <3>1, <3>2 DEF Unsettled, ExCancelled
  <2> QED
    BY <1>3, <2>2, <2>3
<1>4. ASSUME UNCHANGED <<exTrigger, exServed>>, exRun.pc \in Under \cup {"admit"},
             exRun'.pc \in Under, exRun'.job = exRun.job,
             \/ exchange' = exchange
             \/ \E reason \in Reasons \ {""} :
                   exchange' = [exchange EXCEPT ![exRun.job] = CancelWith(@, reason)]
             \/ \E b \in BOOLEAN : exchange' = [exchange EXCEPT ![exRun.job].tail = b]
             \/ exchange' = [exchange EXCEPT ![exRun.job].delivered = TRUE]
      PROVE  Unsettled
  <2>1. exRun.job \in ExId
    <3>1. exRun.pc \notin Resting
      BY <1>4 DEF Under, Serving, Awaits, Resting
    <3> QED
      BY <3>1, JobIs
  <2>2. \A j \in ExId : ExCancelled(j) => ExCancelled(j)'
    BY <1>4, <2>1, CancelsOnly
  <2>3. "admit" \notin Under /\ "quiesce" \notin Under
    BY DEF Under, Serving, Awaits
  <2> QED
    BY <1>4, <2>2, <2>3 DEF Unsettled
<1>5. /\ {"abort", "collect", "drain"} \subseteq Under
      /\ {"live", "lane", "fetch", "stt", "generate", "hold", "part", "whole", "end", "sorry",
          "heard", "commit"} \subseteq Under
      /\ Awaits \subseteq Under
  BY DEF Under, Serving, Awaits
<1>6. /\ ExRaise(exRun).pc \in Under /\ ExRaise(exRun).job = exRun.job
  BY <1>0, <1>5 DEF ExRaise, Unwound, Runs
<1>7. ASSUME NEW pc \in {"live", "lane", "fetch", "stt", "generate", "hold", "part", "whole",
                         "end", "sorry", "heard", "commit"}, ExGo(pc)
      PROVE  exRun'.pc \in Under /\ exRun'.job = exRun.job
  BY <1>0, <1>5, <1>7 DEF ExGo, Runs
<1>8. CASE ExLive \/ ExLane \/ ExFetch \/ ExTranscribe
  <2>1. UNCHANGED <<exTrigger, exServed>> /\ exRun.pc \in Under
    BY <1>5, <1>8 DEF ExLive, ExLane, ExFetch, ExTranscribe, exDevVars, ExAt
  <2>2. exRun'.pc \in Under /\ exRun'.job = exRun.job
    BY <1>7, <1>8 DEF ExLive, ExLane, ExFetch, ExTranscribe
  <2>3. exchange' = exchange \/ exchange' = [exchange EXCEPT ![exRun.job].tail = TRUE]
    BY <1>8 DEF ExLive, ExLane, ExFetch, ExTranscribe, StartTail
  <2> QED
    BY <1>4, <2>1, <2>2, <2>3
<1>9. CASE ExHeard
  <2>1. UNCHANGED <<exTrigger, exServed, exchange>> /\ exRun.pc \in Under
    BY <1>5, <1>9 DEF ExHeard, exDevVars, ExAt
  <2>2. exRun'.pc \in Under /\ exRun'.job = exRun.job
    BY <1>0, <1>5, <1>7, <1>9 DEF ExHeard, Runs
  <2> QED
    BY <1>4, <2>1, <2>2
<1>10. CASE ExStale \/ ExDiscarded \/ ExStageFails
  <2>1. UNCHANGED <<exTrigger, exServed>> /\ exRun.pc \in Under \cup {"admit"}
    BY <1>5, <1>10 DEF ExStale, ExDiscarded, ExStageFails, exDevVars, ExAt
  <2>2. exRun'.pc \in Under /\ exRun'.job = exRun.job
    BY <1>6, <1>10 DEF ExStale, ExDiscarded, ExStageFails
  <2>3. \/ exchange' = exchange
        \/ exchange' = [exchange EXCEPT ![exRun.job] = CancelWith(@, "stale")]
        \/ exchange' = [exchange EXCEPT ![exRun.job] = CancelWith(@, "recorder_discarded")]
    BY <1>10 DEF ExStale, ExDiscarded, ExStageFails, exDevVars
  <2>4. {"stale", "recorder_discarded"} \subseteq Reasons \ {""}
    BY DEF Reasons
  <2> QED
    BY <1>4, <2>1, <2>2, <2>3, <2>4
<1>11. CASE ExFlush \/ ExGenerated \/ ExOffline \/ ExHold
  <2>1. UNCHANGED <<exTrigger, exServed, exchange>> /\ exRun.pc \in Under
    BY <1>5, <1>11 DEF ExFlush, ExGenerated, ExOffline, ExHold, exDevVars, ExAt
  <2>2. exRun'.pc \in Under /\ exRun'.job = exRun.job
    BY <1>0, <1>5, <1>6, <1>11 DEF ExFlush, ExGenerated, ExOffline, ExHold, Runs
  <2> QED
    BY <1>4, <2>1, <2>2
<1>12. ASSUME NEW op, NEW accepted \in BOOLEAN, NEW failed \in BOOLEAN,
              DisplayCommand(exRun.job, op, accepted, failed)
       PROVE  /\ accepted \/ failed
              /\ \/ exchange' = exchange
                 \/ exchange' = [exchange EXCEPT ![exRun.job] = CancelWith(@, "device_rejected")]
  BY <1>12 DEF DisplayCommand
<1>13. "device_rejected" \in Reasons \ {""} /\ "host_incomplete" \in Reasons \ {""}
  BY DEF Reasons
<1>14. CASE ExAsk
  <2>1. UNCHANGED <<exTrigger, exServed>> /\ exRun.pc \in Under
    <3>1. exRun.pc \in {"generate", "hold", "collect"}
      BY <1>14 DEF ExAsk, ExInv, PaintInv
    <3> QED
      BY <1>5, <1>14, <3>1 DEF ExAsk, exDevVars
  <2>2. /\ exRun' = [exRun EXCEPT !.ask = "acked"] \/ exRun' = [exRun EXCEPT !.ask = "failed"]
        /\ \/ exchange' = exchange
           \/ exchange' = [exchange EXCEPT ![exRun.job] = CancelWith(@, "device_rejected")]
    BY <1>14 DEF ExAsk, DisplayCommand
  <2>3. exRun'.pc \in Under /\ exRun'.job = exRun.job
    BY <1>0, <2>1, <2>2 DEF Runs
  <2> QED
    BY <1>4, <1>13, <2>1, <2>2, <2>3
<1>15. ASSUME NEW op, NEW next, next.pc \in Under, next.job = exRun.job, Shows(op, next),
              exRun.pc \in Under
       PROVE  Unsettled
  <2>1. /\ exRun' = next \/ exRun' = ExRaise(exRun)
        /\ \/ exchange' = exchange
           \/ exchange' = [exchange EXCEPT ![exRun.job] = CancelWith(@, "device_rejected")]
    BY <1>15 DEF Shows, DisplayCommand
  <2>2. UNCHANGED <<exTrigger, exServed>>
    BY <1>15 DEF Shows, exDevVars
  <2> QED
    BY <1>4, <1>6, <1>13, <1>15, <2>1, <2>2
<1>16. CASE ExPart
  <2> DEFINE next == [exRun EXCEPT !.opened = ~exRun.split,
                                   !.pc = IF exRun.then = "part" THEN "generate" ELSE "end"]
  <2>1. next.pc \in Under /\ next.job = exRun.job /\ exRun.pc \in Under
    BY <1>0, <1>5, <1>16 DEF ExPart, ExAt, Runs
  <2>2. Shows("part", next)
    BY <1>16 DEF ExPart
  <2> HIDE DEF next
  <2> QED
    BY <1>15, <2>1, <2>2
<1>17. CASE ExWhole \/ ExEnd \/ ExSorry
  <2> DEFINE next == [exRun EXCEPT !.pc = "commit"]
  <2>1. next.pc \in Under /\ next.job = exRun.job /\ exRun.pc \in Under
    BY <1>0, <1>5, <1>17 DEF ExWhole, ExEnd, ExSorry, ExAt, Runs
  <2>2. CASE Shows("reply", next) \/ Shows("end", next) \/ Shows("sorry", next)
    <3> HIDE DEF next
    <3> QED
      BY <1>15, <2>1, <2>2
  <2>3. CASE /\ exRun' = [exRun EXCEPT !.pc = "part", !.then = "end", !.split = TRUE]
             /\ UNCHANGED <<exDevVars, exchange, exLens, exServed, exFaults>>
    <3>1. exRun'.pc \in Under /\ exRun'.job = exRun.job
      BY <1>0, <1>5, <2>3 DEF Runs
    <3> QED
      BY <1>4, <2>1, <2>3, <3>1 DEF exDevVars
  <2> QED
    BY <1>17, <2>2, <2>3 DEF ExWhole, ExEnd, ExSorry
<1>18. CASE ExCollect \/ ExCommit \/ ExAbort
  <2>1. UNCHANGED <<exTrigger, exServed>> /\ exRun.pc \in Under
    BY <1>5, <1>18 DEF ExCollect, ExCommit, ExAbort, exDevVars, ExAt
  <2>2. exRun'.pc \in Under /\ exRun'.job = exRun.job
    BY <1>0, <1>5, <1>6, <1>18 DEF ExCollect, ExCommit, ExAbort, ExGo, Unwound, Runs
  <2>3. \/ exchange' = exchange
        \/ exchange' = [exchange EXCEPT ![exRun.job].delivered = TRUE]
        \/ exchange' = [exchange EXCEPT ![exRun.job] = CancelWith(@, "host_incomplete")]
    BY <1>18 DEF ExCollect, ExCommit, ExAbort
  <2> QED
    BY <1>4, <1>13, <2>1, <2>2, <2>3
<1> QED
  BY <1>1, <1>2, <1>3, <1>8, <1>9, <1>10, <1>11, <1>14, <1>16, <1>17, <1>18 DEF ExNext

\* The tombstones after a step, and what their limit made them give up.
LEMMA SettledServes ==
    ASSUME ServeInv, ExInv', NEW served,
           served \in Services,
           served.lost = exServed.lost, TombsGivenUp(served),
           exTrigger'.tombs \in Seq(ExId), IsInjective(exTrigger'.tombs),
           Len(exTrigger'.tombs) <= TombLimit, IsFiniteSet(exTrigger'.registry),
           \A i \in served.dismissed \ exServed.lost :
             /\ i \in ToSet(exTrigger.tombs) \cup ToSet(exTrigger'.tombs)
             /\ i \in exTrigger'.registry => ExCancelled(i)',
           \A i \in ExId \ exServed.lost :
             /\ served.started[i] <= 1
             /\ served.started[i] = 1 => \/ i \in ToSet(exTrigger.tombs) \cup ToSet(exTrigger'.tombs)
                                         \/ exRun'.pc \in Under /\ exJob' = i
             /\ i \in ToSet(exTrigger'.queue) => served.started[i] = 0
             /\ exRun'.pc \in {"quiesce", "admit"} /\ exJob' = i => served.started[i] = 0
    PROVE  ServeInv'
<1> DEFINE gone == ToSet(exTrigger.tombs) \ ToSet(exTrigger'.tombs)
<1>1. gone = Range(exTrigger.tombs) \ Range(exTrigger'.tombs) /\ gone \subseteq ExId
  <2>1. \A i \in ToSet(exTrigger.tombs) : i \in ExId
    BY ElementOfSeq, LenProperties DEF ServeInv, TombsInv, ToSet
  <2> QED
    BY <2>1 DEF ToSet, Range
<1>2. exServed' = [served EXCEPT !.lost = exServed.lost \cup gone]
  BY <1>1 DEF TombsGivenUp
<1>3. /\ exServed' \in Services
      /\ exServed'.started = served.started /\ exServed'.dismissed = served.dismissed
      /\ exServed'.lost = exServed.lost \cup gone
  <2>1. exServed.lost \subseteq ExId
    BY DEF ServeInv, TombsInv
  <2> HIDE DEF gone
  <2> QED
    BY <1>1, <1>2, <2>1
<1>4. \A i \in ExId \ exServed'.lost :
        /\ i \in ExId \ exServed.lost
        /\ i \in ToSet(exTrigger.tombs) => i \in ToSet(exTrigger'.tombs)
  BY <1>3
<1>5. TombsInv'
  BY <1>3 DEF TombsInv
<1>6. DismissedInv'
  <2> SUFFICES ASSUME NEW i \in served.dismissed \ exServed'.lost
               PROVE  /\ i \in ToSet(exTrigger'.tombs)
                      /\ i \in exTrigger'.registry => ExCancelled(i)'
    BY <1>3 DEF DismissedInv
  <2>1. i \in ExId \ exServed'.lost /\ i \in served.dismissed \ exServed.lost
    BY <1>3
  <2> QED
    BY <1>4, <2>1
<1>7. StartedInv'
  <2> SUFFICES ASSUME NEW i \in ExId \ exServed'.lost
               PROVE  /\ served.started[i] <= 1
                      /\ served.started[i] = 1 => \/ i \in ToSet(exTrigger'.tombs)
                                                  \/ exRun'.pc \in Under /\ exJob' = i
                      /\ i \in ToSet(exTrigger'.queue) => served.started[i] = 0
                      /\ exRun'.pc \in {"quiesce", "admit"} /\ exJob' = i => served.started[i] = 0
    BY <1>3 DEF StartedInv
  <2> QED
    BY <1>4
<1> QED
  BY <1>5, <1>6, <1>7 DEF ServeInv

\* An ID takes its place among the tombstones.
LEMMA TombIs ==
    ASSUME TombsInv, NEW i \in ExId
    PROVE  LET tombs == RememberTerminal(exTrigger.tombs, i) IN
           /\ tombs \in Seq(ExId) /\ IsInjective(tombs) /\ Len(tombs) <= TombLimit
           /\ i \in ToSet(tombs)
  BY RememberedKeeps, ExAssumption DEF TombsInv, RememberTerminal, ExAssumption

\* The trigger is a record.
LEMMA TriggerIs ==
    ASSUME ExInv
    PROVE  exTrigger = [registry |-> exTrigger.registry, tombs |-> exTrigger.tombs,
                        queue |-> exTrigger.queue]
  BY DEF ExInv, ExTypes

\* Into the admission, and out of it.
LEMMA AdmitServes ==
    ASSUME ServeInv, ExInv', ExTake \/ ExAdmit \/ ExDropped
    PROVE  ServeInv'
<1>0. /\ exRun \in Runs /\ ExInv
      /\ exServed \in Services
  BY DEF ServeInv, ExInv, ExTypes, TombsInv
<1>1. CASE ExTake
  <2> DEFINE queue == exTrigger.queue
  <2>1. /\ queue # <<>> /\ exRun.pc = "idle" /\ UNCHANGED <<exchange, exServed>>
        /\ exTrigger' = [exTrigger EXCEPT !.queue = Tail(queue)]
        /\ \E pc \in {"quiesce", "admit"} : exRun' = [exRun EXCEPT !.pc = pc, !.job = Head(queue)]
    BY <1>1 DEF ExTake, ExAt
  <2>2. /\ exTrigger'.registry = exTrigger.registry /\ exTrigger'.tombs = exTrigger.tombs
        /\ exTrigger'.queue = Tail(queue)
    BY <1>0, <2>1, TriggerIs
  <2>3. exJob' = Head(queue)
    BY <1>0, <2>1 DEF Runs, exJob
  <2>4. Head(queue) \in ToSet(queue) /\ ToSet(Tail(queue)) \subseteq ToSet(queue)
    <3>1. /\ queue \in Seq(ExId)
          /\ \A k, l \in DOMAIN queue : queue[k] = queue[l] => k = l
      BY <1>0 DEF ExInv, ExTypes, QueueInv
    <3> QED
      BY <2>1, <3>1, QueueTail DEF ToSet
  <2>5. exRun.pc \notin Under
    BY <2>1 DEF Under, Serving, Awaits
  <2>6. TombsInv' /\ DismissedInv'
    BY <2>1, <2>2 DEF ServeInv, TombsInv, DismissedInv, ExCancelled
  <2>7. StartedInv'
    <3> HIDE DEF queue
    <3>1. \A i \in ExId \ exServed.lost :
             /\ exServed.started[i] <= 1
             /\ exServed.started[i] = 1 => i \in ToSet(exTrigger.tombs)
             /\ i \in ToSet(queue) => exServed.started[i] = 0
      BY <2>5 DEF ServeInv, StartedInv, queue
    <3> QED
      BY <2>1, <2>2, <2>3, <2>4, <3>1 DEF StartedInv
  <2> QED
    BY <2>6, <2>7 DEF ServeInv
<1>2. CASE ExAdmit
  <2>1. /\ exRun.pc = "admit" /\ UNCHANGED <<exchange, exTrigger>>
        /\ exServed' = [exServed EXCEPT !.started[exJob] = @ + 1]
    BY <1>2 DEF ExAdmit, ExAt, exDevVars
  <2>2. exRun'.pc \in Under /\ exRun'.pc \notin {"quiesce", "admit"} /\ exJob' = exJob
    <3>1. PICK first \in {"live", "fetch"} :
             exRun' = [exRun EXCEPT !.pc = first, !.busy = TRUE, !.power = TRUE]
      BY <1>2 DEF ExAdmit
    <3> QED
      BY <1>0, <3>1 DEF Runs, exJob, Under, Serving, Awaits
  <2>3. exJob \in ExId
    <3>1. exRun.pc \notin Resting
      BY <2>1 DEF Resting
    <3> QED
      BY <1>0, <3>1, JobIs
  <2>4. /\ exServed' \in Services
        /\ exServed'.dismissed = exServed.dismissed /\ exServed'.lost = exServed.lost
        /\ exServed'.started[exJob] = exServed.started[exJob] + 1
        /\ \A i \in ExId : i # exJob => exServed'.started[i] = exServed.started[i]
    BY <1>0, <2>1, <2>3
  <2>5. exJob \notin ToSet(exTrigger.queue)
    <3>1. exRun.pc \in Serving
      BY <2>1 DEF Serving
    <3> QED
      BY <1>0, <3>1 DEF ExInv, QueueInv, ToSet
  <2>6. exRun.pc \notin Under
    BY <2>1 DEF Under
  <2>7. TombsInv' /\ DismissedInv'
    BY <2>1, <2>4 DEF ServeInv, TombsInv, DismissedInv, ExCancelled
  <2>8. StartedInv'
    <3> SUFFICES ASSUME NEW i \in ExId \ exServed.lost
                 PROVE  /\ exServed'.started[i] <= 1
                        /\ exServed'.started[i] = 1 => \/ i \in ToSet(exTrigger.tombs)
                                                       \/ exRun'.pc \in Under /\ exJob' = i
                        /\ i \in ToSet(exTrigger.queue) => exServed'.started[i] = 0
                        /\ exRun'.pc \in {"quiesce", "admit"} /\ exJob' = i => exServed'.started[i] = 0
      BY <2>1, <2>4 DEF StartedInv
    <3>1. CASE i = exJob
      <4>1. exServed.started[i] = 0
        BY <2>1, <3>1 DEF ServeInv, StartedInv
      <4> QED
        BY <2>2, <2>4, <2>5, <3>1, <4>1
    <3>2. CASE i # exJob
      BY <2>2, <2>4, <2>6, <3>2 DEF ServeInv, StartedInv
    <3> QED
      BY <3>1, <3>2
  <2> QED
    BY <2>7, <2>8 DEF ServeInv
<1>3. CASE ExDropped
  <2>1. /\ exRun.pc = "quiesce" /\ UNCHANGED <<exchange, exTrigger>>
        /\ exServed' = [exServed EXCEPT !.dropped = @ \cup {exJob}]
        /\ \E pc \in {"off", "idle"} : exRun' = [exRun EXCEPT !.pc = pc, !.job = NoEx]
    BY <1>3 DEF ExDropped, ExAt, exDevVars
  <2>2. exRun'.pc \notin {"quiesce", "admit"} /\ exRun.pc \notin Under
    BY <1>0, <2>1 DEF Runs, Under, Serving, Awaits
  <2>3. exJob \in ExId
    <3>1. exRun.pc \notin Resting
      BY <2>1 DEF Resting
    <3> QED
      BY <1>0, <3>1, JobIs
  <2>4. /\ exServed' \in Services /\ exServed'.started = exServed.started
        /\ exServed'.dismissed = exServed.dismissed /\ exServed'.lost = exServed.lost
    BY <1>0, <2>1, <2>3
  <2>5. TombsInv' /\ DismissedInv'
    BY <2>1, <2>4 DEF ServeInv, TombsInv, DismissedInv, ExCancelled
  <2>6. StartedInv'
    BY <2>1, <2>2, <2>4 DEF ServeInv, StartedInv
  <2> QED
    BY <2>5, <2>6 DEF ServeInv
<1> QED
  BY <1>1, <1>2, <1>3

\* An exchange leaves the registry and gets its tombstone.
LEMMA ForgetServes ==
    ASSUME ServeInv, ExInv', ExSkip \/ ExDrain
    PROVE  ServeInv'
<1>0. /\ exRun \in Runs /\ ExInv /\ IsFiniteSet(exTrigger.registry) /\ TombsInv
      /\ exServed \in Services
      /\ UNCHANGED exchange /\ TombsGivenUp(exServed)
  BY DEF ServeInv, ExInv, ExTypes, TombsInv, ExSkip, ExDrain
<1>1. ASSUME NEW i \in ExId, exTrigger'.tombs = RememberTerminal(exTrigger.tombs, i),
             exTrigger'.registry = exTrigger.registry \ {i},
             ToSet(exTrigger'.queue) \subseteq ToSet(exTrigger.queue),
             exRun'.pc \notin {"quiesce", "admit"}, exRun.pc \in Under => i = exJob
      PROVE  ServeInv'
  <2>1. /\ exTrigger'.tombs \in Seq(ExId) /\ IsInjective(exTrigger'.tombs)
        /\ Len(exTrigger'.tombs) <= TombLimit /\ i \in ToSet(exTrigger'.tombs)
    BY <1>0, <1>1, TombIs
  <2>2. IsFiniteSet(exTrigger'.registry)
    BY <1>0, <1>1, FS_Subset
  <2>3. \A j \in exServed.dismissed \ exServed.lost :
          /\ j \in ToSet(exTrigger.tombs) \cup ToSet(exTrigger'.tombs)
          /\ j \in exTrigger'.registry => ExCancelled(j)'
    BY <1>0, <1>1 DEF ServeInv, DismissedInv, ExCancelled
  <2>4. \A j \in ExId \ exServed.lost :
          /\ exServed.started[j] <= 1
          /\ exServed.started[j] = 1 => j \in ToSet(exTrigger.tombs) \cup ToSet(exTrigger'.tombs)
          /\ j \in ToSet(exTrigger'.queue) => exServed.started[j] = 0
    BY <1>1, <2>1 DEF ServeInv, StartedInv
  <2> QED
    BY <1>0, <1>1, <2>1, <2>2, <2>3, <2>4, SettledServes
<1>2. CASE ExSkip
  <2> DEFINE queue == exTrigger.queue
             t == [exTrigger EXCEPT !.queue = Tail(queue)]
  <2>1. /\ queue # <<>> /\ exRun.pc = "idle" /\ UNCHANGED exRun
        /\ exTrigger' = Forget(t, Head(queue))
    BY <1>2 DEF ExSkip, ExAt
  <2>2. /\ Head(queue) \in ExId
        /\ Head(queue) \in ToSet(queue) /\ ToSet(Tail(queue)) \subseteq ToSet(queue)
    <3>1. /\ queue \in Seq(ExId)
          /\ \A k, l \in DOMAIN queue : queue[k] = queue[l] => k = l
      BY <1>0 DEF ExInv, ExTypes, QueueInv
    <3> QED
      BY <2>1, <3>1, QueueTail DEF ToSet
  <2>3. t = [registry |-> exTrigger.registry, tombs |-> exTrigger.tombs, queue |-> Tail(queue)]
    <3>1. PICK tombs : exTrigger = [registry |-> exTrigger.registry, tombs |-> tombs,
                                    queue |-> exTrigger.queue]
      BY <1>0 DEF ExInv, ExTypes
    <3>2. exTrigger.tombs = tombs
      BY <3>1
    <3> DEFINE rest == Tail(queue)
    <3> HIDE DEF rest
    <3>3. [exTrigger EXCEPT !.queue = rest]
             = [registry |-> exTrigger.registry, tombs |-> tombs, queue |-> rest]
      BY <3>1
    <3> QED
      BY <3>2, <3>3 DEF rest
  <2>4. /\ exTrigger'.tombs = RememberTerminal(exTrigger.tombs, Head(queue))
        /\ exTrigger'.registry = exTrigger.registry \ {Head(queue)}
        /\ exTrigger'.queue = Tail(queue)
    BY <2>1, <2>3 DEF Forget
  <2>5. exRun.pc \notin Under
    BY <2>1 DEF Under, Serving, Awaits
  <2> QED
    BY <1>1, <2>1, <2>2, <2>4, <2>5
<1>3. CASE ExDrain
  <2>1. /\ exRun.pc = "drain" /\ exTrigger' = Forget(exTrigger, exJob)
        /\ exRun' = [exRun EXCEPT !.pc = "rearm", !.power = FALSE]
    BY <1>3 DEF ExDrain, ExAt
  <2>2. exJob \in ExId
    <3>1. exRun.pc \notin Resting
      BY <2>1 DEF Resting
    <3> QED
      BY <1>0, <3>1, JobIs
  <2>3. /\ exTrigger'.tombs = RememberTerminal(exTrigger.tombs, exJob)
        /\ exTrigger'.registry = exTrigger.registry \ {exJob}
        /\ exTrigger'.queue = exTrigger.queue
    BY <1>0, <2>1, TriggerIs DEF Forget
  <2>4. exRun'.pc \notin {"quiesce", "admit"}
    BY <1>0, <2>1 DEF Runs
  <2> QED
    BY <1>1, <2>2, <2>3, <2>4
<1> QED
  BY <1>2, <1>3

\* A wake or a dismissal is routed.
LEMMA RouteServes ==
    ASSUME ServeInv, ExInv', NEW keep \in BOOLEAN, ExRoute(keep)
    PROVE  ServeInv'
<1> DEFINE tombs == exTrigger.tombs
<1>a. PICK i : i = Head(exDevice.air).id
  OBVIOUS
<1>0. /\ ExInv /\ TombsInv /\ i \in ExId /\ UNCHANGED exRun /\ exchange \in [ExId -> Exchanges]
      /\ tombs \in Seq(ExId) /\ IsInjective(tombs) /\ Len(tombs) <= TombLimit
      /\ IsFiniteSet(exTrigger.registry)
      /\ exServed \in Services
      /\ TombLimit \in Nat \ {0}
  <2>1. exDevice.air \in Seq(EvFrames) /\ exDevice.air # <<>>
    BY DEF ServeInv, ExInv, ExTypes, Devices, ExRoute
  <2>2. Head(exDevice.air) \in EvFrames
    BY <2>1, HeadTailProperties
  <2>3. i \in ExId
    BY <1>a, <2>2 DEF EvFrames
  <2> QED
    BY <2>3, ExAssumption DEF ServeInv, TombsInv, ExRoute, ExInv, ExTypes, ExAssumption
<1>1. exJob' = exJob
  BY <1>0 DEF exJob
<1>2. \/ CancelEvenai(i) /\ TombsGivenUp([exServed EXCEPT !.dismissed = @ \cup {i}])
      \/ SubmitEvenai(i) /\ TombsGivenUp(exServed)
  BY <1>a DEF ExRoute
<1>3. CASE CancelEvenai(i) /\ TombsGivenUp([exServed EXCEPT !.dismissed = @ \cup {i}])
  <2> DEFINE order == RememberTerminal(tombs, i)
             served == [exServed EXCEPT !.dismissed = @ \cup {i}]
  <2>1. /\ served \in Services
        /\ served.started = exServed.started /\ served.lost = exServed.lost
        /\ served.dismissed = exServed.dismissed \cup {i}
        /\ TombsGivenUp(served)
    BY <1>0, <1>3
  <2>2. /\ order \in Seq(ExId) /\ IsInjective(order) /\ Len(order) <= TombLimit
        /\ i \in ToSet(order)
    BY <1>0, TombIs
  <2> HIDE DEF order, served
  <2>3. /\ exTrigger'.tombs = order /\ exTrigger'.registry = exTrigger.registry
        /\ exTrigger'.queue = exTrigger.queue
    <3>1. exTrigger' = [exTrigger EXCEPT !.tombs = order]
      BY <1>3 DEF CancelEvenai, order
    <3> QED
      BY <1>0, <3>1, TriggerIs
  <2>4. /\ \A j \in ExId : ExCancelled(j) => ExCancelled(j)'
        /\ i \in exTrigger.registry => ExCancelled(i)'
    <3> DEFINE e == CancelWith(exchange[i], "dismissed")
    <3>1. "dismissed" \in Reasons \ {""}
      BY DEF Reasons
    <3>2. e.cancel # ""
      BY <1>0, <3>1, CancelStays
    <3>3. exchange' = IF i \in exTrigger.registry THEN [exchange EXCEPT ![i] = e] ELSE exchange
      BY <1>3 DEF CancelEvenai
    <3> HIDE DEF e
    <3>4. CASE i \in exTrigger.registry
      <4>1. exchange'[i] = e /\ \A j \in ExId : j # i => exchange'[j] = exchange[j]
        BY <1>0, <3>3, <3>4
      <4> QED
        BY <3>2, <4>1 DEF ExCancelled
    <3>5. CASE i \notin exTrigger.registry
      BY <3>3, <3>5 DEF ExCancelled
    <3> QED
      BY <3>4, <3>5
  <2>5. \A j \in served.dismissed \ exServed.lost :
          /\ j \in ToSet(tombs) \cup ToSet(exTrigger'.tombs)
          /\ j \in exTrigger'.registry => ExCancelled(j)'
    <3> SUFFICES ASSUME NEW j \in served.dismissed \ exServed.lost
                 PROVE  /\ j \in ToSet(tombs) \cup ToSet(order)
                        /\ j \in exTrigger.registry => ExCancelled(j)'
      BY <2>3
    <3>1. CASE j = i
      BY <2>2, <2>4, <3>1
    <3>2. CASE j # i
      <4>1. j \in exServed.dismissed \ exServed.lost /\ j \in ExId
        BY <1>0, <2>1, <3>2
      <4> QED
        BY <2>4, <4>1 DEF ServeInv, DismissedInv
    <3> QED
      BY <3>1, <3>2
  <2>6. \A j \in ExId \ exServed.lost :
          /\ served.started[j] <= 1
          /\ served.started[j] = 1 => \/ j \in ToSet(tombs) \cup ToSet(exTrigger'.tombs)
                                      \/ exRun'.pc \in Under /\ exJob' = j
          /\ j \in ToSet(exTrigger'.queue) => served.started[j] = 0
          /\ exRun'.pc \in {"quiesce", "admit"} /\ exJob' = j => served.started[j] = 0
    BY <1>0, <1>1, <2>1, <2>3 DEF ServeInv, StartedInv
  <2> QED
    BY <1>0, <2>1, <2>2, <2>3, <2>5, <2>6, SettledServes
<1>4. CASE SubmitEvenai(i) /\ TombsGivenUp(exServed)
  <2> DEFINE older == {j \in exTrigger.registry : ~ExCancelled(j)}
             order == RememberedAll(tombs, SetToSeq(older), TombLimit)
             queue == exTrigger.queue
  <2>1. CASE UNCHANGED <<exTrigger, exchange>>
    <3>1. \A j \in exServed.dismissed \ exServed.lost :
            /\ j \in ToSet(tombs)
            /\ j \in exTrigger'.registry => ExCancelled(j)'
      BY <2>1 DEF ServeInv, DismissedInv, ExCancelled
    <3>2. \A j \in ExId \ exServed.lost :
            /\ exServed.started[j] <= 1
            /\ exServed.started[j] = 1 => \/ j \in ToSet(tombs)
                                          \/ exRun'.pc \in Under /\ exJob' = j
            /\ j \in ToSet(exTrigger'.queue) => exServed.started[j] = 0
            /\ exRun'.pc \in {"quiesce", "admit"} /\ exJob' = j => exServed.started[j] = 0
      BY <1>0, <1>1, <2>1 DEF ServeInv, StartedInv
    <3> QED
      BY <1>0, <1>4, <2>1, <3>1, <3>2, SettledServes
  <2>2. CASE ~UNCHANGED <<exTrigger, exchange>>
    <3>1. /\ i \notin ToSet(tombs) /\ i \notin exTrigger.registry
          /\ exTrigger' = [exTrigger EXCEPT !.registry = @ \cup {i}, !.queue = Append(@, i),
                                            !.tombs = order]
          /\ exchange' = [j \in ExId |-> IF j = i THEN Fresh
                                         ELSE IF j \in older
                                         THEN CancelWith(exchange[j], "superseded")
                                         ELSE exchange[j]]
      BY <1>4, <2>2 DEF SubmitEvenai, ToSet, Range
    <3>2. order \in Seq(ExId) /\ IsInjective(order) /\ Len(order) <= TombLimit
      <4>1. older \subseteq exTrigger.registry /\ older \subseteq ExId
        BY <1>0 DEF ExInv, ExTypes
      <4>2. IsFiniteSet(older)
        BY <1>0, <4>1, FS_Subset
      <4>3. SetToSeq(older) \in Seq(older)
        BY <4>2, InOrder
      <4>4. SetToSeq(older) \in Seq(ExId)
        BY <4>1, <4>3
      <4> QED
        BY <1>0, <4>4, RememberedAllKeeps
    <3> HIDE DEF order, older
    <3>3. /\ exTrigger'.tombs = order /\ exTrigger'.registry = exTrigger.registry \cup {i}
          /\ exTrigger'.queue = Append(queue, i)
      <4> DEFINE longer == Append(queue, i)
                 more == exTrigger.registry \cup {i}
      <4>1. exTrigger' = [exTrigger EXCEPT !.registry = more, !.queue = longer, !.tombs = order]
        BY <3>1
      <4> HIDE DEF longer, more
      <4>2. exTrigger'.tombs = order /\ exTrigger'.registry = more /\ exTrigger'.queue = longer
        BY <1>0, <4>1, TriggerIs
      <4> QED
        BY <4>2 DEF longer, more
    <3>4. IsFiniteSet(exTrigger'.registry)
      <4>1. IsFiniteSet(exTrigger.registry \cup {i})
        BY <1>0, FS_AddElement
      <4> QED
        BY <3>3, <4>1
    <3>5. ToSet(exTrigger'.queue) \subseteq ToSet(queue) \cup {i}
      <4>1. queue \in Seq(ExId)
        BY <1>0 DEF ExInv, ExTypes
      <4>2. /\ Len(queue) \in Nat /\ DOMAIN queue = 1 .. Len(queue)
            /\ DOMAIN Append(queue, i) = 1 .. (Len(queue) + 1)
            /\ Append(queue, i)[Len(queue) + 1] = i
            /\ \A k \in 1 .. Len(queue) : Append(queue, i)[k] = queue[k]
        BY <1>0, <4>1, AppendProperties, LenProperties
      <4> QED
        BY <3>3, <4>2 DEF ToSet
    <3>6. \A j \in ExId : j # i /\ ExCancelled(j) => ExCancelled(j)'
      <4>1. "superseded" \in Reasons \ {""}
        BY DEF Reasons
      <4>2. ASSUME NEW j \in ExId, j # i, ExCancelled(j) PROVE ExCancelled(j)'
        <5>1. CancelWith(exchange[j], "superseded") = exchange[j]
          BY <1>0, <4>1, <4>2, CancelStays DEF ExCancelled
        <5>2. exchange'[j] = exchange[j]
          BY <3>1, <4>2, <5>1
        <5> QED
          BY <4>2, <5>2 DEF ExCancelled
      <4> QED
        BY <4>2
    <3>7. i \notin exServed.dismissed \ exServed.lost
      BY <3>1 DEF ServeInv, DismissedInv
    <3>8. i \notin exServed.lost => exServed.started[i] = 0
      <4>1. ~(exRun.pc \in Under /\ exJob = i)
        <5>1. exRun.pc \in Under => exRun.pc \in Serving \cup {"quiesce", "drain"}
          BY DEF Under
        <5> QED
          BY <1>0, <3>1, <5>1 DEF ExInv, QueueInv
      <4>2. i \notin exServed.lost => exServed.started[i] <= 1 /\ exServed.started[i] # 1
        BY <1>0, <3>1, <4>1 DEF ServeInv, StartedInv
      <4>3. exServed.started[i] \in Nat
        BY <1>0
      <4> QED
        BY <4>2, <4>3
    <3>9. \A j \in exServed.dismissed \ exServed.lost :
            /\ j \in ToSet(tombs)
            /\ j \in exTrigger'.registry => ExCancelled(j)'
      <4> SUFFICES ASSUME NEW j \in exServed.dismissed \ exServed.lost
                   PROVE  /\ j \in ToSet(tombs)
                          /\ j \in exTrigger.registry \cup {i} => ExCancelled(j)'
        BY <3>3
      <4>1. j # i /\ j \in ExId
        BY <1>0, <3>7
      <4> QED
        BY <3>6, <4>1 DEF ServeInv, DismissedInv
    <3>10. \A j \in ExId \ exServed.lost :
            /\ exServed.started[j] <= 1
            /\ exServed.started[j] = 1 => \/ j \in ToSet(tombs)
                                          \/ exRun'.pc \in Under /\ exJob' = j
            /\ j \in ToSet(exTrigger'.queue) => exServed.started[j] = 0
            /\ exRun'.pc \in {"quiesce", "admit"} /\ exJob' = j => exServed.started[j] = 0
      <4> SUFFICES ASSUME NEW j \in ExId \ exServed.lost
                   PROVE  /\ exServed.started[j] <= 1
                          /\ exServed.started[j] = 1 => \/ j \in ToSet(tombs)
                                                        \/ exRun'.pc \in Under /\ exJob' = j
                          /\ j \in ToSet(queue) \cup {i} => exServed.started[j] = 0
                          /\ exRun'.pc \in {"quiesce", "admit"} /\ exJob' = j => exServed.started[j] = 0
        BY <3>5
      <4> QED
        BY <1>0, <1>1, <3>8 DEF ServeInv, StartedInv
    <3> QED
      BY <1>0, <1>4, <3>2, <3>3, <3>4, <3>9, <3>10, SettledServes
  <2> QED
    BY <2>1, <2>2
<1> QED
  BY <1>2, <1>3, <1>4

\* Nothing was issued, dismissed or started yet.
LEMMA ServeInit ==
    ASSUME ExInit
    PROVE  ServeInv
<1>1. /\ exTrigger.registry = {} /\ exTrigger.tombs = <<>> /\ exTrigger.queue = <<>>
      /\ exServed.dismissed = {} /\ exServed.started = [i \in ExId |-> 0] /\ exServed.lost = {}
      /\ exRun.pc = "probation"
  BY DEF ExInit
<1>2. TombsInv
  <2>1. exServed \in Services
    BY DEF ExInit
  <2>2. <<>> \in Seq(ExId) /\ Len(<<>>) = 0 /\ DOMAIN <<>> = {} /\ IsFiniteSet({})
    BY FS_EmptySet
  <2>3. IsInjective(<<>>)
    BY <2>2 DEF IsInjective
  <2> QED
    BY <1>1, <2>1, <2>2, <2>3, ExAssumption DEF TombsInv, ExAssumption
<1>3. DismissedInv /\ StartedInv
  BY <1>1 DEF DismissedInv, StartedInv
<1> QED
  BY <1>2, <1>3, ExInitInv DEF ServeInv

LEMMA ServeStep ==
    ASSUME ServeInv, [ExNext]_exVars
    PROVE  ServeInv'
<1>1. ExInv'
  BY ExStepInv DEF ServeInv
<1>2. CASE \E keep \in BOOLEAN : ExRoute(keep)
  BY <1>1, <1>2, RouteServes
<1>3. CASE ExTake \/ ExAdmit \/ ExDropped
  BY <1>1, <1>3, AdmitServes
<1>4. CASE ExSkip \/ ExDrain
  BY <1>1, <1>4, ForgetServes
<1>5. CASE ~(\E keep \in BOOLEAN : ExRoute(keep)) /\ ~ExTake /\ ~ExSkip /\ ~ExDrain /\ ~ExAdmit
           /\ ~ExDropped
  <2>1. Unsettled
    BY <1>5, GoesOn DEF ServeInv
  <2> QED
    BY <1>1, <2>1, UnsettledServes
<1> QED
  BY <1>2, <1>3, <1>4, <1>5

\* An exchange is started once and never after its dismissal was routed, whatever
\* the wire loses, repeats or reorders, for any number of exchanges and any limit
\* of the tombstones that did not make them give its ID up (jobs.py submit_evenai,
\* cancel_evenai, _remember_terminal).
THEOREM ServedOnce == ExSpec => []ExServedOnce
<1>1. ServeInv => ExServedOnce
  <2> SUFFICES ASSUME ServeInv, NEW i \in ExId \ exServed.lost
               PROVE  /\ exServed.started[i] <= 1
                      /\ ExAt("admit") /\ exJob = i /\ i \in exServed.dismissed => ExCancelled(i)
    BY DEF ExServedOnce
  <2>1. exRun.pc = "admit" => exJob \in exTrigger.registry
    BY DEF ServeInv, ExInv, QueueInv, Serving
  <2> QED
    BY <2>1 DEF ServeInv, DismissedInv, StartedInv, ExAt
<1> QED
  BY <1>1, ServeInit, ServeStep, PTL DEF ExSpec

-----------------------------------------------------------------------------
(* Dictation.                                                                *)

\* Where the worker has a request, where it has not written for it yet, and
\* where it touches its audio.
Listening == {"busy", "power", "fetch", "stt"}
Unwritten == Listening \cup {"fail", "send"}
AtWork == Unwritten \cup {"sent"}
Asked == [id : DictId, gen : Nat \ {0}]

DictTypes ==
    /\ dictGen \in Nat \ {0} /\ dictBorn \in [DictId -> Nat] /\ dictLatest \in DictId \cup {NoDict}
    /\ dictRecent \in Seq(DictId) /\ IsInjective(dictRecent) /\ Len(dictRecent) <= RecentLimit
    /\ dictWork \in [at : {"publish", "idle"} \cup AtWork, req : Asked \cup {NoRequest}]
    /\ dictQueue = <<>> \/ \E r \in Asked : dictQueue = <<r>>
    /\ dictSent \in Seq(Asked)

\* An ID that a terminal command was written for, or may still be.
Unsent(id) == \A m \in DOMAIN dictSent : dictSent[m].id = id => id \in dictForgot
BornIn(r) == r \in Asked /\ dictBorn[r.id] = r.gen /\ r.gen <= dictGen
Awaited == IF dictWork.at = "sent" THEN {dictWork.req.id} ELSE {}

\* What waits is the newest of its login, and not what the worker has.
WaitsInv ==
    dictQueue # <<>> =>
        /\ BornIn(dictQueue[1]) /\ dictQueue[1].gen = dictGen
        /\ dictQueue[1].id = dictLatest /\ Unsent(dictQueue[1].id)
        /\ dictWork.at \in AtWork => dictQueue[1].id # dictWork.req.id

\* What the worker has is active, unless its login is over.
WorkInv ==
    dictWork.at \in AtWork =>
        /\ BornIn(dictWork.req)
        /\ dictWork.req.gen = dictGen => dictActive = dictWork.req.id
        /\ dictWork.at # "sent" => Unsent(dictWork.req.id)
        /\ dictWork.at \in Listening /\ dictWork.req.gen = dictGen => dictCap = "yes"

\* What was answered in this login is remembered, or was given up.
SentInv ==
    \A m \in DOMAIN dictSent :
        /\ BornIn(dictSent[m])
        /\ dictSent[m].gen = dictGen
              => dictSent[m].id \in ToSet(dictRecent) \cup dictForgot \cup Awaited

\* The device waits for the newest request until it is answered.
OpenInv ==
    dictLatest # NoDict => \/ dictOpen = dictLatest
                           \/ dictWork.at = "sent" /\ dictWork.req.id = dictLatest

\* One publication at a time, and the worker's before it serves.
CapInv ==
    /\ dictPublisher # NoDict => dictCap = "unknown"
    /\ "worker" \in dictWaiting \/ dictPublisher = "worker" => dictWork.at = "publish"
    /\ ~("worker" \in dictWaiting /\ dictPublisher = "worker")

DictInv == /\ DictTypes /\ WaitsInv /\ WorkInv /\ SentInv /\ OpenInv /\ CapInv
           /\ DictOneTerminal

LEMMA DictStart ==
    ASSUME DictInit
    PROVE  DictInv
<1>1. DictTypes
  <2>1. dictRecent \in Seq(DictId) /\ dictSent \in Seq(Asked)
    BY DEF DictInit
  <2>2. IsInjective(dictRecent) /\ Len(dictRecent) <= RecentLimit
    <3>1. dictRecent = <<>> /\ Len(<<>>) = 0 /\ DOMAIN <<>> = {}
      BY DEF DictInit
    <3> QED
      BY <3>1, DictAssumption DEF IsInjective, DictAssumption
  <2>3. dictWork \in [at : {"publish", "idle"} \cup AtWork, req : Asked \cup {NoRequest}]
    BY DEF DictInit
  <2>4. dictGen \in Nat \ {0} /\ dictBorn \in [DictId -> Nat] /\ dictLatest \in DictId \cup {NoDict}
        /\ dictQueue = <<>>
    BY DEF DictInit
  <2> QED
    BY <2>1, <2>2, <2>3, <2>4 DEF DictTypes
<1>2. dictSent = <<>> /\ DOMAIN <<>> = {}
  BY DEF DictInit
<1>3. dictWork.at = "publish" /\ "publish" \notin AtWork
  BY DEF DictInit, AtWork, Unwritten, Listening
<1>4. WaitsInv /\ WorkInv /\ OpenInv /\ CapInv
  BY <1>3 DEF DictInit, WaitsInv, WorkInv, OpenInv, CapInv, NoDict
<1>5. SentInv /\ DictOneTerminal
  BY <1>2 DEF SentInv, DictOneTerminal
<1> QED
  BY <1>1, <1>4, <1>5 DEF DictInv

\* What _remember leaves: the ID is in it, and what it gave up is accounted for.
LEMMA RecentIs ==
    ASSUME DictTypes, NEW id \in DictId, Remembering(id)
    PROVE  /\ dictRecent' \in Seq(DictId) /\ IsInjective(dictRecent')
           /\ Len(dictRecent') <= RecentLimit
           /\ id \in ToSet(dictRecent') /\ dictForgot \subseteq dictForgot'
           /\ ToSet(dictRecent) \subseteq ToSet(dictRecent') \cup dictForgot'
<1>1. dictRecent' = Remembered(dictRecent, id, RecentLimit)
  BY DEF Remembering
<1>2. /\ dictRecent' \in Seq(DictId) /\ IsInjective(dictRecent')
      /\ Len(dictRecent') <= RecentLimit /\ id \in ToSet(dictRecent')
  BY <1>1, RememberedKeeps, DictAssumption DEF DictTypes, DictAssumption
<1> QED
  BY <1>2 DEF Remembering

\* The memory may only grow, or give up what it says it gave up.
Recalls ==
    /\ dictRecent' \in Seq(DictId) /\ IsInjective(dictRecent') /\ Len(dictRecent') <= RecentLimit
    /\ dictForgot \subseteq dictForgot'
    /\ ToSet(dictRecent) \subseteq ToSet(dictRecent') \cup dictForgot'

\* Nothing is written: what was stays unwritten, answered and remembered.
LEMMA Unwrites ==
    ASSUME DictInv, dictGen' = dictGen, dictSent' = dictSent, Recalls, Awaited \subseteq
           ToSet(dictRecent') \cup Awaited', \A r \in Asked : BornIn(r) => BornIn(r)'
    PROVE  /\ SentInv' /\ DictOneTerminal'
           /\ \A id : Unsent(id) => Unsent(id)'
<1>1. \A m \in DOMAIN dictSent : dictSent[m] \in Asked
  BY ElementOfSeq, LenProperties DEF DictInv, DictTypes
<1>2. SentInv'
  <2> SUFFICES ASSUME NEW m \in DOMAIN dictSent
               PROVE  /\ BornIn(dictSent[m])'
                      /\ dictSent[m].gen = dictGen
                            => dictSent[m].id \in ToSet(dictRecent') \cup dictForgot' \cup Awaited'
    BY DEF SentInv, BornIn
  <2>1. BornIn(dictSent[m]) /\ dictSent[m] \in Asked
    BY <1>1 DEF DictInv, SentInv
  <2>2. BornIn(dictSent[m])'
    BY <2>1 DEF BornIn
  <2> QED
    BY <2>2 DEF DictInv, SentInv, Recalls
<1> QED
  BY <1>2 DEF DictInv, DictOneTerminal, Recalls, Unsent

\* A step of the worker or of a publication that leaves the requests alone.
LEMMA DictStays ==
    ASSUME DictInv, UNCHANGED <<idVars, dictBorn, dictSent>>, CapInv',
           dictCap = "yes" => dictCap' = "yes",
           \/ dictWork' = dictWork
           \/ dictWork' = DictIdle /\ dictWork.at = "publish"
           \/ /\ dictWork.at \in Unwritten
              /\ \E at \in Unwritten : /\ dictWork' = [dictWork EXCEPT !.at = at]
                                       /\ at \in Listening => dictWork.at \in Listening
    PROVE  DictInv'
<1>1. UNCHANGED <<dictGen, dictLatest, dictActive, dictRecent, dictForgot, dictQueue, dictOpen,
                  dictBorn, dictSent>>
  BY DEF idVars, recentVars
<1>2. /\ dictWork' \in [at : {"publish", "idle"} \cup AtWork, req : Asked \cup {NoRequest}]
      /\ dictWork'.at \in AtWork => /\ dictWork.at \in AtWork /\ dictWork'.req = dictWork.req
                                    /\ dictWork'.at \in Listening => dictWork.at \in Listening
                                    /\ dictWork'.at = "sent" <=> dictWork.at = "sent"
      /\ dictWork'.at = "sent" => dictWork.at = "sent"
      /\ dictWork.at = "sent" => dictWork' = dictWork
  BY DEF DictInv, DictTypes, DictIdle, AtWork, Unwritten, Listening
<1>3. DictTypes'
  BY <1>1, <1>2 DEF DictInv, DictTypes
<1>4. Awaited' = Awaited
  BY <1>2 DEF Awaited, AtWork
<1>5. \A id : Unsent(id) => Unsent(id)'
  BY <1>1 DEF Unsent
<1>6. \A r : BornIn(r) => BornIn(r)'
  BY <1>1 DEF BornIn
<1>7. WaitsInv'
  BY <1>1, <1>2, <1>5 DEF DictInv, WaitsInv, BornIn
<1>8. WorkInv'
  <2> SUFFICES ASSUME dictWork'.at \in AtWork
               PROVE  /\ BornIn(dictWork.req)
                      /\ dictWork.req.gen = dictGen => dictActive = dictWork.req.id
                      /\ dictWork'.at # "sent" => Unsent(dictWork.req.id)
                      /\ dictWork'.at \in Listening /\ dictWork.req.gen = dictGen => dictCap' = "yes"
    BY <1>1, <1>2 DEF WorkInv, BornIn, Unsent
  <2> QED
    BY <1>2 DEF DictInv, WorkInv
<1>9. SentInv' /\ DictOneTerminal'
  BY <1>1, <1>4 DEF DictInv, SentInv, DictOneTerminal, BornIn
<1>10. OpenInv'
  BY <1>1, <1>2 DEF DictInv, OpenInv
<1> QED
  BY <1>3, <1>7, <1>8, <1>9, <1>10 DEF DictInv

\* The publications.
LEMMA DictPublishes ==
    ASSUME DictInv, DictAttach \/ DictPublishing
    PROVE  DictInv'
<1>0. {"publish", "idle"} \cap AtWork = {} /\ "attach" # "worker" /\ "login" # "worker"
  BY DEF AtWork, Unwritten, Listening
<1>1. CASE DictAttach
  <2>1. CapInv'
    BY <1>1 DEF DictAttach, workVars, DictInv, CapInv
  <2> QED
    BY <1>1, <2>1, DictStays DEF DictAttach, workVars, DictCalm
<1>2. ASSUME NEW who \in Publications, Publishes(who) PROVE DictInv'
  <2>1. who \in dictWaiting /\ dictPublisher = NoDict /\ who # NoDict
    BY <1>2 DEF Publishes, Publications, NoDict
  <2>2. who = "worker" => dictWork.at = "publish"
    BY <2>1 DEF DictInv, CapInv
  <2>3. CASE ~dictPipe \/ dictCap # "unknown"
    <3>1. /\ dictPublisher' = NoDict /\ dictWaiting' = dictWaiting \ {who} /\ dictCap' = dictCap
          /\ dictWork' = IF who = "worker" THEN DictIdle ELSE dictWork
      BY <1>2, <2>1, <2>3 DEF Publishes
    <3>2. CapInv'
      BY <3>1 DEF DictInv, CapInv, NoDict
    <3> QED
      BY <1>2, <2>2, <3>1, <3>2, DictStays DEF Publishes, DictCalm
  <2>4. CASE dictPipe /\ dictCap = "unknown"
    <3>1. /\ dictPublisher' = who /\ dictWaiting' = dictWaiting \ {who} /\ dictCap' = dictCap
          /\ dictWork' = dictWork
      BY <1>2, <2>4 DEF Publishes
    <3>2. CapInv'
      BY <2>2, <2>4, <3>1 DEF DictInv, CapInv
    <3> QED
      BY <1>2, <3>1, <3>2, DictStays DEF Publishes, DictCalm
  <2> QED
    BY <1>2, <2>3, <2>4 DEF Publishes
<1>3. CASE Published
  <2>1. dictCap = "unknown" /\ dictPublisher # NoDict
    BY <1>3 DEF Published, DictInv, CapInv
  <2>2. /\ dictPublisher' = NoDict /\ dictWaiting' = dictWaiting
        /\ dictWork' = IF dictPublisher = "worker" THEN DictIdle ELSE dictWork
    BY <1>3 DEF Published
  <2>3. dictPublisher = "worker" => dictWork.at = "publish" /\ "worker" \notin dictWaiting
    BY DEF DictInv, CapInv
  <2>4. CapInv'
    BY <2>2, <2>3 DEF DictInv, CapInv, NoDict
  <2> QED
    BY <1>3, <2>1, <2>2, <2>3, <2>4, DictStays DEF Published, DictCalm, DictFault
<1>4. CASE PublishFails
  <2>1. CapInv'
    BY <1>4 DEF PublishFails, workVars, DictInv, CapInv, NoDict
  <2> QED
    BY <1>4, <2>1, DictStays DEF PublishFails, workVars, DictFault
<1> QED
  BY <1>1, <1>2, <1>3, <1>4 DEF DictPublishing

\* The request ends, whatever became of it.
LEMMA DictFinishes ==
    ASSUME DictInv, Finishing, dictWork.at \in AtWork,
           UNCHANGED <<dictOpen, dictSent, dictBorn, capVars>>
    PROVE  DictInv'
<1> DEFINE id == dictWork.req.id
<1>0. /\ id \in DictId /\ id # NoDict /\ BornIn(dictWork.req) /\ DictTypes
      /\ dictWork' = DictIdle
      /\ dictLatest' = IF dictLatest = id THEN NoDict ELSE dictLatest
      /\ Remembering(id) /\ UNCHANGED <<dictGen, dictQueue, dictBorn, dictSent, dictOpen>>
  BY DictAssumption DEF DictInv, WorkInv, BornIn, Asked, Finishing, DictAssumption, NoDict
<1> HIDE DEF id
<1>1. Recalls /\ id \in ToSet(dictRecent')
  BY <1>0, RecentIs DEF Recalls
<1>2. dictWork'.at = "idle" /\ "idle" \notin AtWork /\ "idle" # "sent"
  BY <1>0 DEF DictIdle, AtWork, Unwritten, Listening
<1>3. DictTypes'
  <2>1. dictWork' \in [at : {"publish", "idle"} \cup AtWork, req : Asked \cup {NoRequest}]
    BY <1>0 DEF DictIdle
  <2> QED
    BY <1>0, <1>1, <2>1 DEF DictTypes, Recalls
<1>4. SentInv' /\ DictOneTerminal' /\ \A i : Unsent(i) => Unsent(i)'
  <2>1. Awaited \subseteq {id}
    BY DEF Awaited, id
  <2>2. \A r \in Asked : BornIn(r) => BornIn(r)'
    BY <1>0 DEF BornIn
  <2> QED
    BY <1>0, <1>1, <2>1, <2>2, Unwrites
<1>5. WaitsInv'
  <2> SUFFICES ASSUME dictQueue # <<>>
               PROVE  /\ BornIn(dictQueue[1])' /\ dictQueue[1].gen = dictGen
                      /\ dictQueue[1].id = dictLatest' /\ Unsent(dictQueue[1].id)'
    BY <1>0, <1>2 DEF WaitsInv
  <2>1. /\ BornIn(dictQueue[1]) /\ dictQueue[1].gen = dictGen
        /\ dictQueue[1].id = dictLatest /\ Unsent(dictQueue[1].id)
    BY DEF DictInv, WaitsInv
  <2>2. dictQueue[1].id # id
    BY DEF DictInv, WaitsInv, id
  <2>3. BornIn(dictQueue[1])'
    BY <1>0, <2>1 DEF BornIn
  <2>4. Unsent(dictQueue[1].id)'
    BY <1>0, <1>1, <2>1 DEF Unsent, Recalls
  <2> QED
    BY <1>0, <2>1, <2>2, <2>3, <2>4
<1>6. WorkInv' /\ CapInv'
  BY <1>0, <1>2 DEF DictInv, WorkInv, CapInv, capVars, AtWork, Unwritten, Listening
<1>7. OpenInv'
  BY <1>0, <1>2 DEF DictInv, OpenInv, id
<1> QED
  BY <1>3, <1>4, <1>5, <1>6, <1>7 DEF DictInv

\* The worker takes the request, does its stages, and writes.
LEMMA DictTakes ==
    ASSUME DictInv, DictTake
    PROVE  DictInv'
<1> DEFINE r == dictQueue[1]
           at == IF dictPipe /\ dictCap = "yes" THEN "busy" ELSE "fail"
<1>1. /\ BornIn(r) /\ r.gen = dictGen /\ r.id = dictLatest /\ Unsent(r.id) /\ r \in Asked
      /\ dictWork.at = "idle" /\ dictQueue' = <<>> /\ dictActive' = r.id
      /\ dictWork' = [at |-> at, req |-> r] /\ at \in {"busy", "fail"}
      /\ UNCHANGED <<dictGen, dictLatest, dictRecent, dictForgot, dictOpen, dictSent, dictBorn,
                     capVars>>
  BY DEF DictInv, WaitsInv, DictTake, DictCalm, recentVars, BornIn
<1>2. at \in Listening => dictCap = "yes"
  BY DEF Listening
<1> HIDE DEF r, at
<1>3. /\ dictWork'.at = at /\ dictWork'.req = r /\ at # "sent" /\ at \in AtWork
  BY <1>1 DEF AtWork, Unwritten, Listening
<1>4. DictTypes'
  BY <1>1, <1>3 DEF DictInv, DictTypes
<1>5. WaitsInv' /\ CapInv'
  BY <1>1, <1>3 DEF WaitsInv, DictInv, CapInv, capVars
<1>6. WorkInv'
  BY <1>1, <1>2, <1>3 DEF WorkInv, BornIn, Unsent, capVars
<1>7. SentInv' /\ DictOneTerminal'
  BY <1>1, <1>3 DEF DictInv, SentInv, DictOneTerminal, BornIn, Awaited
<1>8. OpenInv'
  BY <1>1 DEF DictInv, OpenInv
<1> QED
  BY <1>4, <1>5, <1>6, <1>7, <1>8 DEF DictInv

LEMMA DictWrites ==
    ASSUME DictInv, DictWrite, Current(dictWork.req)
    PROVE  /\ DictInv'
           /\ Last(dictSent').id = dictOpen /\ Last(dictSent').gen = dictGen
<1> DEFINE r == dictWork.req
           n == Len(dictSent)
<1>1. /\ dictWork.at = "send" /\ dictSent' = Append(dictSent, r)
      /\ dictWork' = [dictWork EXCEPT !.at = "sent"]
      /\ dictOpen' = IF dictOpen = r.id THEN NoDict ELSE dictOpen
      /\ UNCHANGED <<dictGen, dictLatest, dictActive, dictRecent, dictForgot, dictQueue, dictBorn,
                     capVars>>
  BY DEF DictWrite, DictGoes, DictCalm, recentVars
<1>2. /\ BornIn(r) /\ r \in Asked /\ r.gen = dictGen /\ dictActive = r.id /\ Unsent(r.id)
      /\ dictLatest = r.id /\ dictSent \in Seq(Asked) /\ r.id # NoDict
      /\ "send" \in AtWork /\ "sent" \in AtWork /\ "sent" \notin Listening
  BY <1>1, DictAssumption DEF DictInv, WorkInv, DictTypes, Current, BornIn, AtWork, Unwritten,
     Listening, DictAssumption, NoDict, Asked
<1>3. dictOpen = r.id
  BY <1>1, <1>2 DEF DictInv, OpenInv
<1>4. /\ dictWork'.at = "sent" /\ dictWork'.req = r
      /\ dictWork' \in [at : {"publish", "idle"} \cup AtWork, req : Asked \cup {NoRequest}]
  BY <1>1, <1>2 DEF DictInv, DictTypes
<1> HIDE DEF r
<1>5. /\ dictSent' \in Seq(Asked) /\ n \in Nat /\ DOMAIN dictSent = 1 .. n
      /\ DOMAIN dictSent' = 1 .. (n + 1) /\ dictSent'[n + 1] = r /\ Len(dictSent') = n + 1
      /\ \A m \in 1 .. n : dictSent'[m] = dictSent[m]
  BY <1>1, <1>2, AppendProperties, LenProperties
<1>6. \A m \in DOMAIN dictSent' : \/ m \in DOMAIN dictSent /\ dictSent'[m] = dictSent[m]
                                  \/ m = n + 1 /\ dictSent'[m] = r
  BY <1>5
<1>7. Last(dictSent') = r
  BY <1>5 DEF Last
<1> HIDE DEF n
<1>8. DictTypes'
  BY <1>1, <1>4, <1>5 DEF DictInv, DictTypes
<1>9. WaitsInv'
  <2> SUFFICES ASSUME dictQueue # <<>>
               PROVE  /\ BornIn(dictQueue[1])' /\ dictQueue[1].gen = dictGen
                      /\ dictQueue[1].id = dictLatest /\ Unsent(dictQueue[1].id)'
                      /\ dictQueue[1].id # r.id
    BY <1>1, <1>4 DEF WaitsInv
  <2>1. /\ BornIn(dictQueue[1]) /\ dictQueue[1].gen = dictGen
        /\ dictQueue[1].id = dictLatest /\ Unsent(dictQueue[1].id)
        /\ dictQueue[1].id # r.id
    BY <1>1, <1>2 DEF DictInv, WaitsInv, r
  <2> QED
    BY <1>2, <2>1
<1>10. WorkInv'
  BY <1>1, <1>2, <1>4 DEF WorkInv, BornIn
<1>11. SentInv'
  <2>1. Awaited' = {r.id}
    BY <1>4 DEF Awaited
  <2>2. Awaited = {}
    BY <1>1 DEF Awaited
  <2> SUFFICES ASSUME NEW m \in DOMAIN dictSent'
               PROVE  /\ BornIn(dictSent'[m])
                      /\ dictSent'[m].gen = dictGen
                            => dictSent'[m].id \in ToSet(dictRecent) \cup dictForgot \cup {r.id}
    BY <1>1, <2>1 DEF SentInv, BornIn
  <2> QED
    BY <1>2, <1>6, <2>2 DEF DictInv, SentInv
<1>12. DictOneTerminal'
  <2> SUFFICES ASSUME NEW k \in DOMAIN dictSent', NEW m \in DOMAIN dictSent',
                      dictSent'[k].id = dictSent'[m].id, k # m
               PROVE  dictSent'[k].id \in dictForgot
    BY <1>1 DEF DictOneTerminal
  <2> QED
    BY <1>2, <1>6 DEF DictInv, DictOneTerminal, Unsent
<1>13. OpenInv' /\ CapInv'
  BY <1>1, <1>2, <1>3, <1>4 DEF DictInv, OpenInv, CapInv, capVars
<1> QED
  BY <1>2, <1>3, <1>7, <1>8, <1>9, <1>10, <1>11, <1>12, <1>13 DEF DictInv

LEMMA DictWorks ==
    ASSUME DictInv, DictWorker
    PROVE  /\ DictInv'
           /\ dictSent' # dictSent
                 => Last(dictSent').id = dictOpen /\ Last(dictSent').gen = dictGen
<1>1. CASE DictTake
  BY <1>1, DictTakes DEF DictTake
<1>2. ASSUME UNCHANGED <<idVars, dictBorn, dictSent, capVars>>, dictWork.at \in Unwritten,
             NEW at \in Unwritten, DictGoes(at), at \in Listening => dictWork.at \in Listening
      PROVE  DictInv' /\ dictSent' = dictSent
  <2>1. dictWork'.at # "publish" /\ dictWork.at # "publish" /\ dictWork'.at = at
    BY <1>2 DEF DictGoes, DictInv, DictTypes, Unwritten, Listening
  <2>2. CapInv'
    BY <1>2, <2>1 DEF DictInv, CapInv, capVars
  <2> QED
    BY <1>2, <2>2, DictStays DEF DictGoes, capVars
<1>3. CASE DictLease
  BY <1>2, <1>3 DEF DictLease, DictCalm, Unwritten, Listening
<1>4. CASE DictStageFails \/ DictBlank
  BY <1>2, <1>4 DEF DictStageFails, DictBlank, DictFault, Unwritten, Listening
<1>5. ASSUME Terminal, dictWork.at \in {"fail", "stt"},
             UNCHANGED <<dictSent, dictBorn, capVars>>
      PROVE  DictInv' /\ dictSent' = dictSent
  <2>1. CASE Current(dictWork.req)
    BY <1>2, <1>5, <2>1 DEF Terminal, Unwritten, Listening
  <2>2. CASE ~Current(dictWork.req)
    BY <1>5, <2>2, DictFinishes DEF Terminal, AtWork, Unwritten, Listening
  <2> QED
    BY <2>1, <2>2
<1>6. CASE DictFailure \/ DictTranscribed
  BY <1>5, <1>6 DEF DictFailure, DictTranscribed, DictCalm
<1>7. CASE DictFetched
  <2>1. CASE Current(dictWork.req)
    BY <1>2, <1>7, <2>1 DEF DictFetched, DictCalm, Unwritten, Listening
  <2>2. CASE ~Current(dictWork.req)
    BY <1>7, <2>2, DictFinishes DEF DictFetched, DictCalm, AtWork, Unwritten, Listening
  <2> QED
    BY <1>7, <2>1, <2>2 DEF DictFetched
<1>8. CASE DictWrite
  <2>1. CASE Current(dictWork.req)
    BY <1>8, <2>1, DictWrites
  <2>2. CASE ~Current(dictWork.req)
    BY <1>8, <2>2, DictFinishes DEF DictWrite, DictCalm, AtWork, Unwritten, Listening
  <2> QED
    BY <2>1, <2>2
<1>9. CASE DictAnswered
  BY <1>9, DictFinishes DEF DictAnswered, DictCalm, AtWork
<1> QED
  BY <1>1, <1>3, <1>4, <1>6, <1>7, <1>8, <1>9 DEF DictWorker, DictLease, DictStageFails, DictBlank,
     DictAnswered

\* A new request takes the place of the one that waits; an answered one is known.
LEMMA DictAsks ==
    ASSUME DictInv, NEW id \in DictId, DictRequest(id)
    PROVE  DictInv'
<1>0. /\ DictTypes /\ id # NoDict /\ dictGen \in Nat \ {0} /\ dictBorn[id] \in {0, dictGen}
      /\ dictBorn' = [dictBorn EXCEPT ![id] = dictGen]
      /\ UNCHANGED <<dictGen, dictActive, dictWork, dictSent, capVars>>
  BY DictAssumption DEF DictInv, DictTypes, DictRequest, workVars, DictAssumption, NoDict
<1>1. \A r \in Asked : BornIn(r) => BornIn(r)'
  <2> SUFFICES ASSUME NEW r \in Asked, BornIn(r) PROVE dictBorn'[r.id] = r.gen
    BY <1>0 DEF BornIn
  <2>1. r.id \in DictId /\ r.gen # 0 /\ dictBorn[r.id] = r.gen
    BY DEF BornIn, Asked
  <2> QED
    BY <1>0, <2>1 DEF DictTypes
<1>2. CapInv' /\ Awaited' = Awaited
  BY <1>0 DEF DictInv, CapInv, capVars, Awaited
<1>3. CASE id \in {dictActive, dictLatest} \/ Contains(dictRecent, id)
  <2>1. UNCHANGED <<dictLatest, dictRecent, dictForgot, dictQueue, dictOpen>>
    BY <1>3 DEF DictRequest, recentVars
  <2>2. DictTypes'
    BY <1>0, <2>1 DEF DictTypes
  <2>3. Recalls
    BY <1>0, <2>1 DEF DictTypes, Recalls
  <2>4. SentInv' /\ DictOneTerminal' /\ \A i : Unsent(i) => Unsent(i)'
    BY <1>0, <1>1, <1>2, <2>3, Unwrites
  <2>5. WaitsInv'
    <3> SUFFICES ASSUME dictQueue # <<>>
                 PROVE  BornIn(dictQueue[1])' /\ Unsent(dictQueue[1].id)'
      BY <1>0, <2>1 DEF DictInv, WaitsInv
    <3>1. BornIn(dictQueue[1]) /\ Unsent(dictQueue[1].id) /\ dictQueue[1] \in Asked
      BY DEF DictInv, WaitsInv, BornIn
    <3>2. BornIn(dictQueue[1])'
      <4> DEFINE r == dictQueue[1]
      <4>1. BornIn(r)'
        BY <1>0, <1>1, <2>1, <3>1 DEF BornIn
      <4> QED
        BY <4>1
    <3>3. Unsent(dictQueue[1].id)'
      BY <1>0, <2>1, <3>1 DEF Unsent
    <3> QED
      BY <3>2, <3>3
  <2>6. WorkInv' /\ OpenInv'
    BY <1>0, <1>1, <2>1, <2>4 DEF DictInv, WorkInv, OpenInv, BornIn, Unsent, capVars
  <2> QED
    BY <1>2, <2>2, <2>4, <2>5, <2>6 DEF DictInv
<1>4. CASE id # dictActive /\ id # dictLatest /\ ~Contains(dictRecent, id)
  <2>0. PICK r \in Asked : r = Request(id)
    BY <1>0 DEF Request, Asked
  <2>1. /\ dictLatest' = id /\ dictOpen' = id /\ dictQueue' = <<r>>
        /\ IF dictQueue = <<>> THEN UNCHANGED <<dictRecent, dictForgot>>
                               ELSE Remembering(dictQueue[1].id)
    BY <1>4, <2>0 DEF DictRequest, recentVars
  <2>2. r.id = id /\ r.gen = dictGen /\ r \in Asked
    BY <1>0, <2>0 DEF Request, Asked
  <2>3. Recalls
    <3>1. CASE dictQueue = <<>>
      BY <1>0, <2>1, <3>1 DEF DictTypes, Recalls
    <3>2. CASE dictQueue # <<>>
      <4>1. dictQueue[1].id \in DictId
        BY <3>2 DEF DictInv, WaitsInv, BornIn, Asked
      <4> QED
        BY <1>0, <2>1, <3>2, <4>1, RecentIs DEF Recalls
    <3> QED
      BY <3>1, <3>2
  <2>4. SentInv' /\ DictOneTerminal' /\ \A i : Unsent(i) => Unsent(i)'
    BY <1>0, <1>1, <1>2, <2>3, Unwrites
  <2>5. id \notin ToSet(dictRecent)
    <3>1. ToSet(dictRecent) = {dictRecent[k] : k \in DOMAIN dictRecent}
      BY DEF ToSet
    <3> QED
      BY <1>0, <1>4, <3>1, LenProperties DEF Contains, DictTypes
  <2>6. dictWork.at \in AtWork => id # dictWork.req.id
    <3> SUFFICES ASSUME dictWork.at \in AtWork, id = dictWork.req.id PROVE FALSE
      OBVIOUS
    <3>1. BornIn(dictWork.req) /\ dictWork.req.gen # 0
      BY DEF DictInv, WorkInv, BornIn, Asked
    <3>2. dictWork.req.gen = dictGen
      BY <1>0, <3>1 DEF BornIn
    <3> QED
      BY <1>4, <3>2 DEF DictInv, WorkInv
  <2>7. id \notin Awaited
    BY <2>6 DEF Awaited, AtWork
  <2>8. Unsent(id)
    <3> SUFFICES ASSUME NEW m \in DOMAIN dictSent, dictSent[m].id = id
                 PROVE  id \in dictForgot
      BY DEF Unsent
    <3>1. BornIn(dictSent[m]) /\ dictSent[m].gen # 0
      BY DEF DictInv, SentInv, BornIn, Asked
    <3>2. dictSent[m].gen = dictGen
      BY <1>0, <3>1 DEF BornIn
    <3> QED
      BY <2>5, <2>7, <3>2 DEF DictInv, SentInv
  <2>9. DictTypes'
    BY <1>0, <2>1, <2>2, <2>3 DEF DictTypes, Recalls
  <2>10. WaitsInv'
    <3>1. dictQueue'[1] = r /\ Unsent(id)'
      BY <2>1, <2>4, <2>8
    <3>2. dictBorn'[id] = dictGen /\ dictGen <= dictGen'
      BY <1>0 DEF DictTypes
    <3>3. BornIn(r)'
      BY <1>0, <2>2, <3>2 DEF BornIn
    <3>4. /\ BornIn(dictQueue[1])' /\ dictQueue'[1].gen = dictGen'
          /\ dictQueue'[1].id = dictLatest' /\ Unsent(dictQueue[1].id)'
      BY <1>0, <2>1, <2>2, <3>1, <3>3 DEF BornIn, Unsent
    <3>5. dictWork'.at \in AtWork => dictQueue'[1].id # dictWork'.req.id
      BY <1>0, <2>1, <2>2, <2>6
    <3> QED
      BY <3>4, <3>5 DEF WaitsInv
  <2>11. WorkInv' /\ OpenInv'
    BY <1>0, <1>1, <2>1, <2>4 DEF DictInv, WorkInv, OpenInv, BornIn, Unsent, capVars
  <2> QED
    BY <1>2, <2>4, <2>9, <2>10, <2>11 DEF DictInv
<1> QED
  BY <1>3, <1>4 DEF DictRequest

LEMMA DictCancels ==
    ASSUME DictInv, NEW id \in DictId, DictCancel(id)
    PROVE  DictInv'
<1>1. /\ DictTypes /\ id # NoDict /\ Remembering(id)
      /\ dictLatest' = IF dictLatest = id THEN NoDict ELSE dictLatest
      /\ dictQueue' = Withdrawn(id)
      /\ dictOpen' = IF dictOpen = id THEN NoDict ELSE dictOpen
      /\ UNCHANGED <<dictGen, dictActive, dictBorn, dictWork, dictSent, capVars>>
  BY DictAssumption DEF DictInv, DictCancel, workVars, DictAssumption, NoDict
<1>2. dictQueue' = <<>> \/ (dictQueue' = dictQueue /\ dictQueue[1].id # id)
  BY <1>1 DEF Withdrawn, DictTypes
<1>3. Recalls
  BY <1>1, RecentIs DEF Recalls
<1>4. SentInv' /\ DictOneTerminal' /\ \A i : Unsent(i) => Unsent(i)'
  <2>1. Awaited' = Awaited /\ \A r \in Asked : BornIn(r) => BornIn(r)'
    BY <1>1 DEF Awaited, BornIn
  <2> QED
    BY <1>1, <1>3, <2>1, Unwrites
<1>5. DictTypes'
  BY <1>1, <1>2, <1>3 DEF DictTypes, Recalls
<1>6. WaitsInv'
  <2>1. CASE dictQueue' = <<>>
    BY <2>1 DEF WaitsInv
  <2>2. CASE dictQueue' = dictQueue /\ dictQueue[1].id # id
    <3> SUFFICES ASSUME dictQueue # <<>>
                 PROVE  /\ BornIn(dictQueue[1])' /\ dictQueue[1].gen = dictGen
                        /\ dictQueue[1].id = dictLatest' /\ Unsent(dictQueue[1].id)'
                        /\ dictWork.at \in AtWork => dictQueue[1].id # dictWork.req.id
      BY <1>1, <2>2 DEF WaitsInv
    <3>1. /\ BornIn(dictQueue[1]) /\ dictQueue[1].gen = dictGen
          /\ dictQueue[1].id = dictLatest /\ Unsent(dictQueue[1].id)
          /\ dictWork.at \in AtWork => dictQueue[1].id # dictWork.req.id
      BY DEF DictInv, WaitsInv
    <3>2. BornIn(dictQueue[1])' /\ Unsent(dictQueue[1].id)'
      BY <1>1, <1>3, <2>2, <3>1 DEF BornIn, Unsent, Recalls
    <3> QED
      BY <1>1, <2>2, <3>1, <3>2
  <2> QED
    BY <1>2, <2>1, <2>2
<1>7. WorkInv' /\ OpenInv' /\ CapInv'
  BY <1>1, <1>4 DEF DictInv, WorkInv, OpenInv, CapInv, capVars, BornIn, Unsent
<1> QED
  BY <1>4, <1>5, <1>6, <1>7 DEF DictInv

\* A new generation: nothing waits, and nothing answered can be current again.
LEMMA DictClears ==
    ASSUME DictInv, Cleared, dictGen' > dictGen, dictGen' \in Nat \ {0},
           UNCHANGED <<dictBorn, dictForgot, dictSent>>, CapInv',
           dictWork' = dictWork \/ dictWork' = [at |-> "publish", req |-> NoRequest]
    PROVE  DictInv'
<1>1. /\ dictLatest' = NoDict /\ dictActive' = NoDict /\ dictRecent' = <<>> /\ dictQueue' = <<>>
      /\ dictOpen' = NoDict /\ "publish" \notin AtWork
  BY DEF Cleared, AtWork, Unwritten, Listening
<1>2. \A r : BornIn(r) => BornIn(r)' /\ r.gen # dictGen'
  BY DEF BornIn, Asked, DictInv, DictTypes
<1>3. DictTypes'
  <2>1. dictRecent' \in Seq(DictId) /\ IsInjective(dictRecent') /\ Len(dictRecent') <= RecentLimit
    <3>1. Len(<<>>) = 0 /\ DOMAIN <<>> = {} /\ <<>> \in Seq(DictId)
      OBVIOUS
    <3> QED
      BY <1>1, <3>1, DictAssumption DEF IsInjective, DictAssumption
  <2>2. dictWork' \in [at : {"publish", "idle"} \cup AtWork, req : Asked \cup {NoRequest}]
    BY DEF DictInv, DictTypes
  <2> QED
    BY <1>1, <2>1, <2>2 DEF DictInv, DictTypes
<1>4. WaitsInv' /\ OpenInv'
  BY <1>1 DEF WaitsInv, OpenInv
<1>5. WorkInv'
  <2> SUFFICES ASSUME dictWork'.at \in AtWork
               PROVE  /\ BornIn(dictWork.req)' /\ dictWork.req.gen # dictGen'
                      /\ dictWork.at # "sent" => Unsent(dictWork.req.id)
    BY <1>1 DEF WorkInv, BornIn, Unsent
  <2>1. dictWork' = dictWork
    BY <1>1
  <2>2. BornIn(dictWork.req) /\ (dictWork.at # "sent" => Unsent(dictWork.req.id))
    BY <2>1 DEF DictInv, WorkInv
  <2>3. dictWork.req.gen # dictGen' /\ BornIn(dictWork.req)'
    BY <1>2, <2>1, <2>2 DEF BornIn
  <2> QED
    BY <2>2, <2>3
<1>6. SentInv' /\ DictOneTerminal'
  <2> SUFFICES ASSUME NEW m \in DOMAIN dictSent
               PROVE  BornIn(dictSent[m])' /\ dictSent[m].gen # dictGen'
    BY DEF SentInv, DictInv, DictOneTerminal, BornIn
  <2>1. BornIn(dictSent[m])
    BY DEF DictInv, SentInv
  <2> QED
    BY <1>2, <2>1 DEF BornIn
<1> QED
  BY <1>3, <1>4, <1>5, <1>6 DEF DictInv

LEMMA DictStep ==
    ASSUME DictInv, [DictNext]_dictVars
    PROVE  /\ DictInv'
           /\ dictSent' # dictSent
                 => Last(dictSent').id = dictOpen /\ Last(dictSent').gen = dictGen
<1>1. ASSUME NEW id \in DictId, DictRequest(id) \/ DictCancel(id)
      PROVE  DictInv' /\ dictSent' = dictSent
  BY <1>1, DictAsks, DictCancels DEF DictRequest, DictCancel, workVars
<1>2. CASE DictMalformed \/ UNCHANGED dictVars
  <2>1. UNCHANGED <<idVars, dictBorn, capVars, workVars>>
    BY <1>2 DEF DictMalformed, dictVars, idVars, recentVars, capVars, workVars
  <2>2. CapInv' /\ dictWork' = dictWork /\ dictCap' = dictCap /\ dictSent' = dictSent
    BY <2>1 DEF DictInv, CapInv, capVars, workVars
  <2> QED
    BY <2>1, <2>2, DictStays
<1>3. CASE DictAttach \/ DictPublishing
  <2>1. dictSent' = dictSent
    BY <1>3 DEF DictAttach, DictPublishing, Publishes, Published, PublishFails, workVars
  <2> QED
    BY <1>3, <2>1, DictPublishes
<1>4. CASE DictWorker
  BY <1>4, DictWorks
<1>5. CASE DictRelogin
  <2>1. dictGen' > dictGen /\ dictGen' \in Nat \ {0}
    BY <1>5 DEF DictRelogin, DictInv, DictTypes
  <2>2. CapInv' /\ dictWork' = dictWork /\ dictSent' = dictSent
    BY <1>5 DEF DictRelogin, Cleared, DictInv, CapInv, workVars
  <2> QED
    BY <1>5, <2>1, <2>2, DictClears DEF DictRelogin, DictFault
<1>6. CASE DictLinkLost
  <2>1. dictGen' > dictGen /\ dictGen' \in Nat \ {0}
    BY <1>6 DEF DictLinkLost, DictInv, DictTypes
  <2>2. CapInv'
    BY <1>6 DEF DictLinkLost, Cleared, CapInv, NoDict
  <2> QED
    BY <1>6, <2>1, <2>2, DictClears DEF DictLinkLost, DictFault
<1> QED
  BY <1>1, <1>2, <1>3, <1>4, <1>5, <1>6 DEF DictNext

\* A terminal command is written only for the request the device waits for, in
\* its own login; no request gets two unless the memory gave its ID up; and
\* no audio of a current request is touched in a login that did not declare the
\* service: for any number of requests and any size of the memory (dictation.py
\* _current, cancel_guard, submit_event, _send_terminal).
THEOREM DictationKept == DictSpec => DictKept
<1>1. DictInv => DictOneTerminal /\ DictDeclared
  <2> SUFFICES ASSUME DictInv, dictWork.at \in Listening, Current(dictWork.req)
               PROVE  dictCap = "yes"
    BY DEF DictInv, DictDeclared, Listening
  <2> QED
    BY DEF DictInv, WorkInv, Current, AtWork, Unwritten
<1>2. DictInv /\ [DictNext]_dictVars
         => DictInv' /\ [dictSent' # dictSent => /\ Last(dictSent').id = dictOpen
                                               /\ Last(dictSent').gen = dictGen]_dictVars
  BY DictStep
<1> QED
  BY <1>1, <1>2, DictStart, PTL DEF DictSpec, DictKept, DictFenced
=============================================================================
