-------------------------------- MODULE Wire --------------------------------
(* The serial transport (link/transport.py): the reader thread that splits   *)
(* one byte stream into text lines and delimited frames, the calls by which  *)
(* it hands events to the loop, and the bounded queue that every opening of  *)
(* the port replaces.                                                        *)
(*                                                                           *)
(* A byte is a delimiter, a newline, a character of a line, a byte of a      *)
(* frame, or noise; a line or a frame has WireLength of them.  The checksum  *)
(* of a frame tells every damage.  Bytes of a message come without a pause.  *)
EXTENDS Naturals, Sequences, SequencesExt

CONSTANTS WireLength,
          WireLineMax,    \* MAX_RX_LINE
          WireFrameMax,   \* _MAX_FRAME_WIRE
          WireQueueMax,   \* _RX_QUEUE_MAX
          MaxWireSends, MaxWireFaults, MaxWireOpens  \* bounds

ASSUME WireAssumption ==
    /\ {WireLength, WireQueueMax} \subseteq Nat \ {0}
    /\ {MaxWireSends, MaxWireFaults, MaxWireOpens} \subseteq Nat
    /\ WireLineMax \in Nat /\ WireFrameMax \in Nat
    /\ WireLength <= WireLineMax /\ WireLength <= WireFrameMax

VARIABLES wireBytes,   \* on the line, not yet read
          wireReader,  \* the thread: location, line, frame, in_frame
          wireStray,   \* a reader that outlived the join of its close: its opening,
                       \* and the bytes it has read and not gone through yet
          wireOutlived,  \* the openings whose reader did (history)
          wireCalls,   \* scheduled on the loop: [to |-> opening, event |-> ...]
          wireQueue,   \* rx
          wireOpened,  \* openings so far, the identity of rx
          wireSync,    \* of the reader with the sender (history)
          wireDue,     \* sent to a reader in step, not yet dispatched (history)
          wireSends, wireFaults

wireVars == <<wireBytes, wireReader, wireStray, wireOutlived, wireCalls, wireQueue, wireOpened,
              wireSync, wireDue, wireSends, wireFaults>>
wireStrays == <<wireStray, wireOutlived>>
wireLoop == <<wireQueue, wireOpened, wireStrays>>

FrameDelim == <<"delimiter", 0>>
LineFeed == <<"newline", 0>>
Noise == <<"noise", 0>>
Whole(kind, m) == [i \in 1 .. WireLength |-> <<kind, m>>]

WireFault == wireFaults < MaxWireFaults /\ wireFaults' = wireFaults + 1
WireReading == wireReader.at = "reading"
NoStray == [from |-> 0, left |-> 0]
FreshReader == [at |-> "reading", line |-> <<>>, frame |-> <<>>, in |-> FALSE]

-----------------------------------------------------------------------------
(* The device and the line.                                                  *)

Encoded(kind, m) == IF kind = "text" THEN Append(Whole(kind, m), LineFeed)
                    ELSE <<FrameDelim>> \o Whole(kind, m) \o <<FrameDelim>>

\* A byte lost or changed, a stray delimiter.
Damaged(bytes) ==
    {RemoveAt(bytes, i) : i \in DOMAIN bytes}
    \cup {ReplaceAt(bytes, i, byte) : i \in DOMAIN bytes, byte \in {Noise, FrameDelim}}
    \cup {InsertAt(bytes, i, FrameDelim) : i \in DOMAIN bytes}

\* After damage and a quiet line, the reader owes every frame, and every line
\* but the first, which what is left of the damage may be prefixed to.
WireSend(kind) ==
    /\ WireReading /\ wireSends < MaxWireSends /\ wireSends' = wireSends + 1
    /\ \/ /\ wireBytes' = wireBytes \o Encoded(kind, wireSends')
          /\ wireDue' = IF wireSync = "step" \/ (wireSync = "quiet" /\ kind = "body")
                        THEN Append(wireDue, Whole(kind, wireSends')) ELSE wireDue
          /\ wireSync' = IF wireSync = "quiet" THEN "step" ELSE wireSync
          /\ UNCHANGED wireFaults
       \/ /\ WireFault /\ wireSync' = "lost" /\ UNCHANGED wireDue
          /\ \E bytes \in Damaged(Encoded(kind, wireSends')) : wireBytes' = wireBytes \o bytes
    /\ UNCHANGED <<wireReader, wireCalls, wireLoop>>

-----------------------------------------------------------------------------
(* The reader thread.                                                        *)

Call(event) == [to |-> wireOpened, event |-> event]

\* _emit: the events, with the queue that is rx at this moment; a frame that the
\* sink claimed is not for the loop.
Emits(events) ==
    /\ wireCalls' = wireCalls \o (IF events = <<>> \/ events[1].kind = "claimed" THEN <<>>
                                  ELSE <<Call(events[1])>>)
    /\ wireDue' = IF wireDue # <<>> /\ events # <<>> /\ events[1].what = wireDue[1]
                  THEN Tail(wireDue) ELSE wireDue
Event(kind, what) == <<[kind |-> kind, what |-> what, from |-> wireOpened]>>

\* _note_garbage: at most one event in a window of time.
Garbage == {<<>>, Event("garbage", <<>>)}

\* _dispatch_line: a line with bytes of another kind may or may not decode.
Dispatched(line) ==
    IF line = <<>> THEN {<<>>}
    ELSE IF \A i \in DOMAIN line : line[i][1] = "text" THEN {Event("line", line)}
    ELSE {Event("line", line)} \cup Garbage

\* parse_frame_body: the length, the CRC and the fields of a frame hold together.
Sound(frame) == \E m \in 1 .. wireSends : frame = Whole("body", m)

\* _finish_frame: for the loop, claimed by the sink, or garbage.
Finished(frame) ==
    IF frame = <<>> THEN {<<>>}
    ELSE IF Sound(frame) THEN {Event("frame", frame), Event("claimed", frame)}
    ELSE Garbage

WireRead(reader, events) ==
    /\ wireBytes' = Tail(wireBytes) /\ wireReader' = reader /\ Emits(events)
    /\ UNCHANGED <<wireLoop, wireSync, wireSends, wireFaults>>

\* An opening delimiter flushes the partial line.
WireFrameOpens ==
    /\ WireReading /\ wireBytes # <<>> /\ wireBytes[1] = FrameDelim /\ ~wireReader.in
    /\ \E events \in Dispatched(wireReader.line) :
           WireRead([wireReader EXCEPT !.line = <<>>, !.in = TRUE], events)

WireFrameCloses ==
    /\ WireReading /\ wireBytes # <<>> /\ wireBytes[1] = FrameDelim /\ wireReader.in
    /\ \E events \in Finished(wireReader.frame) :
           WireRead([wireReader EXCEPT !.frame = <<>>, !.in = FALSE], events)

WireFrameByte ==
    /\ WireReading /\ wireBytes # <<>> /\ wireBytes[1] # FrameDelim /\ wireReader.in
    /\ LET frame == Append(wireReader.frame, wireBytes[1]) IN
       IF Len(frame) > WireFrameMax
       THEN \E events \in Garbage :
                WireRead([wireReader EXCEPT !.frame = <<>>, !.in = FALSE], events)
       ELSE WireRead([wireReader EXCEPT !.frame = frame], <<>>)

WireLineEnds ==
    /\ WireReading /\ wireBytes # <<>> /\ wireBytes[1] = LineFeed /\ ~wireReader.in
    /\ \E events \in Dispatched(wireReader.line) :
           WireRead([wireReader EXCEPT !.line = <<>>], events)

WireLineByte ==
    /\ WireReading /\ wireBytes # <<>> /\ wireBytes[1] \notin {FrameDelim, LineFeed}
    /\ ~wireReader.in
    /\ LET line == Append(wireReader.line, wireBytes[1]) IN
       IF Len(line) > WireLineMax
       THEN \E events \in Garbage : WireRead([wireReader EXCEPT !.line = <<>>], events)
       ELSE WireRead([wireReader EXCEPT !.line = line], <<>>)

\* Mutant: a read that returns nothing leaves an open frame as it is
WireIdlePatient ==
    /\ WireReading /\ wireBytes = <<>> /\ wireSync = "lost" /\ wireSync' = "quiet"
    /\ UNCHANGED <<wireReader, wireDue, wireCalls, wireBytes, wireLoop, wireSends, wireFaults>>

\* A read that returns nothing ends a frame: no sender pauses inside one.
WireIdle ==
    /\ WireReading /\ wireBytes = <<>> /\ (wireReader.in \/ wireSync = "lost")
    /\ wireReader' = [wireReader EXCEPT !.in = FALSE, !.frame = <<>>]
    /\ wireSync' = IF wireSync = "lost" THEN "quiet" ELSE wireSync
    /\ IF wireReader.in THEN \E events \in Garbage : Emits(events) ELSE Emits(<<>>)
    /\ UNCHANGED <<wireBytes, wireLoop, wireSends, wireFaults>>

\* The port fails under the reader.
WireDies ==
    /\ WireReading /\ WireFault
    /\ wireReader' = [FreshReader EXCEPT !.at = "dead"]
    /\ wireBytes' = <<>> /\ wireSync' = "lost" /\ wireDue' = <<>>
    /\ wireCalls' = Append(wireCalls, Call(Event("closed", <<>>)[1]))
    /\ UNCHANGED <<wireLoop, wireSends>>

StrayCall(kind) == Call([kind |-> kind, what |-> <<>>, from |-> wireStray.from])

\* A reader the join gave up on goes through the rest of its chunk, which _closing
\* does not interrupt: what it finds there, a line, a frame or garbage, is for the
\* queue of now.
WireStrayEmits ==
    /\ wireStray.left > 0 /\ wireStray' = [wireStray EXCEPT !.left = @ - 1]
    /\ wireCalls' = Append(wireCalls, StrayCall("found"))
    /\ UNCHANGED <<wireBytes, wireReader, wireOutlived, wireQueue, wireOpened, wireSync, wireDue,
                   wireSends, wireFaults>>

\* Its port is closed, so it ends with the chunk, or at a claimed frame before.
WireStrayEnds ==
    /\ wireStray.from # 0 /\ wireStray' = NoStray
    /\ wireCalls' = Append(wireCalls, StrayCall("closed"))
    /\ UNCHANGED <<wireBytes, wireReader, wireOutlived, wireQueue, wireOpened, wireSync, wireDue,
                   wireSends, wireFaults>>

-----------------------------------------------------------------------------
(* The loop.                                                                 *)

\* _enqueue_into: at the bound the oldest event goes.
Enqueued(queue, event) == Append(IF Len(queue) >= WireQueueMax THEN Tail(queue) ELSE queue, event)

\* Mutant: the queue is looked up when the call runs.
WireCallUnbound ==
    /\ wireCalls # <<>> /\ wireCalls' = Tail(wireCalls)
    /\ wireQueue' = Enqueued(wireQueue, wireCalls[1].event)
    /\ UNCHANGED <<wireBytes, wireReader, wireStrays, wireOpened, wireSync, wireDue,
                   wireSends, wireFaults>>

\* An event for a queue that a reopening retired is dropped.
WireCall ==
    /\ wireCalls # <<>> /\ wireCalls' = Tail(wireCalls)
    /\ wireQueue' = IF wireCalls[1].to # wireOpened THEN wireQueue
                    ELSE Enqueued(wireQueue, wireCalls[1].event)
    /\ UNCHANGED <<wireBytes, wireReader, wireStrays, wireOpened, wireSync, wireDue,
                   wireSends, wireFaults>>

\* The session takes an event.
WireTake ==
    /\ wireQueue # <<>> /\ wireQueue' = Tail(wireQueue)
    /\ UNCHANGED <<wireBytes, wireReader, wireStrays, wireCalls, wireOpened, wireSync,
                   wireDue, wireSends, wireFaults>>

\* close(): the reader ends within the join or, a fault, outlives it.
WireClose ==
    /\ wireReader.at \in {"reading", "dead"}
    /\ wireReader' = [FreshReader EXCEPT !.at = "closed"]
    /\ wireBytes' = <<>> /\ wireSync' = "lost" /\ wireDue' = <<>>
    /\ \/ /\ wireCalls' = IF WireReading
                          THEN Append(wireCalls, Call(Event("closed", <<>>)[1]))
                          ELSE wireCalls
          /\ UNCHANGED <<wireStrays, wireFaults>>
       \/ /\ WireReading /\ WireFault /\ wireStray = NoStray
          /\ wireStray' = [from |-> wireOpened, left |-> Len(wireBytes)]
          /\ wireOutlived' = wireOutlived \cup {wireOpened} /\ UNCHANGED wireCalls
    /\ UNCHANGED <<wireQueue, wireOpened, wireSends>>

WireOpen ==
    /\ wireReader.at = "closed" /\ wireOpened < MaxWireOpens
    /\ wireOpened' = wireOpened + 1 /\ wireQueue' = <<>> /\ wireReader' = FreshReader
    /\ UNCHANGED <<wireBytes, wireStrays, wireCalls, wireSync, wireDue, wireSends, wireFaults>>

WireInit ==
    /\ wireBytes = <<>> /\ wireReader = FreshReader /\ wireStray = NoStray /\ wireOutlived = {}
    /\ wireCalls = <<>>
    /\ wireQueue = <<>> /\ wireOpened = 1 /\ wireSync = "lost" /\ wireDue = <<>>
    /\ wireSends = 0 /\ wireFaults = 0

WireNext ==
    \/ \E kind \in {"text", "body"} : WireSend(kind)
    \/ WireFrameOpens \/ WireFrameCloses \/ WireFrameByte \/ WireLineEnds \/ WireLineByte
    \/ WireIdle \/ WireDies \/ WireStrayEmits \/ WireStrayEnds
    \/ WireCall \/ WireTake \/ WireClose \/ WireOpen

WireSpec == WireInit /\ [][WireNext]_wireVars

-----------------------------------------------------------------------------
(* Properties.                                                               *)

\* The type of the state; the reader's buffers and the queue keep their bounds.
WireTypeOK ==
    /\ wireReader.at \in {"reading", "dead", "closed"} /\ wireReader.in \in BOOLEAN
    /\ Len(wireReader.line) <= WireLineMax /\ Len(wireReader.frame) <= WireFrameMax
    /\ wireReader.in \/ wireReader.frame = <<>>
    /\ Len(wireQueue) <= WireQueueMax
    /\ wireOpened \in 1 .. MaxWireOpens /\ wireStray.from \in 0 .. MaxWireOpens
    /\ wireSync \in {"lost", "quiet", "step"}
    /\ wireSends \in 0 .. MaxWireSends /\ wireFaults \in 0 .. MaxWireFaults

\* Damage does not last: after a pause on the line every frame, and every line
\* but the first, leaves the reader as it was sent, whatever odd number of
\* delimiters the damage left (_reader_main).
WireHeard == WireReading /\ wireBytes = <<>> => wireDue = <<>>

\* The session of an opening gets no event of an earlier one, unless that one's
\* reader outlived its join and had some left: what is scheduled, whenever the
\* loop comes to it, stays bound to its queue (_emit, _enqueue_into).
WireRetired ==
    \A i \in DOMAIN wireQueue :
        wireQueue[i].from # wireOpened => wireQueue[i].from \in wireOutlived
=============================================================================
