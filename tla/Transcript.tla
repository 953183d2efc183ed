----------------------------- MODULE Transcript -----------------------------
(* The text of one capture (stt/live.py, live_gate.py): the hypotheses that  *)
(* the worker drains from the engine while it takes the audio, what stop()   *)
(* of the engine returns, and the final text chosen between the two.         *)
(*                                                                           *)
(* A text is the sequence of its normalised words; a line of stop() starts   *)
(* at the head of the capture (0), within the wake window (1) or later (2).  *)
EXTENDS Naturals, FiniteSets, Orders

CONSTANTS TxWord,
          TxLineLength,   \* words of a line
          TxHistoryMax,   \* _PARTIAL_HISTORY_MAX
          MaxTxUpdates    \* bound

ASSUME TxAssumption == {TxLineLength, TxHistoryMax, MaxTxUpdates} \subseteq Nat

VARIABLES txPhase,     \* "flowing", "ended" (input_ended_t less 50 ms), "stopped"
          txLines,     \* _lines: [id |-> ..., words |-> ...] in order of appearance
          txLast,      \* _last_partial
          txHistory,   \* _partial_history
          txDropped,   \* _partial_history_dropped
          txSeen,      \* what every update drained said, recorded or not (history)
          txStood,     \* the hypothesis when the audio ended (history)
          txStop,      \* the lines of the result of stop()
          txFinal,     \* [mode, words, dropped] after strip_leading_wake_fragment
          txUpdates

txVars == <<txPhase, txLines, txLast, txHistory, txDropped, txSeen, txStood, txStop, txFinal,
            txUpdates>>

TxTexts == BoundedSeq(TxWord, TxLineLength)
TxLineIds == {1, 2}
TxNone == [mode |-> "none", words |-> <<>>, dropped |-> <<>>]

-----------------------------------------------------------------------------
(* The running hypotheses.                                                   *)

\* The line of the snapshot keeps its place, a new one goes last.
LinesWith(lines, id, words) ==
    IF \E i \in DOMAIN lines : lines[i].id = id
    THEN [i \in DOMAIN lines |-> IF lines[i].id = id THEN [id |-> id, words |-> words]
                                 ELSE lines[i]]
    ELSE Append(lines, [id |-> id, words |-> words])

Hypothesis(lines) == FlattenSeq([i \in DOMAIN lines |-> lines[i].words])

\* _drain_text of one snapshot of _listener: a hypothesis whose text differs from
\* the last is recorded while there is room; one that only completes it is not.
TxDrained(id, words, complete) ==
    LET lines == LinesWith(txLines, id, words)
        entry == [words |-> Hypothesis(lines), complete |-> complete,
                  late |-> txPhase # "flowing"]
        fresh == entry.words # txLast
        room == Len(txHistory) < TxHistoryMax
    IN /\ txLines' = lines /\ txLast' = entry.words
       /\ txHistory' = IF fresh /\ room THEN Append(txHistory, entry) ELSE txHistory
       /\ txDropped' = (txDropped \/ (fresh /\ ~room))
       /\ txSeen' = txSeen \cup {entry}

-----------------------------------------------------------------------------
(* The final text.                                                           *)

\* _transcript_text: the lines by their start.
TranscriptText(lines) ==
    FlattenSeq([start \in 1 .. 3 |->
        LET here == Select(lines, {line \in ToSet(lines) : line.start = start - 1})
        IN FlattenSeq([i \in DOMAIN here |-> here[i].words])])

\* _best_complete_partial: the indexes it may return, at most one.
BestComplete(history) ==
    LET complete == {i \in DOMAIN history : history[i].complete /\ history[i].words # <<>>}
    IN {i \in complete : \A j \in complete : j <= i}

\* Those that extend the text of stop().
Extending(history, stop) ==
    {i \in DOMAIN history : IsStrictPrefix(stop, history[i].words)}

\* Mutant: the latest of the extensions.
LatestExtension(history, stop) ==
    LET extending == Extending(history, stop)
    IN {i \in extending : \A j \in extending : j <= i}

\* _richest_extension: the first of the longest, a complete one before any other.
RichestExtension(history, stop) ==
    LET extending == Extending(history, stop)
        complete == {i \in extending : history[i].complete}
        pool == IF complete = {} THEN extending ELSE complete
        Length(i) == Len(history[i].words)
    IN {i \in pool : \A j \in pool : \/ Length(j) < Length(i)
                                     \/ Length(j) = Length(i) /\ i <= j}

\* _last_standing_partial: the last hypothesis with a word, unless an update
\* emptied it while the audio flowed.
LastStanding(history) ==
    LET spoken == {i \in DOMAIN history : history[i].words # <<>>}
    IN {i \in spoken : /\ \A j \in spoken : j <= i
                       /\ \A j \in DOMAIN history : j > i => history[j].late}

\* finalize_transcript: the mode, and the recorded hypothesis it takes if any.
Finalized(stop, history) ==
    LET Taken(mode, pool) == {[mode |-> mode, words |-> history[i].words] : i \in pool}
        best == BestComplete(history)
        standing == LastStanding(history)
        rich == RichestExtension(history, stop)
    IN IF stop = <<>>
       THEN IF best # {} THEN Taken("empty_rescue", best)
            ELSE IF standing # {} THEN Taken("empty_rescue_incomplete", standing)
            ELSE {[mode |-> "empty", words |-> <<>>]}
       ELSE IF rich # {} THEN Taken("erasure_rescue", rich)
            ELSE {[mode |-> "stop", words |-> stop]}

\* strip_leading_wake_fragment: the words of the first line of stop() that go.
WakeFragment(final, lines) ==
    IF /\ final.mode \in {"stop", "empty"} /\ Len(lines) >= 2
       /\ Len(lines[1].words) \in 1 .. 2
       /\ lines[1].start = 0 /\ lines[2].start <= 1
       /\ IsStrictPrefix(lines[1].words, final.words)
    THEN lines[1].words ELSE <<>>

Stripped(final, lines) ==
    LET fragment == WakeFragment(final, lines)
    IN [mode |-> final.mode, dropped |-> fragment,
        words |-> SubSeq(final.words, Len(fragment) + 1, Len(final.words))]

-----------------------------------------------------------------------------
(* The worker.                                                               *)

\* The engine updates a line while it takes audio, that of a backlog after the
\* end of the input included.
TxHears(id, words, complete) ==
    /\ txPhase # "stopped" /\ txUpdates < MaxTxUpdates /\ txUpdates' = txUpdates + 1
    /\ TxDrained(id, words, complete)
    /\ UNCHANGED <<txPhase, txStood, txStop, txFinal>>

\* finish(), less the 50 ms that _last_standing_partial allows.
TxInputEnds ==
    /\ txPhase = "flowing" /\ txPhase' = "ended" /\ txStood' = txLast
    /\ UNCHANGED <<txLines, txLast, txHistory, txDropped, txSeen, txStop, txFinal, txUpdates>>

\* stop() may empty or shorten a line, each erasure an update that is drained
\* before the final text is chosen; the lines keep their order.
StopLines(lines, starts) ==
    {[i \in DOMAIN lines |-> [start |-> starts[i],
                              words |-> SubSeq(lines[i].words, 1, keep[i])]] :
        keep \in {k \in [DOMAIN lines -> 0 .. TxLineLength] :
                    \A i \in DOMAIN lines : k[i] <= Len(lines[i].words)}}

\* The erasing updates of stop(), from the first line to the last.
Erased(stop) ==
    LET After(n) == [i \in DOMAIN txLines |->
                       [id |-> txLines[i].id,
                        words |-> IF i <= n THEN stop[i].words ELSE txLines[i].words]]
        changed == Select([n \in DOMAIN stop |-> n],
                          {n \in DOMAIN stop : Hypothesis(After(n)) # Hypothesis(After(n - 1))})
    IN [k \in DOMAIN changed |-> [words |-> Hypothesis(After(changed[k])),
                                  complete |-> FALSE, late |-> TRUE]]

TxStops ==
    /\ txPhase = "ended" /\ txPhase' = "stopped"
    /\ \E starts \in [DOMAIN txLines -> 0 .. 2] : \E stop \in StopLines(txLines, starts) :
           LET history == txHistory \o Erased(stop)
               kept == SubSeq(history, 1, IF Len(history) > TxHistoryMax THEN TxHistoryMax
                                          ELSE Len(history))
           IN /\ txStop' = stop /\ txHistory' = kept
              /\ txDropped' = (txDropped \/ kept # history)
              /\ txSeen' = txSeen \cup ToSet(Erased(stop))
              /\ txLines' = [i \in DOMAIN txLines |->
                               [id |-> txLines[i].id, words |-> stop[i].words]]
              /\ txLast' = Hypothesis(txLines')
              /\ \E final \in Finalized(TranscriptText(stop), kept) :
                     txFinal' = Stripped(final, stop)
    /\ UNCHANGED <<txStood, txUpdates>>

TxInit ==
    /\ txPhase = "flowing" /\ txLines = <<>> /\ txLast = <<>> /\ txHistory = <<>>
    /\ txDropped = FALSE /\ txSeen = {} /\ txStood = <<>> /\ txStop = <<>> /\ txFinal = TxNone /\ txUpdates = 0

TxNext ==
    \/ \E id \in TxLineIds, words \in TxTexts, complete \in BOOLEAN :
           TxHears(id, words, complete)
    \/ TxInputEnds \/ TxStops

TxSpec == TxInit /\ [][TxNext]_txVars

-----------------------------------------------------------------------------
(* Properties.                                                               *)

\* The type of the state; the history keeps its bound.
TxTypeOK ==
    /\ txPhase \in {"flowing", "ended", "stopped"} /\ txDropped \in BOOLEAN
    /\ Len(txHistory) <= TxHistoryMax /\ Len(txLines) <= Cardinality(TxLineIds)
    /\ ToSet(txHistory) \subseteq txSeen
    /\ txUpdates \in 0 .. MaxTxUpdates

\* What the engine said is not lost and nothing is invented (_drain_text,
\* finalize_transcript, strip_leading_wake_fragment): the final text with its wake
\* fragment begins with all that stop() returned and is that or a hypothesis that was
\* drained.  Unless the history overflowed, no text drained is unrecorded; one that
\* goes on from a non-empty stop() is never all lost, nor longer than the final if it
\* was recorded complete; the final text is empty only when nothing stood at the end
\* of the audio or came after it and nothing was recorded complete; and an incomplete
\* hypothesis that the audio itself retracted is not brought back.
TxSound ==
    txPhase = "stopped" =>
        LET said == txFinal.dropped \o txFinal.words
            stop == TranscriptText(txStop)
        IN /\ IsPrefix(stop, said)
           /\ said = stop \/ \E entry \in txSeen : said = entry.words
           /\ txDropped \/
              /\ \A entry \in txSeen :
                     entry.words = <<>> \/ \E i \in DOMAIN txHistory : txHistory[i].words = entry.words
              /\ stop # <<>> =>
                   \A i \in DOMAIN txHistory : IsStrictPrefix(stop, txHistory[i].words) =>
                       /\ said # stop
                       /\ txHistory[i].complete => Len(said) >= Len(txHistory[i].words)
              /\ said = <<>> =>
                   /\ txStood = <<>>
                   /\ \A i \in DOMAIN txHistory :
                          txHistory[i].late \/ txHistory[i].complete => txHistory[i].words = <<>>
              /\ txFinal.mode = "empty_rescue_incomplete" =>
                   \E i \in DOMAIN txHistory :
                       /\ txHistory[i].words = said
                       /\ \A j \in i + 1 .. Len(txHistory) : txHistory[j].late
=============================================================================
