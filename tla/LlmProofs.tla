----------------------------- MODULE LlmProofs -----------------------------
(* What the two sources of a model guarantee, Cm5Llm and LocalLlm, for every *)
(* set of models, every queue, memory and limit, and every number of turns,  *)
(* pushes, switches and faults: the device holds a prefix of the answer, an  *)
(* answer closed as ok is whole, and the model announced is the one loaded.  *)
EXTENDS Cm5Llm, LocalLlm, OrderProofs

-----------------------------------------------------------------------------
(* Cm5Llm: the device's side of an answer, and the model that is announced.  *)

Args == Model \cup {NoModel, "ok", "error", "stopped"}
Verbs == {"models", "ready", "push", "end", "ask", "cancel", "select"}
Lines == [verb : Verbs, turn : Nat, seq : Nat, text : Nat, arg : Args]
Gens == [turn : Nat, stop : BOOLEAN, seq : Nat, text : Nat, last : BOOLEAN]
Cmds == [line : Lines, tries : Nat]
Latches == [turn : Nat, open : BOOLEAN, next : Nat, got : Seq(Nat)]
Replies == {"ok", "error", "corrupt"}
Places == {"down", "idle", "sending", "stream", "stop", "spawn", "restore"}
Maybe == OnHost \cup {NoModel}
Switches == [sup: Nat, path: Maybe, previous: Maybe]

\* switch_model is under way.
Switching == at \in {"stop", "spawn", "restore"}

Types ==
    /\ fw \in Latches /\ evts \in Seq(Lines) /\ tx \in Seq(Lines) /\ queue \in Seq(Lines)
    /\ rx \in Seq(Replies) /\ wire \in Senders \cup {Idle} /\ cmd \in [Senders -> Cmds]
    /\ gen \in Gens /\ at \in Places /\ active \in Model \cup {NoModel} /\ cfg \in OnHost
    /\ switch \in Switches /\ loads \in Nat /\ held \in Nat
    /\ Switching => switch.path \in OnHost /\ switch.previous \in OnHost
    /\ late \in BOOLEAN /\ short \in BOOLEAN

\* The line the worker waits for, and whether it is of a verb.
Draft == cmd["worker"].line
Mid(verb) == at = "sending" /\ Draft.verb = verb

\* Where the worker, its turn and the wire can be together.
Placed ==
    /\ cmd["worker"].tries > 0 <=> at = "sending"
    /\ wire # Idle => cmd[wire].tries > 0
    /\ cmd["attach"].line.verb \in {"models", "ready"}
    /\ cmd["attach"].tries > 0 => plane = "attaching"
    /\ gen.turn # 0 <=> at = "stream" \/ Mid("push")
    /\ Mid("push") => Draft.turn = gen.turn /\ Draft.seq = gen.seq

\* The turns asked for and not begun, in the queue q and the events e, are in the
\* order they were minted: younger than last, the turn begun last, and no younger
\* than turn, the device's.
Asks(s) == {i \in DOMAIN s : s[i].verb = "ask"}
Rising(s) == \A i, j \in Asks(s) : i < j => s[i].turn < s[j].turn
Before(q, e) == \A i \in Asks(q), j \in Asks(e) : q[i].turn < e[j].turn
Between(s, last, turn) == \A i \in Asks(s) : last < s[i].turn /\ s[i].turn <= turn
Due(q, e, last, turn) ==
    /\ last <= turn /\ Rising(q) /\ Rising(e) /\ Before(q, e)
    /\ Between(q, last, turn) /\ Between(e, last, turn)

\* c counts the chunks among the first pushes of that turn; size pushes were begun.
Counted(size, c) ==
    c[0] = 0 /\ \A s \in Nat : s < size => c[s + 1] = c[s] \/ c[s + 1] = c[s] + 1

Drafted(last, size, c) ==
    /\ gen.turn # 0 => gen.turn = last /\ gen.text = c[size]
    /\ at = "stream" => gen.seq = size
    /\ Mid("push") => size = gen.seq + 1

\* A line says what the count says of its push, whenever it was written.
Honest(l, last, size, c) ==
    /\ l.verb = "push" =>
          /\ l.turn <= last
          /\ l.turn = last =>
                l.seq < size /\ l.text = IF c[l.seq + 1] = c[l.seq] THEN 0 ELSE c[l.seq + 1]
    /\ l.verb = "end" /\ l.arg = "ok" => l.turn <= last
Written(last, size, c) ==
    /\ \A l \in Range(tx) : Honest(l, last, size, c)
    /\ at = "sending" => Honest(Draft, last, size, c)

\* The device holds the chunks of the pushes it applied.
Applied(last, size, c) ==
    /\ \A i \in DOMAIN fw.got : fw.got[i] = i
    /\ fw.turn = last => fw.next <= size /\ Len(fw.got) = c[fw.next]
    /\ fw.turn # last \/ ~fw.open => fw.next = 0 /\ fw.got = <<>>

Whole(l, f) == l.verb = "end" /\ l.arg = "ok" /\ f.open /\ f.turn = l.turn => Len(f.got) = l.text

\* While no line was written over an unanswered one, a reply is the reply to the
\* line before it, so that the worker goes on only past what the device applied.
Prompt(last, size) ==
    /\ Len(tx) + Len(rx) <= 1
    /\ wire # Idle /\ tx # <<>> => Head(tx) = cmd[wire].line
    /\ tx # <<>> => Whole(Head(tx), fw)
    /\ tx # <<>> /\ Head(tx).verb = "push" =>
          /\ at = "sending"
          /\ Draft = Head(tx) \/ (Draft.verb = "end" /\ Draft.arg = "error")
    /\ at = "sending" => Whole(Draft, fw)
    /\ fw.open /\ fw.turn = last =>
          /\ at = "stream" => fw.next = size
          /\ Mid("push") => /\ size <= fw.next + 1
                            /\ wire = "worker" /\ rx # <<>> /\ Head(rx) = "ok" => fw.next = size

Tale(last, size, c) ==
    /\ Due(queue, evts, last, fw.turn) /\ Counted(size, c) /\ Drafted(last, size, c)
    /\ Written(last, size, c) /\ Applied(last, size, c)
    /\ ~late => Prompt(last, size) /\ ~short

AnswerInv ==
    /\ Types /\ Placed
    /\ \E last \in Nat, size \in Nat, c \in [Nat -> Nat] : Tale(last, size, c)
-----------------------------------------------------------------------------
(* Sequences of lines, and the asks among them.                              *)

LEMMA TailOf ==
    ASSUME NEW S, NEW s \in Seq(S), s # <<>>
    PROVE  /\ Head(s) \in S /\ Head(s) = s[1] /\ Head(s) \in Range(s) /\ Tail(s) \in Seq(S)
           /\ Len(s) \in Nat \ {0} /\ Len(Tail(s)) = Len(s) - 1
           /\ DOMAIN Tail(s) = 1 .. Len(Tail(s)) /\ DOMAIN s = 1 .. Len(s)
           /\ \A i \in DOMAIN Tail(s) : i + 1 \in DOMAIN s /\ Tail(s)[i] = s[i + 1]
           /\ Range(Tail(s)) \subseteq Range(s)
<1>1. /\ Head(s) \in S /\ Tail(s) \in Seq(S) /\ Len(Tail(s)) = Len(s) - 1
      /\ \A i \in 1 .. Len(Tail(s)) : Tail(s)[i] = s[i + 1]
  BY HeadTailProperties
<1>2. /\ Len(s) \in Nat \ {0} /\ DOMAIN s = 1 .. Len(s)
      /\ DOMAIN Tail(s) = 1 .. Len(Tail(s))
  BY <1>1, EmptySeq, LenProperties
<1>3. Head(s) = s[1] /\ 1 \in DOMAIN s
  BY <1>2
<1>4. \A i \in DOMAIN Tail(s) : i + 1 \in DOMAIN s /\ Tail(s)[i] = s[i + 1]
  BY <1>1, <1>2
<1> QED
  BY <1>1, <1>2, <1>3, <1>4 DEF Range

LEMMA AppendOf ==
    ASSUME NEW S, NEW s \in Seq(S), NEW x \in S
    PROVE  /\ Append(s, x) \in Seq(S) /\ Len(s) \in Nat /\ Len(Append(s, x)) = Len(s) + 1
           /\ DOMAIN s = 1 .. Len(s) /\ DOMAIN Append(s, x) = 1 .. Len(s) + 1
           /\ \A i \in DOMAIN s : Append(s, x)[i] = s[i]
           /\ Append(s, x)[Len(s) + 1] = x
           /\ \A l \in Range(Append(s, x)) : l \in Range(s) \/ l = x
           /\ s = <<>> => Head(Append(s, x)) = x /\ Tail(Append(s, x)) = <<>>
           /\ Append(s, x) # <<>>
<1>1. /\ Append(s, x) \in Seq(S) /\ Len(s) \in Nat /\ Len(Append(s, x)) = Len(s) + 1
      /\ DOMAIN s = 1 .. Len(s) /\ DOMAIN Append(s, x) = 1 .. Len(s) + 1
      /\ \A i \in DOMAIN s : Append(s, x)[i] = s[i]
      /\ Append(s, x)[Len(s) + 1] = x
  OBVIOUS
<1>2. \A l \in Range(Append(s, x)) : l \in Range(s) \/ l = x
  BY <1>1 DEF Range
<1>3. ASSUME s = <<>> PROVE Head(Append(s, x)) = x /\ Tail(Append(s, x)) = <<>>
  <2>1. Append(s, x) = <<x>>
    BY <1>3
  <2> QED
    BY <2>1
<1>4. Append(s, x) # <<>>
  BY <1>1, EmptySeq
<1> QED
  BY <1>1, <1>2, <1>3, <1>4

\* A line leaves a queue.
LEMMA DueTail ==
    ASSUME NEW s \in Seq(Lines), s # <<>>, NEW t \in Seq(Lines), NEW last \in Nat, NEW turn \in Nat
    PROVE  /\ Rising(s) => Rising(Tail(s))
           /\ Before(s, t) => Before(Tail(s), t)
           /\ Before(t, s) => Before(t, Tail(s))
           /\ Between(s, last, turn) => Between(Tail(s), last, turn)
           /\ Head(s).verb = "ask" =>
                 /\ Rising(s) /\ Between(s, last, turn) => Between(Tail(s), Head(s).turn, turn)
                 /\ Before(s, t) /\ Between(t, last, turn) => Between(t, Head(s).turn, turn)
                 /\ Between(s, last, turn) => last < Head(s).turn /\ Head(s).turn <= turn
<1>1. /\ DOMAIN Tail(s) = 1 .. Len(Tail(s)) /\ 1 \in DOMAIN s /\ Head(s) = s[1]
      /\ \A i \in DOMAIN Tail(s) : i + 1 \in DOMAIN s /\ Tail(s)[i] = s[i + 1]
  BY TailOf
<1>2. \A i \in Asks(Tail(s)) : i \in Nat /\ 1 < i + 1 /\ i + 1 \in Asks(s) /\ Tail(s)[i] = s[i + 1]
  BY <1>1 DEF Asks
<1>3. Head(s).verb = "ask" => 1 \in Asks(s)
  BY <1>1 DEF Asks
<1>4. ASSUME Rising(s) PROVE Rising(Tail(s))
  <2> SUFFICES ASSUME NEW i \in Asks(Tail(s)), NEW j \in Asks(Tail(s)), i < j
               PROVE  Tail(s)[i].turn < Tail(s)[j].turn
    BY DEF Rising
  <2>1. i + 1 < j + 1
    BY <1>2
  <2> QED
    BY <1>2, <1>4, <2>1 DEF Rising
<1>5. /\ Before(s, t) => Before(Tail(s), t)
      /\ Before(t, s) => Before(t, Tail(s))
  BY <1>2 DEF Before
<1>6. Between(s, last, turn) => Between(Tail(s), last, turn)
  BY <1>2 DEF Between
<1>7. ASSUME Head(s).verb = "ask", Rising(s), Between(s, last, turn)
      PROVE  Between(Tail(s), Head(s).turn, turn)
  BY <1>1, <1>2, <1>3, <1>7 DEF Between, Rising
<1>8. ASSUME Head(s).verb = "ask", Before(s, t), Between(t, last, turn)
      PROVE  Between(t, Head(s).turn, turn)
  BY <1>1, <1>3, <1>8 DEF Between, Before
<1>9. ASSUME Head(s).verb = "ask", Between(s, last, turn)
      PROVE  last < Head(s).turn /\ Head(s).turn <= turn
  BY <1>1, <1>3, <1>9 DEF Between
<1> QED
  BY <1>4, <1>5, <1>6, <1>7, <1>8, <1>9

\* A line joins a queue.
LEMMA DueAppend ==
    ASSUME NEW s \in Seq(Lines), NEW l \in Lines, NEW t \in Seq(Lines), NEW last \in Nat,
           NEW turn \in Nat
    PROVE  /\ Asks(Append(s, l)) \subseteq Asks(s) \cup {Len(s) + 1}
           /\ \A i \in Asks(s) : i \in Nat /\ i <= Len(s) /\ Append(s, l)[i] = s[i]
           /\ Append(s, l)[Len(s) + 1] = l
           /\ l.verb # "ask" => Asks(Append(s, l)) \subseteq Asks(s)
<1>1. /\ Len(s) \in Nat /\ DOMAIN s = 1 .. Len(s) /\ DOMAIN Append(s, l) = 1 .. Len(s) + 1
      /\ \A i \in DOMAIN s : Append(s, l)[i] = s[i]
      /\ Append(s, l)[Len(s) + 1] = l
  BY AppendOf
<1> QED
  BY <1>1 DEF Asks

\* A line that is no ask.
LEMMA DueOther ==
    ASSUME NEW q \in Seq(Lines), NEW e \in Seq(Lines), NEW last \in Nat, NEW turn \in Nat,
           NEW l \in Lines, l.verb # "ask", Due(q, e, last, turn)
    PROVE  Due(q, Append(e, l), last, turn)
<1>1. /\ Asks(Append(e, l)) \subseteq Asks(e)
      /\ \A i \in Asks(e) : i \in Nat /\ i <= Len(e) /\ Append(e, l)[i] = e[i]
  BY DueAppend
<1> QED
  BY <1>1 DEF Due, Rising, Before, Between

\* The device mints a turn.
LEMMA DueMint ==
    ASSUME NEW q \in Seq(Lines), NEW e \in Seq(Lines), NEW last \in Nat, NEW turn \in Nat,
           NEW l \in Lines, l.turn = turn + 1, Due(q, e, last, turn)
    PROVE  Due(q, Append(e, l), last, turn + 1)
<1> DEFINE more == Append(e, l)
<1>0. Len(e) \in Nat
  BY AppendOf
<1>1. /\ Asks(more) \subseteq Asks(e) \cup {Len(e) + 1}
      /\ \A i \in Asks(e) : i \in Nat /\ i <= Len(e) /\ more[i] = e[i]
      /\ more[Len(e) + 1].turn = turn + 1
  BY DueAppend
<1>a. /\ \A i \in Asks(e) : e[i].turn \in Nat
      /\ \A i \in Asks(q) : q[i].turn \in Nat
  <2>1. \A i \in DOMAIN e : e[i] \in Lines
    OBVIOUS
  <2>2. \A i \in DOMAIN q : q[i] \in Lines
    OBVIOUS
  <2> QED
    BY <2>1, <2>2 DEF Asks, Lines
<1> HIDE DEF more
<1>2. Rising(more)
  <2> SUFFICES ASSUME NEW i \in Asks(more), NEW j \in Asks(more), i < j
               PROVE  more[i].turn < more[j].turn
    BY DEF Rising
  <2>1. i \in Asks(e)
    BY <1>0, <1>1
  <2>2. CASE j \in Asks(e)
    BY <1>1, <2>1, <2>2 DEF Due, Rising
  <2>3. CASE j = Len(e) + 1
    BY <1>1, <1>a, <2>1, <2>3 DEF Due, Between
  <2> QED
    BY <1>1, <2>2, <2>3
<1>3. Before(q, more)
  <2> SUFFICES ASSUME NEW i \in Asks(q), NEW j \in Asks(more)
               PROVE  q[i].turn < more[j].turn
    BY DEF Before
  <2>2. CASE j \in Asks(e)
    BY <1>1, <2>2 DEF Due, Before
  <2>3. CASE j = Len(e) + 1
    BY <1>1, <1>a, <2>3 DEF Due, Between
  <2> QED
    BY <1>1, <2>2, <2>3
<1>4. Between(more, last, turn + 1)
  BY <1>1, <1>a DEF Due, Between
<1>5. Between(q, last, turn + 1)
  BY <1>a DEF Due, Between
<1> QED
  BY <1>2, <1>3, <1>4, <1>5 DEF Due, more

\* An event is routed: it leaves, and it joins the queue if there is room.
LEMMA DueRouted ==
    ASSUME NEW q \in Seq(Lines), NEW e \in Seq(Lines), NEW last \in Nat, NEW turn \in Nat,
           e # <<>>, Due(q, e, last, turn)
    PROVE  /\ Due(q, Tail(e), last, turn)
           /\ Due(Append(q, Head(e)), Tail(e), last, turn)
<1> DEFINE l == Head(e)
           more == Append(q, l)
<1>1. l \in Lines /\ Len(q) \in Nat
  BY TailOf, AppendOf
<1>2. Rising(Tail(e)) /\ Before(q, Tail(e)) /\ Between(Tail(e), last, turn)
  BY DueTail DEF Due
<1>3. Due(q, Tail(e), last, turn)
  BY <1>2 DEF Due
<1>4. /\ Asks(more) \subseteq Asks(q) \cup {Len(q) + 1}
      /\ \A i \in Asks(q) : i \in Nat /\ i <= Len(q) /\ more[i] = q[i]
      /\ more[Len(q) + 1] = l
      /\ l.verb # "ask" => Asks(more) \subseteq Asks(q)
  BY <1>1, DueAppend
<1>5. ASSUME l.verb = "ask"
      PROVE  /\ 1 \in Asks(e) /\ e[1] = l
             /\ Between(Tail(e), l.turn, turn)
  BY <1>1, <1>5, TailOf, DueTail DEF Due, Asks
<1> HIDE DEF more, l
<1>6. Rising(more)
  <2> SUFFICES ASSUME NEW i \in Asks(more), NEW j \in Asks(more), i < j
               PROVE  more[i].turn < more[j].turn
    BY DEF Rising
  <2>1. i \in Asks(q)
    BY <1>1, <1>4
  <2>2. CASE j \in Asks(q)
    BY <1>4, <2>1, <2>2 DEF Due, Rising
  <2>3. CASE j \notin Asks(q)
    BY <1>4, <1>5, <2>1, <2>3 DEF Due, Before
  <2> QED
    BY <2>2, <2>3
<1>7. Before(more, Tail(e))
  <2> SUFFICES ASSUME NEW i \in Asks(more), NEW j \in Asks(Tail(e))
               PROVE  more[i].turn < Tail(e)[j].turn
    BY DEF Before
  <2>2. CASE i \in Asks(q)
    BY <1>2, <1>4, <2>2 DEF Before
  <2>3. CASE i \notin Asks(q)
    BY <1>4, <1>5, <2>3 DEF Between
  <2> QED
    BY <2>2, <2>3
<1>8. Between(more, last, turn)
  BY <1>4, <1>5 DEF Due, Between
<1> QED
  BY <1>2, <1>3, <1>6, <1>7, <1>8 DEF Due, more, l

\* Nothing is due.
LEMMA DueNone ==
    ASSUME NEW last \in Nat, NEW turn \in Nat, last <= turn
    PROVE  Due(<<>>, <<>>, last, turn) /\ <<>> \in Seq(Lines)
  BY DEF Due, Rising, Before, Between, Asks

-----------------------------------------------------------------------------
(* The parts of a step: what a line is, and what a sender works on after it. *)

LEMMA LineIs ==
    ASSUME NEW verb \in Verbs, NEW turn \in Nat, NEW seq \in Nat, NEW text \in Nat, NEW arg \in Args
    PROVE  LET l == Line(verb, turn, seq, text, arg) IN
           /\ l \in Lines /\ l.verb = verb /\ l.turn = turn /\ l.seq = seq /\ l.text = text
           /\ l.arg = arg
  BY DEF Line, Lines

LEMMA NoCmdIs ==
    /\ NoCmd \in Cmds /\ NoCmd.tries = 0 /\ NoCmd.line = Models
    /\ Models \in Lines /\ Models.verb = "models"
<1>1. Models \in Lines /\ Models.verb = "models"
  BY LineIs DEF Models, Verbs, Args
<1> QED
  BY <1>1 DEF NoCmd, Cmds

LEMMA ReadyIs == ASSUME NEW m \in Args PROVE Ready(m) \in Lines /\ Ready(m).verb = "ready" /\ Ready(m).arg = m
  BY LineIs DEF Ready, Verbs

LEMMA NoGenIs == NoGen \in Gens /\ NoGen.turn = 0 /\ NoGen.text = 0 /\ NoGen.seq = 0 /\ NoGen.stop = FALSE
  BY DEF NoGen, Gens

\* A sender takes a line, or is done with it.
LEMMA CmdIs ==
    ASSUME Types, NEW who \in Senders, NEW new \in Cmds, cmd' = [cmd EXCEPT ![who] = new]
    PROVE  /\ cmd' \in [Senders -> Cmds] /\ cmd'[who] = new
           /\ \A w \in Senders : w # who => cmd'[w] = cmd[w]
  BY DEF Types

LEMMA SendsIs ==
    ASSUME Types, NEW who \in Senders, NEW line \in Lines, Sends(who, line)
    PROVE  /\ cmd' \in [Senders -> Cmds] /\ cmd'[who].line = line /\ cmd'[who].tries = 1
           /\ \A w \in Senders : w # who => cmd'[w] = cmd[w]
<1> DEFINE new == [line |-> line, tries |-> 1]
<1>1. new \in Cmds /\ new.line = line /\ new.tries = 1
  BY DEF Cmds
<1>2. cmd' = [cmd EXCEPT ![who] = new]
  BY DEF Sends
<1> HIDE DEF new
<1> QED
  BY <1>1, <1>2, CmdIs

LEMMA CmdOf ==
    ASSUME Types
    PROVE  /\ Draft \in Lines /\ Draft.verb \in Verbs /\ Draft.arg \in Args
           /\ Draft.turn \in Nat /\ Draft.seq \in Nat /\ Draft.text \in Nat
           /\ "worker" \in Senders /\ "attach" \in Senders
           /\ \A w \in Senders : /\ cmd[w] \in Cmds /\ cmd[w].line \in Lines /\ cmd[w].tries \in Nat
                                 /\ cmd[w].line.verb \in Verbs
<1>1. \A w \in Senders : cmd[w] \in Cmds /\ cmd[w].line \in Lines /\ cmd[w].tries \in Nat
  BY DEF Types, Cmds
<1>2. "worker" \in Senders /\ "attach" \in Senders
  BY DEF Senders
<1> QED
  BY <1>1, <1>2 DEF Draft, Lines

\* The worker takes a line.
LEMMA WorkerSendsIs ==
    ASSUME Types, NEW line \in Lines, WorkerSends(line)
    PROVE  /\ cmd' \in [Senders -> Cmds] /\ cmd'["worker"].line = line /\ cmd'["worker"].tries = 1
           /\ cmd'["attach"] = cmd["attach"] /\ at' = "sending"
<1>1. "worker" \in Senders /\ "attach" \in Senders /\ "attach" # "worker"
  BY DEF Senders
<1>2. Sends("worker", line) /\ at' = "sending"
  BY DEF WorkerSends
<1> QED
  BY <1>1, <1>2, SendsIs

\* A second write of the same line.
LEMMA AgainIs ==
    ASSUME Types, NEW who \in Senders, Again(who)
    PROVE  /\ cmd' \in [Senders -> Cmds] /\ cmd'[who].tries = 2
           /\ \A w \in Senders : cmd'[w].line = cmd[w].line
           /\ \A w \in Senders : w # who => cmd'[w] = cmd[w]
<1>1. cmd' = [cmd EXCEPT ![who] = [cmd[who] EXCEPT !.tries = 2]]
  BY DEF Again, Types
<1>2. cmd[who] \in Cmds
  BY CmdOf
<1>3. [cmd[who] EXCEPT !.tries = 2] \in Cmds /\ [cmd[who] EXCEPT !.tries = 2].tries = 2
      /\ [cmd[who] EXCEPT !.tries = 2].line = cmd[who].line
  BY <1>2 DEF Cmds
<1> DEFINE new == [cmd[who] EXCEPT !.tries = 2]
<1> HIDE DEF new
<1>4. /\ cmd' \in [Senders -> Cmds] /\ cmd'[who] = new
      /\ \A w \in Senders : w # who => cmd'[w] = cmd[w]
  BY <1>1, <1>3, CmdIs DEF new
<1> QED
  BY <1>3, <1>4 DEF new

\* The `end` of the turn under way.
LEMMA ClosingIs ==
    ASSUME Types, NEW status \in {"ok", "error", "stopped"}
    PROVE  /\ Closing(status) \in Lines /\ Closing(status).verb = "end"
           /\ Closing(status).turn = gen.turn /\ Closing(status).text = gen.text
           /\ Closing(status).arg = status
<1>1. gen.turn \in Nat /\ gen.text \in Nat /\ status \in Args /\ "end" \in Verbs
  BY DEF Types, Gens, Args, Verbs
<1> QED
  BY <1>1, LineIs DEF Closing

\* What the caller of _send goes on with.
Announced(who) ==
    /\ who = "worker" /\ Draft.verb = "models" /\ active # NoModel
    /\ WorkerSends(Ready(active)) /\ gen' = gen
PushedOn(who, good) ==
    /\ who = "worker" /\ Draft.verb = "push" /\ good
    /\ gen' = [gen EXCEPT !.seq = gen.seq + 1] /\ at' = "stream"
    /\ cmd' = [cmd EXCEPT ![who] = NoCmd]
Closed(who, good) ==
    /\ who = "worker" /\ Draft.verb = "push"
    /\ \/ good /\ WorkerSends(Closing("ok"))
       \/ ~good /\ WorkerSends(Closing("error"))
    /\ gen' = NoGen
SentOff(who) ==
    /\ who = "worker" => Draft.verb # "push" /\ at' = "idle"
    /\ who # "worker" => at' = at
    /\ gen' = gen /\ cmd' = [cmd EXCEPT ![who] = NoCmd]

LEMMA SettledIs ==
    ASSUME Types, NEW who \in Senders, NEW good \in BOOLEAN, Settled(who, good)
    PROVE  Announced(who) \/ PushedOn(who, good) \/ Closed(who, good) \/ SentOff(who)
<1>1. CASE who = "worker" /\ Draft.verb = "models" /\ active # NoModel
  BY <1>1 DEF Settled, Announced, Draft
<1>2. CASE who = "worker" /\ Draft.verb = "push"
  <2>1. CASE good /\ ~gen.last
    BY <1>2, <2>1 DEF Settled, PushedOn, Draft
  <2>2. CASE gen.last \/ ~good
    BY <1>2, <2>2 DEF Settled, Closed, Draft
  <2> QED
    BY <2>1, <2>2
<1>3. CASE ~(who = "worker" /\ Draft.verb = "push")
           /\ ~(who = "worker" /\ Draft.verb = "models" /\ active # NoModel)
  BY <1>3 DEF Settled, SentOff, Draft
<1> QED
  BY <1>1, <1>2, <1>3

-----------------------------------------------------------------------------
(* Types.                                                                    *)

\* A turn that is over.
LEMMA OverIs ==
    ASSUME Types
    PROVE  /\ Over \in Latches /\ Over.turn = fw.turn /\ Over.open = FALSE /\ Over.next = 0
           /\ Over.got = <<>> /\ fw \in Latches
           /\ fw.turn \in Nat /\ fw.next \in Nat /\ fw.got \in Seq(Nat) /\ fw.open \in BOOLEAN
<1>1. fw \in Latches /\ <<>> \in Seq(Nat)
  BY DEF Types
<1> QED
  BY <1>1 DEF Latches, Over

\* A turn that got further.
LEMMA MovedIs ==
    ASSUME NEW f \in Latches, NEW n \in Nat, NEW g \in Seq(Nat)
    PROVE  LET moved == [f EXCEPT !.next = n, !.got = g] IN
           /\ moved \in Latches /\ moved.turn = f.turn /\ moved.open = f.open
           /\ moved.next = n /\ moved.got = g
  BY DEF Latches

LEMMA RepliesAppend ==
    ASSUME NEW s \in Seq(Replies), NEW x \in Replies
    PROVE  Append(s, x) \in Seq(Replies) /\ (s = <<>> => Head(Append(s, x)) = x)
  BY AppendOf

\* What the firmware's registry does.
LEMMA DeviceTypes == ASSUME Types, Device PROVE Types'
<1>0. fw.turn \in Nat /\ fw.next \in Nat /\ fw.got \in Seq(Nat) /\ Over \in Latches
      /\ fw \in Latches /\ tx \in Seq(Lines) /\ rx \in Seq(Replies)
      /\ "ok" \in Replies /\ "error" \in Replies
  BY OverIs DEF Types, Replies
<1>1. CASE FwHandles
  <2> DEFINE l == Head(tx)
  <2>1. l \in Lines /\ Tail(tx) \in Seq(Lines) /\ l.text \in Nat
    <3>1. tx # <<>>
      BY <1>1 DEF FwHandles
    <3>2. l \in Lines /\ Tail(tx) \in Seq(Lines)
      BY <1>0, <3>1, TailOf
    <3> QED
      BY <3>2 DEF Lines
  <2>2. tx' \in Seq(Lines) /\ rx' \in Seq(Replies) /\ short' \in BOOLEAN
    <3>1. tx' = Tail(tx) /\ short' \in BOOLEAN
      BY <1>1 DEF FwHandles, Types
    <3>2. rx' = Append(rx, "ok") \/ rx' = Append(rx, "error")
      BY <1>1 DEF FwHandles
    <3>3. rx' \in Seq(Replies)
      <4>1. Append(rx, "ok") \in Seq(Replies) /\ Append(rx, "error") \in Seq(Replies)
        BY <1>0, RepliesAppend
      <4> QED
        BY <3>2, <4>1
    <3> QED
      BY <2>1, <3>1, <3>3
  <2>3. fw' \in Latches
    <3> DEFINE got == IF l.text = 0 THEN fw.got ELSE Append(fw.got, l.text)
               moved == [fw EXCEPT !.next = fw.next + 1, !.got = got]
    <3>1. got \in Seq(Nat)
      BY <1>0, <2>1
    <3>2. fw' = moved \/ fw' = Over \/ fw' = fw
      <4> DEFINE mine == fw.open /\ l.turn = fw.turn
      <4>1. CASE l.verb = "push" /\ mine /\ l.seq = fw.next
        BY <1>1, <4>1 DEF FwHandles
      <4>2. CASE ~(l.verb = "push" /\ mine /\ l.seq = fw.next)
        BY <1>1, <4>2 DEF FwHandles
      <4> QED
        BY <4>1, <4>2
    <3> HIDE DEF got
    <3>3. moved \in Latches
      <4>1. fw.next + 1 \in Nat
        BY <1>0
      <4> QED
        BY <1>0, <3>1, <4>1, MovedIs
    <3> QED
      BY <1>0, <3>2, <3>3 DEF Types
  <2> QED
    BY <1>1, <2>2, <2>3 DEF FwHandles, Types, Switching, wireVars, askVars, planeVars, serverVars
<1>2. CASE FwAsk
  <2> DEFINE l == Line("ask", fw.turn + 1, 0, 0, NoModel)
  <2>1. l \in Lines
    BY <1>0, LineIs DEF Verbs, Args
  <2>2. fw' \in Latches
    BY <1>0, <1>2 DEF FwAsk, Latches
  <2>3. evts' = Append(evts, l)
    BY <1>2 DEF FwAsk
  <2>4. evts' \in Seq(Lines)
    BY <2>1, <2>3, AppendOf DEF Types
  <2> QED
    BY <1>2, <2>2, <2>4 DEF FwAsk, Types, Switching, wireVars, askVars, planeVars, serverVars
<1>3. CASE FwCancel
  <2> DEFINE l == Line("cancel", fw.turn, 0, 0, NoModel)
  <2>1. l \in Lines
    BY <1>0, LineIs DEF Verbs, Args
  <2>3. evts' = Append(evts, l)
    BY <1>3 DEF FwCancel
  <2>4. evts' \in Seq(Lines)
    BY <2>1, <2>3, AppendOf DEF Types
  <2> QED
    BY <1>0, <1>3, <2>4 DEF FwCancel, Types, Switching, wireVars, askVars, planeVars, serverVars
<1>4. CASE FwGivesUp
  BY <1>0, <1>4 DEF FwGivesUp, Types, Switching, wireVars, askVars, planeVars, serverVars
<1>5. CASE FwSelect
  <2>0. PICK m \in Model : evts' = Append(evts, Line("select", 0, 0, 0, m))
    BY <1>5 DEF FwSelect
  <2>1. Line("select", 0, 0, 0, m) \in Lines
    BY LineIs DEF Verbs, Args
  <2>4. evts' \in Seq(Lines)
    BY <2>0, <2>1, AppendOf DEF Types
  <2> QED
    BY <1>5, <2>4 DEF FwSelect, Types, Switching, wireVars, askVars, planeVars, serverVars
<1> QED
  BY <1>1, <1>2, <1>3, <1>4, <1>5 DEF Device

\* What the children and the plane do beside the worker and the wire.
Beside == ServerDies \/ ChildUp \/ Monitor \/ LoadStarts \/ LoadFails \/ PlaneUp
Apart == UNCHANGED <<fwVars, wireVars, cmd, askVars, gen, at, held, active, cfg, switch>>

LEMMA ApartIs ==
    ASSUME Beside
    PROVE  /\ Apart /\ (plane' = plane \/ plane # "attaching")
           /\ loads' = loads \/ (LoadStarts /\ loads' = loads + 1)
<1>1. CASE ServerDies \/ ChildUp
  BY <1>1 DEF ServerDies, ChildUp, planeVars, Apart
<1>2. CASE Monitor
  BY <1>2 DEF Monitor, MonitorRestarts, MonitorGivesUp, planeVars, Apart
<1>3. CASE LoadStarts
  BY <1>3 DEF LoadStarts, Apart
<1>4. CASE LoadFails \/ PlaneUp
  BY <1>4 DEF LoadFails, PlaneUp, serverVars, Apart
<1> QED
  BY <1>1, <1>2, <1>3, <1>4 DEF Beside

\* Lost lines, dead children, lost links; a monitor, a reload, a new epoch.
LEMMA TroubleTypes ==
    ASSUME Types, Trouble \/ Beside \/ LoadDone \/ Reconnect
    PROVE  Types'
<1>1. CASE LoseLine
  <2>1. tx' \in Seq(Lines)
    BY <1>1, TailOf DEF LoseLine, Types
  <2> QED
    BY <1>1, <2>1 DEF LoseLine, Types, Switching, fwVars, askVars, planeVars, serverVars
<1>2. CASE LoseReply
  <2>1. rx' \in Seq(Replies)
    BY <1>2, TailOf DEF LoseReply, Types
  <2> QED
    BY <1>2, <2>1 DEF LoseReply, Types, Switching, fwVars, askVars, planeVars, serverVars
<1>3. CASE LineDamaged
  <2>1. tx' \in Seq(Lines)
    BY <1>3, TailOf DEF LineDamaged, Types
  <2>2. rx' \in Seq(Replies)
    BY <1>3, AppendOf DEF LineDamaged, Types, Replies
  <2> QED
    BY <1>3, <2>1, <2>2 DEF LineDamaged, Types, Switching, fwVars, askVars, planeVars, serverVars
<1>4. CASE Beside
  <2>1. Apart /\ loads' \in Nat
    BY <1>4, ApartIs DEF Types
  <2> QED
    BY <2>1 DEF Apart, Types, Switching, fwVars, wireVars, askVars
<1>5. CASE LinkLost
  <2>1. Over \in Latches
    BY OverIs
  <2>2. cmd' \in [Senders -> Cmds]
    BY <1>5, NoCmdIs DEF LinkLost
  <2>3. /\ tx' = <<>> /\ rx' = <<>> /\ evts' = <<>> /\ queue' = <<>> /\ wire' = Idle /\ at' = "down"
        /\ gen' = NoGen /\ fw' = Over /\ switch' = NoSwitch /\ loads' = loads /\ held' = held
        /\ late' = late /\ short' = short /\ active' = active /\ cfg' = cfg
    BY <1>5 DEF LinkLost
  <2>4. <<>> \in Seq(Lines) /\ <<>> \in Seq(Replies) /\ "down" \in Places /\ ~Switching'
        /\ NoSwitch \in Switches
    BY <2>3 DEF Places, Switching, NoSwitch, Switches, Maybe
  <2> QED
    BY <2>1, <2>2, <2>3, <2>4, NoGenIs DEF Types
<1>6. CASE LoadDone
  <2>1. Ready(cfg) \in Lines /\ "attach" \in Senders
    BY ReadyIs, ModelAssumption DEF Types, Args, Senders
  <2>2. cmd' \in [Senders -> Cmds]
    BY <1>6, <2>1, SendsIs DEF LoadDone
  <2> QED
    BY <1>6, <2>2, ModelAssumption DEF LoadDone, Types, Switching, fwVars, wireVars, askVars
<1>7. CASE Reconnect
  <2>1. cmd' \in [Senders -> Cmds] /\ at' = "sending" /\ "sending" \in Places
    BY <1>7, NoCmdIs, CmdOf, SendsIs DEF Reconnect, WorkerSends, Places
  <2> QED
    BY <1>7, <2>1 DEF Reconnect, Types, Switching, fwVars, wireVars, askVars, planeVars, serverVars
<1> QED
  BY <1>1, <1>2, <1>3, <1>4, <1>5, <1>6, <1>7 DEF Trouble, Beside

\* An event is routed.
LEMMA SubmitTypes == ASSUME Types, SubmitEvent PROVE Types'
<1>1. Head(evts) \in Lines /\ Tail(evts) \in Seq(Lines)
  <2>1. evts # <<>> /\ evts \in Seq(Lines)
    BY DEF SubmitEvent, Types
  <2> QED
    BY <2>1, TailOf
<1>2. queue' = queue \/ queue' = Append(queue, Head(evts))
  BY DEF SubmitEvent
<1>3. queue' \in Seq(Lines)
  <2>1. queue \in Seq(Lines)
    BY DEF Types
  <2> QED
    BY <1>1, <1>2, <2>1
<1>4. gen' = gen \/ gen' = [gen EXCEPT !.stop = TRUE]
  BY DEF SubmitEvent
<1>5. gen' \in Gens
  BY <1>4 DEF Types, Gens
<1>6. /\ evts' \in Seq(Lines) /\ fw' = fw /\ cmd' = cmd /\ at' = at
      /\ UNCHANGED wireVars /\ UNCHANGED planeVars /\ UNCHANGED serverVars
  BY <1>1 DEF SubmitEvent
<1> QED
  BY <1>3, <1>5, <1>6 DEF Types, Switching, wireVars, planeVars, serverVars

\* The worker's steps.
LEMMA AskTypes == ASSUME Types, AskRefused \/ AskStarted PROVE Types'
<1>1. /\ queue # <<>> /\ queue' = Tail(queue) /\ Head(queue) \in Lines /\ Tail(queue) \in Seq(Lines)
      /\ Head(queue).turn \in Nat
  <2>1. queue # <<>> /\ queue' = Tail(queue) /\ queue \in Seq(Lines)
    BY DEF AskRefused, AskStarted, Takes, Types
  <2>2. Head(queue) \in Lines /\ Tail(queue) \in Seq(Lines)
    BY <2>1, TailOf
  <2> QED
    BY <2>1, <2>2 DEF Lines
<1>2. CASE AskRefused
  <2> DEFINE status == IF Contains(cancelled, Head(queue).turn) THEN "stopped" ELSE "error"
             l == Line("end", Head(queue).turn, 0, 0, status)
  <2>1. l \in Lines
    BY <1>1, LineIs DEF Verbs, Args
  <2>2. WorkerSends(l)
    BY <1>2 DEF AskRefused
  <2> HIDE DEF l
  <2>3. cmd' \in [Senders -> Cmds] /\ at' = "sending" /\ "sending" \in Places
    BY <2>1, <2>2, CmdOf, SendsIs DEF WorkerSends, Places
  <2> QED
    BY <1>1, <1>2, <2>3 DEF AskRefused, Types, Switching, fwVars, wireVars, planeVars, serverVars
<1>3. CASE AskStarted
  <2>1. gen' \in Gens /\ at' \in Places
    BY <1>1, <1>3 DEF AskStarted, Gens, NoGen, Places
  <2> QED
    BY <1>1, <1>3, <2>1 DEF AskStarted, Types, Switching, fwVars, wireVars, planeVars, serverVars
<1> QED
  BY <1>2, <1>3

LEMMA PushTypes ==
    ASSUME Types, NEW text \in BOOLEAN, NEW last \in BOOLEAN, Push(text, last)
    PROVE  Types'
<1> DEFINE n == IF text THEN gen.text + 1 ELSE gen.text
           l == Line("push", gen.turn, gen.seq, IF text THEN gen.text + 1 ELSE 0, NoModel)
<1>1. n \in Nat /\ gen.turn \in Nat /\ gen.seq \in Nat /\ gen.text \in Nat
  BY DEF Types, Gens
<1>2. l \in Lines
  BY <1>1, LineIs DEF Verbs, Args
<1>3. WorkerSends(l)
  BY DEF Push
<1>4. gen' = [gen EXCEPT !.text = n, !.last = last]
  BY DEF Push
<1> HIDE DEF l, n
<1>5. cmd' \in [Senders -> Cmds] /\ at' = "sending" /\ "sending" \in Places
  BY <1>2, <1>3, CmdOf, SendsIs DEF WorkerSends, Places
<1>6. gen' \in Gens
  BY <1>1, <1>4 DEF Types, Gens
<1> QED
  BY <1>5, <1>6 DEF Push, Types, Switching, fwVars, wireVars, askVars, planeVars, serverVars

LEMMA StreamTypes == ASSUME Types, StreamEnds PROVE Types'
<1>1. PICK status \in {"stopped", "ok", "error"} : WorkerSends(Closing(status))
  BY DEF StreamEnds
<1>2. Closing(status) \in Lines
  BY ClosingIs
<1>3. cmd' \in [Senders -> Cmds] /\ at' = "sending" /\ "sending" \in Places
  BY <1>1, <1>2, CmdOf, SendsIs DEF WorkerSends, Places
<1> QED
  BY <1>3, NoGenIs DEF StreamEnds, Types, Switching, fwVars, wireVars, askVars, planeVars, serverVars

LEMMA SelectTypes ==
    ASSUME Types, SelectRefused \/ SelectLoaded \/ SwitchModel
    PROVE  Types'
<1>1. /\ queue # <<>> /\ queue' = Tail(queue) /\ Tail(queue) \in Seq(Lines)
  BY TailOf DEF SelectRefused, SelectLoaded, SwitchModel, Takes, Types
<1>2. CASE SelectRefused
  <2>3. cmd' \in [Senders -> Cmds] /\ at' = "sending" /\ "sending" \in Places
    BY <1>2, NoCmdIs, CmdOf, SendsIs DEF SelectRefused, WorkerSends, Places
  <2> QED
    BY <1>1, <1>2, <2>3 DEF SelectRefused, Types, Switching, fwVars, wireVars, planeVars, serverVars
<1>3. CASE SelectLoaded
  <2> DEFINE l == IF Wanted = active THEN Ready(active) ELSE Models
  <2>1. l \in Lines
    BY NoCmdIs, ReadyIs DEF Types, Args
  <2>2. WorkerSends(l)
    BY <1>3 DEF SelectLoaded
  <2> HIDE DEF l
  <2>3. cmd' \in [Senders -> Cmds] /\ at' = "sending" /\ "sending" \in Places
    BY <2>1, <2>2, CmdOf, SendsIs DEF WorkerSends, Places
  <2>4. active' \in Model
    BY <1>3, ModelAssumption DEF SelectLoaded
  <2> QED
    BY <1>1, <1>3, <2>3, <2>4 DEF SelectLoaded, Types, Switching, fwVars, wireVars, serverVars
<1>4. CASE SwitchModel
  <2>1. /\ at' \in Places /\ switch' \in Switches /\ switch'.path \in OnHost
        /\ switch'.previous \in OnHost
    BY <1>4, ModelAssumption DEF SwitchModel, Types, Places, Switches, Maybe
  <2> QED
    BY <1>1, <1>4, <2>1 DEF SwitchModel, Types, Switching, fwVars, wireVars, planeVars
<1> QED
  BY <1>2, <1>3, <1>4

LEMMA SpawnTypes ==
    ASSUME Types, SwitchSpawns \/ Started \/ SpawnFails \/ RestoreFails
    PROVE  Types'
<1>1. CASE Started \/ RestoreFails
  <2>1. cmd' \in [Senders -> Cmds] /\ at' = "sending" /\ "sending" \in Places
    BY <1>1, NoCmdIs, CmdOf, SendsIs DEF Started, RestoreFails, WorkerSends, Places
  <2>2. active' \in Model /\ cfg' = cfg /\ switch' \in Switches /\ ~Switching'
    BY <1>1, <2>1, ModelAssumption
    DEF Started, RestoreFails, Types, NoSwitch, Switches, Maybe, Switching
  <2> QED
    BY <1>1, <2>1, <2>2 DEF Started, RestoreFails, Types, fwVars, wireVars, askVars
<1>2. CASE SwitchSpawns \/ SpawnFails
  <2>1. Switching /\ cfg' \in OnHost /\ at' \in Places /\ switch' = switch
    BY <1>2 DEF SwitchSpawns, SpawnFails, Types, Switching, Places
  <2> QED
    BY <1>2, <2>1 DEF SwitchSpawns, SpawnFails, Types, fwVars, wireVars, askVars, planeVars
<1> QED
  BY <1>1, <1>2

LEMMA WriteTypes == ASSUME Types, NEW who \in Senders, Write(who) PROVE Types'
<1>1. tx' \in Seq(Lines)
  BY CmdOf, AppendOf DEF Write, Types
<1> QED
  BY <1>1 DEF Write, Types, Switching, fwVars, planeVars, serverVars

\* What a reply, or the end of the wait for one, is to the sender.
Heard(who, good) ==
    /\ wire = who /\ tx' = tx
    /\ \/ rx # <<>> /\ rx' = Tail(rx) /\ (good => Head(rx) = "ok")
       \/ rx = <<>> /\ rx' = rx /\ ~good

LEMMA ReplyIs ==
    ASSUME Types, NEW who \in Senders, Reply(who)
    PROVE  \E good \in BOOLEAN :
             /\ Heard(who, good) /\ rx' \in Seq(Replies)
             /\ Settled(who, good) \/ (Again(who) /\ ~good)
<1>1. CASE Answered(who)
  <2>1. rx # <<>> /\ Head(rx) \in Replies /\ rx' = Tail(rx) /\ rx' \in Seq(Replies)
    BY <1>1, TailOf DEF Answered, Types
  <2>2. CASE Head(rx) = "ok"
    <3>1. Settled(who, TRUE)
      BY <1>1, <2>2 DEF Answered
    <3> QED
      BY <1>1, <2>1, <2>2, <3>1 DEF Answered, Heard
  <2>3. CASE Head(rx) # "ok"
    <3>1. Settled(who, FALSE) \/ Again(who)
      BY <1>1, <2>1, <2>3 DEF Answered, Replies
    <3> QED
      BY <1>1, <2>1, <2>3, <3>1 DEF Answered, Heard
  <2> QED
    BY <2>2, <2>3
<1>2. CASE TimedOut(who)
  <2>1. Settled(who, FALSE) \/ Again(who)
    BY <1>2 DEF TimedOut
  <2> QED
    BY <1>2, <2>1 DEF TimedOut, Heard, Types
<1> QED
  BY <1>1, <1>2 DEF Reply

LEMMA ReplyTypes == ASSUME Types, NEW who \in Senders, Reply(who) PROVE Types'
<1>1. PICK good \in BOOLEAN :
             /\ Heard(who, good) /\ rx' \in Seq(Replies)
             /\ Settled(who, good) \/ (Again(who) /\ ~good)
  BY ReplyIs
<1>2. tx' \in Seq(Lines) /\ rx' \in Seq(Replies)
  BY <1>1 DEF Heard, Types
<1>3. CASE Again(who)
  <2>1. cmd' \in [Senders -> Cmds] /\ wire' = Idle
    BY <1>3, AgainIs DEF Again
  <2> QED
    BY <1>2, <1>3, <2>1 DEF Again, Types, Switching, fwVars, askVars, planeVars, serverVars
<1>4. CASE Settled(who, good)
  <2>1. wire' = Idle /\ UNCHANGED <<fwVars, short, late, askVars, loads, held, active, serverVars>>
    BY <1>4 DEF Settled
  <2>2. cmd' \in [Senders -> Cmds] /\ at' \in Places /\ gen' \in Gens
        /\ (at' = at \/ at' \in {"sending", "idle", "stream"})
    <3>0. "sending" \in Places /\ "idle" \in Places /\ "stream" \in Places /\ at \in Places
         /\ gen \in Gens
      BY DEF Places, Types
    <3>1. CASE Announced(who)
      <4>1. Ready(active) \in Lines
        BY ReadyIs DEF Types, Args
      <4> QED
        BY <3>0, <3>1, <4>1, CmdOf, SendsIs DEF Announced, WorkerSends
    <3>2. CASE PushedOn(who, good)
      <4>1. gen' \in Gens
        <5>1. gen.seq + 1 \in Nat
          BY <3>0 DEF Gens
        <5>2. gen' = [gen EXCEPT !.seq = gen.seq + 1]
          BY <3>2 DEF PushedOn
        <5> QED
          BY <3>0, <5>1, <5>2 DEF Gens
      <4> QED
        BY <3>0, <3>2, <4>1, NoCmdIs, CmdIs DEF PushedOn
    <3>3. CASE Closed(who, good)
      <4>1. Closing("ok") \in Lines /\ Closing("error") \in Lines
        BY ClosingIs
      <4> QED
        BY <3>0, <3>3, <4>1, NoGenIs, CmdOf, SendsIs DEF Closed, WorkerSends
    <3>4. CASE SentOff(who)
      BY <3>0, <3>4, NoCmdIs, CmdIs DEF SentOff, Types
    <3> QED
      BY <1>4, <3>1, <3>2, <3>3, <3>4, SettledIs
  <2> QED
    BY <1>2, <2>1, <2>2 DEF Types, Switching, fwVars, askVars, serverVars
<1> QED
  BY <1>1, <1>3, <1>4

-----------------------------------------------------------------------------
(* What the answer's part of the invariant says after a step.                *)

\* The counted pushes of the turn begun last.
Teller(last, size, c) ==
    /\ Types /\ Types' /\ Placed
    /\ last \in Nat /\ size \in Nat /\ c \in [Nat -> Nat]
    /\ Tale(last, size, c)

\* Neither the wire nor the turn moves; what is due may.
LEMMA QuietKeeps ==
    ASSUME NEW last, NEW size, NEW c, Teller(last, size, c),
           UNCHANGED <<fw, tx, rx, wire, late, short, cmd, at>>,
           plane' = plane \/ plane # "attaching",
           gen'.turn = gen.turn, gen'.seq = gen.seq, gen'.text = gen.text,
           Due(queue', evts', last, fw.turn)
    PROVE  Placed' /\ Tale(last, size, c)'
<1>1. Placed'
  BY DEF Teller, Placed, Mid, Draft
<1>2. Drafted(last, size, c)' /\ Written(last, size, c)' /\ Applied(last, size, c)'
  BY DEF Teller, Tale, Drafted, Written, Applied, Mid, Draft
<1>3. (~late => Prompt(last, size) /\ ~short)'
  BY DEF Teller, Tale, Prompt, Whole, Mid, Draft
<1> QED
  BY <1>1, <1>2, <1>3 DEF Teller, Tale

\* The worker leaves for a place without a turn and without a line.
LEMMA AsideKeeps ==
    ASSUME NEW last, NEW size, NEW c, Teller(last, size, c),
           UNCHANGED <<fw, tx, rx, wire, late, short, cmd, gen, plane>>,
           at # "sending", gen.turn = 0, at' \notin {"sending", "stream"},
           Due(queue', evts', last, fw.turn)
    PROVE  Placed' /\ Tale(last, size, c)'
<1>1. Placed'
  BY DEF Teller, Placed, Mid, Draft
<1>2. Drafted(last, size, c)' /\ Written(last, size, c)' /\ Applied(last, size, c)'
  BY DEF Teller, Tale, Drafted, Written, Applied, Mid, Draft
<1>3. (~late => Prompt(last, size) /\ ~short)'
  BY DEF Teller, Tale, Prompt, Whole, Mid, Draft
<1> QED
  BY <1>1, <1>2, <1>3 DEF Teller, Tale

\* A line that neither carries nor closes an answer.
Plain(l) == l \in Lines /\ l.verb # "push" /\ ~(l.verb = "end" /\ l.arg = "ok")

\* The worker takes one up.
LEMMA PlainKeeps ==
    ASSUME NEW last, NEW size, NEW c, Teller(last, size, c), NEW l,
           UNCHANGED <<fw, tx, rx, wire, late, short, gen>>,
           at # "sending", gen.turn = 0, Plain(l), WorkerSends(l), plane' = plane,
           Due(queue', evts', last, fw.turn)
    PROVE  Placed' /\ Tale(last, size, c)'
<1>1. /\ cmd' \in [Senders -> Cmds] /\ cmd'["worker"].line = l /\ cmd'["worker"].tries = 1
      /\ cmd'["attach"] = cmd["attach"] /\ at' = "sending"
  BY SendsIs, CmdOf DEF WorkerSends, Plain, Teller
<1>2. wire # Idle => wire = "attach" /\ cmd'[wire] = cmd[wire]
  BY <1>1 DEF Teller, Types, Placed, Senders, Cmds
<1>3. Placed'
  BY <1>1, <1>2 DEF Teller, Placed, Mid, Draft, Plain
<1>4. Drafted(last, size, c)' /\ Written(last, size, c)' /\ Applied(last, size, c)'
  BY <1>1 DEF Teller, Tale, Drafted, Written, Honest, Applied, Mid, Draft, Plain
<1>5. (~late => Prompt(last, size) /\ ~short)'
  <2> SUFFICES ASSUME ~late PROVE Prompt(last, size)' /\ ~short
    BY DEF Teller
  <2>0. Prompt(last, size) /\ ~short
    BY DEF Teller, Tale
  <2>1. tx # <<>> => Head(tx).verb # "push"
    BY <2>0 DEF Prompt
  <2>2. (wire # Idle /\ tx # <<>> => Head(tx) = cmd[wire].line)'
    BY <1>2, <2>0 DEF Prompt
  <2>3. Whole(Draft, fw)'
    BY <1>1 DEF Whole, Draft, Plain
  <2> QED
    BY <1>1, <2>0, <2>1, <2>2, <2>3 DEF Prompt, Whole, Mid, Draft, Plain
<1> QED
  BY <1>3, <1>4, <1>5 DEF Teller, Tale

\* Nobody's line is on the wire and nothing is under way.
LEMMA LostKeeps ==
    ASSUME NEW last, NEW size, NEW c, Teller(last, size, c), LinkLost
    PROVE  Placed' /\ Tale(last, size, c)'
<1>1. /\ at' = "down" /\ tx' = <<>> /\ rx' = <<>> /\ evts' = <<>> /\ wire' = Idle /\ queue' = <<>>
      /\ gen' = NoGen /\ fw' = Over /\ late' = late /\ short' = short
      /\ cmd' = [s \in Senders |-> NoCmd]
  BY DEF LinkLost
<1>2. cmd'["worker"] = NoCmd /\ cmd'["attach"] = NoCmd /\ Draft' = Models /\ Models.verb = "models"
  BY <1>1, NoCmdIs DEF Senders, Draft
<1>3. /\ fw'.turn = fw.turn /\ fw'.open = FALSE /\ fw'.next = 0 /\ fw'.got = <<>>
      /\ fw.turn \in Nat
  BY <1>1, OverIs DEF Teller
<1>4. Placed'
  BY <1>1, <1>2, NoCmdIs, NoGenIs DEF Placed, Mid
<1>5. Due(queue', evts', last, fw'.turn)
  BY <1>1, <1>3, DueNone DEF Teller, Tale, Due
<1>6. Drafted(last, size, c)' /\ Written(last, size, c)'
  BY <1>1, NoGenIs DEF Drafted, Written, Mid, Range
<1>7. Applied(last, size, c)'
  BY <1>3 DEF Teller, Tale, Applied, Counted
<1>8. (~late => Prompt(last, size) /\ ~short)'
  BY <1>1, <1>2, <1>3 DEF Teller, Tale, Prompt, Mid
<1> QED
  BY <1>4, <1>5, <1>6, <1>7, <1>8 DEF Teller, Tale

\* A turn that is over shows nothing of the answer.
LEMMA OverKeeps ==
    ASSUME NEW last, NEW size, NEW c, Teller(last, size, c),
           fw' = Over, UNCHANGED <<tx, rx, wire, late, short, cmd, gen, at, plane>>,
           Due(queue', evts', last, fw.turn)
    PROVE  Placed' /\ Tale(last, size, c)'
<1>1. fw'.turn = fw.turn /\ fw'.open = FALSE /\ fw'.next = 0 /\ fw'.got = <<>>
  BY OverIs DEF Teller
<1>2. Placed'
  BY DEF Teller, Placed, Mid, Draft
<1>3. Drafted(last, size, c)' /\ Written(last, size, c)'
  BY DEF Teller, Tale, Drafted, Written, Mid, Draft
<1>4. Applied(last, size, c)'
  BY <1>1 DEF Teller, Tale, Applied, Counted
<1>5. (~late => Prompt(last, size) /\ ~short)'
  BY <1>1 DEF Teller, Tale, Prompt, Whole, Mid, Draft
<1> QED
  BY <1>1, <1>2, <1>3, <1>4, <1>5 DEF Teller, Tale

\* The device mints a turn, cancels it, gives it up, or selects a model.
LEMMA MintKeeps ==
    ASSUME NEW last, NEW size, NEW c, Teller(last, size, c), FwAsk
    PROVE  Placed' /\ Tale(last, size, c)'
<1> DEFINE l == Line("ask", fw.turn + 1, 0, 0, NoModel)
<1>0. fw.turn \in Nat /\ last \in Nat /\ last <= fw.turn
  BY OverIs DEF Teller, Tale, Due
<1>1. l \in Lines /\ l.turn = fw.turn + 1
  BY <1>0, LineIs DEF Verbs, Args
<1>2. /\ fw'.turn = fw.turn + 1 /\ fw'.open = TRUE /\ fw'.next = 0 /\ fw'.got = <<>>
      /\ evts' = Append(evts, l) /\ queue' = queue
      /\ UNCHANGED <<tx, rx, wire, late, short, cmd, gen, at, plane>>
  BY DEF FwAsk, wireVars, askVars, planeVars
<1> HIDE DEF l
<1>3. Due(queue', evts', last, fw'.turn)
  <2>1. queue \in Seq(Lines) /\ evts \in Seq(Lines) /\ Due(queue, evts, last, fw.turn)
    BY DEF Teller, Types, Tale
  <2>2. Due(queue, Append(evts, l), last, fw.turn + 1)
    BY <1>0, <1>1, <2>1, DueMint DEF Teller
  <2> QED
    BY <1>2, <2>2
<1>4. Placed'
  BY <1>2 DEF Teller, Placed, Mid, Draft
<1>5. Drafted(last, size, c)' /\ Written(last, size, c)'
  BY <1>2 DEF Teller, Tale, Drafted, Written, Mid, Draft
<1>6. Applied(last, size, c)'
  <2>1. fw'.turn # last
    <3>1. fw'.turn = fw.turn + 1
      BY <1>2
    <3> QED
      BY <1>0, <3>1
  <2> QED
    BY <1>2, <2>1 DEF Applied
<1>7. (~late => Prompt(last, size) /\ ~short)'
  <2> SUFFICES ASSUME ~late PROVE Prompt(last, size)' /\ ~short'
    BY <1>2
  <2>1. Prompt(last, size) /\ ~short
    BY DEF Teller, Tale
  <2>2. ASSUME NEW x, Honest(x, last, size, c), x \in Lines PROVE Whole(x, fw')
    <3>1. x.turn \in Nat
      BY <2>2 DEF Lines
    <3>2. x.turn <= last => fw'.turn # x.turn
      <4>1. fw'.turn = fw.turn + 1
        BY <1>2
      <4> QED
        BY <1>0, <3>1, <4>1
    <3> QED
      BY <2>2, <3>2 DEF Honest, Whole
  <2>3. tx # <<>> => Whole(Head(tx), fw)'
    <3>1. tx # <<>> => Head(tx) \in Lines /\ Head(tx) \in Range(tx)
      BY TailOf DEF Teller, Types
    <3> QED
      BY <1>2, <2>2, <3>1 DEF Teller, Tale, Written
  <2>4. at = "sending" => Whole(Draft, fw)'
    <3>1. Draft' = Draft /\ Draft \in Lines
      BY <1>2, CmdOf DEF Draft, Teller
    <3>2. at = "sending" => Whole(Draft, fw')
      BY <2>2, <3>1 DEF Teller, Tale, Written
    <3> QED
      BY <3>1, <3>2
  <2>5. fw'.turn # last
    <3>1. fw'.turn = fw.turn + 1
      BY <1>2
    <3> QED
      BY <1>0, <3>1
  <2> QED
    BY <1>2, <2>1, <2>3, <2>4, <2>5 DEF Prompt, Mid, Draft, Whole
<1> QED
  BY <1>3, <1>4, <1>5, <1>6, <1>7 DEF Teller, Tale

LEMMA DeviceKeeps ==
    ASSUME NEW last, NEW size, NEW c, Teller(last, size, c), FwAsk \/ FwCancel \/ FwGivesUp \/ FwSelect
    PROVE  Placed' /\ Tale(last, size, c)'
<1>0. /\ queue \in Seq(Lines) /\ evts \in Seq(Lines) /\ Due(queue, evts, last, fw.turn)
      /\ fw.turn \in Nat /\ last \in Nat
  BY OverIs DEF Teller, Types, Tale
<1>1. CASE FwCancel
  <2> DEFINE l == Line("cancel", fw.turn, 0, 0, NoModel)
  <2>1. l \in Lines /\ l.verb # "ask"
    BY <1>0, LineIs DEF Verbs, Args
  <2>2. evts' = Append(evts, l) /\ queue' = queue
    BY <1>1 DEF FwCancel, askVars
  <2> HIDE DEF l
  <2>3. Due(queue', evts', last, fw.turn)
    BY <1>0, <2>1, <2>2, DueOther
  <2>4. fw' = Over /\ UNCHANGED <<tx, rx, wire, late, short, cmd, gen, at, plane>>
    BY <1>1 DEF FwCancel, wireVars, planeVars
  <2> QED
    BY <2>3, <2>4, OverKeeps
<1>2. CASE FwGivesUp
  <2>1. Due(queue', evts', last, fw.turn)
    BY <1>0, <1>2 DEF FwGivesUp, askVars
  <2>2. fw' = Over /\ UNCHANGED <<tx, rx, wire, late, short, cmd, gen, at, plane>>
    BY <1>2 DEF FwGivesUp, wireVars, planeVars
  <2> QED
    BY <2>1, <2>2, OverKeeps
<1>3. CASE FwSelect
  <2>0. PICK m \in Model : evts' = Append(evts, Line("select", 0, 0, 0, m))
    BY <1>3 DEF FwSelect
  <2> DEFINE l == Line("select", 0, 0, 0, m)
  <2>1. l \in Lines /\ l.verb # "ask"
    BY LineIs DEF Verbs, Args
  <2>2. evts' = Append(evts, l) /\ queue' = queue
    BY <1>3, <2>0 DEF FwSelect, askVars
  <2> HIDE DEF l
  <2>3. Due(queue', evts', last, fw.turn)
    BY <1>0, <2>1, <2>2, DueOther
  <2>4. /\ UNCHANGED <<fw, tx, rx, wire, late, short, cmd, at, plane>>
        /\ gen'.turn = gen.turn /\ gen'.seq = gen.seq /\ gen'.text = gen.text
    BY <1>3 DEF FwSelect, wireVars, planeVars
  <2> QED
    BY <2>3, <2>4, QuietKeeps
<1> QED
  BY <1>1, <1>2, <1>3, MintKeeps

\* A push in sequence says the next chunk, and the device has it now.
LEMMA PushApplied ==
    ASSUME NEW last, NEW size, NEW c, Teller(last, size, c), NEW l, l \in Range(tx), l \in Lines,
           l.verb = "push", fw.open, l.turn = fw.turn, l.seq = fw.next
    PROVE  LET got == IF l.text = 0 THEN fw.got ELSE Append(fw.got, l.text) IN
           /\ fw.turn = last /\ fw.next + 1 <= size
           /\ got \in Seq(Nat) /\ Len(got) = c[fw.next + 1] /\ \A i \in DOMAIN got : got[i] = i
<1> DEFINE got == IF l.text = 0 THEN fw.got ELSE Append(fw.got, l.text)
<1>1. fw.turn \in Nat /\ fw.next \in Nat /\ fw.got \in Seq(Nat) /\ Len(fw.got) \in Nat
      /\ DOMAIN fw.got = 1 .. Len(fw.got) /\ l.text \in Nat /\ l.seq \in Nat /\ l.turn \in Nat
      /\ last \in Nat /\ size \in Nat
  <2>1. fw.turn \in Nat /\ fw.next \in Nat /\ fw.got \in Seq(Nat)
    BY OverIs DEF Teller
  <2>2. Len(fw.got) \in Nat /\ DOMAIN fw.got = 1 .. Len(fw.got)
    BY <2>1, LenProperties
  <2> QED
    BY <2>1, <2>2 DEF Teller, Lines
<1>2. Honest(l, last, size, c) /\ last <= fw.turn
  BY DEF Teller, Tale, Written, Due
<1>3. fw.turn = last /\ l.seq < size /\ l.text = IF c[l.seq + 1] = c[l.seq] THEN 0 ELSE c[l.seq + 1]
  BY <1>1, <1>2 DEF Honest
<1>4. Len(fw.got) = c[fw.next] /\ \A i \in DOMAIN fw.got : fw.got[i] = i
  BY <1>3 DEF Teller, Tale, Applied
<1>5. c[fw.next + 1] = c[fw.next] \/ c[fw.next + 1] = c[fw.next] + 1
  BY <1>1, <1>3 DEF Teller, Tale, Counted
<1>6. fw.next + 1 <= size
  BY <1>1, <1>3
<1>7. CASE c[fw.next + 1] = c[fw.next]
  BY <1>1, <1>3, <1>4, <1>6, <1>7
<1>8. CASE c[fw.next + 1] = c[fw.next] + 1
  <2>1. l.text = Len(fw.got) + 1 /\ c[fw.next + 1] = Len(fw.got) + 1
    BY <1>1, <1>3, <1>4, <1>8
  <2>2. got = Append(fw.got, l.text)
    BY <1>1, <2>1
  <2>3. /\ got \in Seq(Nat) /\ Len(got) = Len(fw.got) + 1 /\ DOMAIN got = 1 .. Len(fw.got) + 1
        /\ \A i \in DOMAIN fw.got : got[i] = fw.got[i]
        /\ got[Len(fw.got) + 1] = l.text
    BY <1>1, <2>2, AppendOf
  <2> QED
    BY <1>1, <1>3, <1>4, <1>6, <2>1, <2>3
<1> QED
  BY <1>5, <1>7, <1>8

\* What a handled line does to the turn.
PushTaken(l) ==
    /\ l.verb = "push" /\ fw.open /\ l.turn = fw.turn /\ l.seq = fw.next
    /\ fw' = [fw EXCEPT !.next = fw.next + 1,
                        !.got = IF l.text = 0 THEN fw.got ELSE Append(fw.got, l.text)]
TurnEnded(l) ==
    /\ fw.open /\ l.turn = fw.turn /\ (l.verb = "end" \/ (l.verb = "push" /\ l.seq > fw.next))
    /\ fw' = Over
LineIgnored(l) ==
    /\ l.verb = "push" /\ fw.open /\ l.turn = fw.turn => ~(l.seq = fw.next \/ l.seq > fw.next)
    /\ l.verb = "end" => ~(fw.open /\ l.turn = fw.turn)
    /\ fw' = fw

LEMMA HandlesIs ==
    ASSUME Types, FwHandles
    PROVE  LET l == Head(tx) IN
           /\ l \in Lines /\ l \in Range(tx)
           /\ tx # <<>> /\ tx' = Tail(tx)
           /\ PushTaken(l) \/ TurnEnded(l) \/ LineIgnored(l)
           /\ rx' = Append(rx, "ok") \/ rx' = Append(rx, "error")
           /\ l.verb = "push" /\ ~(fw.open /\ l.turn = fw.turn /\ l.seq <= fw.next)
                 => rx' = Append(rx, "error")
           /\ short' = (short \/ (l.verb = "end" /\ fw.open /\ l.turn = fw.turn /\ l.arg = "ok"
                                  /\ Len(fw.got) # l.text))
           /\ UNCHANGED <<evts, wire, late, cmd, queue, gen, at, plane>>
<1> DEFINE l == Head(tx)
<1>0. l \in Lines /\ l \in Range(tx) /\ l.seq \in Nat /\ fw.next \in Nat
  <2>1. tx # <<>> /\ tx \in Seq(Lines)
    BY DEF FwHandles, Types
  <2>2. l \in Lines /\ l \in Range(tx)
    BY <2>1, TailOf
  <2> QED
    BY <2>2, OverIs DEF Lines
<1>1. /\ tx # <<>> /\ tx' = Tail(tx)
      /\ rx' = Append(rx, "ok") \/ rx' = Append(rx, "error")
      /\ short' = (short \/ (l.verb = "end" /\ fw.open /\ l.turn = fw.turn /\ l.arg = "ok"
                             /\ Len(fw.got) # l.text))
      /\ UNCHANGED <<evts, wire, late, cmd, queue, gen, at, plane>>
  BY DEF FwHandles, askVars, planeVars
<1>2. l.verb = "push" /\ ~(fw.open /\ l.turn = fw.turn /\ l.seq <= fw.next)
         => rx' = Append(rx, "error")
  BY DEF FwHandles
<1>a. l.seq = fw.next => ~(l.seq > fw.next)
  BY <1>0
<1>3. PushTaken(l) \/ TurnEnded(l) \/ LineIgnored(l)
  <2>1. CASE l.verb = "push" /\ fw.open /\ l.turn = fw.turn /\ l.seq = fw.next
    <3>1. ~(l.verb = "end") /\ ~(l.seq > fw.next)
      BY <1>a, <2>1
    <3>2. fw' = [fw EXCEPT !.next = fw.next + 1,
                           !.got = IF l.text = 0 THEN fw.got ELSE Append(fw.got, l.text)]
      BY <1>0, <2>1, <3>1 DEF FwHandles
    <3> QED
      BY <2>1, <3>2 DEF PushTaken
  <2>2. CASE ~(l.verb = "push" /\ fw.open /\ l.turn = fw.turn /\ l.seq = fw.next)
             /\ fw.open /\ l.turn = fw.turn /\ (l.verb = "end" \/ (l.verb = "push" /\ l.seq > fw.next))
    <3>1. fw' = Over
      BY <1>0, <1>a, <2>2 DEF FwHandles
    <3> QED
      BY <2>2, <3>1 DEF TurnEnded
  <2>3. CASE ~(l.verb = "push" /\ fw.open /\ l.turn = fw.turn /\ l.seq = fw.next)
             /\ ~(fw.open /\ l.turn = fw.turn /\ (l.verb = "end" \/ (l.verb = "push" /\ l.seq > fw.next)))
    <3>1. fw' = fw
      BY <1>0, <2>3 DEF FwHandles
    <3> QED
      BY <2>3, <3>1 DEF LineIgnored
  <2> QED
    BY <2>1, <2>2, <2>3
<1> QED
  BY <1>0, <1>1, <1>2, <1>3

\* While nothing was late, a line on the wire is there alone.
LEMMA LineAlone ==
    ASSUME NEW last, NEW size, NEW c, Teller(last, size, c), ~late
    PROVE  /\ tx # <<>> => rx = <<>> /\ Tail(tx) = <<>>
           /\ rx # <<>> => tx = <<>> /\ Tail(rx) = <<>>
<1>1. tx \in Seq(Lines) /\ rx \in Seq(Replies) /\ Len(tx) + Len(rx) <= 1
  BY DEF Teller, Types, Tale, Prompt
<1>2. Len(tx) \in Nat /\ Len(rx) \in Nat
  BY <1>1, LenProperties
<1>3. ASSUME tx # <<>> PROVE rx = <<>> /\ Tail(tx) = <<>>
  <2>1. Len(tx) # 0 /\ Tail(tx) \in Seq(Lines) /\ Len(Tail(tx)) = Len(tx) - 1
    BY <1>1, <1>3, TailOf
  <2>2. Len(rx) = 0 /\ Len(Tail(tx)) = 0
    BY <1>1, <1>2, <2>1
  <2> QED
    BY <1>1, <2>1, <2>2, EmptySeq
<1>4. ASSUME rx # <<>> PROVE tx = <<>> /\ Tail(rx) = <<>>
  <2>1. Len(rx) # 0 /\ Tail(rx) \in Seq(Replies) /\ Len(Tail(rx)) = Len(rx) - 1
    BY <1>1, <1>4, TailOf
  <2>2. Len(tx) = 0 /\ Len(Tail(rx)) = 0
    BY <1>1, <1>2, <2>1
  <2> QED
    BY <1>1, <2>1, <2>2, EmptySeq
<1> QED
  BY <1>3, <1>4

\* Where the handled line leaves the device.
LEMMA HandledTurn ==
    ASSUME NEW last, NEW size, NEW c, Teller(last, size, c), FwHandles
    PROVE  /\ fw'.turn = fw.turn /\ (fw'.open => fw.open) /\ Applied(last, size, c)'
           /\ fw'.open => \/ PushTaken(Head(tx)) /\ fw'.next = fw.next + 1
                          \/ LineIgnored(Head(tx)) /\ fw' = fw
<1> DEFINE l == Head(tx)
           got == IF l.text = 0 THEN fw.got ELSE Append(fw.got, l.text)
<1>0. /\ l \in Lines /\ l \in Range(tx)
      /\ PushTaken(l) \/ TurnEnded(l) \/ LineIgnored(l)
  BY HandlesIs DEF Teller
<1>1. fw \in Latches /\ fw.next \in Nat
  BY OverIs DEF Teller
<1>2. CASE PushTaken(l)
  <2>0. fw' = [fw EXCEPT !.next = fw.next + 1, !.got = got]
    BY <1>2 DEF PushTaken
  <2>1. l.verb = "push" /\ fw.open /\ l.turn = fw.turn /\ l.seq = fw.next
    BY <1>2 DEF PushTaken
  <2>2. /\ fw.turn = last /\ fw.next + 1 <= size
        /\ got \in Seq(Nat) /\ Len(got) = c[fw.next + 1] /\ \A i \in DOMAIN got : got[i] = i
    <3>1. /\ l \in Range(tx) /\ l \in Lines /\ l.verb = "push" /\ fw.open /\ l.turn = fw.turn
          /\ l.seq = fw.next
      BY <1>0, <2>1
    <3> HIDE DEF l
    <3> QED
      BY <3>1, PushApplied
  <2> HIDE DEF got, l
  <2>3. fw'.turn = fw.turn /\ fw'.open = fw.open /\ fw'.next = fw.next + 1 /\ fw'.got = got
    <3>1. fw.next + 1 \in Nat
      BY <1>1
    <3> QED
      <4>1. LET moved == [fw EXCEPT !.next = fw.next + 1, !.got = got] IN
            /\ moved.turn = fw.turn /\ moved.open = fw.open
            /\ moved.next = fw.next + 1 /\ moved.got = got
        <5>1. fw \in Latches /\ fw.next + 1 \in Nat /\ got \in Seq(Nat)
          BY <1>1, <2>2, <3>1
        <5> QED
          BY <5>1 DEF Latches
      <4> QED
        BY <2>0, <4>1
  <2>4. Applied(last, size, c)'
    BY <2>1, <2>2, <2>3 DEF Applied
  <2> QED
    BY <1>2, <2>3, <2>4 DEF l
<1>3. CASE TurnEnded(l)
  <2>1. fw' = Over
    BY <1>3 DEF TurnEnded
  <2>2. fw'.turn = fw.turn /\ fw'.open = FALSE /\ fw'.next = 0 /\ fw'.got = <<>>
    BY <2>1, OverIs DEF Teller
  <2>3. Applied(last, size, c)'
    BY <2>2 DEF Teller, Tale, Applied, Counted
  <2> QED
    BY <2>2, <2>3
<1>4. CASE LineIgnored(l)
  <2>1. fw' = fw
    BY <1>4 DEF LineIgnored
  <2>2. Applied(last, size, c)'
    BY <2>1 DEF Teller, Tale, Applied
  <2> QED
    BY <1>4, <2>1, <2>2
<1> QED
  BY <1>0, <1>2, <1>3, <1>4

\* The device handles a line.
LEMMA HandlesKeeps ==
    ASSUME NEW last, NEW size, NEW c, Teller(last, size, c), FwHandles
    PROVE  Placed' /\ Tale(last, size, c)'
<1> DEFINE l == Head(tx)
<1>0. /\ tx # <<>> /\ tx' = Tail(tx) /\ l \in Lines /\ l \in Range(tx)
      /\ rx' = Append(rx, "ok") \/ rx' = Append(rx, "error")
      /\ l.verb = "push" /\ ~(fw.open /\ l.turn = fw.turn /\ l.seq <= fw.next)
            => rx' = Append(rx, "error")
      /\ short' = (short \/ (l.verb = "end" /\ fw.open /\ l.turn = fw.turn /\ l.arg = "ok"
                             /\ Len(fw.got) # l.text))
      /\ UNCHANGED <<evts, wire, late, cmd, queue, gen, at, plane>>
  BY HandlesIs DEF Teller
<1>1. /\ fw'.turn = fw.turn /\ (fw'.open => fw.open) /\ Applied(last, size, c)'
      /\ fw'.open => \/ PushTaken(l) /\ fw'.next = fw.next + 1
                     \/ LineIgnored(l) /\ fw' = fw
  BY HandledTurn
<1>2. Due(queue', evts', last, fw'.turn)
  BY <1>0, <1>1 DEF Teller, Tale
<1>3. Placed'
  BY <1>0 DEF Teller, Placed, Mid, Draft
<1>4. Drafted(last, size, c)'
  BY <1>0 DEF Teller, Tale, Drafted, Mid, Draft
<1>5. Written(last, size, c)'
  <2>1. Range(tx') \subseteq Range(tx)
    BY <1>0, TailOf DEF Teller, Types
  <2> QED
    BY <1>0, <2>1 DEF Teller, Tale, Written, Draft
<1>6. ASSUME ~late PROVE Prompt(last, size)' /\ ~short'
  <2>0. Prompt(last, size) /\ ~short
    BY <1>6 DEF Teller, Tale
  <2>1. rx = <<>> /\ tx' = <<>> /\ rx \in Seq(Replies)
    BY <1>0, <1>6, LineAlone DEF Teller, Types
  <2>2. ~short'
    BY <1>0, <2>0 DEF Prompt, Whole
  <2>3. /\ Len(tx') + Len(rx') <= 1
        /\ rx' = Append(rx, "error") => Head(rx') = "error"
    <3>1. Append(rx, "ok") = <<"ok">> /\ Append(rx, "error") = <<"error">>
      BY <2>1
    <3>2. Len(<<"ok">>) = 1 /\ Len(<<"error">>) = 1 /\ Head(<<"error">>) = "error" /\ Len(tx') = 0
      BY <2>1
    <3>3. Append(rx, "error") = <<"error">> /\ (rx' = <<"ok">> \/ rx' = <<"error">>)
      BY <1>0, <3>1
    <3>4. Len(rx') = 1
      BY <3>2, <3>3
    <3> QED
      BY <3>2, <3>3, <3>4
  <2>4. at = "sending" => Whole(Draft, fw)'
    <3> SUFFICES ASSUME at = "sending", Draft.verb = "end", Draft.arg = "ok", fw'.open, fw'.turn = Draft.turn
                 PROVE  Len(fw'.got) = Draft.text
      BY <1>0 DEF Whole, Draft
    <3>1. l.verb # "push"
      BY <1>0, <2>0 DEF Prompt
    <3>2. fw' = fw
      BY <1>1, <3>1 DEF PushTaken
    <3> QED
      BY <2>0, <3>2 DEF Prompt, Whole
  <2>5. ASSUME fw'.open, fw'.turn = last, at = "stream" PROVE fw'.next = size
    <3>1. l.verb # "push"
      BY <1>0, <2>0, <2>5 DEF Prompt
    <3>2. fw' = fw
      BY <1>1, <2>5, <3>1 DEF PushTaken
    <3> QED
      BY <2>0, <2>5, <3>2 DEF Prompt
  <2>6. ASSUME fw'.open, fw'.turn = last, Mid("push")
        PROVE  /\ size <= fw'.next + 1
               /\ wire = "worker" /\ rx' # <<>> /\ Head(rx') = "ok" => fw'.next = size
    <3>0. fw.open /\ fw.turn = last /\ size <= fw.next + 1 /\ fw.next <= size
      BY <1>1, <2>0, <2>6 DEF Prompt, Teller, Tale, Applied
    <3>1. fw.next \in Nat /\ size \in Nat /\ fw'.next \in Nat
      BY OverIs DEF Teller, Types, Latches
    <3>2. fw'.next = fw.next + 1 \/ fw'.next = fw.next
      BY <1>1, <2>6
    <3>3. size <= fw'.next + 1
      BY <3>0, <3>1, <3>2
    <3>4. ASSUME wire = "worker", Head(rx') = "ok" PROVE fw'.next = size
      <4>1. l = Draft
        BY <1>0, <2>0, <3>4 DEF Prompt, Draft, Idle
      <4>2. l.verb = "push" /\ l.turn = last /\ size = l.seq + 1 /\ l.seq \in Nat
        BY <1>0, <2>6, <4>1 DEF Teller, Tale, Drafted, Placed, Mid, Lines
      <4>3. l.seq <= fw.next
        BY <1>0, <2>3, <3>0, <3>4, <4>2
      <4>4. CASE PushTaken(l)
        <5>1. l.seq = fw.next /\ fw'.next \in {fw.next, fw.next + 1}
          BY <3>2, <4>4 DEF PushTaken
        <5>2. fw'.next = fw.next + 1
          <6>1. fw' = [fw EXCEPT !.next = fw.next + 1,
                        !.got = IF l.text = 0 THEN fw.got ELSE Append(fw.got, l.text)]
            BY <4>4 DEF PushTaken
          <6>2. fw \in Latches
            BY OverIs DEF Teller
          <6> QED
            BY <6>1, <6>2 DEF Latches
        <5> QED
          BY <4>2, <5>1, <5>2
      <4>5. CASE LineIgnored(l)
        <5>1. ~(l.seq = fw.next \/ l.seq > fw.next)
          BY <3>0, <4>2, <4>5 DEF LineIgnored
        <5> QED
          BY <3>0, <3>1, <4>2, <4>5, <5>1 DEF LineIgnored
      <4> QED
        BY <1>1, <2>6, <4>4, <4>5
    <3> QED
      BY <3>3, <3>4
  <2> QED
    BY <1>0, <2>1, <2>2, <2>3, <2>4, <2>5, <2>6 DEF Prompt, Mid, Draft
<1> QED
  BY <1>0, <1>1, <1>2, <1>3, <1>4, <1>5, <1>6 DEF Teller, Tale

\* Lines and replies get lost or damaged.
LEMMA LossKeeps ==
    ASSUME NEW last, NEW size, NEW c, Teller(last, size, c), LoseLine \/ LoseReply \/ LineDamaged
    PROVE  Placed' /\ Tale(last, size, c)'
<1>0. UNCHANGED <<fw, evts, wire, late, short, cmd, queue, gen, at, plane>>
  BY DEF LoseLine, LoseReply, LineDamaged, fwVars, askVars, planeVars
<1>1. /\ tx \in Seq(Lines) /\ rx \in Seq(Replies)
      /\ Range(tx') \subseteq Range(tx)
  <2>1. tx \in Seq(Lines) /\ rx \in Seq(Replies)
    BY DEF Teller, Types
  <2>2. (tx # <<>> /\ tx' = Tail(tx)) \/ tx' = tx
    BY DEF LoseLine, LoseReply, LineDamaged
  <2> QED
    BY <2>1, <2>2, TailOf
<1>2. Placed'
  BY <1>0 DEF Teller, Placed, Mid, Draft
<1>3. Drafted(last, size, c)' /\ Written(last, size, c)' /\ Applied(last, size, c)'
  BY <1>0, <1>1 DEF Teller, Tale, Drafted, Written, Applied, Mid, Draft
<1>4. ASSUME ~late PROVE Prompt(last, size)' /\ ~short'
  <2>0. Prompt(last, size) /\ ~short
    BY <1>4 DEF Teller, Tale
  <2>1. CASE LoseLine
    <3>1. tx' = <<>> /\ rx' = rx /\ rx = <<>>
      BY <1>4, <2>1, LineAlone DEF LoseLine
    <3> QED
      BY <1>0, <2>0, <3>1 DEF Prompt, Whole, Mid, Draft
  <2>2. CASE LoseReply
    <3>1. rx' = <<>> /\ tx' = tx /\ tx = <<>>
      BY <1>4, <2>2, LineAlone DEF LoseReply
    <3> QED
      BY <1>0, <2>0, <3>1 DEF Prompt, Whole, Mid, Draft
  <2>3. CASE LineDamaged
    <3>1. tx' = <<>> /\ rx = <<>> /\ rx' = Append(rx, "corrupt")
      BY <1>4, <2>3, LineAlone DEF LineDamaged
    <3>2. rx' = <<"corrupt">> /\ Len(tx') = 0
      BY <3>1
    <3>3. Len(rx') = 1 /\ Head(rx') = "corrupt"
      BY <3>2
    <3> QED
      BY <1>0, <2>0, <3>1, <3>2, <3>3 DEF Prompt, Whole, Mid, Draft
  <2> QED
    BY <2>1, <2>2, <2>3
<1> QED
  BY <1>0, <1>2, <1>3, <1>4 DEF Teller, Tale

\* A line goes out.
LEMMA WriteKeeps ==
    ASSUME NEW last, NEW size, NEW c, Teller(last, size, c), NEW who \in Senders, Write(who)
    PROVE  Placed' /\ Tale(last, size, c)'
<1> DEFINE l == cmd[who].line
<1>0. /\ UNCHANGED <<fw, evts, short, cmd, queue, gen, at, plane>>
      /\ wire' = who /\ tx' = Append(tx, l) /\ rx' = <<>> /\ late' = (late \/ tx # <<>>)
      /\ wire = Idle /\ cmd[who].tries > 0
  BY DEF Write, fwVars, planeVars
<1>1. l \in Lines /\ tx \in Seq(Lines)
  BY CmdOf DEF Teller, Types
<1>2. /\ who = "worker" => at = "sending" /\ l = Draft
      /\ who # "worker" => who = "attach" /\ l.verb \in {"models", "ready"}
  BY <1>0 DEF Teller, Placed, Draft, Senders
<1>3. Placed'
  BY <1>0 DEF Teller, Placed, Mid, Draft
<1>4. Drafted(last, size, c)' /\ Applied(last, size, c)'
  BY <1>0 DEF Teller, Tale, Drafted, Applied, Mid, Draft
<1>5. Written(last, size, c)'
  <2>1. \A x \in Range(tx') : x \in Range(tx) \/ x = l
    BY <1>0, <1>1, AppendOf
  <2>2. Honest(l, last, size, c)
    BY <1>2 DEF Teller, Tale, Written, Honest
  <2> QED
    BY <1>0, <2>1, <2>2 DEF Teller, Tale, Written, Draft
<1>6. ASSUME ~late' PROVE Prompt(last, size)' /\ ~short'
  <2>0. Prompt(last, size) /\ ~short /\ tx = <<>>
    BY <1>0, <1>6 DEF Teller, Tale
  <2>1. tx' = <<l>>
    BY <1>0, <2>0
  <2> HIDE DEF l
  <2>2. Len(tx') + Len(rx') <= 1 /\ Head(tx') = l
    BY <1>0, <2>1
  <2>3. Whole(l, fw)
    BY <1>2, <2>0 DEF Prompt, Whole
  <2>4. l.verb = "push" => at = "sending" /\ Draft = l
    BY <1>2
  <2>5. l = cmd[wire'].line
    BY <1>0 DEF l
  <2> QED
    BY <1>0, <2>0, <2>2, <2>3, <2>4, <2>5 DEF Prompt, Whole, Mid, Draft
<1> QED
  BY <1>0, <1>3, <1>4, <1>5, <1>6 DEF Teller, Tale

\* attach() takes its line up.
LEMMA LoadKeeps ==
    ASSUME NEW last, NEW size, NEW c, Teller(last, size, c), LoadDone
    PROVE  Placed' /\ Tale(last, size, c)'
<1>0. /\ UNCHANGED <<fw, evts, tx, rx, wire, late, short, queue, gen, at>>
      /\ plane = "spawning" /\ plane' = "attaching" /\ Sends("attach", Ready(cfg))
  BY DEF LoadDone, fwVars, wireVars, askVars
<1>1. Ready(cfg) \in Lines /\ Ready(cfg).verb = "ready"
  BY ReadyIs, ModelAssumption DEF Teller, Types, Args
<1>2. /\ cmd' \in [Senders -> Cmds] /\ cmd'["attach"].line = Ready(cfg) /\ cmd'["attach"].tries = 1
      /\ cmd'["worker"] = cmd["worker"]
  BY <1>0, <1>1, SendsIs, CmdOf DEF Teller
<1>3. wire # Idle => wire = "worker"
  BY <1>0 DEF Teller, Types, Placed, Senders
<1>4. Placed'
  BY <1>0, <1>1, <1>2, <1>3 DEF Teller, Placed, Mid, Draft
<1>5. Drafted(last, size, c)' /\ Written(last, size, c)' /\ Applied(last, size, c)'
  BY <1>0, <1>2 DEF Teller, Tale, Drafted, Written, Applied, Mid, Draft
<1>6. (~late => Prompt(last, size) /\ ~short)'
  <2>1. (wire # Idle => cmd'[wire] = cmd[wire])
    BY <1>2, <1>3
  <2> QED
    BY <1>0, <1>2, <2>1 DEF Teller, Tale, Prompt, Whole, Mid, Draft
<1> QED
  BY <1>0, <1>4, <1>5, <1>6 DEF Teller, Tale

\* A line leaves the queue.
LEMMA Taken ==
    ASSUME NEW last, NEW size, NEW c, Teller(last, size, c), NEW verb, Takes(verb), evts' = evts
    PROVE  /\ at = "idle" /\ queue # <<>> /\ queue' = Tail(queue) /\ gen.turn = 0
           /\ Head(queue) \in Lines /\ Head(queue).verb = verb /\ Head(queue).turn \in Nat
           /\ Due(queue', evts', last, fw.turn)
           /\ verb = "ask" => /\ last < Head(queue).turn /\ Head(queue).turn <= fw.turn
                              /\ Due(queue', evts', Head(queue).turn, fw.turn)
<1>1. /\ at = "idle" /\ queue # <<>> /\ queue' = Tail(queue) /\ Head(queue).verb = verb
  BY DEF Takes
<1>2. /\ queue \in Seq(Lines) /\ evts \in Seq(Lines) /\ Due(queue, evts, last, fw.turn)
      /\ last \in Nat /\ fw.turn \in Nat /\ gen.turn = 0
  BY <1>1, OverIs DEF Teller, Types, Tale, Placed, Mid
<1>3. Head(queue) \in Lines /\ Head(queue).turn \in Nat
  <2>1. Head(queue) \in Lines
    BY <1>1, <1>2, TailOf
  <2> QED
    BY <2>1 DEF Lines
<1>4. /\ Rising(Tail(queue)) /\ Before(Tail(queue), evts) /\ Between(Tail(queue), last, fw.turn)
  BY <1>1, <1>2, DueTail DEF Due
<1>5. Due(queue', evts', last, fw.turn)
  BY <1>1, <1>2, <1>4 DEF Due
<1>6. ASSUME verb = "ask"
      PROVE  /\ last < Head(queue).turn /\ Head(queue).turn <= fw.turn
             /\ Due(queue', evts', Head(queue).turn, fw.turn)
  <2>1. /\ Between(Tail(queue), Head(queue).turn, fw.turn)
        /\ Between(evts, Head(queue).turn, fw.turn)
        /\ last < Head(queue).turn /\ Head(queue).turn <= fw.turn
    BY <1>1, <1>2, <1>6, DueTail DEF Due
  <2> QED
    BY <1>1, <1>2, <1>4, <2>1 DEF Due
<1> QED
  BY <1>1, <1>2, <1>3, <1>5, <1>6

\* A turn is refused, a select is.
LEMMA RefusedKeeps ==
    ASSUME NEW last, NEW size, NEW c, Teller(last, size, c), AskRefused \/ SelectRefused \/ SelectLoaded
    PROVE  Placed' /\ Tale(last, size, c)'
<1>1. CASE AskRefused
  <2> DEFINE status == IF Contains(cancelled, Head(queue).turn) THEN "stopped" ELSE "error"
             l == Line("end", Head(queue).turn, 0, 0, status)
  <2>1. /\ UNCHANGED <<fw, evts, tx, rx, wire, late, short, gen, plane>>
        /\ Takes("ask") /\ WorkerSends(l)
    BY <1>1 DEF AskRefused, fwVars, wireVars, planeVars
  <2>2. at = "idle" /\ gen.turn = 0 /\ Head(queue).turn \in Nat /\ Due(queue', evts', last, fw.turn)
    BY <2>1, Taken
  <2>3. status \in Args /\ status # "ok"
    BY DEF Args
  <2>4. Plain(l)
    <3> HIDE DEF status
    <3>1. l \in Lines /\ l.verb = "end" /\ l.arg = status
      BY <2>2, <2>3, LineIs DEF Verbs
    <3> QED
      BY <2>3, <3>1 DEF Plain
  <2> HIDE DEF l
  <2> QED
    BY <2>1, <2>2, <2>4, PlainKeeps
<1>2. CASE SelectRefused \/ SelectLoaded
  <2> DEFINE l == IF SelectLoaded /\ Wanted = active THEN Ready(active) ELSE Models
  <2>1. /\ UNCHANGED <<fw, evts, tx, rx, wire, late, short, gen, plane>>
        /\ Takes("select") /\ (WorkerSends(Models) \/ WorkerSends(Ready(active)))
    BY <1>2 DEF SelectRefused, SelectLoaded, fwVars, wireVars, planeVars
  <2>2. at = "idle" /\ gen.turn = 0 /\ Due(queue', evts', last, fw.turn)
    BY <2>1, Taken
  <2>3. Plain(Models) /\ Plain(Ready(active))
    BY NoCmdIs, ReadyIs DEF Teller, Types, Args, Plain
  <2> QED
    BY <2>1, <2>2, <2>3, PlainKeeps
<1> QED
  BY <1>1, <1>2

\* The catalog after a spawn, a restore that failed, or a new epoch.
LEMMA CatalogKeeps ==
    ASSUME NEW last, NEW size, NEW c, Teller(last, size, c), Started \/ RestoreFails \/ Reconnect
    PROVE  Placed' /\ Tale(last, size, c)'
<1>1. /\ UNCHANGED <<fw, evts, tx, rx, wire, late, short, gen, plane, queue>>
      /\ at \in {"spawn", "restore", "down"} /\ WorkerSends(Models)
  BY DEF Started, RestoreFails, Reconnect, fwVars, wireVars, planeVars, askVars
<1>2. gen.turn = 0 /\ at # "sending"
  BY <1>1 DEF Teller, Placed, Mid, Types, Gens
<1>3. Due(queue', evts', last, fw.turn)
  BY <1>1 DEF Teller, Tale
<1>4. Plain(Models)
  BY NoCmdIs DEF Plain
<1> QED
  BY <1>1, <1>2, <1>3, <1>4, PlainKeeps

\* The child is stopped for a switch, or its successor does not come up.
LEMMA SwitchKeeps ==
    ASSUME NEW last, NEW size, NEW c, Teller(last, size, c),
           SwitchModel \/ SwitchSpawns \/ SpawnFails
    PROVE  Placed' /\ Tale(last, size, c)'
<1>0. /\ UNCHANGED <<fw, evts, tx, rx, wire, late, short, cmd, gen, plane>>
      /\ at' \in {"stop", "spawn", "restore"}
  BY DEF SwitchModel, SwitchSpawns, SpawnFails, fwVars, wireVars, planeVars, askVars
<1>1. CASE SwitchModel
  <2>1. at = "idle" /\ gen.turn = 0 /\ Due(queue', evts', last, fw.turn)
    BY <1>0, <1>1, Taken DEF SwitchModel
  <2> QED
    BY <1>0, <2>1, AsideKeeps
<1>2. CASE SwitchSpawns \/ SpawnFails
  <2>1. at \in {"stop", "spawn"} /\ queue' = queue
    BY <1>2 DEF SwitchSpawns, SpawnFails, askVars
  <2>2. gen.turn = 0
    BY <2>1 DEF Teller, Placed, Mid
  <2>3. Due(queue', evts', last, fw.turn)
    BY <1>0, <2>1 DEF Teller, Tale
  <2> QED
    BY <1>0, <2>1, <2>2, <2>3, AsideKeeps
<1> QED
  BY <1>1, <1>2

\* An event is routed; a child or the plane takes a step of its own.
LEMMA RoutedKeeps ==
    ASSUME NEW last, NEW size, NEW c, Teller(last, size, c),
           SubmitEvent \/ Beside
    PROVE  Placed' /\ Tale(last, size, c)'
<1>0. /\ queue \in Seq(Lines) /\ evts \in Seq(Lines) /\ Due(queue, evts, last, fw.turn)
      /\ last \in Nat /\ fw.turn \in Nat /\ gen \in Gens
  BY OverIs DEF Teller, Types, Tale
<1>1. CASE SubmitEvent
  <2>1. /\ UNCHANGED <<fw, tx, rx, wire, late, short, cmd, at, plane>>
        /\ evts # <<>> /\ evts' = Tail(evts)
        /\ queue' = queue \/ queue' = Append(queue, Head(evts))
        /\ gen' = gen \/ gen' = [gen EXCEPT !.stop = TRUE]
    BY <1>1 DEF SubmitEvent, wireVars, planeVars
  <2>2. gen'.turn = gen.turn /\ gen'.seq = gen.seq /\ gen'.text = gen.text
    BY <1>0, <2>1 DEF Gens
  <2>3. Due(queue', evts', last, fw.turn)
    <3>1. Due(queue, Tail(evts), last, fw.turn) /\ Due(Append(queue, Head(evts)), Tail(evts), last, fw.turn)
      BY <1>0, <2>1, DueRouted
    <3> QED
      BY <2>1, <3>1
  <2> QED
    BY <2>1, <2>2, <2>3, QuietKeeps
<1>2. CASE Beside
  <2>1. /\ UNCHANGED <<fw, evts, tx, rx, wire, late, short, cmd, queue, gen, at>>
        /\ plane' = plane \/ plane # "attaching"
    BY <1>2, ApartIs DEF Apart, fwVars, wireVars, askVars
  <2>2. Due(queue', evts', last, fw.turn)
    BY <1>0, <2>1
  <2> QED
    BY <2>1, <2>2, QuietKeeps
<1> QED
  BY <1>1, <1>2

\* A turn begins: the count starts again.
LEMMA BegunKeeps ==
    ASSUME NEW last, NEW size, NEW c, Teller(last, size, c), AskStarted,
           NEW turn, turn = Head(queue).turn
    PROVE  turn \in Nat /\ Placed' /\ Tale(turn, 0, [s \in Nat |-> 0])'
<1> DEFINE zero == [s \in Nat |-> 0]
<1>0. /\ UNCHANGED <<fw, evts, tx, rx, wire, late, short, cmd, plane>>
      /\ Takes("ask") /\ gen' = [NoGen EXCEPT !.turn = turn] /\ at' = "stream"
  BY DEF AskStarted, fwVars, wireVars, planeVars
<1>1. /\ at = "idle" /\ gen.turn = 0 /\ turn \in Nat /\ last < turn /\ turn <= fw.turn
      /\ Due(queue', evts', turn, fw.turn)
  BY <1>0, Taken
<1>2. gen'.turn = turn /\ gen'.seq = 0 /\ gen'.text = 0
  BY <1>0 DEF NoGen
<1>3. /\ last \in Nat /\ fw.turn \in Nat /\ zero[0] = 0 /\ \A s \in Nat : zero[s] = 0
  BY OverIs DEF Teller
<1> HIDE DEF zero
<1>4. Placed'
  BY <1>0, <1>1, <1>2, <1>3 DEF Teller, Placed, Mid, Draft
<1>5. Counted(0, zero)
  BY <1>3 DEF Counted
<1>6. Drafted(turn, 0, zero)'
  BY <1>0, <1>1, <1>2, <1>3 DEF Teller, Placed, Drafted, Mid, Draft
<1>7. Written(turn, 0, zero)'
  <2>1. tx \in Seq(Lines)
    BY DEF Teller, Types
  <2> SUFFICES ASSUME NEW l \in Range(tx) PROVE Honest(l, turn, 0, zero)
    BY <1>0 DEF Written
  <2>2. l \in Lines
    BY <2>1 DEF Range
  <2>3. Honest(l, last, size, c) /\ l.turn \in Nat
    BY <2>2 DEF Teller, Tale, Written, Lines
  <2>4. l.turn <= last => l.turn < turn /\ l.turn # turn
    BY <1>1, <1>3, <2>3
  <2> QED
    BY <1>1, <1>3, <2>3, <2>4 DEF Honest
<1>8. fw'.next = 0 /\ fw'.got = <<>> /\ Applied(turn, 0, zero)'
  <2>1. fw.turn # last
    BY <1>1, <1>3
  <2>2. fw.next = 0 /\ fw.got = <<>>
    BY <2>1 DEF Teller, Tale, Applied
  <2> QED
    BY <1>0, <1>3, <2>2 DEF Applied
<1>9. (~late => Prompt(turn, 0) /\ ~short)'
  <2> SUFFICES ASSUME ~late PROVE Prompt(turn, 0)' /\ ~short'
    BY <1>0
  <2>0. Prompt(last, size) /\ ~short
    BY DEF Teller, Tale
  <2>1. tx # <<>> => Head(tx).verb # "push"
    BY <1>1, <2>0 DEF Prompt
  <2> QED
    BY <1>0, <1>8, <2>0, <2>1 DEF Prompt, Whole, Mid, Draft
<1> QED
  BY <1>0, <1>1, <1>4, <1>5, <1>6, <1>7, <1>8, <1>9 DEF Tale, zero

\* A push is drafted: the count goes one on.
LEMMA PushKeeps ==
    ASSUME NEW last, NEW size, NEW c, Teller(last, size, c),
           NEW chunk \in BOOLEAN, NEW final \in BOOLEAN, Push(chunk, final),
           NEW d \in [Nat -> Nat], d[size + 1] = IF chunk THEN c[size] + 1 ELSE c[size],
           \A s \in Nat : s <= size => d[s] = c[s]
    PROVE  Placed' /\ Tale(last, size + 1, d)'
<1> DEFINE n == IF chunk THEN gen.text + 1 ELSE gen.text
           l == Line("push", gen.turn, gen.seq, IF chunk THEN gen.text + 1 ELSE 0, NoModel)
<1>0. /\ UNCHANGED <<fw, evts, tx, rx, wire, late, short, queue, plane>>
      /\ at = "stream" /\ WorkerSends(l)
      /\ gen' = [gen EXCEPT !.text = n, !.last = final]
  BY DEF Push, Streaming, fwVars, wireVars, askVars, planeVars
<1>1. /\ last \in Nat /\ size \in Nat /\ c \in [Nat -> Nat] /\ gen \in Gens /\ fw.turn \in Nat
      /\ fw.next \in Nat /\ gen.turn \in Nat /\ gen.seq \in Nat /\ gen.text \in Nat
  BY OverIs DEF Teller, Types, Gens
<1>2. gen.turn # 0 /\ gen.turn = last /\ gen.text = c[size] /\ gen.seq = size /\ cmd["worker"].tries = 0
  <2>1. gen.turn # 0 /\ ~(cmd["worker"].tries > 0)
    BY <1>0 DEF Teller, Placed
  <2>2. gen.turn = last /\ gen.text = c[size] /\ gen.seq = size
    BY <1>0, <2>1 DEF Teller, Tale, Drafted
  <2>3. cmd["worker"].tries = 0
    <3>1. cmd["worker"].tries \in Nat
      BY CmdOf DEF Teller
    <3> QED
      BY <2>1, <3>1
  <2> QED
    BY <2>1, <2>2, <2>3
<1>3. /\ l \in Lines /\ l.verb = "push" /\ l.turn = gen.turn /\ l.seq = gen.seq
      /\ l.text = IF chunk THEN gen.text + 1 ELSE 0
  <2>1. /\ (IF chunk THEN gen.text + 1 ELSE 0) \in Nat /\ gen.turn \in Nat /\ gen.seq \in Nat
        /\ "push" \in Verbs /\ NoModel \in Args
    BY <1>1 DEF Verbs, Args
  <2> QED
    BY <2>1 DEF Line, Lines
<1>4. n \in Nat
  BY <1>1
<1>5. d[size + 1] = n /\ \A s \in Nat : s <= size => d[s] = c[s]
  BY <1>2
<1> HIDE DEF l, n
<1>6. /\ gen'.turn = gen.turn /\ gen'.seq = gen.seq /\ gen'.text = n
  BY <1>0, <1>1, <1>4 DEF Gens
<1>7. /\ cmd' \in [Senders -> Cmds] /\ cmd'["worker"].line = l /\ cmd'["worker"].tries = 1
      /\ cmd'["attach"] = cmd["attach"] /\ at' = "sending"
  BY <1>0, <1>3, WorkerSendsIs DEF Teller
<1>8. wire # Idle => wire = "attach" /\ cmd'[wire] = cmd[wire]
  <2>1. wire \in Senders \cup {Idle} /\ (wire # Idle => cmd[wire].tries > 0)
    BY DEF Teller, Types, Placed
  <2>2. wire # "worker"
    BY <1>2, <2>1 DEF Idle
  <2> QED
    BY <1>7, <2>1, <2>2 DEF Senders
<1>9. Placed'
  BY <1>0, <1>2, <1>3, <1>6, <1>7, <1>8 DEF Teller, Placed, Mid, Draft
<1>10. Due(queue', evts', last, fw'.turn)
  BY <1>0 DEF Teller, Tale
<1>11. Counted(size + 1, d)
  <2>1. Counted(size, c) /\ d[0] = 0
    BY <1>1, <1>5 DEF Teller, Tale, Counted
  <2>2. n = c[size] \/ n = c[size] + 1
    BY <1>2 DEF n
  <2> SUFFICES ASSUME NEW s \in Nat, s < size + 1 PROVE d[s + 1] = d[s] \/ d[s + 1] = d[s] + 1
    BY <2>1 DEF Counted
  <2>3. CASE s = size
    BY <1>1, <1>5, <2>2, <2>3
  <2>4. CASE s < size
    <3>1. d[s] = c[s] /\ d[s + 1] = c[s + 1]
      BY <1>1, <1>5, <2>4
    <3> QED
      BY <2>1, <2>4, <3>1 DEF Counted
  <2> QED
    BY <1>1, <2>3, <2>4
<1>12. Drafted(last, size + 1, d)'
  BY <1>1, <1>2, <1>3, <1>5, <1>6, <1>7 DEF Drafted, Mid, Draft
<1>13. Written(last, size + 1, d)'
  <2>1. Honest(l, last, size + 1, d)
    <3>1. l.turn <= last /\ l.seq = size /\ l.seq < size + 1
      BY <1>1, <1>2, <1>3
    <3>2. l.text = IF d[size + 1] = d[size] THEN 0 ELSE d[size + 1]
      <4>1. d[size] = c[size]
        BY <1>1, <1>5
      <4>2. CASE chunk
        BY <1>1, <1>2, <1>3, <1>5, <4>1, <4>2 DEF n
      <4>3. CASE ~chunk
        BY <1>1, <1>2, <1>3, <1>5, <4>1, <4>3 DEF n
      <4> QED
        BY <4>2, <4>3
    <3> QED
      BY <1>3, <3>1, <3>2 DEF Honest
  <2>2. ASSUME NEW x \in Range(tx) PROVE Honest(x, last, size + 1, d)
    <3>1. tx \in Seq(Lines)
      BY DEF Teller, Types
    <3>2. x \in Lines
      BY <3>1 DEF Range
    <3>3. Honest(x, last, size, c) /\ x.seq \in Nat
      BY <3>2 DEF Teller, Tale, Written, Lines
    <3>4. x.seq < size => x.seq < size + 1 /\ d[x.seq] = c[x.seq] /\ d[x.seq + 1] = c[x.seq + 1]
      BY <1>1, <1>5, <3>3
    <3> QED
      BY <3>3, <3>4 DEF Honest
  <2> QED
    BY <1>0, <1>7, <2>1, <2>2 DEF Written, Draft
<1>14. Applied(last, size + 1, d)'
  <2>1. ASSUME fw.turn = last PROVE fw.next <= size + 1 /\ Len(fw.got) = d[fw.next]
    <3>1. fw.next <= size /\ Len(fw.got) = c[fw.next]
      BY <2>1 DEF Teller, Tale, Applied
    <3>2. fw.next <= size + 1
      <4>1. fw.next \in Nat /\ size \in Nat /\ fw.next <= size
        BY <1>1, <3>1
      <4> QED
        BY ONLY <4>1
    <3>3. d[fw.next] = c[fw.next]
      BY <1>1, <1>5, <3>1, Zenon
    <3> QED
      BY <3>1, <3>2, <3>3
  <2> QED
    BY <1>0, <2>1 DEF Teller, Tale, Applied
<1>15. ASSUME ~late PROVE Prompt(last, size + 1)' /\ ~short'
  <2>0. Prompt(last, size) /\ ~short
    BY <1>15 DEF Teller, Tale
  <2>1. tx # <<>> => Head(tx).verb # "push"
    BY <1>0, <2>0 DEF Prompt
  <2>2. (wire # Idle /\ tx # <<>> => Head(tx) = cmd[wire].line)'
    <3>1. wire' = wire /\ tx' = tx
      BY <1>0
    <3>2. wire # Idle /\ tx # <<>> => Head(tx) = cmd[wire].line
      BY <2>0 DEF Prompt
    <3>3. wire # Idle => cmd'[wire] = cmd[wire]
      BY <1>8
    <3> QED
      BY <3>1, <3>2, <3>3
  <2>3. fw.open /\ fw.turn = last => size + 1 <= fw.next + 1
    <3>1. fw.open /\ fw.turn = last => fw.next = size
      BY <1>0, <2>0 DEF Prompt
    <3> QED
      BY <1>1, <3>1
  <2>4. wire # "worker"
    BY <1>8 DEF Idle
  <2>5. Whole(Draft, fw)'
    BY <1>3, <1>7 DEF Whole, Draft
  <2> QED
    BY <1>0, <1>7, <2>0, <2>1, <2>2, <2>3, <2>4, <2>5 DEF Prompt, Whole, Mid, Draft
<1> QED
  BY <1>0, <1>5, <1>9, <1>10, <1>11, <1>12, <1>13, <1>14, <1>15 DEF Tale

\* The turn is closed: as ok only when the device has all of it.
LEMMA ClosingKeeps ==
    ASSUME NEW last, NEW size, NEW c, Teller(last, size, c), NEW status \in {"ok", "error", "stopped"},
           WorkerSends(Closing(status)), gen' = NoGen, plane' = plane,
           UNCHANGED <<fw, evts, queue, tx, late, short>>,
           at = "stream" \/ Mid("push"), gen.turn # 0,
           wire' # Idle => wire' = "attach" /\ wire' = wire,
           rx' = rx \/ (rx # <<>> /\ rx' = Tail(rx)),
           at = "stream" => rx' = rx,
           Mid("push") => /\ status # "stopped"
                          /\ status = "ok" => wire = "worker" /\ rx # <<>> /\ Head(rx) = "ok"
                          /\ wire = "worker"
    PROVE  Placed' /\ Tale(last, size, c)'
<1> DEFINE l == Closing(status)
<1>1. /\ l \in Lines /\ l.verb = "end" /\ l.turn = gen.turn /\ l.text = gen.text /\ l.arg = status
  BY ClosingIs DEF Teller
<1>2. gen.turn = last /\ gen.text = c[size] /\ last \in Nat
  BY DEF Teller, Tale, Drafted
<1>3. WorkerSends(l)
  OBVIOUS
<1> HIDE DEF l
<1>4. /\ cmd' \in [Senders -> Cmds] /\ cmd'["worker"].line = l /\ cmd'["worker"].tries = 1
      /\ cmd'["attach"] = cmd["attach"] /\ at' = "sending"
  BY <1>1, <1>3, WorkerSendsIs DEF Teller
<1>5. wire' # Idle => wire' = "attach" /\ cmd'[wire'] = cmd[wire']
  BY <1>4
<1>6. Placed'
  <2>1. Draft' = l /\ ~Mid("push")' /\ gen'.turn = 0
    BY <1>1, <1>4, NoGenIs DEF Mid, Draft
  <2>2. /\ cmd["attach"].line.verb \in {"models", "ready"}
        /\ cmd["attach"].tries > 0 => plane = "attaching"
        /\ wire # Idle => cmd[wire].tries > 0
    BY DEF Teller, Placed
  <2>3. wire' # Idle => cmd'[wire'].tries > 0
    BY <1>5, <2>2
  <2> QED
    BY <1>4, <2>1, <2>2, <2>3 DEF Placed
<1>7. Drafted(last, size, c)' /\ Applied(last, size, c)'
  BY <1>1, <1>4, NoGenIs DEF Teller, Tale, Drafted, Applied, Mid, Draft
<1>8. Written(last, size, c)'
  <2>1. Honest(l, last, size, c)
    BY <1>1, <1>2 DEF Honest
  <2> QED
    BY <1>4, <2>1 DEF Teller, Tale, Written, Draft
<1>9. ASSUME ~late PROVE Prompt(last, size)' /\ ~short'
  <2>0. Prompt(last, size) /\ ~short
    BY <1>9 DEF Teller, Tale
  <2>1. Len(tx') + Len(rx') <= 1
    <3>1. tx \in Seq(Lines) /\ rx \in Seq(Replies) /\ Len(tx) + Len(rx) <= 1
      BY <2>0 DEF Teller, Types, Prompt
    <3>2. CASE rx' = rx
      BY <3>1, <3>2
    <3>3. CASE rx # <<>> /\ rx' = Tail(rx)
      <4>1. tx = <<>> /\ rx' = <<>>
        BY <1>9, <3>3, LineAlone
      <4> QED
        BY <4>1
    <3> QED
      BY <3>2, <3>3
  <2>2. (wire # Idle /\ tx # <<>> => Head(tx) = cmd[wire].line)'
    BY <1>5, <2>0 DEF Prompt, Idle
  <2>3. ASSUME tx # <<>>, Head(tx).verb = "push" PROVE status = "error"
    <3>1. Mid("push")
      BY <2>0, <2>3 DEF Prompt
    <3>2. rx = <<>>
      BY <1>9, <2>3, LineAlone
    <3> QED
      BY <3>1, <3>2
  <2>4. Whole(l, fw)
    <3> SUFFICES ASSUME status = "ok", fw.open, fw.turn = last PROVE Len(fw.got) = c[size]
      BY <1>1, <1>2 DEF Whole
    <3>1. fw.next = size
      BY <2>0 DEF Prompt
    <3> QED
      BY <3>1 DEF Teller, Tale, Applied
  <2>5. tx # <<>> => Whole(Head(tx), fw)
    BY <2>0 DEF Prompt
  <2> QED
    BY <1>1, <1>4, <2>0, <2>1, <2>2, <2>3, <2>4, <2>5 DEF Prompt, Mid, Draft
<1> QED
  BY <1>6, <1>7, <1>8, <1>9 DEF Teller, Tale

\* The stream ends.
LEMMA StreamKeeps ==
    ASSUME NEW last, NEW size, NEW c, Teller(last, size, c), StreamEnds
    PROVE  Placed' /\ Tale(last, size, c)'
<1>1. PICK status \in {"stopped", "ok", "error"} : WorkerSends(Closing(status))
  BY DEF StreamEnds
<1>2. /\ at = "stream" /\ gen' = NoGen /\ plane' = plane
      /\ UNCHANGED <<fw, evts, queue, tx, rx, wire, late, short>>
  BY DEF StreamEnds, fwVars, wireVars, askVars, planeVars
<1>3. gen.turn # 0 /\ ~(cmd["worker"].tries > 0) /\ ~Mid("push")
  BY <1>2 DEF Teller, Placed, Mid
<1>4. wire \in Senders \cup {Idle} /\ (wire # Idle => cmd[wire].tries > 0)
  BY DEF Teller, Types, Placed
<1>5. wire' # Idle => wire' = "attach" /\ wire' = wire
  BY <1>2, <1>3, <1>4 DEF Senders
<1> QED
  BY <1>1, <1>2, <1>3, <1>5, ClosingKeeps

\* How a reply is heard.
LEMMA HeardIs ==
    ASSUME NEW last, NEW size, NEW c, Teller(last, size, c), NEW who \in Senders, NEW good \in BOOLEAN,
           Heard(who, good)
    PROVE  /\ wire = who /\ tx' = tx /\ cmd[who].tries > 0
           /\ who = "worker" => at = "sending"
           /\ rx' = rx \/ (rx # <<>> /\ rx' = Tail(rx))
           /\ good => rx # <<>> /\ Head(rx) = "ok"
           /\ ~late => /\ Len(tx') + Len(rx') <= 1
                       /\ tx # <<>> => Head(tx) = cmd[who].line
                       /\ good => tx = <<>>
<1>1. /\ wire = who /\ tx' = tx
      /\ rx' = rx \/ (rx # <<>> /\ rx' = Tail(rx))
      /\ good => rx # <<>> /\ Head(rx) = "ok"
  BY DEF Heard
<1>2. cmd[who].tries > 0 /\ (who = "worker" => at = "sending")
  BY <1>1 DEF Teller, Placed, Senders, Idle
<1>3. ASSUME ~late
      PROVE  /\ Len(tx') + Len(rx') <= 1
             /\ tx # <<>> => Head(tx) = cmd[who].line
             /\ good => tx = <<>>
  <2>1. tx \in Seq(Lines) /\ rx \in Seq(Replies) /\ Len(tx) + Len(rx) <= 1
    BY <1>3 DEF Teller, Types, Tale, Prompt
  <2>2. rx # <<>> => tx = <<>> /\ Tail(rx) = <<>>
    BY <1>3, LineAlone
  <2>3. tx # <<>> => Head(tx) = cmd[who].line
    BY <1>1, <1>3 DEF Teller, Tale, Prompt, Senders, Idle
  <2>4. Len(tx') + Len(rx') <= 1
    <3>1. CASE rx' = rx
      BY <1>1, <2>1, <3>1
    <3>2. CASE rx # <<>> /\ rx' = Tail(rx)
      <4>1. tx' = <<>> /\ rx' = <<>>
        BY <1>1, <2>2, <3>2
      <4> QED
        BY <4>1
    <3> QED
      BY <1>1, <3>1, <3>2
  <2> QED
    BY <1>1, <2>2, <2>3, <2>4
<1> QED
  BY <1>1, <1>2, <1>3

\* A second write, or none.
LEMMA AgainKeeps ==
    ASSUME NEW last, NEW size, NEW c, Teller(last, size, c), NEW who \in Senders,
           Heard(who, FALSE), Again(who)
    PROVE  Placed' /\ Tale(last, size, c)'
<1>0. /\ UNCHANGED <<fw, evts, late, short, queue, gen, at, plane>> /\ wire' = Idle
  BY DEF Again, fwVars, askVars, planeVars
<1>1. /\ wire = who /\ tx' = tx /\ cmd[who].tries > 0 /\ (who = "worker" => at = "sending")
      /\ ~late => Len(tx') + Len(rx') <= 1
  BY HeardIs
<1>2. /\ cmd'[who].tries = 2
      /\ \A w \in Senders : cmd'[w].line = cmd[w].line
      /\ \A w \in Senders : w # who => cmd'[w] = cmd[w]
  BY AgainIs DEF Teller
<1>3. Draft' = Draft /\ cmd'["attach"].line = cmd["attach"].line
      /\ (cmd'["worker"].tries > 0 <=> cmd["worker"].tries > 0)
      /\ (cmd'["attach"].tries > 0 <=> cmd["attach"].tries > 0)
  BY <1>1, <1>2 DEF Draft, Senders
<1>4. Placed'
  BY <1>0, <1>3 DEF Teller, Placed, Mid
<1>5. Drafted(last, size, c)' /\ Written(last, size, c)' /\ Applied(last, size, c)'
  BY <1>0, <1>1, <1>3 DEF Teller, Tale, Drafted, Written, Applied, Mid
<1>6. ASSUME ~late PROVE Prompt(last, size)' /\ ~short'
  <2>1. Prompt(last, size) /\ ~short
    BY <1>6 DEF Teller, Tale
  <2> QED
    BY <1>0, <1>1, <1>3, <1>6, <2>1 DEF Prompt, Mid, Idle
<1> QED
  BY <1>0, <1>4, <1>5, <1>6 DEF Teller, Tale

\* The worker announces what it loaded.
LEMMA AnnouncedKeeps ==
    ASSUME NEW last, NEW size, NEW c, Teller(last, size, c), NEW who \in Senders, NEW good \in BOOLEAN,
           Heard(who, good), Settled(who, good), Announced(who)
    PROVE  Placed' /\ Tale(last, size, c)'
<1> DEFINE l == Ready(active)
<1>0. /\ UNCHANGED <<fw, evts, late, short, queue, plane>> /\ wire' = Idle /\ gen' = gen
      /\ who = "worker" /\ Draft.verb = "models" /\ WorkerSends(l)
  BY DEF Settled, Announced, fwVars, askVars
<1>1. /\ tx' = tx /\ at = "sending"
      /\ ~late => Len(tx') + Len(rx') <= 1
      /\ ~late /\ tx # <<>> => Head(tx) = Draft
  BY <1>0, HeardIs DEF Draft
<1>2. l \in Lines /\ l.verb = "ready"
  BY ReadyIs DEF Teller, Types, Args
<1> HIDE DEF l
<1>3. /\ cmd' \in [Senders -> Cmds] /\ cmd'["worker"].line = l /\ cmd'["worker"].tries = 1
      /\ cmd'["attach"] = cmd["attach"] /\ at' = "sending"
  BY <1>0, <1>2, WorkerSendsIs DEF Teller
<1>4. gen.turn = 0
  BY <1>0, <1>1 DEF Teller, Placed, Mid
<1>5. Placed'
  BY <1>0, <1>2, <1>3, <1>4 DEF Teller, Placed, Mid, Draft
<1>6. Drafted(last, size, c)' /\ Written(last, size, c)' /\ Applied(last, size, c)'
  BY <1>0, <1>1, <1>2, <1>3, <1>4 DEF Teller, Tale, Drafted, Written, Honest, Applied, Mid, Draft
<1>7. ASSUME ~late PROVE Prompt(last, size)' /\ ~short'
  <2>1. Prompt(last, size) /\ ~short
    BY <1>7 DEF Teller, Tale
  <2>2. tx # <<>> => Head(tx).verb # "push" /\ Whole(Head(tx), fw)
    BY <1>0, <1>1, <1>7, <2>1 DEF Prompt
  <2>3. Whole(Draft, fw)'
    BY <1>2, <1>3 DEF Whole, Draft
  <2> QED
    BY <1>0, <1>1, <1>2, <1>3, <1>7, <2>1, <2>2, <2>3 DEF Prompt, Mid, Draft
<1> QED
  BY <1>0, <1>5, <1>6, <1>7 DEF Teller, Tale

\* The worker goes on with the stream.
LEMMA PushedOnKeeps ==
    ASSUME NEW last, NEW size, NEW c, Teller(last, size, c), NEW who \in Senders, NEW good \in BOOLEAN,
           Heard(who, good), Settled(who, good), PushedOn(who, good)
    PROVE  Placed' /\ Tale(last, size, c)'
<1>0. /\ UNCHANGED <<fw, evts, late, short, queue, plane>> /\ wire' = Idle
      /\ who = "worker" /\ Draft.verb = "push" /\ good /\ at' = "stream"
      /\ gen' = [gen EXCEPT !.seq = gen.seq + 1] /\ cmd' = [cmd EXCEPT !["worker"] = NoCmd]
  BY DEF Settled, PushedOn, fwVars, askVars
<1>1. /\ wire = "worker" /\ tx' = tx /\ at = "sending" /\ rx # <<>> /\ Head(rx) = "ok"
      /\ ~late => Len(tx') + Len(rx') <= 1 /\ tx = <<>>
  BY <1>0, HeardIs
<1>2. cmd'["worker"] = NoCmd /\ cmd'["attach"] = cmd["attach"]
  <2>1. cmd \in [Senders -> Cmds] /\ "worker" \in Senders /\ "attach" \in Senders
    BY DEF Teller, Types, Senders
  <2>2. cmd' = [cmd EXCEPT !["worker"] = NoCmd]
    BY <1>0
  <2> QED
    BY <2>1, <2>2
<1>3. gen \in Gens /\ gen.seq \in Nat /\ gen.seq + 1 \in Nat
  <2>1. gen \in Gens
    BY DEF Teller, Types
  <2>2. gen.seq \in Nat
    BY <2>1 DEF Gens
  <2> QED
    BY <2>1, <2>2
<1>4. gen'.turn = gen.turn /\ gen'.seq = gen.seq + 1 /\ gen'.text = gen.text
  BY <1>0, <1>3 DEF Gens
<1>5. Mid("push") /\ gen.turn # 0
  BY <1>0, <1>1 DEF Teller, Placed, Mid
<1>6. Placed'
  BY <1>0, <1>2, <1>4, <1>5, NoCmdIs DEF Teller, Placed, Mid, Draft
<1>7. Drafted(last, size, c)'
  BY <1>0, <1>4, <1>5 DEF Teller, Tale, Drafted, Mid
<1>8. Written(last, size, c)' /\ Applied(last, size, c)'
  BY <1>0, <1>1 DEF Teller, Tale, Written, Applied
<1>9. ASSUME ~late PROVE Prompt(last, size)' /\ ~short'
  <2>1. Prompt(last, size) /\ ~short
    BY <1>9 DEF Teller, Tale
  <2>2. fw.open /\ fw.turn = last => fw.next = size
    BY <1>1, <1>5, <2>1 DEF Prompt
  <2> QED
    BY <1>0, <1>1, <1>9, <2>1, <2>2 DEF Prompt, Mid
<1> QED
  BY <1>0, <1>6, <1>7, <1>8, <1>9 DEF Teller, Tale

\* A sender is done.
LEMMA SentOffKeeps ==
    ASSUME NEW last, NEW size, NEW c, Teller(last, size, c), NEW who \in Senders, NEW good \in BOOLEAN,
           Heard(who, good), Settled(who, good), SentOff(who)
    PROVE  Placed' /\ Tale(last, size, c)'
<1>0. /\ UNCHANGED <<fw, evts, late, short, queue, gen>> /\ wire' = Idle
      /\ plane' = IF who = "attach" THEN "publishing" ELSE plane
      /\ who = "worker" => Draft.verb # "push" /\ at' = "idle"
      /\ who # "worker" => at' = at
      /\ cmd' = [cmd EXCEPT ![who] = NoCmd]
  BY DEF Settled, SentOff, fwVars, askVars
<1>1. /\ tx' = tx /\ cmd[who].tries > 0 /\ (who = "worker" => at = "sending")
      /\ ~late => /\ Len(tx') + Len(rx') <= 1
                  /\ tx # <<>> => Head(tx) = cmd[who].line
  BY HeardIs
<1>2. cmd'[who] = NoCmd /\ \A w \in Senders : w # who => cmd'[w] = cmd[w]
  BY <1>0, NoCmdIs, CmdIs DEF Teller
<1>3. CASE who = "worker"
  <2>1. cmd'["worker"] = NoCmd /\ cmd'["attach"] = cmd["attach"] /\ plane' = plane
    BY <1>0, <1>2, <1>3 DEF Senders
  <2>2. gen.turn = 0
    BY <1>0, <1>1, <1>3 DEF Teller, Placed, Mid
  <2>3. Placed'
    BY <1>0, <1>3, <2>1, <2>2, NoCmdIs DEF Teller, Placed, Mid, Draft
  <2>4. Drafted(last, size, c)' /\ Written(last, size, c)' /\ Applied(last, size, c)'
    BY <1>0, <1>1, <1>3, <2>2 DEF Teller, Tale, Drafted, Written, Applied, Mid
  <2>5. ASSUME ~late PROVE Prompt(last, size)' /\ ~short'
    <3>1. Prompt(last, size) /\ ~short
      BY <2>5 DEF Teller, Tale
    <3>2. tx # <<>> => Head(tx).verb # "push" /\ Whole(Head(tx), fw)
      BY <1>0, <1>1, <1>3, <2>5, <3>1 DEF Prompt, Draft
    <3> QED
      BY <1>0, <1>1, <1>3, <2>5, <3>1, <3>2 DEF Prompt, Mid
  <2> QED
    BY <1>0, <2>3, <2>4, <2>5 DEF Teller, Tale
<1>4. CASE who = "attach"
  <2>1. cmd'["attach"] = NoCmd /\ cmd'["worker"] = cmd["worker"] /\ plane' = "publishing" /\ at' = at
    BY <1>0, <1>2, <1>4 DEF Senders
  <2>2. Draft' = Draft
    BY <2>1 DEF Draft
  <2>3. Placed'
    BY <1>0, <2>1, <2>2, NoCmdIs DEF Teller, Placed, Mid
  <2>4. Drafted(last, size, c)' /\ Written(last, size, c)' /\ Applied(last, size, c)'
    BY <1>0, <1>1, <2>1, <2>2 DEF Teller, Tale, Drafted, Written, Applied, Mid
  <2>5. ASSUME ~late PROVE Prompt(last, size)' /\ ~short'
    <3>1. Prompt(last, size) /\ ~short
      BY <2>5 DEF Teller, Tale
    <3> QED
      BY <1>0, <1>1, <2>1, <2>2, <2>5, <3>1 DEF Prompt, Mid, Idle
  <2> QED
    BY <1>0, <2>3, <2>4, <2>5 DEF Teller, Tale
<1> QED
  BY <1>3, <1>4 DEF Senders

\* A reply, or the end of the wait for one.
LEMMA ReplyKeeps ==
    ASSUME NEW last, NEW size, NEW c, Teller(last, size, c), NEW who \in Senders, Reply(who)
    PROVE  Placed' /\ Tale(last, size, c)'
<1>1. PICK good \in BOOLEAN : Heard(who, good) /\ (Settled(who, good) \/ (Again(who) /\ ~good))
  BY ReplyIs DEF Teller
<1>2. CASE Again(who) /\ ~good
  <2>1. Heard(who, FALSE)
    BY <1>1, <1>2
  <2> QED
    BY <1>2, <2>1, AgainKeeps
<1>3. CASE Settled(who, good)
  <2>1. CASE Announced(who)
    BY <1>1, <1>3, <2>1, AnnouncedKeeps
  <2>2. CASE PushedOn(who, good)
    BY <1>1, <1>3, <2>2, PushedOnKeeps
  <2>3. CASE SentOff(who)
    BY <1>1, <1>3, <2>3, SentOffKeeps
  <2>4. CASE Closed(who, good)
    <3>1. /\ who = "worker" /\ Draft.verb = "push" /\ gen' = NoGen
          /\ (good /\ WorkerSends(Closing("ok"))) \/ (~good /\ WorkerSends(Closing("error")))
      BY <2>4 DEF Closed
    <3>2. PICK status \in {"ok", "error", "stopped"} :
             WorkerSends(Closing(status)) /\ status # "stopped" /\ (status = "ok" => good)
      BY <3>1
    <3>3. /\ wire = "worker" /\ tx' = tx /\ at = "sending"
          /\ rx' = rx \/ (rx # <<>> /\ rx' = Tail(rx))
          /\ good => rx # <<>> /\ Head(rx) = "ok"
      BY <1>1, <3>1, HeardIs
    <3>4. UNCHANGED <<fw, evts, late, short, queue>> /\ wire' = Idle /\ plane' = plane
      BY <1>3, <3>1 DEF Settled, fwVars, askVars
    <3>5. Mid("push") /\ gen.turn # 0
      BY <3>1, <3>3 DEF Teller, Placed, Mid
    <3>6. status = "ok" => wire = "worker" /\ rx # <<>> /\ Head(rx) = "ok"
      BY <3>2, <3>3
    <3> QED
      BY <3>1, <3>2, <3>3, <3>4, <3>5, <3>6, ClosingKeeps
  <2> QED
    BY <1>3, <2>1, <2>2, <2>3, <2>4, SettledIs DEF Teller
<1> QED
  BY <1>1, <1>2, <1>3

-----------------------------------------------------------------------------
(* The invariant.                                                            *)

LEMMA InitInv == Init => AnswerInv
<1> SUFFICES ASSUME Init PROVE AnswerInv
  OBVIOUS
<1> DEFINE zero == [s \in Nat |-> 0]
<1>1. /\ fw = [turn |-> 0, open |-> FALSE, next |-> 0, got |-> <<>>]
      /\ evts = <<>> /\ tx = <<>> /\ rx = <<>> /\ wire = Idle
      /\ cmd = [s \in Senders |-> NoCmd]
      /\ queue = <<>> /\ gen = NoGen /\ at = "down"
      /\ active = NoModel /\ cfg = Configured /\ switch = NoSwitch /\ loads = 0 /\ held = 0
      /\ late = FALSE /\ short = FALSE
  BY DEF Init
<1>2. fw \in Latches /\ fw.turn = 0 /\ fw.open = FALSE /\ fw.next = 0 /\ fw.got = <<>>
  <2>1. <<>> \in Seq(Nat)
    OBVIOUS
  <2> QED
    BY <1>1, <2>1 DEF Latches
<1>3. cmd \in [Senders -> Cmds] /\ cmd["worker"] = NoCmd /\ cmd["attach"] = NoCmd
  BY <1>1, NoCmdIs DEF Senders
<1>4. Types
  <2>1. evts \in Seq(Lines) /\ tx \in Seq(Lines) /\ queue \in Seq(Lines) /\ rx \in Seq(Replies)
    BY <1>1
  <2>2. /\ wire \in Senders \cup {Idle} /\ gen \in Gens /\ at \in Places
        /\ active \in Model \cup {NoModel} /\ cfg \in OnHost /\ switch \in Switches
        /\ loads \in Nat /\ held \in Nat /\ ~Switching
    BY <1>1, NoGenIs, ModelAssumption DEF Places, NoSwitch, Switches, Maybe, Switching
  <2> QED
    BY <1>1, <1>2, <1>3, <2>1, <2>2 DEF Types
<1>5. Placed
  BY <1>1, <1>3, NoCmdIs, NoGenIs DEF Placed, Mid
<1>6. zero \in [Nat -> Nat] /\ zero[0] = 0 /\ \A s \in Nat : zero[s] = 0
  OBVIOUS
<1> HIDE DEF zero
<1>7. Tale(0, 0, zero)
  <2>1. Due(queue, evts, 0, fw.turn)
    BY <1>1, <1>2, DueNone
  <2>2. Counted(0, zero)
    BY <1>6 DEF Counted
  <2>3. Drafted(0, 0, zero) /\ Written(0, 0, zero)
    BY <1>1, NoGenIs DEF Drafted, Written, Mid, Range
  <2>4. Applied(0, 0, zero)
    BY <1>2, <1>6 DEF Applied
  <2>5. Prompt(0, 0) /\ ~short
    BY <1>1, <1>2 DEF Prompt, Mid
  <2> QED
    BY <2>1, <2>2, <2>3, <2>4, <2>5 DEF Tale
<1> QED
  BY <1>4, <1>5, <1>6, <1>7 DEF AnswerInv

\* Every step keeps the types.
LEMMA TypesStep == ASSUME Types, Next PROVE Types'
<1>1. CASE Worker
  BY <1>1, AskTypes, PushTypes, StreamTypes, SelectTypes, SpawnTypes DEF Worker, PushText, Keepalive
<1>2. CASE Device
  BY <1>2, DeviceTypes
<1>3. CASE Trouble \/ Beside \/ LoadDone \/ Reconnect
  BY <1>3, TroubleTypes
<1>4. CASE SubmitEvent
  BY <1>4, SubmitTypes
<1>5. CASE \E who \in Senders : Write(who) \/ Reply(who)
  BY <1>5, WriteTypes, ReplyTypes
<1> QED
  BY <1>1, <1>2, <1>3, <1>4, <1>5 DEF Next, Plane, Beside

\* A step keeps the count, but for the one that begins a turn and the one that
\* drafts a push.
LEMMA AnswerStep == AnswerInv /\ [Next]_vars => AnswerInv'
<1> SUFFICES ASSUME AnswerInv, [Next]_vars PROVE AnswerInv'
  OBVIOUS
<1>0. PICK last \in Nat, size \in Nat, c \in [Nat -> Nat] : Tale(last, size, c)
  BY DEF AnswerInv
<1> DEFINE Kept == Placed' /\ Tale(last, size, c)'
<1>1. Types'
  <2>1. Types
    BY DEF AnswerInv
  <2>2. CASE Next
    BY <2>1, <2>2, TypesStep
  <2>3. CASE UNCHANGED vars
    BY <2>1, <2>3 DEF Types, Switching, vars, fwVars, wireVars, askVars, planeVars, serverVars
  <2> QED
    BY <2>2, <2>3
<1>2. Teller(last, size, c)
  BY <1>0, <1>1 DEF Teller, AnswerInv
<1>3. ASSUME Kept PROVE AnswerInv'
  <2>1. \E l \in Nat, s \in Nat, d \in [Nat -> Nat] : Tale(l, s, d)'
    BY <1>3
  <2> QED
    BY <1>1, <1>3, <2>1 DEF AnswerInv
<1> HIDE DEF Kept
<1>4. CASE AskStarted
  <2> DEFINE zero == [s \in Nat |-> 0]
  <2>1. PICK turn : turn = Head(queue).turn
    OBVIOUS
  <2>2. turn \in Nat /\ Placed' /\ Tale(turn, 0, zero)'
    BY <1>2, <1>4, <2>1, BegunKeeps
  <2>3. zero \in [Nat -> Nat]
    OBVIOUS
  <2> HIDE DEF zero
  <2>4. \E l \in Nat, s \in Nat, d \in [Nat -> Nat] : Tale(l, s, d)'
    BY <2>2, <2>3
  <2> QED
    BY <1>1, <2>2, <2>4 DEF AnswerInv
<1>5. CASE PushText \/ Keepalive
  <2>1. PICK more \in BOOLEAN, final \in BOOLEAN : Push(more, final)
    BY <1>5 DEF PushText, Keepalive
  <2> DEFINE n == IF more THEN c[size] + 1 ELSE c[size]
             d == [c EXCEPT ![size + 1] = n]
  <2>2. n \in Nat
    OBVIOUS
  <2>a. size + 1 \in Nat /\ \A s \in Nat : s <= size => s # size + 1
    OBVIOUS
  <2> HIDE DEF n
  <2>3. d \in [Nat -> Nat] /\ d[size + 1] = n /\ \A s \in Nat : s <= size => d[s] = c[s]
    BY <2>2, <2>a
  <2> HIDE DEF d
  <2>4. d[size + 1] = IF more THEN c[size] + 1 ELSE c[size]
    BY <2>3 DEF n
  <2>5. Placed' /\ Tale(last, size + 1, d)'
    BY <1>2, <2>1, <2>3, <2>4, PushKeeps
  <2>6. \E l \in Nat, s \in Nat, e \in [Nat -> Nat] : Tale(l, s, e)'
    BY <2>a, <2>3, <2>5
  <2> QED
    BY <1>1, <2>5, <2>6 DEF AnswerInv
<1>6. CASE Worker /\ ~AskStarted /\ ~(PushText \/ Keepalive)
  <2>1. CASE AskRefused \/ SelectRefused \/ SelectLoaded
    BY <1>2, <1>3, <2>1, RefusedKeeps DEF Kept
  <2>2. CASE StreamEnds
    BY <1>2, <1>3, <2>2, StreamKeeps DEF Kept
  <2>3. CASE Started \/ RestoreFails
    BY <1>2, <1>3, <2>3, CatalogKeeps DEF Kept
  <2>4. CASE SwitchModel \/ SwitchSpawns \/ SpawnFails
    BY <1>2, <1>3, <2>4, SwitchKeeps DEF Kept
  <2> QED
    BY <1>3, <1>6, <2>1, <2>2, <2>3, <2>4 DEF Worker
<1>7. CASE Device
  <2>1. CASE FwHandles
    BY <1>2, <1>3, <2>1, HandlesKeeps DEF Kept
  <2>2. CASE FwAsk \/ FwCancel \/ FwGivesUp \/ FwSelect
    BY <1>2, <1>3, <2>2, DeviceKeeps DEF Kept
  <2> QED
    BY <1>3, <1>7, <2>1, <2>2 DEF Device
<1>8. CASE Trouble \/ SubmitEvent \/ Beside \/ LoadDone \/ Reconnect
  <2>1. CASE LoseLine \/ LoseReply \/ LineDamaged
    BY <1>2, <1>3, <2>1, LossKeeps DEF Kept
  <2>2. CASE SubmitEvent \/ Beside
    BY <1>2, <1>3, <2>2, RoutedKeeps DEF Kept
  <2>3. CASE LinkLost
    BY <1>2, <1>3, <2>3, LostKeeps DEF Kept
  <2>4. CASE LoadDone
    BY <1>2, <1>3, <2>4, LoadKeeps DEF Kept
  <2>5. CASE Reconnect
    BY <1>2, <1>3, <2>5, CatalogKeeps DEF Kept
  <2> QED
    BY <1>3, <1>8, <2>1, <2>2, <2>3, <2>4, <2>5 DEF Trouble, Beside
<1>9. ASSUME NEW who \in Senders, Write(who) \/ Reply(who) PROVE AnswerInv'
  <2>1. CASE Write(who)
    BY <1>2, <1>3, <2>1, WriteKeeps DEF Kept
  <2>2. CASE Reply(who)
    BY <1>2, <1>3, <2>2, ReplyKeeps DEF Kept
  <2> QED
    BY <1>3, <1>9, <2>1, <2>2
<1>10. CASE UNCHANGED vars
  <2>1. /\ UNCHANGED <<fw, tx, rx, wire, late, short, cmd, at, plane>>
        /\ gen' = gen /\ queue' = queue /\ evts' = evts
    BY <1>10 DEF vars, fwVars, wireVars, askVars, planeVars, serverVars
  <2>2. Due(queue', evts', last, fw.turn)
    BY <1>0, <2>1 DEF Tale
  <2>3. Kept
    BY <1>2, <2>1, <2>2, QuietKeeps DEF Kept
  <2> QED
    BY <1>3, <2>3
<1> QED
  BY <1>4, <1>5, <1>6, <1>7, <1>8, <1>9, <1>10 DEF Next, Plane, Beside

\* cm5_llm.py:931, for every number of turns, pushes, retries and faults: the
\* device holds a prefix of the answer, in order and without a chunk twice.
THEOREM AnswerInOrder == Spec => []TextInOrder
<1>1. AnswerInv => TextInOrder
  BY DEF AnswerInv, Tale, Applied, TextInOrder
<1> QED
  BY <1>1, InitInv, AnswerStep, PTL DEF Spec

\* An answer closed as ok is whole on the device, unless a reply came so late that
\* it was taken for the reply to a later line.
THEOREM AnswerWhole == Spec => []WholeAnswer
<1>1. AnswerInv => WholeAnswer
  BY DEF AnswerInv, Types, Tale, WholeAnswer
<1> QED
  BY <1>1, InitInv, AnswerStep, PTL DEF Spec

-----------------------------------------------------------------------------
(* The bounds.                                                               *)

\* A line within the bounds of the instance, and a sequence of such lines.
Fits(l) ==
    /\ l.turn <= MaxAsks /\ l.seq <= MaxPushes /\ l.text <= MaxPushes
    /\ l.verb = "push" => l.seq < MaxPushes
    /\ l.verb \in {"ask", "cancel"} => l.turn # 0
FitLines == {l \in Lines : Fits(l)}
FitCmds == [line : FitLines, tries : 0 .. 2]

\* What TypeOK says beyond Types, part by part; the text of the turn under way
\* counts at most the pushes begun.
LatchFits ==
    /\ fw.turn <= MaxAsks /\ fw.next <= MaxPushes /\ (fw.open => fw.turn # 0)
    /\ fw.got \in Seq(1 .. MaxPushes)
LinesFit ==
    /\ evts \in Seq(FitLines) /\ tx \in Seq(FitLines) /\ queue \in Seq(FitLines)
    /\ Len(queue) <= QueueSize /\ cmd \in [Senders -> FitCmds]
TurnFits ==
    /\ gen.turn <= MaxAsks /\ gen.seq <= MaxPushes
    /\ IF Mid("push") THEN gen.text <= gen.seq + 1 /\ gen.seq < MaxPushes
       ELSE gen.text <= gen.seq
Ports(n) == [by : 0 .. n, model : Maybe, up : BOOLEAN]
MemoryFits ==
    /\ cancelled \in Seq(1 .. MaxAsks) /\ IsInjective(cancelled) /\ Len(cancelled) <= CancelMemory
    /\ owed \subseteq 1 .. MaxAsks
LoadsFit ==
    /\ plane \in {"loading", "spawning", "attaching", "publishing", "attached", "failed"}
    /\ loads <= faults + 1 /\ (plane = "loading" => loads <= faults)
    /\ plane # "loading" => loads # 0
    /\ held \in 0 .. loads
    /\ selects \in 0 .. MaxSelects /\ faults \in 0 .. MaxFaults
PortFits ==
    /\ switch.sup \in 0 .. loads /\ (Switching => switch.sup # 0)
    /\ port \in Ports(loads) /\ monitor \subseteq 1 .. loads
PlaneFits == LoadsFit /\ PortFits
Noted == rebound \in BOOLEAN

Fitting == LatchFits /\ LinesFit /\ TurnFits /\ MemoryFits /\ PlaneFits /\ Noted

\* A line of a verb other than ask and cancel fits when its numbers do.
LEMMA LineFits ==
    ASSUME NEW verb \in Verbs, NEW turn \in Nat, NEW seq \in Nat, NEW text \in Nat, NEW arg \in Args,
           turn <= MaxAsks, seq <= MaxPushes, text <= MaxPushes,
           verb = "push" => seq < MaxPushes, verb \in {"ask", "cancel"} => turn # 0
    PROVE  Line(verb, turn, seq, text, arg) \in FitLines
  BY LineIs DEF FitLines, Fits

\* The lines that name no turn.
LEMMA PlainFits ==
    /\ Models \in FitLines /\ \A m \in Args : Ready(m) \in FitLines
    /\ NoCmd \in FitCmds
<1>0. MaxAsks \in Nat /\ MaxPushes \in Nat
  BY BoundAssumption
<1>1. Models \in FitLines /\ \A m \in Args : Ready(m) \in FitLines
  BY <1>0, LineFits DEF Models, Ready, Verbs, Args
<1> QED
  BY <1>1 DEF NoCmd, FitCmds

\* A sender takes a line that fits.
LEMMA SendsFit ==
    ASSUME LinesFit, NEW who \in Senders, NEW line \in FitLines, Sends(who, line)
    PROVE  cmd' \in [Senders -> FitCmds]
<1> DEFINE new == [line |-> line, tries |-> 1]
<1>1. new \in FitCmds
  BY DEF FitCmds
<1>2. cmd' = [cmd EXCEPT ![who] = new]
  BY DEF Sends
<1> HIDE DEF new
<1> QED
  BY <1>1, <1>2 DEF LinesFit

\* What a start or a stop makes of the port.
LEMMA PortOf ==
    ASSUME NEW n \in Nat, NEW s \in 0 .. n, NEW m \in OnHost, NEW stopped, port \in Ports(n)
    PROVE  /\ Spawned(s, m) \in Ports(n) /\ Without(stopped) \in Ports(n)
           /\ NoChild \in Ports(n)
  BY DEF Spawned, Without, NoChild, Ports, Maybe

LEMMA MoreFaults ==
    ASSUME NEW n \in Nat, NEW a \in Nat, NEW b \in Nat, a <= b
    PROVE  (n <= a => n <= b) /\ (n <= a + 1 => n <= b + 1)
  OBVIOUS

\* PlaneFits: every step keeps what it says of the children and of the counts.
LEMMA PlaneStep == ASSUME Types, Placed, PlaneFits, [Next]_vars PROVE PlaneFits'
<1>n. /\ MaxSelects \in Nat /\ MaxFaults \in Nat /\ selects \in Nat /\ faults \in Nat
      /\ loads \in Nat /\ loads <= faults + 1 /\ (plane = "loading" => loads <= faults)
  BY BoundAssumption DEF PlaneFits, LoadsFit, Types
<1>0. /\ loads \in Nat /\ faults \in Nat /\ cfg \in OnHost
      /\ port \in Ports(loads) /\ monitor \subseteq 1 .. loads /\ switch.sup \in 0 .. loads
  BY <1>n DEF PlaneFits, PortFits, Types
<1>1. ASSUME Fault
      PROVE  faults' \in 0 .. MaxFaults /\ selects' = selects /\ faults' = faults + 1
  BY <1>n, <1>1 DEF Fault
<1>a. ASSUME NEW s, StartFails(s)
      PROVE  faults' \in 0 .. MaxFaults /\ selects' = selects /\ faults' >= faults
  BY <1>n, <1>1, <1>a DEF StartFails, boundVars, PlaneFits, LoadsFit
<1>j. ASSUME faults' \in 0 .. MaxFaults, faults' >= faults
      PROVE  loads <= faults' + 1 /\ (plane = "loading" => loads <= faults')
  <2>1. faults' \in Nat /\ loads <= faults + 1 /\ loads \in Nat /\ faults \in Nat
    BY <1>n, <1>j
  <2>0. faults <= faults'
    BY <1>j, <2>1
  <2> QED
    BY <1>n, <2>0, <2>1, MoreFaults
<1>2. CASE AskRefused \/ AskStarted \/ StreamEnds \/ SelectRefused
  BY <1>2 DEF AskRefused, AskStarted, StreamEnds, SelectRefused, PlaneFits, LoadsFit,
              PortFits, Switching, Takes,
              WorkerSends, planeVars, serverVars, boundVars
<1>b. CASE SelectLoaded
  BY <1>b DEF SelectLoaded, PlaneFits, LoadsFit, PortFits, Switching, Takes, WorkerSends,
              serverVars, boundVars
<1>3. CASE PushText \/ Keepalive
  <2>1. PICK more \in BOOLEAN, final \in BOOLEAN : Push(more, final)
    BY <1>3 DEF PushText, Keepalive
  <2> QED
    BY <2>1 DEF Push, Streaming, PlaneFits, LoadsFit, PortFits, Switching, WorkerSends,
                planeVars, serverVars, boundVars
<1>4. CASE SwitchModel
  <2>1. port' \in Ports(loads) /\ switch'.sup = held /\ monitor' \subseteq monitor
    BY <1>0, <1>4, PortOf DEF SwitchModel
  <2> QED
    BY <1>0, <1>4, <2>1 DEF SwitchModel, PlaneFits, LoadsFit, PortFits, Bound, planeVars,
                            boundVars
<1>c. CASE SwitchSpawns
  <2>1. port' \in Ports(loads)
    BY <1>0, <1>c, PortOf DEF SwitchSpawns, Types, Switching
  <2>2. LoadsFit'
    BY <1>c DEF SwitchSpawns, PlaneFits, LoadsFit, planeVars, boundVars
  <2>3. PortFits'
    BY <1>c, <2>1 DEF SwitchSpawns, PlaneFits, PortFits, Switching, planeVars
  <2> QED
    BY <2>2, <2>3 DEF PlaneFits
<1>d. CASE Started
  <2>1. switch.sup # 0 /\ switch'.sup = 0 /\ ~Switching' /\ monitor' = monitor \cup {switch.sup}
    BY <1>d DEF Started, PlaneFits, PortFits, Switching, NoSwitch, WorkerSends
  <2>a. switch.sup \in 1 .. loads
    BY <1>n, <1>0, <2>1
  <2>2. monitor' \subseteq 1 .. loads
    BY <1>0, <2>1, <2>a
  <2> QED
    BY <1>0, <1>d, <2>1, <2>2 DEF Started, PlaneFits, LoadsFit, PortFits, boundVars
<1>5. CASE SpawnFails
  <2>1. port' \in Ports(loads)
    BY <1>0, <1>5, PortOf DEF SpawnFails, Types, Switching
  <2> QED
    BY <1>0, <1>a, <1>5, <2>1 DEF SpawnFails, PlaneFits, LoadsFit, PortFits, Switching,
                                  planeVars
<1>e. CASE RestoreFails
  <2>1. port' \in Ports(loads) /\ switch'.sup = 0 /\ ~Switching'
    BY <1>0, <1>e, PortOf DEF RestoreFails, Switching, NoSwitch, WorkerSends
  <2> QED
    BY <1>0, <1>a, <1>e, <2>1 DEF RestoreFails, PlaneFits, LoadsFit, PortFits
<1>6. CASE FwHandles \/ FwAsk \/ FwCancel \/ FwGivesUp
  BY <1>6 DEF FwHandles, FwAsk, FwCancel, FwGivesUp, PlaneFits, LoadsFit, PortFits,
              Switching, planeVars, serverVars,
              boundVars
<1>7. CASE FwSelect
  <2>1. selects' \in 0 .. MaxSelects
    BY <1>n, <1>7 DEF FwSelect
  <2>2. LoadsFit'
    BY <1>7, <2>1 DEF FwSelect, PlaneFits, LoadsFit, planeVars
  <2>3. PortFits'
    BY <1>7 DEF FwSelect, PlaneFits, PortFits, Switching, planeVars, serverVars
  <2> QED
    BY <2>2, <2>3 DEF PlaneFits
<1>8. CASE LoseLine \/ LoseReply \/ LineDamaged
  <2>1. faults' \in 0 .. MaxFaults /\ selects' = selects /\ faults' = faults + 1
        /\ UNCHANGED <<planeVars, serverVars, at>>
    BY <1>1, <1>8 DEF LoseLine, LoseReply, LineDamaged
  <2>2. LoadsFit'
    BY <1>n, <2>1 DEF PlaneFits, LoadsFit, planeVars
  <2>3. PortFits'
    BY <2>1 DEF PlaneFits, PortFits, Switching, planeVars, serverVars
  <2> QED
    BY <2>2, <2>3 DEF PlaneFits
<1>9. CASE ServerDies \/ ChildUp
  <2>1. port' \in Ports(loads)
    BY <1>0, <1>9, PortOf DEF ServerDies, ChildUp, Ports
  <2>2. faults' \in 0 .. MaxFaults /\ selects' = selects /\ faults' >= faults
    BY <1>n, <1>1, <1>9 DEF ServerDies, ChildUp, boundVars, PlaneFits, LoadsFit
  <2> QED
    BY <1>0, <1>9, <2>1, <2>2 DEF ServerDies, ChildUp, PlaneFits, LoadsFit, PortFits,
                                  Switching, planeVars
<1>f. CASE Monitor
  <2>1. PICK s \in monitor : MonitorRestarts(s) \/ MonitorGivesUp(s)
    BY <1>f DEF Monitor
  <2>2. port' \in Ports(loads) /\ monitor' \subseteq monitor
    BY <1>0, <2>1, PortOf DEF MonitorRestarts, MonitorGivesUp
  <2>3. faults' \in 0 .. MaxFaults /\ selects' = selects /\ faults' >= faults
    BY <1>n, <1>1, <2>1 DEF MonitorRestarts, MonitorGivesUp, boundVars, PlaneFits, LoadsFit
  <2>4. UNCHANGED <<planeVars, at, cfg, switch>>
    BY <2>1 DEF MonitorRestarts, MonitorGivesUp
  <2>5. LoadsFit'
    <3>1. loads <= faults' + 1 /\ (plane = "loading" => loads <= faults')
      BY <1>j, <2>3
    <3> QED
      BY <2>3, <2>4, <3>1 DEF PlaneFits, LoadsFit, planeVars
  <2>6. PortFits'
    BY <1>0, <2>2, <2>4 DEF PlaneFits, PortFits, Switching, planeVars
  <2> QED
    BY <2>5, <2>6 DEF PlaneFits
<1>g. CASE LoadStarts
  <2>1. port \in Ports(loads + 1) /\ loads' = loads + 1 /\ loads' \in Nat
    BY <1>0, <1>g DEF LoadStarts, Ports
  <2>2. port' \in Ports(loads')
    BY <1>0, <1>g, <2>1, PortOf DEF LoadStarts
  <2>3. monitor' \subseteq 1 .. loads' /\ switch'.sup \in 0 .. loads' /\ held' \in 0 .. loads'
        /\ loads' <= faults' + 1 /\ loads' # 0
    BY <1>0, <1>g, <2>1 DEF LoadStarts, PlaneFits, LoadsFit, PortFits, boundVars
  <2> QED
    BY <1>g, <2>2, <2>3 DEF LoadStarts, PlaneFits, LoadsFit, PortFits, Switching, Bound,
                            boundVars
<1>h. CASE LoadFails
  <2>1. port' \in Ports(loads)
    BY <1>0, <1>h, PortOf DEF LoadFails
  <2> QED
    BY <1>0, <1>a, <1>h, <2>1 DEF LoadFails, PlaneFits, LoadsFit, PortFits, Switching
<1>i. CASE LoadDone
  <2>1. monitor' \subseteq 1 .. loads /\ held' \in 0 .. loads
    BY <1>0, <1>i DEF LoadDone, PlaneFits, LoadsFit, PortFits
  <2> QED
    BY <1>i, <2>1 DEF LoadDone, PlaneFits, LoadsFit, PortFits, Switching, boundVars
<1>10. CASE PlaneUp \/ Reconnect
  BY <1>10 DEF PlaneUp, Reconnect, PlaneFits, LoadsFit, PortFits, Switching, WorkerSends,
               planeVars, serverVars,
               boundVars
<1>11. CASE LinkLost
  <2>1. /\ switch'.sup = 0 /\ ~Switching' /\ loads' = loads /\ held' = held
        /\ monitor' \subseteq monitor
    BY <1>11 DEF LinkLost, Switching, NoSwitch
  <2>2. port' \in Ports(loads)
    BY <1>0, <1>11, PortOf DEF LinkLost
  <2>3. plane' \in {"loading", "spawning", "attaching", "publishing", "attached", "failed"}
        /\ (plane' # "loading" => plane # "loading")
    BY <1>11 DEF LinkLost, AfterLoss, PlaneFits, LoadsFit, PortFits
  <2>4. faults' \in 0 .. MaxFaults /\ selects' = selects /\ faults' = faults + 1
    BY <1>1, <1>11 DEF LinkLost
  <2> QED
    BY <1>0, <2>1, <2>2, <2>3, <2>4 DEF PlaneFits, LoadsFit, PortFits
<1>12. CASE SubmitEvent
  <2>1. LoadsFit'
    BY <1>12 DEF SubmitEvent, PlaneFits, LoadsFit, planeVars, boundVars
  <2>2. PortFits'
    BY <1>12 DEF SubmitEvent, PlaneFits, PortFits, Switching, planeVars, serverVars
  <2> QED
    BY <2>1, <2>2 DEF PlaneFits
<1>13. ASSUME NEW who \in Senders, Write(who) PROVE PlaneFits'
  BY <1>13 DEF Write, PlaneFits, LoadsFit, PortFits, Switching, planeVars, serverVars, boundVars
<1>14. ASSUME NEW who \in Senders, Reply(who) PROVE PlaneFits'
  <2>1. faults' \in 0 .. MaxFaults /\ selects' = selects /\ faults' >= faults
    <3>1. UNCHANGED boundVars \/ Fault
      BY <1>14 DEF Reply, Answered, TimedOut
    <3>2. CASE UNCHANGED boundVars
      BY <1>n, <3>2 DEF boundVars, PlaneFits, LoadsFit
    <3>3. CASE Fault
      BY <1>n, <1>1, <3>3
    <3> QED
      BY <3>1, <3>2, <3>3
  <2>2. PICK good \in BOOLEAN : Heard(who, good) /\ (Settled(who, good) \/ Again(who))
    BY <1>14, ReplyIs
  <2>3. UNCHANGED <<loads, held, serverVars>>
    BY <2>2 DEF Settled, Again, planeVars
  <2>4. plane' = plane \/ (plane' = "publishing" /\ plane = "attaching")
    <3>1. wire # Idle /\ cmd[wire].tries > 0 /\ wire = who
      BY <2>2 DEF Heard, Placed, Senders, Idle
    <3> QED
      BY <2>2, <3>1 DEF Settled, Again, planeVars, Placed
  <2>5. Switching' => Switching
    <3>1. at' = at \/ at' \in {"sending", "idle", "stream"}
      BY <2>2, SettledIs DEF Again, Announced, PushedOn, Closed, SentOff, WorkerSends, Settled
    <3> QED
      BY <3>1 DEF Switching
  <2>6. LoadsFit'
    <3>1. loads <= faults' + 1 /\ (plane = "loading" => loads <= faults')
      BY <1>j, <2>1
    <3> QED
      BY <2>1, <2>3, <2>4, <3>1 DEF PlaneFits, LoadsFit
  <2>7. PortFits'
    BY <2>3, <2>5 DEF PlaneFits, PortFits, serverVars
  <2> QED
    BY <2>6, <2>7 DEF PlaneFits
<1>15. CASE UNCHANGED vars
  BY <1>15 DEF vars, PlaneFits, LoadsFit, PortFits, Switching, planeVars, serverVars, boundVars
<1> QED
  BY <1>2, <1>3, <1>4, <1>5, <1>6, <1>7, <1>8, <1>9, <1>10, <1>11, <1>12, <1>13, <1>14, <1>15,
     <1>b, <1>c, <1>d, <1>e, <1>f, <1>g, <1>h, <1>i
     DEF Next, Worker, Device, Plane, Trouble

\* Noted: only a plane that is loaded writes the history of it.
LEMMA NotedStep == ASSUME Types, Noted, [Next]_vars PROVE Noted'
<1>1. ASSUME rebound' = rebound PROVE Noted'
  BY <1>1 DEF Noted
<1>2. CASE PushText \/ Keepalive
  <2>1. PICK more \in BOOLEAN, final \in BOOLEAN : Push(more, final)
    BY <1>2 DEF PushText, Keepalive
  <2> QED
    BY <1>1, <2>1 DEF Push, planeVars
<1>3. CASE Worker /\ ~(PushText \/ Keepalive)
  BY <1>1, <1>3 DEF Worker, AskRefused, AskStarted, StreamEnds, SelectRefused, SelectLoaded,
            SwitchModel, SwitchSpawns, Started, SpawnFails, RestoreFails, planeVars
<1>4. CASE Device \/ SubmitEvent \/ Reconnect
  BY <1>1, <1>4 DEF Device, FwHandles, FwAsk, FwCancel, FwGivesUp, FwSelect, SubmitEvent, Reconnect,
            planeVars
<1>5. CASE Trouble \/ ChildUp
  BY <1>1, <1>5 DEF Trouble, LoseLine, LoseReply, LineDamaged, ServerDies, LinkLost, ChildUp, planeVars
<1>6. CASE Monitor
  BY <1>1, <1>6 DEF Monitor, MonitorRestarts, MonitorGivesUp, planeVars
<1>7. CASE LoadDone \/ LoadFails \/ PlaneUp
  BY <1>1, <1>7 DEF LoadDone, LoadFails, PlaneUp
<1>8. CASE LoadStarts
  BY <1>8 DEF LoadStarts, Noted, Bound
<1>9. ASSUME NEW who \in Senders, Write(who) \/ Reply(who) PROVE Noted'
  <2>1. CASE Write(who)
    BY <1>1, <2>1 DEF Write, planeVars
  <2>2. CASE Reply(who)
    <3>1. \E good \in BOOLEAN : Settled(who, good) \/ Again(who)
      BY <2>2, ReplyIs
    <3> QED
      BY <1>1, <3>1 DEF Settled, Again, planeVars
  <2> QED
    BY <1>9, <2>1, <2>2
<1>10. CASE UNCHANGED vars
  BY <1>1, <1>10 DEF vars, planeVars
<1> QED
  BY <1>2, <1>3, <1>4, <1>5, <1>6, <1>7, <1>8, <1>9, <1>10 DEF Next, Plane

\* LatchFits: the device's turn.
LEMMA LatchStep == ASSUME Types, LinesFit, LatchFits, [Next]_vars PROVE LatchFits'
<1>0. MaxAsks \in Nat /\ MaxPushes \in Nat /\ <<>> \in Seq(1 .. MaxPushes)
  BY BoundAssumption
<1>1. ASSUME fw' = Over \/ fw' = fw PROVE LatchFits'
  <2>1. Over.turn = fw.turn /\ Over.next = 0 /\ Over.open = FALSE /\ Over.got = <<>>
    BY OverIs
  <2>2. CASE fw' = Over
    <3>1. fw'.turn = fw.turn /\ fw'.next = 0 /\ fw'.open = FALSE /\ fw'.got = <<>>
      BY <2>1, <2>2
    <3> QED
      BY <1>0, <3>1 DEF LatchFits
  <2>3. CASE fw' = fw
    BY <2>3 DEF LatchFits
  <2> QED
    BY <1>1, <2>2, <2>3
<1>2. CASE FwHandles
  <2>1. PICK l \in FitLines : PushTaken(l) \/ TurnEnded(l) \/ LineIgnored(l)
    <3>1. tx # <<>> /\ tx \in Seq(FitLines)
      BY <1>2 DEF FwHandles, LinesFit
    <3>2. Head(tx) \in FitLines
      BY <3>1, TailOf
    <3> QED
      BY <1>2, <3>2, HandlesIs
  <2>2. CASE PushTaken(l)
    <3> DEFINE got == IF l.text = 0 THEN fw.got ELSE Append(fw.got, l.text)
    <3>1. l.text \in 0 .. MaxPushes /\ fw.next < MaxPushes
      BY <1>0, <2>2 DEF PushTaken, FitLines, Fits, Lines
    <3>2. got \in Seq(1 .. MaxPushes)
      <4>1. CASE l.text = 0
        BY <4>1 DEF LatchFits
      <4>2. CASE l.text # 0
        <5>1. l.text \in 1 .. MaxPushes /\ fw.got \in Seq(1 .. MaxPushes)
          BY <1>0, <3>1, <4>2 DEF LatchFits
        <5> QED
          BY <4>2, <5>1, AppendOf
      <4> QED
        BY <4>1, <4>2
    <3>3. fw' = [fw EXCEPT !.next = fw.next + 1, !.got = got]
      BY <2>2 DEF PushTaken
    <3>4. fw \in Latches /\ fw.next + 1 \in Nat /\ fw.next + 1 <= MaxPushes
      BY <1>0, <3>1, OverIs
    <3> HIDE DEF got
    <3>5. fw'.turn = fw.turn /\ fw'.open = fw.open /\ fw'.next = fw.next + 1 /\ fw'.got = got
      BY <3>3, <3>4 DEF Latches
    <3> QED
      BY <3>2, <3>4, <3>5 DEF LatchFits
  <2>3. CASE TurnEnded(l) \/ LineIgnored(l)
    BY <1>1, <2>3 DEF TurnEnded, LineIgnored
  <2> QED
    BY <2>1, <2>2, <2>3
<1>3. CASE FwAsk
  <2>1. fw.turn \in Nat
    BY OverIs
  <2> QED
    BY <1>0, <1>3, <2>1 DEF FwAsk, LatchFits
<1>4. CASE FwCancel \/ FwGivesUp \/ LinkLost
  BY <1>1, <1>4 DEF FwCancel, FwGivesUp, LinkLost
<1>5. CASE Worker
  <2>1. CASE PushText \/ Keepalive
    <3>1. PICK more \in BOOLEAN, final \in BOOLEAN : Push(more, final)
      BY <2>1 DEF PushText, Keepalive
    <3> QED
      BY <1>1, <3>1 DEF Push, fwVars
  <2>2. CASE ~(PushText \/ Keepalive)
    BY <1>1, <1>5, <2>2 DEF Worker, AskRefused, AskStarted, StreamEnds, SelectRefused,
            SelectLoaded, SwitchModel, SwitchSpawns, Started, SpawnFails, RestoreFails, fwVars
  <2> QED
    BY <2>1, <2>2
<1>6. CASE LoseLine \/ LoseReply \/ LineDamaged \/ SubmitEvent \/ Beside \/ LoadDone
           \/ Reconnect \/ FwSelect \/ UNCHANGED vars
  BY <1>1, <1>6, ApartIs DEF LoseLine, LoseReply, LineDamaged, SubmitEvent, Apart, LoadDone,
                    Reconnect, FwSelect, vars, fwVars
<1>7. ASSUME NEW who \in Senders, Write(who) \/ Reply(who) PROVE LatchFits'
  <2>1. CASE Write(who)
    BY <1>1, <2>1 DEF Write, fwVars
  <2>2. CASE Reply(who)
    <3>1. \E good \in BOOLEAN : Settled(who, good) \/ Again(who)
      BY <2>2, ReplyIs
    <3> QED
      BY <1>1, <3>1 DEF Settled, Again, fwVars
  <2> QED
    BY <1>7, <2>1, <2>2
<1> QED
  BY <1>2, <1>3, <1>4, <1>5, <1>6, <1>7 DEF Next, Device, Plane, Trouble, Beside

\* MemoryFits: the turns remembered as cancelled, and those whose end is owed.
LEMMA MemoryStep == ASSUME Types, LinesFit, MemoryFits, [Next]_vars PROVE MemoryFits'
<1>1. CASE SubmitEvent
  <2> DEFINE e == Head(evts)
             full == Len(queue) >= QueueSize
  <2>1. e \in FitLines
    <3>1. evts # <<>> /\ evts \in Seq(FitLines)
      BY <1>1 DEF SubmitEvent, LinesFit
    <3> QED
      BY <3>1, TailOf
  <2>2. e.verb \in {"ask", "cancel"} => e.turn \in 1 .. MaxAsks
    BY <2>1, BoundAssumption DEF FitLines, Fits, Lines
  <2>3. owed' \subseteq 1 .. MaxAsks
    <3>1. owed' = IF e.verb = "ask" /\ ~full THEN owed \cup {e.turn} ELSE owed
      BY <1>1 DEF SubmitEvent
    <3> QED
      BY <2>2, <3>1 DEF MemoryFits
  <2>4. \/ cancelled' = cancelled
        \/ e.verb \in {"ask", "cancel"} /\ cancelled' = Remembered(cancelled, e.turn, CancelMemory)
    BY <1>1 DEF SubmitEvent, Remember
  <2> HIDE DEF e
  <2>5. ASSUME e.turn \in 1 .. MaxAsks, cancelled' = Remembered(cancelled, e.turn, CancelMemory)
        PROVE  cancelled' \in Seq(1 .. MaxAsks) /\ IsInjective(cancelled')
               /\ Len(cancelled') <= CancelMemory
    <3>1. /\ cancelled \in Seq(1 .. MaxAsks) /\ IsInjective(cancelled)
          /\ Len(cancelled) <= CancelMemory /\ CancelMemory \in Nat \ {0}
      BY BoundAssumption DEF MemoryFits
    <3> QED
      BY <2>5, <3>1, RememberedKeeps
  <2> QED
    BY <2>2, <2>3, <2>4, <2>5 DEF MemoryFits
<1>2. CASE LinkLost
  BY <1>2 DEF LinkLost, MemoryFits
<1>3. ASSUME NEW who \in Senders, Write(who) PROVE MemoryFits'
  <2>1. owed' \subseteq owed
    BY <1>3 DEF Write
  <2> QED
    BY <1>3, <2>1 DEF Write, MemoryFits
<1>4. ASSUME UNCHANGED <<cancelled, owed>> PROVE MemoryFits'
  BY <1>4 DEF MemoryFits
<1>5. CASE Worker
  <2>1. CASE PushText \/ Keepalive
    <3>1. PICK more \in BOOLEAN, final \in BOOLEAN : Push(more, final)
      BY <2>1 DEF PushText, Keepalive
    <3> QED
      BY <1>4, <3>1 DEF Push, askVars
  <2>2. CASE ~(PushText \/ Keepalive)
    BY <1>4, <1>5, <2>2 DEF Worker, AskRefused, AskStarted, StreamEnds, SelectRefused,
            SelectLoaded, SwitchModel, SwitchSpawns, Started, SpawnFails, RestoreFails, askVars
  <2> QED
    BY <2>1, <2>2
<1>6. CASE LoseLine \/ LoseReply \/ LineDamaged \/ Beside \/ LoadDone \/ Reconnect
           \/ Device \/ UNCHANGED vars
  BY <1>4, <1>6, ApartIs DEF LoseLine, LoseReply, LineDamaged, Apart, LoadDone, Reconnect, Device,
                    FwHandles, FwAsk, FwCancel, FwGivesUp, FwSelect, vars, askVars
<1>7. ASSUME NEW who \in Senders, Reply(who) PROVE MemoryFits'
  <2>1. \E good \in BOOLEAN : Settled(who, good) \/ Again(who)
    BY <1>7, ReplyIs
  <2> QED
    BY <1>4, <2>1 DEF Settled, Again, askVars
<1> QED
  BY <1>1, <1>2, <1>3, <1>5, <1>6, <1>7 DEF Next, Plane, Trouble, Beside

\* The steps that leave the lines alone, apart from the worker's and a reply.
Aside == FwGivesUp \/ LoseReply \/ Beside \/ UNCHANGED vars

\* The events that are to be routed.
LEMMA EventsStep ==
    ASSUME Types, LinesFit, LatchFits, [Next]_vars PROVE evts' \in Seq(FitLines)
<1>0. evts \in Seq(FitLines) /\ MaxAsks \in Nat /\ MaxPushes \in Nat /\ fw.turn \in Nat
  BY BoundAssumption, OverIs DEF LinesFit
<1>1. ASSUME NEW l \in FitLines, evts' = Append(evts, l) PROVE evts' \in Seq(FitLines)
  BY <1>0, <1>1, AppendOf
<1>2. CASE FwAsk
  <2> DEFINE l == Line("ask", fw.turn + 1, 0, 0, NoModel)
  <2>1. evts' = Append(evts, l) /\ fw.turn + 1 <= MaxAsks /\ fw.turn + 1 \in Nat
    BY <1>0, <1>2 DEF FwAsk
  <2>2. l \in FitLines
    BY <1>0, <2>1, LineFits DEF Verbs, Args
  <2> QED
    BY <1>1, <2>1, <2>2
<1>3. CASE FwCancel
  <2> DEFINE l == Line("cancel", fw.turn, 0, 0, NoModel)
  <2>1. evts' = Append(evts, l) /\ fw.turn <= MaxAsks /\ fw.turn # 0
    BY <1>3 DEF FwCancel, LatchFits
  <2>2. l \in FitLines
    BY <1>0, <2>1, LineFits DEF Verbs, Args
  <2> QED
    BY <1>1, <2>1, <2>2
<1>4. CASE FwSelect
  <2>1. PICK m \in Model : evts' = Append(evts, Line("select", 0, 0, 0, m))
    BY <1>4 DEF FwSelect
  <2>2. Line("select", 0, 0, 0, m) \in FitLines
    BY <1>0, LineFits DEF Verbs, Args
  <2> QED
    BY <1>1, <2>1, <2>2
<1>5. CASE SubmitEvent
  <2>1. evts # <<>> /\ evts' = Tail(evts)
    BY <1>5 DEF SubmitEvent
  <2> QED
    BY <1>0, <2>1, TailOf
<1>6. CASE LinkLost
  BY <1>6 DEF LinkLost
<1>7. CASE FwHandles \/ LoseLine \/ LineDamaged \/ LoadDone \/ Reconnect \/ Aside
  BY <1>0, <1>7, ApartIs DEF FwHandles, LoseLine, LineDamaged, LoadDone, Reconnect, Aside,
                    FwGivesUp, LoseReply, Apart, vars, fwVars
<1>8. CASE Worker
  <2>1. CASE PushText \/ Keepalive
    <3>1. PICK more \in BOOLEAN, final \in BOOLEAN : Push(more, final)
      BY <2>1 DEF PushText, Keepalive
    <3> QED
      BY <1>0, <3>1 DEF Push, fwVars
  <2>2. CASE ~(PushText \/ Keepalive)
    BY <1>0, <1>8, <2>2 DEF Worker, AskRefused, AskStarted, StreamEnds, SelectRefused,
            SelectLoaded, SwitchModel, SwitchSpawns, Started, SpawnFails, RestoreFails, fwVars
  <2> QED
    BY <2>1, <2>2
<1>9. ASSUME NEW who \in Senders, Write(who) \/ Reply(who) PROVE evts' \in Seq(FitLines)
  <2>1. CASE Write(who)
    BY <1>0, <2>1 DEF Write, fwVars
  <2>2. CASE Reply(who)
    <3>1. \E good \in BOOLEAN : Settled(who, good) \/ Again(who)
      BY <2>2, ReplyIs
    <3> QED
      BY <1>0, <3>1 DEF Settled, Again, fwVars
  <2> QED
    BY <1>9, <2>1, <2>2
<1> QED
  BY <1>2, <1>3, <1>4, <1>5, <1>6, <1>7, <1>8, <1>9 DEF Next, Device, Plane, Trouble, Aside, Beside

\* The lines that are on the wire.
LEMMA WireStep == ASSUME Types, LinesFit, [Next]_vars PROVE tx' \in Seq(FitLines)
<1>0. tx \in Seq(FitLines)
  BY DEF LinesFit
<1>1. CASE FwHandles \/ LoseLine \/ LineDamaged
  <2>1. tx # <<>> /\ tx' = Tail(tx)
    BY <1>1 DEF FwHandles, LoseLine, LineDamaged
  <2> QED
    BY <1>0, <2>1, TailOf
<1>2. CASE LinkLost
  BY <1>2 DEF LinkLost
<1>3. CASE FwAsk \/ FwCancel \/ FwSelect \/ SubmitEvent \/ LoadDone \/ Reconnect \/ Aside
  BY <1>0, <1>3, ApartIs DEF FwAsk, FwCancel, FwSelect, SubmitEvent, LoadDone, Reconnect, Aside,
                    FwGivesUp, LoseReply, Apart, vars, wireVars
<1>4. CASE Worker
  <2>1. CASE PushText \/ Keepalive
    <3>1. PICK more \in BOOLEAN, final \in BOOLEAN : Push(more, final)
      BY <2>1 DEF PushText, Keepalive
    <3> QED
      BY <1>0, <3>1 DEF Push, wireVars
  <2>2. CASE ~(PushText \/ Keepalive)
    BY <1>0, <1>4, <2>2 DEF Worker, AskRefused, AskStarted, StreamEnds, SelectRefused,
            SelectLoaded, SwitchModel, SwitchSpawns, Started, SpawnFails, RestoreFails, wireVars
  <2> QED
    BY <2>1, <2>2
<1>5. ASSUME NEW who \in Senders, Write(who) \/ Reply(who) PROVE tx' \in Seq(FitLines)
  <2>1. CASE Write(who)
    <3>1. cmd[who].line \in FitLines /\ tx' = Append(tx, cmd[who].line)
      BY <2>1 DEF Write, LinesFit, FitCmds
    <3> QED
      BY <1>0, <3>1, AppendOf
  <2>2. CASE Reply(who)
    BY <1>0, <2>2 DEF Reply, Answered, TimedOut
  <2> QED
    BY <1>5, <2>1, <2>2
<1> QED
  BY <1>1, <1>2, <1>3, <1>4, <1>5 DEF Next, Device, Plane, Trouble, Aside, Beside

\* The queue.
LEMMA QueueStep ==
    ASSUME Types, LinesFit, [Next]_vars PROVE queue' \in Seq(FitLines) /\ Len(queue') <= QueueSize
<1>0. queue \in Seq(FitLines) /\ Len(queue) <= QueueSize /\ Len(queue) \in Nat
      /\ QueueSize \in Nat \ {0}
  BY BoundAssumption DEF LinesFit
<1>a. ASSUME queue' = queue PROVE queue' \in Seq(FitLines) /\ Len(queue') <= QueueSize
  BY <1>0, <1>a
<1>b. ASSUME queue # <<>>, queue' = Tail(queue)
      PROVE  queue' \in Seq(FitLines) /\ Len(queue') <= QueueSize
  <2>1. Tail(queue) \in Seq(FitLines) /\ Len(Tail(queue)) = Len(queue) - 1
    BY <1>0, <1>b, TailOf
  <2> QED
    BY <1>0, <1>b, <2>1
<1>1. CASE SubmitEvent
  <2>1. Head(evts) \in FitLines
    <3>1. evts # <<>> /\ evts \in Seq(FitLines)
      BY <1>1 DEF SubmitEvent, LinesFit
    <3> QED
      BY <3>1, TailOf
  <2>2. queue' = queue \/ (queue' = Append(queue, Head(evts)) /\ ~(Len(queue) >= QueueSize))
    BY <1>1 DEF SubmitEvent
  <2>3. ASSUME queue' = Append(queue, Head(evts)), ~(Len(queue) >= QueueSize)
        PROVE  queue' \in Seq(FitLines) /\ Len(queue') <= QueueSize
    <3>1. Append(queue, Head(evts)) \in Seq(FitLines)
          /\ Len(Append(queue, Head(evts))) = Len(queue) + 1
      BY <1>0, <2>1, AppendOf
    <3> QED
      BY <1>0, <2>3, <3>1
  <2> QED
    BY <1>a, <2>2, <2>3
<1>2. CASE LinkLost
  <2>1. queue' = <<>>
    BY <1>2 DEF LinkLost
  <2> QED
    BY <1>0, <2>1
<1>3. CASE Device \/ LoseLine \/ LineDamaged \/ LoadDone \/ Reconnect \/ Aside
  BY <1>a, <1>3, ApartIs DEF Device, FwHandles, FwAsk, FwCancel, FwSelect, LoseLine, LineDamaged,
        LoadDone, Reconnect, Aside, FwGivesUp, LoseReply, Apart, vars, askVars
<1>4. CASE Worker
  <2>1. CASE PushText \/ Keepalive
    <3>1. PICK more \in BOOLEAN, final \in BOOLEAN : Push(more, final)
      BY <2>1 DEF PushText, Keepalive
    <3> QED
      BY <1>a, <3>1 DEF Push, askVars
  <2>2. CASE AskRefused \/ AskStarted \/ SelectRefused \/ SelectLoaded \/ SwitchModel
    BY <1>b, <2>2 DEF AskRefused, AskStarted, SelectRefused, SelectLoaded, SwitchModel, Takes
  <2>3. CASE StreamEnds \/ SwitchSpawns \/ Started \/ SpawnFails \/ RestoreFails
    BY <1>a, <2>3 DEF StreamEnds, SwitchSpawns, Started, SpawnFails, RestoreFails, askVars
  <2> QED
    BY <1>4, <2>1, <2>2, <2>3 DEF Worker
<1>5. ASSUME NEW who \in Senders, Write(who) \/ Reply(who)
      PROVE  queue' \in Seq(FitLines) /\ Len(queue') <= QueueSize
  <2>1. CASE Write(who)
    BY <1>a, <2>1 DEF Write
  <2>2. CASE Reply(who)
    <3>1. \E good \in BOOLEAN : Settled(who, good) \/ Again(who)
      BY <2>2, ReplyIs
    <3> QED
      BY <1>a, <3>1 DEF Settled, Again, askVars
  <2> QED
    BY <1>5, <2>1, <2>2
<1> QED
  BY <1>1, <1>2, <1>3, <1>4, <1>5 DEF Next, Plane, Trouble, Aside, Beside

\* The line a reply makes the worker take.
LEMMA ReplySends ==
    ASSUME Types, Placed, LinesFit, TurnFits, NEW who \in Senders, Reply(who)
    PROVE  /\ cmd' \in [Senders -> FitCmds]
           /\ TurnFits'
<1>0. /\ gen \in Gens /\ MaxAsks \in Nat /\ MaxPushes \in Nat /\ gen.turn \in Nat /\ gen.seq \in Nat
      /\ gen.text \in Nat /\ active \in Args /\ "worker" \in Senders /\ "attach" \in Senders
      /\ cmd \in [Senders -> FitCmds] /\ NoCmd \in FitCmds
      /\ gen.turn <= MaxAsks /\ gen.seq <= MaxPushes
      /\ ~Mid("push") => gen.text <= gen.seq
      /\ Mid("push") => gen.text <= gen.seq + 1 /\ gen.seq < MaxPushes
  BY BoundAssumption, PlainFits DEF Types, Gens, Args, LinesFit, TurnFits, Senders
<1>1. PICK good \in BOOLEAN : wire = who /\ (Settled(who, good) \/ Again(who))
  BY ReplyIs DEF Heard
<1>2. who = "worker" => at = "sending"
  BY <1>1 DEF Placed, Senders, Idle
<1>3. CASE Again(who)
  <2>1. cmd' = [cmd EXCEPT ![who] = [cmd[who] EXCEPT !.tries = 2]] /\ gen' = gen /\ at' = at
    BY <1>3 DEF Again, Types
  <2>2. [cmd[who] EXCEPT !.tries = 2] \in FitCmds
    BY <1>0 DEF FitCmds
  <2>3. \A w \in Senders : cmd'[w].line = cmd[w].line
    BY <1>3, AgainIs
  <2>4. gen' = gen /\ Mid("push")' = Mid("push")
    BY <1>0, <2>1, <2>3 DEF Mid, Draft
  <2> DEFINE new == [cmd[who] EXCEPT !.tries = 2]
  <2> HIDE DEF new
  <2>5. cmd' \in [Senders -> FitCmds]
    BY <1>0, <2>1, <2>2 DEF new
  <2>6. TurnFits'
    BY <2>4 DEF TurnFits
  <2> QED
    BY <2>5, <2>6
<1>4. CASE Announced(who)
  <2>1. Ready(active) \in FitLines /\ Ready(active).verb = "ready"
    BY <1>0, PlainFits, ReadyIs
  <2>2. Ready(active) \in Lines
    BY <1>0, ReadyIs
  <2>3. WorkerSends(Ready(active)) /\ gen' = gen /\ Draft.verb = "models"
    BY <1>4 DEF Announced
  <2>4. cmd' \in [Senders -> FitCmds]
    BY <1>0, <2>1, <2>3, SendsFit DEF WorkerSends
  <2>5. Draft'.verb = "ready"
    BY <2>1, <2>2, <2>3, WorkerSendsIs DEF Draft
  <2>6. ~Mid("push") /\ ~Mid("push")'
    BY <2>3, <2>5 DEF Mid
  <2> QED
    BY <2>3, <2>4, <2>6 DEF TurnFits
<1>5. CASE PushedOn(who, good)
  <2>1. Mid("push") /\ at' = "stream" /\ gen' = [gen EXCEPT !.seq = gen.seq + 1]
        /\ cmd' = [cmd EXCEPT ![who] = NoCmd]
    BY <1>2, <1>5 DEF PushedOn, Mid
  <2>2. cmd' \in [Senders -> FitCmds]
    BY <1>0, <2>1
  <2>3. gen'.turn = gen.turn /\ gen'.seq = gen.seq + 1 /\ gen'.text = gen.text
    BY <1>0, <2>1 DEF Gens
  <2>4. ~Mid("push")'
    BY <2>1 DEF Mid
  <2>5. gen.text <= gen.seq + 1 /\ gen.seq + 1 <= MaxPushes
    BY <1>0, <2>1
  <2>6. TurnFits'
    BY <1>0, <2>3, <2>4, <2>5 DEF TurnFits
  <2> QED
    BY <2>2, <2>6
<1>6. CASE Closed(who, good)
  <2>1. PICK status \in {"ok", "error"} : WorkerSends(Closing(status))
    BY <1>6 DEF Closed
  <2>2. gen' = NoGen /\ Mid("push")
    BY <1>2, <1>6 DEF Closed, Mid
  <2>3. Closing(status) \in Lines /\ Closing(status).verb = "end"
    BY ClosingIs
  <2>4. Closing(status) \in FitLines
    <3>1. gen.text <= MaxPushes
      BY <1>0, <2>2
    <3> QED
      BY <1>0, <3>1, LineFits DEF Closing, Verbs, Args
  <2>5. cmd' \in [Senders -> FitCmds]
    BY <1>0, <2>1, <2>4, SendsFit DEF WorkerSends
  <2>6. ~Mid("push")'
    BY <2>1, <2>3, WorkerSendsIs DEF Mid, Draft
  <2>7. TurnFits'
    BY <1>0, <2>2, <2>6, NoGenIs DEF TurnFits
  <2> QED
    BY <2>5, <2>7
<1>7. CASE SentOff(who)
  <2>1. cmd' \in [Senders -> FitCmds] /\ gen' = gen
    BY <1>0, <1>7 DEF SentOff
  <2>2. CASE who = "worker"
    <3>1. ~Mid("push") /\ ~Mid("push")'
      BY <1>7, <2>2 DEF SentOff, Mid
    <3> QED
      BY <2>1, <3>1 DEF TurnFits
  <2>3. CASE who # "worker"
    <3>1. at' = at /\ Draft' = Draft
      BY <1>0, <1>7, <2>3 DEF SentOff, Draft
    <3>2. Mid("push")' = Mid("push")
      BY <3>1 DEF Mid
    <3> QED
      BY <2>1, <3>2 DEF TurnFits
  <2> QED
    BY <2>2, <2>3
<1> QED
  BY <1>1, <1>3, <1>4, <1>5, <1>6, <1>7, SettledIs

\* The line the worker takes on a step of its own.
LEMMA WorkerSendsFit ==
    ASSUME Types, LinesFit, NEW line \in FitLines, WorkerSends(line)
    PROVE  /\ cmd' \in [Senders -> FitCmds]
           /\ Mid("push")' <=> line.verb = "push"
<1>1. line \in Lines /\ "worker" \in Senders
  BY DEF FitLines, Senders
<1>2. cmd' \in [Senders -> FitCmds]
  BY <1>1, SendsFit DEF WorkerSends
<1>3. cmd'["worker"].line = line /\ at' = "sending"
  BY <1>1, WorkerSendsIs
<1> QED
  BY <1>2, <1>3 DEF Mid, Draft

\* TurnFits, and the line the worker takes, on the worker's steps.
LEMMA WorkerSendsStep ==
    ASSUME Types, LinesFit, TurnFits, MemoryFits, PlaneFits, Worker
    PROVE  cmd' \in [Senders -> FitCmds] /\ TurnFits'
<1>0. /\ gen \in Gens /\ MaxAsks \in Nat /\ MaxPushes \in Nat /\ gen.turn \in Nat /\ gen.seq \in Nat
      /\ gen.text \in Nat /\ active \in Args
      /\ cmd \in [Senders -> FitCmds]
      /\ gen.turn <= MaxAsks /\ gen.seq <= MaxPushes
      /\ ~Mid("push") => gen.text <= gen.seq
      /\ NoGen.turn = 0 /\ NoGen.seq = 0 /\ NoGen.text = 0
  BY BoundAssumption, PlainFits, NoGenIs DEF Types, Gens, Args, LinesFit, TurnFits
<1>a. ASSUME NEW line \in FitLines, line.verb # "push", WorkerSends(line), at # "sending",
             gen' = gen \/ gen' = NoGen
      PROVE  cmd' \in [Senders -> FitCmds] /\ TurnFits'
  <2>1. cmd' \in [Senders -> FitCmds] /\ ~Mid("push")' /\ ~Mid("push")
    BY <1>a, WorkerSendsFit DEF Mid
  <2> QED
    BY <1>0, <1>a, <2>1 DEF TurnFits
<1>b. ASSUME at # "sending", at' # "sending", cmd' = cmd, gen' = gen
      PROVE  cmd' \in [Senders -> FitCmds] /\ TurnFits'
  <2>1. ~Mid("push") /\ ~Mid("push")'
    BY <1>b DEF Mid
  <2> QED
    BY <1>0, <1>b, <2>1 DEF TurnFits
<1>c. Models \in FitLines /\ Models.verb # "push"
  BY PlainFits, NoCmdIs
<1>d. \A m \in Args : Ready(m) \in FitLines /\ Ready(m).verb # "push"
  BY PlainFits, ReadyIs
<1>e. ASSUME queue # <<>> PROVE Head(queue) \in FitLines
  <2>1. queue \in Seq(FitLines)
    BY DEF LinesFit
  <2> QED
    BY <1>e, <2>1, TailOf
<1>1. CASE AskRefused
  <2> DEFINE turn == Head(queue).turn
             status == IF Contains(cancelled, turn) THEN "stopped" ELSE "error"
             l == Line("end", turn, 0, 0, status)
  <2>1. WorkerSends(l) /\ at # "sending" /\ gen' = gen
    BY <1>1 DEF AskRefused, Takes
  <2>2. turn \in Nat /\ turn <= MaxAsks
    BY <1>1, <1>e DEF AskRefused, Takes, FitLines, Fits, Lines
  <2>3. l \in FitLines /\ l.verb = "end"
    <3> HIDE DEF turn
    <3>1. status \in Args
      BY DEF Args
    <3>2. "end" \in Verbs /\ l.verb = "end"
      BY DEF Verbs, Line
    <3> HIDE DEF status
    <3>3. l \in FitLines
      BY <1>0, <2>2, <3>1, <3>2, LineFits
    <3> QED
      BY <3>2, <3>3
  <2> HIDE DEF l
  <2> QED
    BY <1>a, <2>1, <2>3
<1>2. CASE AskStarted
  <2>1. gen' = [NoGen EXCEPT !.turn = Head(queue).turn] /\ at' = "stream" /\ cmd' = cmd
    BY <1>2 DEF AskStarted
  <2>2. Head(queue).turn <= MaxAsks
    BY <1>2, <1>e DEF AskStarted, Takes, FitLines, Fits
  <2>3. gen'.turn = Head(queue).turn /\ gen'.seq = 0 /\ gen'.text = 0
    BY <2>1 DEF NoGen
  <2>4. ~Mid("push")'
    BY <2>1 DEF Mid
  <2> QED
    BY <1>0, <2>1, <2>2, <2>3, <2>4 DEF TurnFits
<1>3. ASSUME NEW text \in BOOLEAN, NEW last \in BOOLEAN, Push(text, last)
      PROVE  cmd' \in [Senders -> FitCmds] /\ TurnFits'
  <2> DEFINE n == IF text THEN gen.text + 1 ELSE gen.text
             shown == IF text THEN gen.text + 1 ELSE 0
             l == Line("push", gen.turn, gen.seq, shown, NoModel)
  <2>1. /\ at = "stream" /\ gen.seq < MaxPushes /\ WorkerSends(l)
        /\ gen' = [gen EXCEPT !.text = n, !.last = last]
    BY <1>3 DEF Push, Streaming
  <2>2. gen.text <= gen.seq
    BY <1>0, <2>1 DEF Mid
  <2>3. n \in Nat /\ shown \in Nat /\ n <= gen.seq + 1 /\ shown <= MaxPushes
    BY <1>0, <2>1, <2>2
  <2>4. l \in FitLines /\ l.verb = "push"
    <3> HIDE DEF n, shown
    <3>1. "push" \in Verbs /\ NoModel \in Args /\ l.verb = "push"
      BY DEF Verbs, Args, Line
    <3>2. l \in FitLines
      BY <1>0, <2>1, <2>3, <3>1, LineFits
    <3> QED
      BY <3>1, <3>2
  <2> HIDE DEF n, shown
  <2> HIDE DEF l
  <2>5. cmd' \in [Senders -> FitCmds] /\ Mid("push")'
    BY <2>1, <2>4, WorkerSendsFit
  <2>6. gen'.turn = gen.turn /\ gen'.seq = gen.seq /\ gen'.text = n
    BY <1>0, <2>1 DEF Gens
  <2> QED
    BY <1>0, <2>1, <2>3, <2>5, <2>6 DEF TurnFits
<1>4. CASE StreamEnds
  <2>1. PICK status \in {"stopped", "ok", "error"} : WorkerSends(Closing(status))
    BY <1>4 DEF StreamEnds
  <2>2. at = "stream" /\ gen' = NoGen
    BY <1>4 DEF StreamEnds
  <2>3. gen.text <= MaxPushes
    BY <1>0, <2>2 DEF Mid
  <2>4. Closing(status) \in FitLines /\ Closing(status).verb = "end"
    BY <1>0, <2>3, LineFits, ClosingIs DEF Closing, Verbs, Args
  <2> QED
    BY <1>a, <2>1, <2>2, <2>4
<1>5. CASE SelectRefused \/ Started \/ RestoreFails
  <2>1. WorkerSends(Models) /\ at # "sending" /\ gen' = gen
    BY <1>5 DEF SelectRefused, Started, RestoreFails, Takes
  <2> QED
    BY <1>a, <1>c, <2>1
<1>6. CASE SelectLoaded
  <2>1. /\ at # "sending" /\ gen' = gen
        /\ WorkerSends(Ready(active)) \/ WorkerSends(Models)
    BY <1>6 DEF SelectLoaded, Takes
  <2>2. Ready(active) \in FitLines /\ Ready(active).verb # "push"
    BY <1>0, <1>d
  <2> QED
    BY <1>a, <1>c, <2>1, <2>2
<1>7. CASE SwitchModel \/ SwitchSpawns \/ SpawnFails
  BY <1>7, <1>b DEF SwitchModel, SwitchSpawns, SpawnFails, Takes
<1> QED
  BY <1>1, <1>2, <1>3, <1>4, <1>5, <1>6, <1>7 DEF Worker, PushText, Keepalive

\* The line each sender works on, and the turn under way.
LEMMA SendersStep ==
    ASSUME Types, Placed, Fitting, [Next]_vars
    PROVE  cmd' \in [Senders -> FitCmds] /\ TurnFits'
<1>0. LinesFit /\ TurnFits /\ MemoryFits /\ PlaneFits /\ cmd \in [Senders -> FitCmds]
  BY DEF Fitting, LinesFit
<1>1. ASSUME cmd' = cmd, at' = at, gen' = gen PROVE cmd' \in [Senders -> FitCmds] /\ TurnFits'
  <2>1. Mid("push")' = Mid("push")
    BY <1>1 DEF Mid, Draft
  <2> QED
    BY <1>0, <1>1, <2>1 DEF TurnFits
<1>2. CASE Worker
  BY <1>0, <1>2, WorkerSendsStep
<1>3. CASE SubmitEvent
  <2>1. cmd' = cmd /\ at' = at /\ (gen' = gen \/ gen' = [gen EXCEPT !.stop = TRUE])
    BY <1>3 DEF SubmitEvent
  <2>2. gen'.turn = gen.turn /\ gen'.seq = gen.seq /\ gen'.text = gen.text
    BY <2>1 DEF Types, Gens
  <2>3. Mid("push")' = Mid("push")
    BY <2>1 DEF Mid, Draft
  <2> QED
    BY <1>0, <2>1, <2>2, <2>3 DEF TurnFits
<1>4. CASE LinkLost
  <2>1. cmd' = [s \in Senders |-> NoCmd] /\ at' = "down" /\ gen' = NoGen
    BY <1>4 DEF LinkLost
  <2>2. cmd' \in [Senders -> FitCmds]
    BY <2>1, PlainFits
  <2>3. TurnFits'
    BY <2>1, NoGenIs, BoundAssumption DEF TurnFits, Mid
  <2> QED
    BY <2>2, <2>3
<1>5. CASE LoadDone
  <2>1. Ready(cfg) \in FitLines /\ Ready(cfg) \in Lines
    BY PlainFits, ReadyIs, ModelAssumption DEF Types, Args
  <2>2. Sends("attach", Ready(cfg)) /\ at' = at /\ gen' = gen /\ "attach" \in Senders
    BY <1>5 DEF LoadDone, Senders
  <2>3. cmd' \in [Senders -> FitCmds]
    BY <1>0, <2>1, <2>2, SendsFit
  <2>4. cmd'["worker"] = cmd["worker"]
    BY <2>1, <2>2, SendsIs DEF Senders
  <2>5. Mid("push")' = Mid("push")
    BY <2>2, <2>4 DEF Mid, Draft
  <2> QED
    BY <1>0, <2>2, <2>3, <2>5 DEF TurnFits
<1>6. CASE Reconnect
  <2>1. WorkerSends(Models) /\ gen' = gen /\ at = "down"
    BY <1>6 DEF Reconnect
  <2>2. cmd' \in [Senders -> FitCmds] /\ ~Mid("push")' /\ ~Mid("push")
    BY <1>0, <2>1, PlainFits, NoCmdIs, WorkerSendsFit DEF Mid
  <2> QED
    BY <1>0, <2>1, <2>2 DEF TurnFits
<1>7. CASE Device \/ LoseLine \/ LineDamaged \/ Aside
  BY <1>1, <1>7, ApartIs DEF Device, FwHandles, FwAsk, FwCancel, FwSelect, LoseLine, LineDamaged,
        Aside, FwGivesUp, LoseReply, Apart, vars
<1>8. ASSUME NEW who \in Senders, Write(who) \/ Reply(who)
      PROVE  cmd' \in [Senders -> FitCmds] /\ TurnFits'
  <2>1. CASE Write(who)
    BY <1>1, <2>1 DEF Write
  <2>2. CASE Reply(who)
    BY <1>0, <2>2, ReplySends
  <2> QED
    BY <1>8, <2>1, <2>2
<1> QED
  BY <1>2, <1>3, <1>4, <1>5, <1>6, <1>7, <1>8 DEF Next, Plane, Trouble, Aside, Beside

\* Fitting is inductive, given Types and Placed.
LEMMA FittingStep == ASSUME Types, Placed, Fitting, [Next]_vars PROVE Fitting'
<1>1. LinesFit /\ LatchFits /\ MemoryFits /\ PlaneFits /\ Noted
  BY DEF Fitting
<1>2. LinesFit'
  BY <1>1, EventsStep, WireStep, QueueStep, SendersStep DEF LinesFit
<1> QED
  BY <1>1, <1>2, LatchStep, SendersStep, MemoryStep, PlaneStep, NotedStep DEF Fitting

\* ... and holds at the start.
LEMMA FittingInit == Init => Fitting
<1> SUFFICES ASSUME Init PROVE Fitting
  OBVIOUS
<1>0. /\ MaxAsks \in Nat /\ MaxPushes \in Nat /\ MaxSelects \in Nat /\ MaxFaults \in Nat
      /\ QueueSize \in Nat /\ CancelMemory \in Nat /\ Configured \in OnHost
      /\ Len(<<>>) = 0
  BY BoundAssumption, ModelAssumption
<1>1. LatchFits
  BY <1>0 DEF Init, LatchFits
<1>2. LinesFit
  <2>1. cmd \in [Senders -> FitCmds]
    BY PlainFits DEF Init
  <2>2. evts \in Seq(FitLines) /\ tx \in Seq(FitLines) /\ queue \in Seq(FitLines) /\ Len(queue) <= QueueSize
    BY <1>0 DEF Init
  <2> QED
    BY <2>1, <2>2 DEF LinesFit
<1>3. TurnFits
  BY <1>0, NoGenIs DEF Init, TurnFits, Mid
<1>4. MemoryFits
  <2>1. cancelled = <<>> /\ owed = {}
    BY DEF Init
  <2>2. <<>> \in Seq(1 .. MaxAsks) /\ IsInjective(<<>>)
    BY DEF IsInjective
  <2> QED
    BY <1>0, <2>1, <2>2 DEF MemoryFits
<1>5. PlaneFits
  <2>1. /\ plane = "loading" /\ loads = 0 /\ held = 0 /\ rebound = FALSE /\ switch = NoSwitch
        /\ port = NoChild /\ monitor = {} /\ at = "down" /\ selects = 0 /\ faults = 0
    BY DEF Init
  <2>2. selects \in 0 .. MaxSelects /\ faults \in 0 .. MaxFaults
    BY <1>0, <2>1
  <2>3. port \in Ports(0) /\ ~Switching /\ switch.sup = 0
    BY <2>1 DEF NoChild, NoSwitch, Ports, Maybe, Switching
  <2>4. LoadsFit
    BY <2>1, <2>2 DEF LoadsFit
  <2>5. PortFits
    BY <2>1, <2>3 DEF PortFits
  <2> QED
    BY <2>4, <2>5 DEF PlaneFits
<1>6. Noted
  BY DEF Init, Noted
<1> QED
  BY <1>1, <1>2, <1>3, <1>4, <1>5, <1>6 DEF Fitting

\* The types, and with them every bound the code keeps: the queue and the memory
\* of cancels never outgrow their sizes, the text counted never the pushes begun.
THEOREM Cm5Typed == Spec => []TypeOK
<1> DEFINE Inv == AnswerInv /\ Fitting
           Small == [verb : Verbs, turn : 0 .. MaxAsks, seq : 0 .. MaxPushes,
                     text : 0 .. MaxPushes, arg : Args]
<1>1. Init => Inv
  BY InitInv, FittingInit
<1>2. Inv /\ [Next]_vars => Inv'
  <2>1. AnswerInv => Types /\ Placed
    BY DEF AnswerInv
  <2> QED
    BY <2>1, AnswerStep, FittingStep
<1>3. Inv => TypeOK
  <2> SUFFICES ASSUME Types, Fitting PROVE TypeOK
    BY DEF AnswerInv
  <2>0. MaxAsks \in Nat /\ MaxPushes \in Nat /\ MaxSelects \in Nat /\ MaxFaults \in Nat
    BY BoundAssumption
  <2>1. FitLines \subseteq Small
    BY <2>0 DEF FitLines, Fits, Lines
  <2>2. \A s \in Seq(FitLines) : s \in Seq(Small)
    <3> HIDE DEF Small
    <3> TAKE s \in Seq(FitLines)
    <3>1. \A i \in 1 .. Len(s) : s[i] \in Small
      BY <2>1
    <3> QED
      BY <3>1
  <2>3. evts \in Seq(Small) /\ tx \in Seq(Small) /\ queue \in Seq(Small) /\ Len(queue) <= QueueSize
    BY <2>2 DEF Fitting, LinesFit
  <2>4. cmd \in [Senders -> [line : Small, tries : 0 .. 2]]
    <3>1. FitCmds \subseteq [line : Small, tries : 0 .. 2]
      BY <2>1 DEF FitCmds
    <3> HIDE DEF Small
    <3> QED
      BY <3>1 DEF Fitting, LinesFit
  <2>5. fw \in [turn : 0 .. MaxAsks, open : BOOLEAN, next : 0 .. MaxPushes,
                got : Seq(1 .. MaxPushes)]
    BY <2>0 DEF Types, Latches, Fitting, LatchFits
  <2>6. gen \in [turn : 0 .. MaxAsks, stop : BOOLEAN, seq : 0 .. MaxPushes,
                 text : 0 .. MaxPushes, last : BOOLEAN]
    <3>1. /\ gen \in Gens /\ gen.turn <= MaxAsks /\ gen.seq <= MaxPushes
          /\ IF Mid("push") THEN gen.text <= gen.seq + 1 /\ gen.seq < MaxPushes
             ELSE gen.text <= gen.seq
      BY DEF Types, Fitting, TurnFits
    <3>2. gen.text \in Nat /\ gen.seq \in Nat
      BY <3>1 DEF Gens
    <3>3. gen.text <= MaxPushes
      BY <2>0, <3>1, <3>2
    <3> QED
      BY <2>0, <3>1, <3>3 DEF Gens
  <2>7. /\ loads \in 0 .. (MaxFaults + 1)
        /\ switch \in [sup : 0 .. loads, path : Maybe, previous : Maybe]
    BY <2>0 DEF Types, Fitting, PlaneFits, LoadsFit, PortFits, Switches
  <2> QED
    BY <2>3, <2>4, <2>5, <2>6, <2>7
       DEF TypeOK, Types, Fitting, MemoryFits, PlaneFits, LoadsFit, PortFits, Ports, Maybe, Noted,
           Verbs, Args, Replies, Places
<1> QED
  BY <1>1, <1>2, <1>3, PTL DEF Spec

-----------------------------------------------------------------------------
(* The model announced.                                                      *)

\* Unless a plane was loaded over one the worker still holds, the port belongs to
\* the last supervisor, its child has loaded what is configured, and outside a
\* switch what the worker holds as active is that model.
ServedInv ==
    /\ port.by = 0 => ~port.up
    /\ ~rebound =>
         /\ held # 0 => held = loads /\ plane # "spawning"
         /\ held = 0 => /\ active = NoModel /\ ~Switching /\ monitor = {}
                        /\ plane # "spawning" => port.by = 0
         /\ port.by \in {0, loads} /\ monitor \subseteq {loads}
         /\ port.by # 0 => port.model = cfg
         /\ Switching => monitor = {} /\ switch.sup = loads
         /\ at = "stop" => port.by = 0
         /\ held # 0 /\ at \notin {"spawn", "restore"} /\ (port.by # 0 \/ monitor # {}) =>
              active = cfg

LEMMA ServedStep ==
    ASSUME ServedInv, Types, Placed, PlaneFits, [Next]_vars PROVE ServedInv'
<1>0. /\ port \in Ports(loads) /\ loads \in Nat /\ held \in Nat
      /\ plane # "loading" => loads # 0
  BY DEF Types, PlaneFits, LoadsFit, PortFits
<1>1. CASE AskRefused \/ AskStarted \/ StreamEnds \/ SelectRefused
  BY <1>1 DEF AskRefused, AskStarted, StreamEnds, SelectRefused, Takes, WorkerSends, planeVars,
              serverVars, ServedInv, Switching
<1>2. CASE PushText \/ Keepalive
  <2>1. PICK more \in BOOLEAN, final \in BOOLEAN : Push(more, final)
    BY <1>2 DEF PushText, Keepalive
  <2> QED
    BY <2>1 DEF Push, Streaming, WorkerSends, planeVars, serverVars, ServedInv, Switching
<1>3. CASE SelectLoaded
  <2>1. /\ at = "idle" /\ at' = "sending" /\ held # 0 /\ UNCHANGED <<plane, loads, held, rebound>>
        /\ UNCHANGED <<cfg, switch, port, monitor>> /\ (active' = active \/ active' = cfg)
    BY <1>3 DEF SelectLoaded, Served, Bound, Takes, WorkerSends, serverVars
  <2> QED
    BY <2>1 DEF ServedInv, Switching
<1>4. CASE SwitchModel
  <2>1. /\ at = "idle" /\ at' = "stop" /\ held # 0 /\ UNCHANGED <<plane, loads, held, active, rebound>>
        /\ cfg' = cfg /\ switch'.sup = held /\ monitor' = monitor \ {held}
        /\ port' = IF port.by = held THEN NoChild ELSE port
    BY <1>4 DEF SwitchModel, Bound, Takes, Without, planeVars
  <2> QED
    BY <2>1 DEF ServedInv, Switching, NoChild
<1>5. CASE SwitchSpawns \/ SpawnFails
  <2>1. /\ at \in {"stop", "spawn"} /\ at' \in {"spawn", "restore"} /\ Switching
        /\ UNCHANGED <<plane, loads, held, active, rebound, switch, monitor>>
        /\ port' = Spawned(switch.sup, cfg')
        /\ at = "stop" \/ at = "spawn"
    BY <1>5 DEF SwitchSpawns, SpawnFails, Switching, planeVars
  <2>2. port'.by = 0 => ~port'.up
    BY <2>1 DEF ServedInv, Spawned
  <2>3. ASSUME ~rebound
        PROVE  /\ switch.sup = loads /\ port.by \in {0, loads} /\ monitor = {} /\ held # 0
               /\ port' = [by |-> loads, model |-> cfg', up |-> FALSE]
    <3>1. switch.sup = loads /\ port.by \in {0, loads} /\ monitor = {} /\ held # 0
      BY <2>1, <2>3 DEF ServedInv
    <3> QED
      BY <2>1, <3>1 DEF Spawned
  <2> QED
    BY <1>0, <2>1, <2>2, <2>3 DEF ServedInv, Switching
<1>6. CASE Started
  <2>1. /\ Switching /\ at' = "sending" /\ UNCHANGED <<plane, loads, held, rebound, cfg, port>>
        /\ monitor' = monitor \cup {switch.sup} /\ active' = cfg
    BY <1>6 DEF Started, WorkerSends, Switching
  <2> QED
    BY <2>1 DEF ServedInv, Switching
<1>7. CASE RestoreFails
  <2>1. /\ Switching /\ at' = "sending" /\ UNCHANGED <<plane, loads, held, rebound, cfg, monitor>>
        /\ port' = (IF port.by = switch.sup THEN NoChild ELSE port) /\ active' = cfg
    BY <1>7 DEF RestoreFails, Without, WorkerSends, Switching
  <2> QED
    BY <2>1 DEF ServedInv, Switching, NoChild
<1>8. CASE Device
  BY <1>8 DEF Device, FwHandles, FwAsk, FwCancel, FwGivesUp, FwSelect, planeVars, serverVars,
              ServedInv, Switching
<1>9. CASE LoseLine \/ LoseReply \/ LineDamaged \/ SubmitEvent
  BY <1>9 DEF LoseLine, LoseReply, LineDamaged, SubmitEvent, planeVars, serverVars, ServedInv,
              Switching
<1>10. CASE ServerDies \/ ChildUp
  <2>1. UNCHANGED <<plane, loads, held, active, rebound, at, cfg, switch, monitor>>
    BY <1>10 DEF ServerDies, ChildUp, planeVars
  <2>2. \/ port' = NoChild
        \/ port.by # 0 /\ port'.by = port.by /\ port'.model = port.model
    BY <1>0, <1>10 DEF ServerDies, ChildUp, Ports
  <2> QED
    BY <2>1, <2>2 DEF ServedInv, Switching, NoChild
<1>11. CASE Monitor
  <2>1. PICK s \in monitor : MonitorRestarts(s) \/ MonitorGivesUp(s)
    BY <1>11 DEF Monitor
  <2>2. UNCHANGED <<plane, loads, held, active, rebound, at, cfg, switch>>
    BY <2>1 DEF MonitorRestarts, MonitorGivesUp, planeVars
  <2>3. CASE MonitorGivesUp(s)
    <3>1. monitor' \subseteq monitor /\ port' = port
      BY <2>3 DEF MonitorGivesUp
    <3> QED
      BY <2>2, <3>1 DEF ServedInv, Switching
  <2>4. CASE MonitorRestarts(s)
    <3>1. monitor' = monitor /\ port' = [by |-> s, model |-> cfg, up |-> FALSE]
      BY <2>4 DEF MonitorRestarts, Spawned
    <3> QED
      BY <2>1, <2>2, <3>1 DEF ServedInv, Switching
  <2> QED
    BY <2>1, <2>3, <2>4
<1>12. CASE LoadStarts
  <2>1. /\ plane = "loading" /\ plane' = "spawning" /\ loads' = loads + 1
        /\ UNCHANGED <<at, held, active, cfg, switch, monitor>>
        /\ rebound' = (rebound \/ held # 0) /\ port' = Spawned(loads', cfg)
    BY <1>12 DEF LoadStarts, Bound
  <2>2. port'.by = 0 => ~port'.up
    BY <2>1 DEF ServedInv, Spawned
  <2>3. ASSUME ~rebound' PROVE ~rebound /\ held = 0 /\ port' = [by |-> loads', model |-> cfg, up |-> FALSE]
    BY <2>1, <2>3 DEF ServedInv, Spawned
  <2> QED
    BY <2>1, <2>2, <2>3 DEF ServedInv, Switching
<1>13. CASE LoadDone
  <2>1. /\ plane = "spawning" /\ plane' = "attaching" /\ UNCHANGED <<at, loads, rebound, cfg, switch, port>>
        /\ monitor' = monitor \cup {loads} /\ held' = loads /\ active' = cfg
    BY <1>13 DEF LoadDone
  <2> QED
    BY <1>0, <2>1 DEF ServedInv, Switching
<1>14. CASE LoadFails
  <2>1. /\ plane = "spawning" /\ plane' = "failed"
        /\ UNCHANGED <<at, loads, held, active, rebound, cfg, switch, monitor>>
        /\ port' = IF port.by = loads THEN NoChild ELSE port
    BY <1>14 DEF LoadFails, Without
  <2> QED
    BY <2>1 DEF ServedInv, Switching, NoChild
<1>15. CASE PlaneUp \/ Reconnect
  BY <1>15 DEF PlaneUp, Reconnect, WorkerSends, planeVars, serverVars, ServedInv, Switching
<1>16. CASE LinkLost
  <2>1. /\ at' = "down" /\ UNCHANGED <<loads, held, active, rebound, cfg>>
        /\ plane' \in AfterLoss
    BY <1>16 DEF LinkLost
  <2>2. PICK stopped :
             /\ stopped = (IF plane' \in {plane, "attached"} THEN {} ELSE {loads})
                            \cup (IF at \in {"spawn", "restore"} THEN {switch.sup} ELSE {})
             /\ port' = Without(stopped) /\ monitor' = monitor \ stopped
    BY <1>16 DEF LinkLost
  <2>3. /\ plane' = "spawning" => FALSE
        /\ plane = "spawning" => plane' = "loading"
    BY <2>1 DEF AfterLoss
  <2>4. port' = NoChild \/ port' = port
    BY <2>2 DEF Without
  <2>5. ASSUME ~rebound, at \in {"spawn", "restore"} PROVE port'.by = 0
    BY <2>2, <2>5 DEF ServedInv, Switching, Without, NoChild
  <2>6. ASSUME ~rebound, plane = "spawning" PROVE port'.by = 0
    BY <2>2, <2>3, <2>6 DEF ServedInv, Without, NoChild
  <2> QED
    BY <2>1, <2>2, <2>3, <2>4, <2>5, <2>6 DEF ServedInv, Switching, NoChild
<1>17. ASSUME NEW who \in Senders, Write(who) PROVE ServedInv'
  BY <1>17 DEF Write, planeVars, serverVars, ServedInv, Switching
<1>18. ASSUME NEW who \in Senders, Reply(who) PROVE ServedInv'
  <2>1. PICK good \in BOOLEAN : Heard(who, good) /\ (Settled(who, good) \/ Again(who))
    BY <1>18, ReplyIs
  <2>2. UNCHANGED <<loads, held, active, rebound, cfg, switch, port, monitor>>
    BY <2>1 DEF Settled, Again, planeVars, serverVars
  <2>3. plane' = plane \/ (plane' = "publishing" /\ plane = "attaching")
    <3>1. wire # Idle /\ cmd[wire].tries > 0 /\ wire = who
      BY <2>1 DEF Heard, Placed, Senders, Idle
    <3> QED
      BY <2>1, <3>1 DEF Settled, Again, planeVars, Placed
  <2>4. at' = at \/ (at' \in {"sending", "idle", "stream"} /\ at = "sending")
    <3>1. wire # Idle /\ cmd[wire].tries > 0 /\ wire = who
      BY <2>1 DEF Heard, Placed, Senders, Idle
    <3>2. who = "worker" => at = "sending"
      BY <3>1 DEF Placed
    <3> QED
      BY <2>1, <3>2, SettledIs
         DEF Again, Announced, PushedOn, Closed, SentOff, WorkerSends, Settled, Senders
  <2> QED
    BY <2>2, <2>3, <2>4 DEF ServedInv, Switching
<1>19. CASE UNCHANGED vars
  BY <1>19 DEF vars, planeVars, serverVars, ServedInv, Switching
<1> QED
  BY <1>1, <1>2, <1>3, <1>4, <1>5, <1>6, <1>7, <1>8, <1>9, <1>10, <1>11, <1>12, <1>13, <1>14,
     <1>15, <1>16, <1>17, <1>18, <1>19 DEF Next, Worker, Plane, Trouble

AnnouncesBy(who, m) ==
    cmd'[who] = [line |-> Ready(m), tries |-> 1] /\ cmd'[who] # cmd[who]

\* What a step of the worker leaves the other sender.
LEMMA OtherSender ==
    ASSUME Types, Worker \/ Reconnect
    PROVE  cmd'["attach"] = cmd["attach"]
<1>1. ASSUME NEW l, WorkerSends(l) PROVE cmd'["attach"] = cmd["attach"]
  BY <1>1, CmdOf DEF WorkerSends, Sends, Types, Senders
<1>2. CASE PushText \/ Keepalive
  BY <1>1, <1>2 DEF PushText, Keepalive, Push
<1>3. CASE AskRefused \/ SelectRefused \/ SelectLoaded \/ Started \/ RestoreFails \/ Reconnect
  BY <1>1, <1>3 DEF AskRefused, SelectRefused, SelectLoaded, Started, RestoreFails, Reconnect
<1>4. CASE StreamEnds
  BY <1>1, <1>4 DEF StreamEnds
<1>5. CASE AskStarted \/ SwitchModel \/ SwitchSpawns \/ SpawnFails
  BY <1>5 DEF AskStarted, SwitchModel, SwitchSpawns, SpawnFails
<1> QED
  BY <1>2, <1>3, <1>4, <1>5 DEF Worker

\* Besides the worker, only a plane that is up announces a model.
LEMMA PlaneAnnounces ==
    ASSUME Types, Next, NEW m \in Model, AnnouncesBy("attach", m)
    PROVE  LoadDone /\ m = cfg
<1>0. cmd'["attach"] # cmd["attach"] /\ cmd'["attach"].line = Ready(m)
      /\ cmd'["attach"].tries = 1 /\ Ready(m).verb = "ready" /\ Ready(m).arg = m
  BY ReadyIs DEF AnnouncesBy, Args
<1>1. CASE Worker \/ Reconnect
  BY <1>0, <1>1, OtherSender
<1>2. CASE Device \/ SubmitEvent \/ LoseLine \/ LoseReply \/ LineDamaged
  BY <1>0, <1>2 DEF Device, FwHandles, FwAsk, FwCancel, FwGivesUp, FwSelect, SubmitEvent,
                    LoseLine, LoseReply, LineDamaged
<1>3. CASE Beside
  BY <1>0, <1>3, ApartIs DEF Apart
<1>4. CASE LinkLost
  <2>1. cmd'["attach"] = NoCmd
    BY <1>4 DEF LinkLost, Senders
  <2> QED
    BY <1>0, <2>1, NoCmdIs
<1>5. CASE LoadDone
  <2>1. Ready(cfg) \in Lines /\ Ready(cfg).arg = cfg /\ "attach" \in Senders
    BY ReadyIs, ModelAssumption DEF Types, Args, Senders
  <2>2. cmd'["attach"].line = Ready(cfg)
    BY <1>5, <2>1, SendsIs DEF LoadDone
  <2> QED
    BY <1>0, <1>5, <2>1, <2>2
<1>6. ASSUME NEW who \in Senders, Write(who) PROVE FALSE
  BY <1>0, <1>6 DEF Write
<1>7. ASSUME NEW who \in Senders, Reply(who) PROVE FALSE
  <2>1. PICK good \in BOOLEAN : Settled(who, good) \/ Again(who)
    BY <1>7, ReplyIs
  <2>2. CASE Again(who)
    <3>1. /\ cmd'[who].tries = 2
          /\ \A w \in Senders : w # who => cmd'[w] = cmd[w]
      BY <2>2, AgainIs
    <3> QED
      BY <1>0, <3>1 DEF Senders
  <2>3. CASE Settled(who, good)
    <3>1. ASSUME NEW l, WorkerSends(l) PROVE FALSE
      BY <1>0, <3>1, CmdOf DEF WorkerSends, Sends, Types, Senders
    <3>2. CASE Announced(who) \/ Closed(who, good)
      BY <3>1, <3>2 DEF Announced, Closed
    <3>3. CASE PushedOn(who, good) \/ SentOff(who)
      <4>1. cmd'[who] = NoCmd /\ \A w \in Senders : w # who => cmd'[w] = cmd[w]
        BY <3>3, NoCmdIs, CmdIs DEF PushedOn, SentOff
      <4> QED
        BY <1>0, <4>1, NoCmdIs DEF Senders
    <3> QED
      BY <2>3, <3>2, <3>3, SettledIs
  <2> QED
    BY <2>1, <2>2, <2>3
<1> QED
  BY <1>1, <1>2, <1>3, <1>4, <1>5, <1>6, <1>7 DEF Next, Plane, Trouble, Beside

\* Only two steps of the worker announce a model: the active one.
LEMMA AnnouncesActive ==
    ASSUME Types, Placed, Next, NEW m \in Model, AnnouncesBy("worker", m)
    PROVE  /\ m = active /\ UNCHANGED <<cfg, port, rebound>>
           /\ (at = "idle" /\ held # 0) \/ (at = "sending" /\ active # NoModel)
<1>0. /\ cmd'["worker"].line = Ready(m) /\ cmd'["worker"].tries = 1
      /\ cmd'["worker"] # cmd["worker"] /\ Ready(m).verb = "ready" /\ Ready(m).arg = m
  BY ReadyIs DEF AnnouncesBy, Args
<1>1. ASSUME NEW l \in Lines, l.verb # "ready", WorkerSends(l) PROVE FALSE
  <2>1. cmd'["worker"].line = l
    BY <1>1, SendsIs, CmdOf DEF WorkerSends
  <2> QED
    BY <1>0, <1>1, <2>1
<1>2. ASSUME WorkerSends(Ready(active)) PROVE m = active
  <2>1. Ready(active) \in Lines /\ Ready(active).arg = active
    BY ReadyIs DEF Types, Args
  <2>2. cmd'["worker"].line = Ready(active)
    BY <1>2, <2>1, SendsIs, CmdOf DEF WorkerSends
  <2> QED
    BY <1>0, <2>1, <2>2
<1>3. ~WorkerSends(Models)
  BY <1>1, NoCmdIs
<1>4. ASSUME NEW status \in {"ok", "error", "stopped"} PROVE ~WorkerSends(Closing(status))
  BY <1>1, ClosingIs
<1>5. CASE AskRefused
  <2> DEFINE status == IF Contains(cancelled, Head(queue).turn) THEN "stopped" ELSE "error"
             l == Line("end", Head(queue).turn, 0, 0, status)
  <2>1. queue # <<>> /\ queue \in Seq(Lines)
    BY <1>5 DEF AskRefused, Takes, Types
  <2>2. Head(queue) \in Lines
    BY <2>1, TailOf
  <2>3. Head(queue).turn \in Nat /\ status \in Args /\ "end" \in Verbs
    BY <2>2 DEF Lines, Args, Verbs
  <2>4. l \in Lines /\ l.verb = "end"
    BY <2>3 DEF Line, Lines
  <2>5. WorkerSends(l)
    BY <1>5 DEF AskRefused
  <2> HIDE DEF l
  <2> QED
    BY <1>1, <2>4, <2>5
<1>6. CASE PushText \/ Keepalive
  <2>1. PICK more \in BOOLEAN, final \in BOOLEAN : Push(more, final)
    BY <1>6 DEF PushText, Keepalive
  <2> DEFINE l == Line("push", gen.turn, gen.seq, IF more THEN gen.text + 1 ELSE 0, NoModel)
  <2>2. (IF more THEN gen.text + 1 ELSE 0) \in Nat /\ gen.turn \in Nat /\ gen.seq \in Nat
        /\ "push" \in Verbs /\ NoModel \in Args
    BY DEF Types, Gens, Verbs, Args
  <2>3. l \in Lines /\ l.verb = "push"
    BY <2>2 DEF Line, Lines
  <2>4. WorkerSends(l)
    BY <2>1 DEF Push
  <2> HIDE DEF l
  <2> QED
    BY <1>1, <2>3, <2>4
<1>7. CASE StreamEnds
  BY <1>4, <1>7 DEF StreamEnds
<1>8. CASE SelectRefused \/ Started \/ RestoreFails \/ Reconnect
  BY <1>3, <1>8 DEF SelectRefused, Started, RestoreFails, Reconnect
<1>9. CASE SelectLoaded
  <2>1. m = active /\ UNCHANGED <<cfg, port, rebound>> /\ at = "idle" /\ held # 0
    BY <1>2, <1>3, <1>9 DEF SelectLoaded, Takes, Bound, serverVars
  <2> QED
    BY <2>1
<1>10. CASE AskStarted \/ SwitchModel \/ SwitchSpawns \/ SpawnFails \/ Device \/ SubmitEvent
            \/ LoseLine \/ LoseReply \/ LineDamaged
  BY <1>0, <1>10 DEF AskStarted, SwitchModel, SwitchSpawns, SpawnFails, Device, FwHandles, FwAsk,
     FwCancel, FwGivesUp, FwSelect, SubmitEvent, LoseLine, LoseReply, LineDamaged
<1>11. CASE Beside
  BY <1>0, <1>11, ApartIs DEF Apart
<1>12. CASE LinkLost
  <2>1. cmd'["worker"] = NoCmd
    BY <1>12 DEF LinkLost, Senders
  <2> QED
    BY <1>0, <2>1, NoCmdIs
<1>13. CASE LoadDone
  <2>1. Ready(cfg) \in Lines /\ "attach" \in Senders /\ "worker" \in Senders
    BY ReadyIs, ModelAssumption DEF Types, Args, Senders
  <2>2. cmd'["worker"] = cmd["worker"]
    BY <1>13, <2>1, SendsIs DEF LoadDone
  <2> QED
    BY <1>0, <2>2
<1>14. ASSUME NEW who \in Senders, Write(who) PROVE FALSE
  BY <1>0, <1>14 DEF Write
<1>15. ASSUME NEW who \in Senders, Reply(who)
       PROVE  m = active /\ UNCHANGED <<cfg, port, rebound>> /\ at = "sending" /\ active # NoModel
  <2>1. PICK good \in BOOLEAN : Heard(who, good) /\ (Settled(who, good) \/ Again(who))
    BY <1>15, ReplyIs
  <2>2. CASE Again(who)
    <3>1. /\ cmd'[who].tries = 2
          /\ \A w \in Senders : w # who => cmd'[w] = cmd[w]
      BY <2>2, AgainIs
    <3> QED
      BY <1>0, <3>1 DEF Senders
  <2>3. CASE Settled(who, good)
    <3>1. UNCHANGED <<cfg, port, rebound>>
      BY <2>3 DEF Settled, serverVars
    <3>2. CASE Announced(who)
      <4>1. WorkerSends(Ready(active)) /\ active # NoModel /\ who = "worker"
        BY <3>2 DEF Announced
      <4>2. at = "sending"
        BY <2>1, <4>1 DEF Heard, Placed, Idle
      <4> QED
        BY <1>2, <3>1, <4>1, <4>2
    <3>3. CASE Closed(who, good)
      BY <1>4, <3>3 DEF Closed
    <3>4. CASE PushedOn(who, good) \/ SentOff(who)
      <4>1. cmd'[who] = NoCmd /\ \A w \in Senders : w # who => cmd'[w] = cmd[w]
        BY <3>4, NoCmdIs, CmdIs DEF PushedOn, SentOff
      <4> QED
        BY <1>0, <4>1, NoCmdIs DEF Senders
    <3> QED
      BY <2>3, <3>2, <3>3, <3>4, SettledIs
  <2> QED
    BY <2>1, <2>2, <2>3
<1> QED
  BY <1>5, <1>6, <1>7, <1>8, <1>9, <1>10, <1>11, <1>12, <1>13, <1>14, <1>15
     DEF Next, Worker, Plane, Trouble, Beside

\* server.py:100, for every set of models and every number of switches, faults and
\* cut loads: neither the worker nor a plane that comes up announces a model other
\* than the one a healthy child has loaded, until a plane is loaded over another.
THEOREM AnnouncesLoaded == Spec => ReportsLoaded
<1> DEFINE Inv == AnswerInv /\ Fitting /\ ServedInv
<1>0. AnswerInv => Types /\ Placed
  BY DEF AnswerInv
<1>1. Init => Inv
  <2>1. Init => ServedInv
    BY DEF Init, ServedInv, NoChild, NoSwitch, Switching
  <2> QED
    BY <2>1, InitInv, FittingInit
<1>2. Inv /\ [Next]_vars => Inv'
  <2>1. Fitting => PlaneFits
    BY DEF Fitting
  <2> QED
    BY <1>0, <2>1, AnswerStep, FittingStep, ServedStep
<1>3. Inv /\ [Next]_vars
        => [\A m \in Model : Announces(m) /\ port'.up /\ ~rebound' => m = port'.model]_vars
  <2> SUFFICES ASSUME Types, Placed, Inv, Next, NEW m \in Model, Announces(m), port'.up, ~rebound'
               PROVE  m = port'.model
    BY <1>0
  <2>1. port'.by # 0 /\ port'.model = cfg'
    <3>1. ServedInv'
      BY <1>2
    <3> QED
      BY <3>1 DEF ServedInv
  <2>2. CASE AnnouncesBy("attach", m)
    <3>1. LoadDone /\ m = cfg
      BY <2>2, PlaneAnnounces
    <3> QED
      BY <2>1, <3>1 DEF LoadDone
  <2>3. CASE AnnouncesBy("worker", m)
    <3>1. /\ m = active /\ UNCHANGED <<cfg, port, rebound>>
          /\ (at = "idle" /\ held # 0) \/ (at = "sending" /\ active # NoModel)
      BY <2>3, AnnouncesActive
    <3>2. active = cfg
      BY <2>1, <3>1 DEF ServedInv
    <3> QED
      BY <2>1, <3>1, <3>2
  <2> QED
    BY <2>2, <2>3 DEF Announces, AnnouncesBy, Senders
<1> QED
  BY <1>1, <1>2, <1>3, PTL DEF Spec, ReportsLoaded

-----------------------------------------------------------------------------
(* LocalLlm: one true model.                                                 *)

Procs == [at : {"none", "loading", "serving", "ending", "dead"}, model : LocModel]
Monitors == [at : {"none", "watch", "spawn", "forked", "wait", "gaveup"}, deaths : Nat]
Calls == [at : {"down", "up", "stop", "reap", "spawn", "forked", "wait", "told"},
          for : {"start", "switch", "restore"}, was : LocModel, next : LocModel,
          told : BOOLEAN]
HostAsks == [at : {"none", "stream", "shown"}, model : LocModel, whole : BOOLEAN, era : Nat]
Turns == [by : LocCallers, model : LocModel, whole : BOOLEAN, era : Nat]

ServerTypes ==
    /\ locModel \in LocModel /\ locProc \in Procs /\ locStray \in Nat
    /\ locMonitor \in Monitors /\ locStopping \in BOOLEAN /\ locCall \in Calls

ClientTypes ==
    /\ locAsk \in [LocCallers -> HostAsks] /\ locHistory \in Seq(Turns) /\ locEra \in Nat

\* Where the child and its monitor are while a call spawns, stops or rests.
ChildInv ==
    /\ locCall.at \in {"down", "spawn", "forked"} => locProc.at = "none"
    /\ locCall.at = "reap" => ~(locProc.at \in {"loading", "serving"})
    /\ locMonitor.at # "none" => locCall.at \in {"up", "told", "stop"} /\ locProc.at # "none"
    /\ locMonitor.at \in {"spawn", "forked", "gaveup"} => locProc.at = "dead"
    /\ locStopping => locCall.at \in {"reap", "down"}
    /\ locCall.at = "down" => locCall.for = "start"
    /\ Alive(locProc) /\ locProc.at # "ending" => locProc.model = locModel

\* Between calls somebody watches, or the restore left nothing to watch.
WatchInv ==
    locCall.at \in {"up", "told"} =>
        locMonitor.at # "none" \/ (locCall.for = "restore" /\ ~Alive(locProc))

\* The configured model is the one the call is about.
SwitchInv ==
    /\ locCall.at \in {"spawn", "forked", "wait"} =>
         /\ locCall.for = "switch" => locModel = locCall.next
         /\ locCall.for = "restore" => locModel = locCall.was
    /\ LocSwitched

\* The bridge asks nothing while it switches, and the configured model answers it.
AskInv ==
    locAsk["device"].at # "none" =>
        /\ locCall.at = "up" /\ locAsk["device"].at = "stream"
        /\ locAsk["device"].era = locEra /\ locAsk["device"].model = locModel

\* The model in force before the call under way, if any.
ModelInForce == IF locCall.for \in {"switch", "restore"} /\ locCall.at # "up" THEN locCall.was
           ELSE locModel

\* What the bridge remembers was said by that model, until the success of a switch
\* clears it.
TurnOK(turn) ==
    turn.by = "device" =>
        /\ turn.whole = TRUE /\ turn.era = locEra
        /\ (locCall.at = "told" /\ locCall.told = TRUE) \/ turn.model = ModelInForce
TurnsInv == \A i \in DOMAIN locHistory : TurnOK(locHistory[i])

ServerInv == ServerTypes /\ ChildInv /\ WatchInv /\ SwitchInv
ClientInv == ClientTypes /\ AskInv /\ TurnsInv
LocInv == ServerInv /\ ClientInv

-----------------------------------------------------------------------------
\* A turn is remembered: what the history holds was in it, or is the new turn.
LEMMA CommittedTurns ==
    ASSUME NEW by \in LocCallers, NEW ask \in HostAsks, locHistory \in Seq(Turns),
           Committed(by, ask), TurnsInv, UNCHANGED <<locEra, locCall, locModel>>,
           by = "device" =>
               ask.whole /\ ask.era = locEra /\ ask.model = locModel /\ locCall.at = "up"
    PROVE locHistory' \in Seq(Turns) /\ TurnsInv'
<1> DEFINE new == [by |-> by, model |-> ask.model, whole |-> ask.whole, era |-> ask.era]
           turns == Append(locHistory, new)
<1>1. new \in Turns /\ TurnOK(new)
  BY DEF HostAsks, Turns, TurnOK, ModelInForce
<1> HIDE DEF new
<1>2. /\ turns \in Seq(Turns) /\ turns # <<>> /\ Len(turns) = Len(locHistory) + 1
      /\ \A i \in DOMAIN turns : turns[i] = new \/ \E j \in DOMAIN locHistory : turns[i] = locHistory[j]
  BY <1>1
<1>3. \A i \in DOMAIN turns : TurnOK(turns[i])
  BY <1>1, <1>2 DEF TurnsInv
<1>4. locHistory' = IF Len(turns) > LocTurns THEN Tail(turns) ELSE turns
  BY DEF Committed, new
<1> HIDE DEF turns
<1>5. \A turn : TurnOK(turn) => TurnOK(turn)'
  BY DEF TurnOK, ModelInForce
<1>6. CASE locHistory' = turns
  BY <1>2, <1>3, <1>5, <1>6 DEF TurnsInv
<1>7. CASE locHistory' = Tail(turns)
  <2>1. /\ Tail(turns) \in Seq(Turns) /\ Len(turns) \in Nat \ {0}
        /\ DOMAIN Tail(turns) = 1 .. Len(turns) - 1 /\ DOMAIN turns = 1 .. Len(turns)
        /\ \A i \in 1 .. Len(turns) - 1 : Tail(turns)[i] = turns[i + 1]
    BY <1>2
  <2>2. \A i \in 1 .. Len(turns) - 1 : i + 1 \in DOMAIN turns
    BY <2>1
  <2>3. \A i \in DOMAIN Tail(turns) : TurnOK(Tail(turns)[i])
    BY <1>3, <2>1, <2>2
  <2> DEFINE h == Tail(turns)
  <2>4. locHistory' = h /\ \A i \in DOMAIN h : TurnOK(h[i])
    BY <1>7, <2>3
  <2>5. h \in Seq(Turns)
    BY <2>1
  <2> HIDE DEF h
  <2> QED
    BY <2>4, <2>5 DEF TurnsInv, TurnOK, ModelInForce
<1> QED
  BY <1>4, <1>6, <1>7

\* Nothing that a turn is judged by changes, and no turn.
LEMMA TurnsStay ==
    ASSUME TurnsInv, UNCHANGED <<locHistory, locEra, locCall, locModel>>
    PROVE  TurnsInv'
  BY DEF TurnsInv, TurnOK, ModelInForce

\* The service starts with no child and nothing remembered.
LEMMA LocInitInv == LocInit => LocInv
<1> SUFFICES ASSUME LocInit PROVE LocInv
  OBVIOUS
<1>1. ServerInv
  BY LocAssumption DEF LocAssumption, LocInit, NoProc, ServerInv, ServerTypes, ChildInv, WatchInv,
     SwitchInv, LocSwitched, LocCallAt, Alive, Procs, Monitors, Calls
<1>2. <<>> \in Seq(Turns) /\ DOMAIN <<>> = {}
  OBVIOUS
<1>3. NoAsk \in HostAsks /\ NoAsk.at = "none"
  BY LocAssumption DEF LocAssumption, NoAsk, HostAsks
<1>4. ClientInv
  BY <1>2, <1>3 DEF LocInit, ClientInv, ClientTypes, AskInv, TurnsInv, LocCallers
<1> QED
  BY <1>1, <1>4 DEF LocInv

-----------------------------------------------------------------------------
(* The supervisor.                                                           *)

\* The calls of the supervisor.
LEMMA CallInv ==
    ASSUME ServerInv,
           \/ LocStart \/ (\E model \in LocModel : LocSwitch(model)) \/ LocStop \/ LocStopped
           \/ LocTold
    PROVE ServerInv'
<1> USE DEF ServerInv, ServerTypes, ChildInv, WatchInv, SwitchInv, LocSwitched, LocCallAt, Alive
<1>1. CASE LocStart
  BY <1>1 DEF LocStart, LocStarts, Calls
<1>2. ASSUME NEW model \in LocModel, LocSwitch(model) PROVE ServerInv'
  BY <1>2 DEF LocSwitch, Calls
<1>3. CASE LocStop
  BY <1>3 DEF LocStop, Calls, Procs, Monitors
<1>4. CASE LocStopped
  BY <1>4, LocAssumption DEF LocAssumption, LocStopped, LocStarts, Calls, Procs, NoProc
<1>5. CASE LocTold
  BY <1>5 DEF LocTold, Calls
<1> QED
  BY <1>1, <1>2, <1>3, <1>4, <1>5

\* A spawn, of a call or of the monitor.
LEMMA SpawnInv ==
    ASSUME ServerInv, NEW who \in LocSpawner,
           LocFork(who) \/ LocRecorded(who) \/ LocHealthy(who) \/ LocUnhealthy(who)
    PROVE ServerInv'
<1> USE DEF ServerInv, ServerTypes, ChildInv, WatchInv, SwitchInv, LocSwitched, LocCallAt, Alive,
            SpawnAt, LocSpawner
<1>1. CASE LocFork(who)
  BY <1>1 DEF LocFork, Calls, Monitors
<1>2. CASE LocRecorded(who)
  BY <1>2 DEF LocRecorded, Calls, Monitors, Procs
<1>3. CASE LocHealthy(who)
  BY <1>3 DEF LocHealthy, Calls, Monitors
<1>4. CASE LocUnhealthy(who)
  <2>1. locProc' \in Procs /\ (locProc' = locProc \/ locProc'.at = "dead")
    BY <1>4 DEF LocUnhealthy, Procs
  <2>2. locProc.at = "dead" => locProc'.at = "dead"
    BY <1>4, <2>1 DEF LocUnhealthy
  <2>3. CASE who = "monitor"
    <3>1. locMonitor' \in Monitors /\ locMonitor'.at = "watch"
      BY <1>4, <2>3 DEF LocUnhealthy, Monitors
    <3> QED
      BY <1>4, <2>1, <2>2, <2>3, <3>1 DEF LocUnhealthy
  <2>4. CASE who = "call" /\ locCall.for = "restore"
    <3>1. /\ locCall' \in Calls /\ locCall'.at = "told" /\ ~locCall'.told
          /\ locCall'.for = "restore" /\ locCall'.was = locCall.was
      BY <1>4, <2>4 DEF LocUnhealthy, Calls
    <3>2. locProc'.at \in {"none", "dead"} /\ locMonitor.at = "none"
      <4>1. \/ locCall.at = "forked" /\ locProc' = locProc
            \/ locCall.at = "wait" /\ locProc'.at = "dead"
        BY <1>4, <2>1, <2>4 DEF LocUnhealthy, Procs
      <4> QED
        BY <4>1
    <3> QED
      BY <1>4, <2>1, <2>4, <3>1, <3>2 DEF LocUnhealthy
  <2>5. CASE who = "call" /\ locCall.for # "restore"
    <3>1. locCall' \in Calls /\ locCall'.at = "stop"
      BY <1>4, <2>5 DEF LocUnhealthy, Calls
    <3> QED
      BY <1>4, <2>1, <2>2, <2>5, <3>1 DEF LocUnhealthy
  <2> QED
    BY <2>3, <2>4, <2>5
<1> QED
  BY <1>1, <1>2, <1>3, <1>4

\* The child and its monitor.
LEMMA ChildStepInv ==
    ASSUME ServerInv, LocEnds \/ LocStrayEnds \/ LocLoads \/ LocDies \/ LocNoticed
    PROVE ServerInv'
<1> USE DEF ServerInv, ServerTypes, ChildInv, WatchInv, SwitchInv, LocSwitched, LocCallAt, Alive
<1>1. CASE LocEnds
  BY <1>1 DEF LocEnds, Procs
<1>2. CASE LocStrayEnds
  BY <1>2 DEF LocStrayEnds
<1>3. CASE LocLoads
  BY <1>3 DEF LocLoads, Procs
<1>4. CASE LocDies
  BY <1>4 DEF LocDies, Procs
<1>5. CASE LocNoticed
  BY <1>5 DEF LocNoticed, Monitors
<1> QED
  BY <1>1, <1>2, <1>3, <1>4, <1>5

-----------------------------------------------------------------------------
(* The client.                                                               *)

\* The supervisor leaves the client alone, and moves on from "up" only while
\* the bridge asks nothing.
LEMMA ServerKeepsClient ==
    ASSUME ServerInv, ClientInv, UNCHANGED locClient,
           \/ LocStart \/ (\E model \in LocModel : LocSwitch(model)) \/ LocStop \/ LocStopped
           \/ \E who \in LocSpawner : LocFork(who) \/ LocRecorded(who) \/ LocHealthy(who)
                                     \/ LocUnhealthy(who)
           \/ LocEnds \/ LocStrayEnds \/ LocLoads \/ LocDies \/ LocNoticed
    PROVE ClientInv'
<1> USE DEF LocCallAt, SpawnAt, LocSpawner
<1>1. \/ locAsk["device"].at = "none"
      \/ locCall.at = "up" /\ locCall' = locCall /\ locModel' = locModel
  BY DEF ClientInv, AskInv, ServerInv, ServerTypes, ChildInv, LocStart, LocSwitch, LocStop,
         LocStopped, LocFork, LocRecorded, LocHealthy, LocUnhealthy, LocEnds, LocStrayEnds,
         LocLoads, LocDies, LocNoticed
<1>2. (locCall'.at = "told" /\ locCall'.told = TRUE)
      \/ (~(locCall.at = "told" /\ locCall.told = TRUE) /\ ModelInForce' = ModelInForce)
      \/ UNCHANGED <<locCall, locModel>>
  <2> USE DEF ServerInv, ServerTypes, Calls, ChildInv, SwitchInv, LocSwitched
  <2>1. CASE LocStart
    BY <2>1 DEF LocStart, LocStarts, ModelInForce
  <2>2. ASSUME NEW model \in LocModel, LocSwitch(model)
        PROVE  \/ locCall'.at = "told" /\ locCall'.told = TRUE
               \/ (~(locCall.at = "told" /\ locCall.told = TRUE) /\ ModelInForce' = ModelInForce)
    BY <2>2 DEF LocSwitch, ModelInForce
  <2>3. CASE LocStop
    BY <2>3 DEF LocStop, ModelInForce
  <2>4. CASE LocStopped
    BY <2>4 DEF LocStopped, LocStarts, ModelInForce
  <2>5. ASSUME NEW who \in LocSpawner, LocFork(who) \/ LocRecorded(who)
        PROVE  \/ (~(locCall.at = "told" /\ locCall.told = TRUE) /\ ModelInForce' = ModelInForce)
               \/ UNCHANGED <<locCall, locModel>>
    BY <2>5 DEF LocFork, LocRecorded, ModelInForce
  <2>6. ASSUME NEW who \in LocSpawner, LocHealthy(who)
        PROVE  \/ locCall'.at = "told" /\ locCall'.told = TRUE
               \/ (~(locCall.at = "told" /\ locCall.told = TRUE) /\ ModelInForce' = ModelInForce)
               \/ UNCHANGED <<locCall, locModel>>
    BY <2>6 DEF LocHealthy, ModelInForce
  <2>7. ASSUME NEW who \in LocSpawner, LocUnhealthy(who)
        PROVE  \/ (~(locCall.at = "told" /\ locCall.told = TRUE) /\ ModelInForce' = ModelInForce)
               \/ UNCHANGED <<locCall, locModel>>
    BY <2>7 DEF LocUnhealthy, ModelInForce
  <2>8. CASE LocEnds \/ LocStrayEnds \/ LocLoads \/ LocDies \/ LocNoticed
    BY <2>8 DEF LocEnds, LocStrayEnds, LocLoads, LocDies, LocNoticed
  <2> QED
    BY <2>1, <2>2, <2>3, <2>4, <2>5, <2>6, <2>7, <2>8
<1>3. UNCHANGED <<locAsk, locHistory, locEra>>
  BY DEF locClient
<1>4. TurnsInv'
  BY <1>2, <1>3, TurnsStay DEF ClientInv, TurnsInv, TurnOK
<1> QED
  BY <1>1, <1>3, <1>4 DEF ClientInv, ClientTypes, AskInv

\* The questions of both callers.
LEMMA AskStepInv ==
    ASSUME ServerInv, ClientInv,
           \/ \E by \in LocCallers : LocAsks(by) \/ LocBreaks(by) \/ LocWhole(by)
           \/ LocDelivered
    PROVE ClientInv'
<1> USE DEF ClientInv, ClientTypes, AskInv, LocCallers
<1>1. NoAsk \in HostAsks /\ NoAsk.at = "none"
  BY LocAssumption DEF LocAssumption, NoAsk, HostAsks
<1>2. UNCHANGED <<locModel, locCall, locEra>>
  BY DEF LocAsks, LocBreaks, LocWhole, LocDelivered, locServer
<1>3. ASSUME NEW by \in LocCallers, NEW ask \in HostAsks, locAsk' = Raised(by, ask),
             locHistory' = locHistory
      PROVE  ClientInv'
  <2>1. Offline(ask) \in HostAsks
    BY DEF Offline, HostAsks
  <2>2. CASE by = "voice"
    BY <1>2, <1>3, <2>1, <2>2, TurnsStay DEF Raised
  <2>3. CASE by = "device"
    BY <1>1, <1>2, <1>3, <2>3, TurnsStay DEF Raised
  <2> QED
    BY <2>2, <2>3
<1>4. ASSUME NEW by \in LocCallers, LocAsks(by) PROVE ClientInv'
  <2> DEFINE ask == [at |-> "stream", model |-> locProc.model, whole |-> FALSE, era |-> locEra]
  <2>1. ask \in HostAsks /\ ask.at = "stream" /\ ask.era = locEra /\ ask.model = locProc.model
    BY DEF HostAsks, ServerInv, ServerTypes, Procs
  <2>2. /\ locHistory' = locHistory
        /\ locAsk' = IF locProc.at = "serving" THEN [locAsk EXCEPT ![by] = ask] ELSE Raised(by, ask)
        /\ by = "device" => locCall.at = "up"
    BY <1>4 DEF LocAsks, LocCallAt
  <2> HIDE DEF ask
  <2>3. CASE locProc.at = "serving"
    <3>1. locProc.model = locModel
      BY <2>3 DEF ServerInv, ChildInv, Alive
    <3> QED
      BY <1>2, <2>1, <2>2, <2>3, <3>1, TurnsStay
  <2> QED
    BY <1>3, <2>1, <2>2, <2>3
<1>5. ASSUME NEW by \in LocCallers, LocBreaks(by) PROVE ClientInv'
  BY <1>3, <1>5 DEF LocBreaks
<1>6. ASSUME NEW by \in LocCallers, LocWhole(by) PROVE ClientInv'
  <2> DEFINE turn == [locAsk[by] EXCEPT !.whole = TRUE]
  <2>1. /\ turn \in HostAsks /\ turn.whole /\ turn.era = locAsk[by].era
        /\ turn.model = locAsk[by].model /\ [turn EXCEPT !.at = "shown"] \in HostAsks
        /\ locAsk[by].at = "stream"
    BY <1>6 DEF HostAsks, LocWhole
  <2>2. CASE by = "voice"
    <3>1. locAsk' = [locAsk EXCEPT !["voice"] = [turn EXCEPT !.at = "shown"]]
          /\ locHistory' = locHistory
      BY <1>6, <2>2 DEF LocWhole
    <3> HIDE DEF turn
    <3> QED
      BY <1>2, <2>1, <2>2, <3>1, TurnsStay
  <2>3. CASE by = "device"
    <3>1. turn.era = locEra /\ turn.model = locModel /\ locCall.at = "up"
      BY <2>1, <2>3
    <3>2. Committed(by, turn) /\ locAsk' = [locAsk EXCEPT ![by] = NoAsk]
      BY <1>6, <2>3 DEF LocWhole
    <3> HIDE DEF turn
    <3>3. locHistory' \in Seq(Turns) /\ TurnsInv'
      BY <1>2, <2>1, <3>1, <3>2, CommittedTurns
    <3> QED
      BY <1>1, <1>2, <2>3, <3>2, <3>3
  <2> QED
    BY <2>2, <2>3
<1>7. CASE LocDelivered
  <2>1. /\ locAsk' = [locAsk EXCEPT !["voice"] = NoAsk]
        /\ locAsk["voice"] \in HostAsks
        /\ Committed("voice", locAsk["voice"]) \/ UNCHANGED locHistory
    BY <1>7 DEF LocDelivered
  <2>2. locHistory' \in Seq(Turns) /\ TurnsInv'
    BY <1>2, <2>1, CommittedTurns, TurnsStay
  <2> QED
    BY <1>1, <1>2, <2>1, <2>2
<1> QED
  BY <1>4, <1>5, <1>6, <1>7

\* A switch that succeeded forgets every turn, and nobody is in the middle of one
\* of the bridge's.
LEMMA ToldKeepsClient == ASSUME ServerInv, ClientInv, LocTold PROVE ClientInv'
<1>1. /\ UNCHANGED <<locAsk, locModel>> /\ locAsk["device"].at = "none"
      /\ locCall.at = "told" /\ locCall' = [locCall EXCEPT !.at = "up"] /\ locCall \in Calls
  BY DEF LocTold, LocCallAt, ClientInv, AskInv, ServerInv, ServerTypes
<1>2. <<>> \in Seq(Turns) /\ DOMAIN <<>> = {}
  OBVIOUS
<1>3. IF locCall.told THEN locHistory' = <<>> /\ locEra' = locEra + 1
      ELSE UNCHANGED <<locHistory, locEra>>
  BY DEF LocTold
<1>4. CASE locCall.told
  BY <1>1, <1>2, <1>3, <1>4 DEF ClientInv, ClientTypes, AskInv, TurnsInv
<1>5. CASE ~locCall.told
  <2>1. locCall.told # TRUE /\ locModel = locCall.was
    BY <1>1, <1>5 DEF ServerInv, SwitchInv, LocSwitched, LocCallAt
  <2>2. ModelInForce = locModel /\ ModelInForce' = locModel /\ locCall'.at = "up"
    BY <1>1, <2>1 DEF ModelInForce, Calls
  <2>3. TurnsInv'
    BY <1>3, <1>5, <2>1, <2>2 DEF ClientInv, TurnsInv, TurnOK
  <2> QED
    BY <1>1, <1>3, <1>5, <2>3 DEF ClientInv, ClientTypes, AskInv
<1> QED
  BY <1>4, <1>5

-----------------------------------------------------------------------------
\* One lemma per group of actions.
LEMMA LocStepInv == LocInv /\ [LocNext]_locVars => LocInv'
<1> SUFFICES ASSUME LocInv, [LocNext]_locVars PROVE LocInv'
  OBVIOUS
<1>1. CASE UNCHANGED locVars
  BY <1>1 DEF locVars, locServer, locClient, LocInv, ServerInv, ServerTypes, ChildInv, WatchInv,
              SwitchInv, LocSwitched, LocCallAt, Alive, ClientInv, ClientTypes, AskInv,
              TurnsInv, TurnOK, ModelInForce
<1>2. CASE \/ LocStart \/ (\E model \in LocModel : LocSwitch(model)) \/ LocStop \/ LocStopped
           \/ \E who \in LocSpawner : LocFork(who) \/ LocRecorded(who) \/ LocHealthy(who)
                                     \/ LocUnhealthy(who)
           \/ LocEnds \/ LocStrayEnds \/ LocLoads \/ LocDies \/ LocNoticed
  <2>1. UNCHANGED locClient
    BY <1>2 DEF LocStart, LocSwitch, LocStop, LocStopped, LocFork, LocRecorded, LocHealthy,
                LocUnhealthy, LocEnds, LocStrayEnds, LocLoads, LocDies, LocNoticed
  <2> QED
    BY <1>2, <2>1, CallInv, SpawnInv, ChildStepInv, ServerKeepsClient DEF LocInv
<1>3. CASE LocTold
  BY <1>3, CallInv, ToldKeepsClient DEF LocInv
<1>4. CASE (\E by \in LocCallers : LocAsks(by) \/ LocBreaks(by) \/ LocWhole(by)) \/ LocDelivered
  <2>1. UNCHANGED locServer
    BY <1>4 DEF LocAsks, LocBreaks, LocWhole, LocDelivered
  <2>2. ServerInv'
    BY <2>1 DEF locServer, LocInv, ServerInv, ServerTypes, ChildInv, WatchInv, SwitchInv,
                LocSwitched, LocCallAt, Alive
  <2> QED
    BY <1>4, <2>2, AskStepInv DEF LocInv
<1> QED
  BY <1>1, <1>2, <1>3, <1>4 DEF LocNext

\* The strengthening implies what the run checks: a fork is the only child there is.
LEMMA LocInvSafe == LocInv => LocSafe
<1> SUFFICES ASSUME LocInv PROVE LocSafe
  OBVIOUS
<1>1. LocSwitched /\ LocRemembered
  <2>1. locCall.at = "up" => ModelInForce = locModel
    BY DEF ModelInForce
  <2>2. LocRemembered
    BY <2>1 DEF LocInv, ClientInv, TurnsInv, TurnOK, LocRemembered, LocCallAt
  <2> QED
    BY <2>2 DEF LocInv, ServerInv, SwitchInv
<1>2. Children - locStray <= 1
  <2> DEFINE a == IF Alive(locProc) THEN 1 ELSE 0
             b == IF locCall.at = "forked" THEN 1 ELSE 0
             c == IF locMonitor.at = "forked" THEN 1 ELSE 0
  <2>1. a + b + c <= 1
    BY DEF LocInv, ServerInv, ServerTypes, ChildInv, Alive
  <2>2. a \in Nat /\ b \in Nat /\ c \in Nat /\ locStray \in Nat /\ Children = locStray + a + b + c
    BY DEF LocInv, ServerInv, ServerTypes, Children
  <2> HIDE DEF a, b, c
  <2> QED
    BY <2>1, <2>2
<1>3. LocSupervised
  BY <1>2 DEF LocInv, ServerInv, ServerTypes, ChildInv, WatchInv, LocSupervised, Alive
<1> QED
  BY <1>1, <1>3 DEF LocSafe

\* Between calls the child is watched, one child serves and it is the configured
\* one, a switch reports what it did, and what the bridge remembers is whole and was
\* said by the model in force since the last switch: for every set of models, every
\* limit and number of faults.
THEOREM OneTrueModel == LocSpec => []LocSafe
<1> QED
  BY LocInitInv, LocStepInv, LocInvSafe, PTL DEF LocSpec
=============================================================================
