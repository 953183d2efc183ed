------------------------------- MODULE Cm5Llm -------------------------------
(* The CM5 as a model source of the firmware's registry: the event queue,   *)
(* generation worker and line sender of cm5_llm.py, and the llama-server    *)
(* child that llm/server.py starts, restarts and switches for it.           *)
(*                                                                          *)
(* A turn is its session number, its answer a number of text chunks; the    *)
(* catalog burst is one line, and progress lines are left out.              *)
EXTENDS Naturals, Sequences, Orders

CONSTANTS
    Model,          \* model names the firmware may select
    OnHost,         \* those with a GGUF in the model directory
    Configured,     \* llm.model at start
    QueueSize,      \* _EVENT_QUEUE_SIZE
    CancelMemory,   \* _CANCEL_MEMORY
    MaxAsks,        \* bound: turns the firmware mints
    MaxSelects,     \* bound: llm_select events
    MaxPushes,      \* bound: pushes of one turn
    MaxFaults       \* bound: lost, damaged or late lines, dead children, lost links

ASSUME ModelAssumption == OnHost \subseteq Model /\ Configured \in OnHost
ASSUME BoundAssumption ==
    /\ QueueSize \in Nat \ {0} /\ CancelMemory \in Nat \ {0}
    /\ MaxAsks \in Nat /\ MaxSelects \in Nat /\ MaxPushes \in Nat /\ MaxFaults \in Nat

VARIABLES
    fw,         \* firmware: turn, open, next (expected seq), got (chunks applied)
    evts,       \* EVT frames not yet routed to submit_event
    tx, rx,     \* lines on their way to the firmware, and its status replies
    wire,       \* who holds Session's lock
    cmd,        \* for both senders: the line _send works on, and its attempt
    queue,      \* _queue
    cancelled,  \* _cancelled
    gen,        \* _current, with what _do_ask counts
    at,         \* where run() is
    plane,      \* where _initialize is; "failed" when its resources are closed for good
    loads,      \* supervisors _make_llm has made; the plane's own is the last
    held,       \* the one attach() gave the worker with its client; 0 before
    active,     \* _active_name
    cfg,        \* llm.model, which every spawn of every supervisor loads
    switch,     \* switch_model's self, path and previous
    port,       \* the one child that holds the port: by, model, up (it answers /health)
    monitor,    \* the supervisors whose _monitor_main runs
    rebound,    \* a plane was loaded over an earlier one the worker holds (history)
    owed,       \* queued asks whose `end` was not written yet
    late,       \* a line was written while an older one was unanswered
    short,      \* an answer was closed as ok with text missing
    selects, faults

fwVars == <<fw, evts>>
wireVars == <<tx, rx, wire, late, short>>
askVars == <<queue, cancelled, owed>>
planeVars == <<plane, loads, held, active, rebound>>
serverVars == <<cfg, switch, port, monitor>>
boundVars == <<selects, faults>>
vars == <<fwVars, wireVars, cmd, askVars, gen, at, planeVars, serverVars, boundVars>>

Senders == {"worker", "attach"}
Idle == "none"
NoModel == "none"

\* A line of either direction; the fields a verb has no use for are 0 or none.
Line(verb, turn, seq, text, arg) ==
    [verb |-> verb, turn |-> turn, seq |-> seq, text |-> text, arg |-> arg]
Models == Line("models", 0, 0, 0, NoModel)
Ready(m) == Line("ready", 0, 0, 0, m)
NoCmd == [line |-> Models, tries |-> 0]
NoSwitch == [sup |-> 0, path |-> NoModel, previous |-> NoModel]
NoChild == [by |-> 0, model |-> NoModel, up |-> FALSE]
NoGen == [turn |-> 0, stop |-> FALSE, seq |-> 0, text |-> 0, last |-> FALSE]

Fault == faults < MaxFaults /\ faults' = faults + 1 /\ UNCHANGED selects

---------------------------------------------------------------------------
(* _send: at most two writes of a line, each under Session's lock.         *)

\* The worker awaits _send(line); what follows is Settled's.
Sends(who, line) == cmd' = [cmd EXCEPT ![who] = [line |-> line, tries |-> 1]]
WorkerSends(line) == Sends("worker", line) /\ at' = "sending"

\* Only a line the device de-duplicates is written again.
Final(who) == cmd[who].tries = 2 \/ cmd[who].line.verb = "models"

\* Stale replies are dropped before the line goes out.
Write(who) ==
    /\ wire = Idle /\ cmd[who].tries > 0
    /\ wire' = who /\ tx' = Append(tx, cmd[who].line) /\ rx' = <<>>
    /\ late' = (late \/ tx # <<>>)
    /\ owed' = IF cmd[who].line.verb = "end" THEN owed \ {cmd[who].line.turn} ELSE owed
    /\ UNCHANGED <<fwVars, short, cmd, queue, cancelled, gen, at, planeVars, serverVars,
                   boundVars>>

\* The `end` of the turn under way; its text counts the chunks (history).
Closing(status) == Line("end", gen.turn, 0, gen.text, status)

\* What the caller of _send does with its result.
Settled(who, good) ==
    LET line == cmd[who].line IN
    /\ wire' = Idle
    /\ plane' = IF who = "attach" THEN "publishing" ELSE plane
    /\ UNCHANGED <<fwVars, short, late, askVars, loads, held, active, rebound, serverVars>>
    /\ CASE who = "worker" /\ line.verb = "models" /\ active # NoModel ->
              WorkerSends(Ready(active)) /\ UNCHANGED gen
         [] who = "worker" /\ line.verb = "push" /\ good /\ ~gen.last ->
              /\ gen' = [gen EXCEPT !.seq = @ + 1]
              /\ at' = "stream" /\ cmd' = [cmd EXCEPT ![who] = NoCmd]
         [] who = "worker" /\ line.verb = "push" /\ (gen.last \/ ~good) ->
              /\ WorkerSends(Closing(IF good THEN "ok" ELSE "error")) /\ gen' = NoGen
         [] OTHER ->
              /\ cmd' = [cmd EXCEPT ![who] = NoCmd]
              /\ at' = IF who = "worker" THEN "idle" ELSE at
              /\ UNCHANGED gen

\* Mutant: the second write of a push takes a sequence number of its own.
AgainFresh(who) ==
    /\ wire' = Idle
    /\ cmd' = [cmd EXCEPT ![who].tries = 2, ![who].line.seq = @ + 1]
    /\ gen' = [gen EXCEPT !.seq = @ + 1]
    /\ UNCHANGED <<fwVars, late, short, askVars, at, planeVars, serverVars>>

Again(who) ==
    /\ wire' = Idle
    /\ cmd' = [cmd EXCEPT ![who].tries = 2]
    /\ UNCHANGED <<fwVars, late, short, askVars, gen, at, planeVars, serverVars>>

\* Any status line is taken for the reply to the line just written.
Answered(who) ==
    /\ wire = who /\ rx # <<>> /\ rx' = Tail(rx)
    /\ CASE Head(rx) = "ok"    -> Settled(who, TRUE)
         [] Head(rx) = "error" -> Settled(who, FALSE)
         [] Head(rx) = "corrupt" -> IF Final(who) THEN Settled(who, FALSE) ELSE Again(who)
    /\ UNCHANGED <<tx, boundVars>>

\* Mutant: a push that timed out twice is taken for applied.
TimedOutAccepted(who) ==
    /\ wire = who /\ rx = <<>>
    /\ IF tx = <<>> THEN UNCHANGED boundVars ELSE Fault
    /\ IF Final(who) THEN Settled(who, TRUE) ELSE Again(who)
    /\ UNCHANGED <<tx, rx>>

\* CommandTimeout: nothing is coming, or (a fault) it comes too late.
TimedOut(who) ==
    /\ wire = who /\ rx = <<>>
    /\ IF tx = <<>> THEN UNCHANGED boundVars ELSE Fault
    /\ IF Final(who) THEN Settled(who, FALSE) ELSE Again(who)
    /\ UNCHANGED <<tx, rx>>

---------------------------------------------------------------------------
(* The firmware (external).                                                *)

\* A turn that is over takes no more lines; what it shows is left out.
Over == [fw EXCEPT !.open = FALSE, !.next = 0, !.got = <<>>]

\* A push in sequence is applied, a replayed one accepted and ignored, one out
\* of sequence ends the turn; `end` closes the turn it names.
FwHandles ==
    LET l == Head(tx)
        mine == fw.open /\ l.turn = fw.turn
        fine == (l.verb = "push" => mine /\ l.seq <= fw.next) /\ (l.verb = "end" => mine)
    IN
    /\ tx # <<>> /\ tx' = Tail(tx)
    /\ rx' = Append(rx, IF fine THEN "ok" ELSE "error")
    /\ fw' = CASE l.verb = "push" /\ mine /\ l.seq = fw.next ->
                    [fw EXCEPT !.next = @ + 1,
                               !.got = IF l.text = 0 THEN @ ELSE Append(@, l.text)]
               [] mine /\ (l.verb = "end" \/ (l.verb = "push" /\ l.seq > fw.next)) ->
                    Over
               [] OTHER -> fw
    /\ short' = (short \/ (l.verb = "end" /\ mine /\ l.arg = "ok" /\ Len(fw.got) # l.text))
    /\ UNCHANGED <<evts, wire, late, cmd, askVars, gen, at, planeVars, serverVars, boundVars>>

FwAsk ==
    /\ at # "down" /\ ~fw.open /\ fw.turn < MaxAsks
    /\ fw' = [turn |-> fw.turn + 1, open |-> TRUE, next |-> 0, got |-> <<>>]
    /\ evts' = Append(evts, Line("ask", fw.turn + 1, 0, 0, NoModel))
    /\ UNCHANGED <<wireVars, cmd, askVars, gen, at, planeVars, serverVars, boundVars>>

FwCancel ==
    /\ fw.open /\ fw' = Over
    /\ evts' = Append(evts, Line("cancel", fw.turn, 0, 0, NoModel))
    /\ UNCHANGED <<wireVars, cmd, askVars, gen, at, planeVars, serverVars, boundVars>>

\* The stall timer, a stale presence lease or a new login epoch.
FwGivesUp ==
    /\ fw.open /\ fw' = Over
    /\ UNCHANGED <<evts, wireVars, cmd, askVars, gen, at, planeVars, serverVars, boundVars>>

FwSelect ==
    /\ at # "down" /\ selects < MaxSelects /\ selects' = selects + 1
    /\ \E m \in Model : evts' = Append(evts, Line("select", 0, 0, 0, m))
    /\ UNCHANGED <<fw, wireVars, cmd, askVars, gen, at, planeVars, serverVars, faults>>

LoseLine ==
    /\ tx # <<>> /\ Fault /\ tx' = Tail(tx)
    /\ UNCHANGED <<fwVars, rx, wire, late, short, cmd, askVars, gen, at, planeVars,
                   serverVars>>

LoseReply ==
    /\ rx # <<>> /\ Fault /\ rx' = Tail(rx)
    /\ UNCHANGED <<fwVars, tx, wire, late, short, cmd, askVars, gen, at, planeVars,
                   serverVars>>

\* The line arrives with a verb nobody wrote.
LineDamaged ==
    /\ tx # <<>> /\ Fault /\ tx' = Tail(tx) /\ rx' = Append(rx, "corrupt")
    /\ UNCHANGED <<fwVars, wire, late, short, cmd, askVars, gen, at, planeVars, serverVars>>

---------------------------------------------------------------------------
(* submit_event, on the event loop.                                        *)

\* Mutant: the memory of cancels is never trimmed.
RememberAll(turn) == Append(Select(cancelled, ToSet(cancelled) \ {turn}), turn)

Remember(turn) == Remembered(cancelled, turn, CancelMemory)

SubmitEvent ==
    /\ evts # <<>> /\ at # "down" /\ evts' = Tail(evts)
    /\ LET e == Head(evts)
           stops == IF e.verb = "cancel" THEN gen.turn = e.turn ELSE TRUE
           full == Len(queue) >= QueueSize
       IN
       /\ gen' = IF gen.turn # 0 /\ stops THEN [gen EXCEPT !.stop = TRUE] ELSE gen
       /\ queue' = IF e.verb = "cancel" \/ full THEN queue ELSE Append(queue, e)
       /\ cancelled' = IF e.verb = "cancel" \/ (full /\ e.verb = "ask")
                       THEN Remember(e.turn) ELSE cancelled
       /\ owed' = IF e.verb = "ask" /\ ~full THEN owed \cup {e.turn} ELSE owed
    /\ UNCHANGED <<fw, wireVars, cmd, at, planeVars, serverVars, boundVars>>

---------------------------------------------------------------------------
(* _do_ask.                                                                *)

Takes(verb) ==
    /\ at = "idle" /\ queue # <<>> /\ Head(queue).verb = verb /\ queue' = Tail(queue)

Bound == held # 0

\* Mutant: a turn cancelled while it was queued is just forgotten.
AskForgotten ==
    /\ Takes("ask") /\ (~Bound \/ Contains(cancelled, Head(queue).turn))
    /\ UNCHANGED <<fwVars, wireVars, cmd, cancelled, owed, gen, at, planeVars, serverVars,
                   boundVars>>

\* Cancelled before it started, or no model plane yet: the turn is closed.
AskRefused ==
    LET turn == Head(queue).turn IN
    /\ Takes("ask") /\ (~Bound \/ Contains(cancelled, turn))
    /\ WorkerSends(Line("end", turn, 0, 0,
                        IF Contains(cancelled, turn) THEN "stopped" ELSE "error"))
    /\ UNCHANGED <<fwVars, wireVars, cancelled, owed, gen, planeVars, serverVars, boundVars>>

AskStarted ==
    /\ Takes("ask") /\ Bound /\ ~Contains(cancelled, Head(queue).turn)
    /\ gen' = [NoGen EXCEPT !.turn = Head(queue).turn] /\ at' = "stream"
    /\ UNCHANGED <<fwVars, wireVars, cmd, cancelled, owed, planeVars, serverVars, boundVars>>

\* The worker's client is closed with the plane it came from.
Streaming ==
    /\ at = "stream" /\ port.up
    /\ held = loads /\ plane \in {"attaching", "publishing", "attached"}

\* The stream yields or ends; `last` is the rest that is pushed when it ends. A
\* cancel is only seen at the next delta: what one delta completed is pushed
\* whatever was cancelled meanwhile. Text 0 keeps alive.
Push(text, last) ==
    /\ Streaming /\ gen.seq < MaxPushes
    /\ gen' = [gen EXCEPT !.text = IF text THEN @ + 1 ELSE @, !.last = last]
    /\ WorkerSends(Line("push", gen.turn, gen.seq, IF text THEN gen.text + 1 ELSE 0, NoModel))
    /\ UNCHANGED <<fwVars, wireVars, askVars, planeVars, serverVars, boundVars>>

PushText == \E last \in BOOLEAN : Push(TRUE, last)
Keepalive == Push(FALSE, FALSE)

\* Stopped at a delta, exhausted, or the request or the stream raised.
StreamEnds ==
    /\ at = "stream"
    /\ \E status \in {"stopped", "ok", "error"} :
         /\ status = "stopped" => gen.stop
         /\ status # "error" => Streaming
         /\ WorkerSends(Closing(status))
    /\ gen' = NoGen
    /\ UNCHANGED <<fwVars, wireVars, askVars, planeVars, serverVars, boundVars>>

---------------------------------------------------------------------------
(* The children. All supervisors share one configuration and one port; a    *)
(* child that finds the port taken exits, and a probe of /health is answered*)
(* by whichever child holds it (server.py:179-181, 206-208).                *)

\* The port after supervisor s has started a child.
Spawned(s, model) ==
    IF port.by \in {0, s} THEN [by |-> s, model |-> model, up |-> FALSE] ELSE port

\* The port once the children of these supervisors have been stopped.
Without(stopped) == IF port.by \in stopped THEN NoChild ELSE port

\* A start whose own child is alive fails only by a fault; else the probe finds
\* the child gone.
StartFails(s) == IF port.by = s THEN Fault ELSE UNCHANGED boundVars

ChildUp ==
    /\ port.by # 0 /\ ~port.up /\ port' = [port EXCEPT !.up = TRUE]
    /\ UNCHANGED <<fwVars, wireVars, cmd, askVars, gen, at, planeVars, cfg, switch, monitor,
                   boundVars>>

ServerDies ==
    /\ port.up /\ Fault /\ port' = NoChild
    /\ UNCHANGED <<fwVars, wireVars, cmd, askVars, gen, at, planeVars, cfg, switch, monitor>>

MonitorRestarts(s) ==
    /\ port.by = 0 /\ port' = Spawned(s, cfg)
    /\ UNCHANGED <<fwVars, wireVars, cmd, askVars, gen, at, planeVars, cfg, switch, monitor,
                   boundVars>>

\* Five quick deaths in a row: one fault, or another's child keeps the port.
MonitorGivesUp(s) ==
    /\ port.by # s /\ monitor' = monitor \ {s}
    /\ IF port.by = 0 THEN Fault ELSE UNCHANGED boundVars
    /\ UNCHANGED <<fwVars, wireVars, cmd, askVars, gen, at, planeVars, cfg, switch, port>>

Monitor == \E s \in monitor : MonitorRestarts(s) \/ MonitorGivesUp(s)

---------------------------------------------------------------------------
(* _do_select and switch_model.                                            *)

Wanted == Head(queue).arg
Served == port.up /\ (Wanted = active \/ Wanted = cfg)

\* An unknown model, or no client yet: _report_actual_model.
SelectRefused ==
    /\ Takes("select") /\ (Wanted \notin OnHost \/ ~Bound)
    /\ WorkerSends(Models)
    /\ UNCHANGED <<fwVars, wireVars, cancelled, owed, gen, planeVars, serverVars, boundVars>>

\* Served already: `ready` at once for the active name, the report for another.
SelectLoaded ==
    /\ Takes("select") /\ Wanted \in OnHost /\ Bound /\ Served
    /\ active' = Wanted
    /\ WorkerSends(IF Wanted = active THEN Ready(active) ELSE Models)
    /\ UNCHANGED <<fwVars, wireVars, cancelled, owed, gen, plane, loads, held, rebound,
                   serverVars, boundVars>>

\* stop() of the supervisor the worker holds, be it the plane's or an older one.
SwitchModel ==
    /\ Takes("select") /\ Wanted \in OnHost /\ Bound /\ ~Served
    /\ switch' = [sup |-> held, path |-> Wanted, previous |-> cfg]
    /\ port' = Without({held}) /\ monitor' = monitor \ {held} /\ at' = "stop"
    /\ UNCHANGED <<fwVars, wireVars, cmd, cancelled, owed, gen, planeVars, cfg, boundVars>>

SwitchSpawns ==
    /\ at = "stop" /\ at' = "spawn"
    /\ cfg' = switch.path /\ port' = Spawned(switch.sup, switch.path)
    /\ UNCHANGED <<fwVars, wireVars, cmd, askVars, gen, planeVars, switch, monitor, boundVars>>

\* Mutant: the switch goes through and the name it replaced is kept.
StartedUnnoted ==
    /\ at \in {"spawn", "restore"} /\ port.up
    /\ monitor' = monitor \cup {switch.sup} /\ switch' = NoSwitch
    /\ WorkerSends(Models)
    /\ UNCHANGED <<fwVars, wireVars, askVars, gen, planeVars, cfg, port, boundVars>>

\* start() returned: somebody's child is healthy, and this supervisor's monitored.
Started ==
    /\ at \in {"spawn", "restore"} /\ port.up
    /\ monitor' = monitor \cup {switch.sup} /\ switch' = NoSwitch /\ active' = cfg
    /\ WorkerSends(Models)
    /\ UNCHANGED <<fwVars, wireVars, askVars, gen, plane, loads, held, rebound, cfg, port,
                   boundVars>>

SpawnFails ==
    /\ at = "spawn" /\ StartFails(switch.sup)
    /\ at' = "restore" /\ cfg' = switch.previous /\ port' = Spawned(switch.sup, cfg')
    /\ UNCHANGED <<fwVars, wireVars, cmd, askVars, gen, planeVars, switch, monitor>>

RestoreFails ==
    /\ at = "restore" /\ StartFails(switch.sup)
    /\ port' = Without({switch.sup}) /\ switch' = NoSwitch
    /\ active' = cfg /\ WorkerSends(Models)
    /\ UNCHANGED <<fwVars, wireVars, askVars, gen, plane, loads, held, rebound, cfg, monitor>>

---------------------------------------------------------------------------
(* The model plane, and the link.                                           *)

\* _make_llm, with a supervisor of its own.
LoadStarts ==
    /\ plane = "loading" /\ at # "down"
    /\ plane' = "spawning" /\ loads' = loads + 1 /\ port' = Spawned(loads', cfg)
    /\ rebound' = (rebound \/ Bound)
    /\ UNCHANGED <<fwVars, wireVars, cmd, askVars, gen, at, held, active, cfg, switch, monitor,
                   boundVars>>

\* _make_llm returned, and attach() announces what is configured.
LoadDone ==
    /\ plane = "spawning" /\ port.up
    /\ monitor' = monitor \cup {loads} /\ held' = loads /\ active' = cfg
    /\ plane' = "attaching" /\ Sends("attach", Ready(cfg))
    /\ UNCHANGED <<fwVars, wireVars, askVars, gen, at, loads, rebound, cfg, switch, port,
                   boundVars>>

\* _initialization_failed: for the life of the daemon.
LoadFails ==
    /\ plane = "spawning" /\ StartFails(loads)
    /\ plane' = "failed" /\ port' = Without({loads})
    /\ UNCHANGED <<fwVars, wireVars, cmd, askVars, gen, at, loads, held, active, rebound, cfg,
                   switch, monitor>>

\* Dictation's capability is published; the pipeline is up.
PlaneUp ==
    /\ plane = "publishing" /\ plane' = "attached"
    /\ UNCHANGED <<fwVars, wireVars, cmd, askVars, gen, at, loads, held, active, rebound,
                   serverVars, boundVars>>

\* What a lost link makes of the plane. Cancelled, it closes its resources, for
\* good once the pipeline exists; attach() that meets LinkClosed itself fails the
\* initialization, dictation's catches it.
AfterLoss ==
    CASE plane \in {"loading", "spawning"} -> {"loading"}
      [] plane = "attaching"  -> {"loading", "failed"}
      [] plane = "publishing" -> {"attached", "failed"}
      [] OTHER -> {plane}

\* The group is cancelled and link_reset forgets the epoch. A spawn under way is
\* killed, a plane that closes stops its own child; another's child stays.
LinkLost ==
    /\ at # "down" /\ Fault /\ at' = "down"
    /\ tx' = <<>> /\ rx' = <<>> /\ evts' = <<>> /\ wire' = Idle
    /\ cmd' = [s \in Senders |-> NoCmd]
    /\ queue' = <<>> /\ gen' = NoGen /\ owed' = {}
    /\ fw' = Over /\ switch' = NoSwitch
    /\ plane' \in AfterLoss
    /\ LET stopped == (IF plane' \in {plane, "attached"} THEN {} ELSE {loads})
                       \cup (IF at \in {"spawn", "restore"} THEN {switch.sup} ELSE {})
       IN port' = Without(stopped) /\ monitor' = monitor \ stopped
    /\ UNCHANGED <<late, short, cancelled, loads, held, active, rebound, cfg>>

\* A new epoch: run() publishes the catalog, then `ready` again.
Reconnect ==
    /\ at = "down" /\ WorkerSends(Models)
    /\ UNCHANGED <<fwVars, wireVars, askVars, gen, planeVars, serverVars, boundVars>>

---------------------------------------------------------------------------

Init ==
    /\ fw = [turn |-> 0, open |-> FALSE, next |-> 0, got |-> <<>>]
    /\ evts = <<>> /\ tx = <<>> /\ rx = <<>> /\ wire = Idle
    /\ cmd = [s \in Senders |-> NoCmd]
    /\ queue = <<>> /\ cancelled = <<>> /\ gen = NoGen /\ at = "down"
    /\ plane = "loading" /\ loads = 0 /\ held = 0 /\ active = NoModel /\ rebound = FALSE
    /\ cfg = Configured /\ switch = NoSwitch /\ port = NoChild /\ monitor = {}
    /\ owed = {} /\ late = FALSE /\ short = FALSE /\ selects = 0 /\ faults = 0

Worker ==
    \/ AskRefused \/ AskStarted \/ PushText \/ Keepalive \/ StreamEnds
    \/ SelectRefused \/ SelectLoaded \/ SwitchModel \/ SwitchSpawns
    \/ Started \/ SpawnFails \/ RestoreFails

Device == FwHandles \/ FwAsk \/ FwCancel \/ FwGivesUp \/ FwSelect

Plane == LoadStarts \/ LoadDone \/ LoadFails \/ PlaneUp

Trouble == LoseLine \/ LoseReply \/ LineDamaged \/ ServerDies \/ LinkLost

Reply(who) == Answered(who) \/ TimedOut(who)

Next ==
    \/ Worker \/ Device \/ Plane \/ Trouble \/ SubmitEvent \/ Reconnect
    \/ ChildUp \/ Monitor
    \/ \E who \in Senders : Write(who) \/ Reply(who)

Spec == Init /\ [][Next]_vars

\* The event loop runs every task, a stream yields or ends, a spawn succeeds or
\* fails, and a command is answered or times out.
FairSpec ==
    /\ Spec
    /\ WF_vars(Worker) /\ WF_vars(SubmitEvent) /\ WF_vars(FwHandles) /\ WF_vars(ChildUp)
    /\ \A who \in Senders : WF_vars(Write(who)) /\ WF_vars(Reply(who))

---------------------------------------------------------------------------
(* Properties.                                                              *)

TypeOK ==
    LET Lines == [verb : {"models", "ready", "push", "end", "ask", "cancel", "select"},
                  turn : 0..MaxAsks, seq : 0..MaxPushes, text : 0..MaxPushes,
                  arg : Model \cup {NoModel, "ok", "error", "stopped"}]
    IN
    /\ fw \in [turn : 0..MaxAsks, open : BOOLEAN, next : 0..MaxPushes,
               got : Seq(1..MaxPushes)]
    /\ evts \in Seq(Lines) /\ tx \in Seq(Lines) /\ queue \in Seq(Lines)
    /\ rx \in Seq({"ok", "error", "corrupt"})
    /\ wire \in Senders \cup {Idle}
    /\ cmd \in [Senders -> [line : Lines, tries : 0..2]]
    /\ Len(queue) <= QueueSize
    /\ cancelled \in Seq(1..MaxAsks) /\ Len(cancelled) <= CancelMemory
    /\ gen \in [turn : 0..MaxAsks, stop : BOOLEAN, seq : 0..MaxPushes,
                text : 0..MaxPushes, last : BOOLEAN]
    /\ at \in {"down", "idle", "sending", "stream", "stop", "spawn", "restore"}
    /\ plane \in {"loading", "spawning", "attaching", "publishing", "attached", "failed"}
    /\ loads \in 0..(MaxFaults + 1) /\ held \in 0..loads /\ rebound \in BOOLEAN
    /\ active \in Model \cup {NoModel} /\ cfg \in OnHost
    /\ switch \in [sup : 0..loads, path : OnHost \cup {NoModel}, previous : OnHost \cup {NoModel}]
    /\ port \in [by : 0..loads, model : OnHost \cup {NoModel}, up : BOOLEAN]
    /\ monitor \subseteq 1..loads
    /\ owed \subseteq 1..MaxAsks /\ late \in BOOLEAN /\ short \in BOOLEAN
    /\ selects \in 0..MaxSelects /\ faults \in 0..MaxFaults

\* cm5_llm.py:931: a replayed push never duplicates or reorders answer text,
\* whatever was lost, late or misread: the device holds a prefix of the answer.
TextInOrder == \A i \in DOMAIN fw.got : fw.got[i] = i

\* An answer closed as ok is complete on the device, unless a reply that came
\* after its timeout was taken for the reply to a later line.
WholeAnswer == short => late

\* The device is about to be told which model the host serves.
Announces(m) ==
    \E who \in Senders : cmd'[who] = [line |-> Ready(m), tries |-> 1] /\ cmd'[who] # cmd[who]

\* server.py:100: whatever switch, restore or load was just cut or failed, no
\* model is announced other than the one a healthy child has loaded, unless a
\* plane was loaded while the worker still held the supervisor of a closed one.
ReportsLoaded ==
    [][\A m \in Model : Announces(m) /\ port'.up /\ ~rebound' => m = port'.model]_vars

\* __main__.py:473, the firmware's precondition: a model is announced only while
\* it is being served, or while a monitor is bringing it back.
ReadyMeansHealthy ==
    [][\A m \in Model : Announces(m) => m = cfg' /\ (port'.up \/ monitor' # {})]_vars

\* Liveness, cm5_llm.py:875: the `end` of every queued turn is written, however
\* it went, unless the link is lost.
AdmittedAsksEnd == \A s \in 1..MaxAsks : s \in owed ~> s \notin owed

=============================================================================
