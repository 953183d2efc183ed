------------------------------ MODULE LocalLlm ------------------------------
(* The local model: llama-server as a supervised child (llm/server.py) and   *)
(* the streaming client whose history two callers share (llm/client.py).     *)
(*                                                                           *)
(* One caller at a time drives the supervisor: the initialization that       *)
(* starts it, then the CM5 bridge that switches models.  A caller that is    *)
(* cancelled in mid switch is in Cm5Llm.  Fast deaths are consecutive ones;  *)
(* which deaths are fast, and the back-off, are left to time.                *)
EXTENDS Naturals, Sequences, SequencesExt

CONSTANTS LocModel,
          LocFirst,       \* llm.model at start
          LocFastDeaths,  \* _monitor_main gives up at this many
          LocTurns,       \* llm.history_turns
          MaxLocSwitches, MaxLocAsks, MaxLocFaults  \* bounds

ASSUME LocAssumption ==
    /\ LocFirst \in LocModel
    /\ {LocFastDeaths, LocTurns} \subseteq Nat \ {0}
    /\ {MaxLocSwitches, MaxLocAsks, MaxLocFaults} \subseteq Nat

VARIABLES locModel,     \* cfg.model
          locProc,      \* _proc: [at, model]
          locStray,     \* children of a cancelled spawn that are still being reaped
          locMonitor,   \* _monitor_main: [at, deaths]
          locStopping,  \* _stopping
          locCall,      \* start() or switch_model(): [at, was, told]
          locAsk,       \* ask_stream of each caller: [at, model, whole]
          locHistory,   \* _history: the turns [model, whole, by, era]
          locEra,       \* switches that cleared the history
          locSwitches, locAsks, locFaults

locServer == <<locModel, locProc, locStray, locMonitor, locStopping, locCall>>
locClient == <<locAsk, locHistory, locEra>>
locBounds == <<locSwitches, locAsks, locFaults>>
locVars == <<locServer, locClient, locBounds>>

NoProc == [at |-> "none", model |-> LocFirst]
NoAsk == [at |-> "none", model |-> LocFirst, whole |-> FALSE, era |-> 0]
LocFault == /\ locFaults < MaxLocFaults /\ locFaults' = locFaults + 1
            /\ UNCHANGED <<locSwitches, locAsks>>

\* The supervisor's two tasks that may spawn.
LocSpawner == {"call", "monitor"}
SpawnAt(who) == IF who = "call" THEN locCall.at ELSE locMonitor.at
LocCallAt(at) == locCall.at = at

Alive(proc) == proc.at \in {"loading", "serving", "ending"}
Children == locStray + (IF Alive(locProc) THEN 1 ELSE 0)
            + (IF locCall.at = "forked" THEN 1 ELSE 0)
            + (IF locMonitor.at = "forked" THEN 1 ELSE 0)

-----------------------------------------------------------------------------
(* start(), stop() and switch_model().                                       *)

\* start of the initialization, and of a switch or its restore.
LocStarts(call) == /\ locStopping' = FALSE /\ locCall' = [call EXCEPT !.at = "spawn"]

LocStart ==
    /\ LocCallAt("down") /\ locProc.at = "none"
    /\ LocStarts([locCall EXCEPT !.for = "start"])
    /\ UNCHANGED <<locModel, locProc, locStray, locMonitor, locClient, locBounds>>

\* switch_model: nothing to do for a model whose probe finds it healthy.
LocSwitch(model) ==
    /\ LocCallAt("up") /\ locAsk["device"].at = "none"
    /\ locSwitches < MaxLocSwitches /\ locSwitches' = locSwitches + 1
    /\ \/ /\ model = locModel /\ locProc.at = "serving"
          /\ locCall' = [locCall EXCEPT !.at = "told", !.next = model, !.told = TRUE]
       \/ locCall' = [locCall EXCEPT !.at = "stop", !.was = locModel, !.for = "switch",
                                     !.next = model]
    /\ UNCHANGED <<locModel, locProc, locStray, locMonitor, locStopping, locClient,
                   locAsks, locFaults>>

\* Mutant: stop() leaves the monitor running.
LocStopMonitored ==
    /\ LocCallAt("stop") /\ locStopping' = TRUE
    /\ locProc' = IF Alive(locProc) THEN [locProc EXCEPT !.at = "ending"] ELSE locProc
    /\ locCall' = [locCall EXCEPT !.at = "reap"]
    /\ UNCHANGED <<locModel, locStray, locMonitor, locClient, locBounds>>

\* stop(): the monitor is cancelled, wherever it is, and the child told to end.
\* A child it has forked but not yet recorded is killed by its own spawn.
LocStop ==
    /\ LocCallAt("stop") /\ locStopping' = TRUE
    /\ locStray' = locStray + (IF locMonitor.at = "forked" THEN 1 ELSE 0)
    /\ locMonitor' = [locMonitor EXCEPT !.at = "none"]
    /\ locProc' = IF Alive(locProc) THEN [locProc EXCEPT !.at = "ending"] ELSE locProc
    /\ locCall' = [locCall EXCEPT !.at = "reap"]
    /\ UNCHANGED <<locModel, locClient, locBounds>>

\* The child that was told to end, or killed, has ended.
LocEnds ==
    /\ locProc.at = "ending" /\ locProc' = [locProc EXCEPT !.at = "dead"]
    /\ UNCHANGED <<locModel, locStray, locMonitor, locStopping, locCall, locClient, locBounds>>

LocStrayEnds ==
    /\ locStray > 0 /\ locStray' = locStray - 1
    /\ UNCHANGED <<locModel, locProc, locMonitor, locStopping, locCall, locClient, locBounds>>

\* stop() returns to the switch, its restore or the initialization that failed.
LocStopped ==
    /\ LocCallAt("reap") /\ locProc.at \in {"none", "dead"}
    /\ locProc' = NoProc
    /\ \/ /\ locCall.for = "start" /\ locCall' = [locCall EXCEPT !.at = "down"]
          /\ UNCHANGED <<locModel, locStopping>>
       \/ /\ locCall.for = "switch" /\ locModel' = locCall.next
          /\ LocStarts(locCall)
       \/ /\ locCall.for = "restore" /\ locModel' = locCall.was
          /\ LocStarts(locCall)
    /\ UNCHANGED <<locStray, locMonitor, locClient, locBounds>>

-----------------------------------------------------------------------------
(* _spawn, in start() or in the monitor.                                     *)

LocFork(who) ==
    /\ SpawnAt(who) = "spawn"
    /\ IF who = "call" THEN locCall' = [locCall EXCEPT !.at = "forked"] /\ UNCHANGED locMonitor
       ELSE locMonitor' = [locMonitor EXCEPT !.at = "forked"] /\ UNCHANGED locCall
    /\ UNCHANGED <<locModel, locProc, locStray, locStopping, locClient, locBounds>>

LocRecorded(who) ==
    /\ SpawnAt(who) = "forked" /\ locProc' = [at |-> "loading", model |-> locModel]
    /\ IF who = "call" THEN locCall' = [locCall EXCEPT !.at = "wait"] /\ UNCHANGED locMonitor
       ELSE locMonitor' = [locMonitor EXCEPT !.at = "wait"] /\ UNCHANGED locCall
    /\ UNCHANGED <<locModel, locStray, locStopping, locClient, locBounds>>

LocLoads ==
    /\ locProc.at = "loading" /\ locProc' = [locProc EXCEPT !.at = "serving"]
    /\ UNCHANGED <<locModel, locStray, locMonitor, locStopping, locCall, locClient, locBounds>>

\* _wait_healthy sees /health; start() creates the monitor.
LocHealthy(who) ==
    /\ SpawnAt(who) = "wait" /\ locProc.at = "serving"
    /\ locMonitor' = [at |-> "watch", deaths |-> IF who = "call" THEN 0 ELSE locMonitor.deaths]
    /\ locCall' = IF who = "call"
                  THEN [locCall EXCEPT !.at = IF @ = "wait" /\ locCall.for = "start" THEN "up"
                                              ELSE "told",
                                       !.told = locCall.for = "switch"]
                  ELSE locCall
    /\ UNCHANGED <<locModel, locProc, locStray, locStopping, locClient, locBounds>>

\* It raises: no child came up, it died, or did not load in time and is killed.
LocUnhealthy(who) ==
    /\ \/ SpawnAt(who) = "forked" /\ LocFault /\ UNCHANGED locProc
       \/ SpawnAt(who) = "wait" /\ locProc.at = "dead" /\ UNCHANGED <<locProc, locBounds>>
       \/ /\ SpawnAt(who) = "wait" /\ locProc.at = "loading" /\ LocFault
          /\ locProc' = [locProc EXCEPT !.at = "dead"]
    /\ IF who = "monitor" THEN locMonitor' = [locMonitor EXCEPT !.at = "watch"] /\ UNCHANGED locCall
       ELSE /\ UNCHANGED locMonitor
            /\ locCall' = IF locCall.for = "restore"
                          THEN [locCall EXCEPT !.at = "told", !.told = FALSE]
                          ELSE [locCall EXCEPT !.at = "stop",
                                               !.for = IF @ = "switch" THEN "restore" ELSE @]
    /\ UNCHANGED <<locModel, locStray, locStopping, locClient>>

\* The child dies of itself.
LocDies ==
    /\ locProc.at \in {"loading", "serving"} /\ LocFault
    /\ locProc' = [locProc EXCEPT !.at = "dead"]
    /\ UNCHANGED <<locModel, locStray, locMonitor, locStopping, locCall, locClient>>

\* _monitor_main: proc.wait() returned; it gives up, or backs off and spawns.
LocNoticed ==
    /\ locMonitor.at = "watch" /\ locProc.at \in {"none", "dead"}
    /\ \E deaths \in {0, locMonitor.deaths + 1} :
           locMonitor' = [at |-> IF locStopping \/ locProc.at = "none" THEN "none"
                                 ELSE IF deaths >= LocFastDeaths THEN "gaveup" ELSE "spawn",
                          deaths |-> deaths]
    /\ UNCHANGED <<locModel, locProc, locStray, locStopping, locCall, locClient, locBounds>>

-----------------------------------------------------------------------------
(* The client, and what its callers do with it.                              *)

\* The voice pipeline commits on delivery, the CM5 bridge lets ask_stream do it.
LocCallers == {"voice", "device"}

\* What the pipeline shows and remembers of a question without an answer.
Offline(ask) == [ask EXCEPT !.at = "shown", !.whole = FALSE]

\* An ask that raised: the bridge ends its turn, the pipeline has its own text.
Raised(by, ask) == [locAsk EXCEPT ![by] = IF by = "voice" THEN Offline(ask) ELSE NoAsk]

\* ask_stream: the request reaches a child that serves, or raises.
LocAsks(by) ==
    /\ locAsk[by].at = "none" /\ locAsks < MaxLocAsks /\ locAsks' = locAsks + 1
    /\ LocCallAt("up") \/ (by = "voice" /\ (locCall.for = "start" => LocCallAt("told")))
    /\ LET ask == [at |-> "stream", model |-> locProc.model, whole |-> FALSE, era |-> locEra]
       IN locAsk' = IF locProc.at = "serving" THEN [locAsk EXCEPT ![by] = ask]
                    ELSE Raised(by, ask)
    /\ UNCHANGED <<locServer, locHistory, locEra, locSwitches, locFaults>>

\* _history.append, to a deque of bounded length.
Committed(by, turn) ==
    locHistory' = LET turns == Append(locHistory, [by |-> by, model |-> turn.model,
                                                   whole |-> turn.whole, era |-> turn.era])
                  IN IF Len(turns) > LocTurns THEN Tail(turns) ELSE turns

\* The child went: the stream raises.
LocBreaks(by) ==
    /\ locAsk[by].at = "stream" /\ ~Alive(locProc)
    /\ locAsk' = Raised(by, locAsk[by])
    /\ UNCHANGED <<locServer, locHistory, locEra, locBounds>>

LocWhole(by) ==
    /\ locAsk[by].at = "stream" /\ locProc.at = "serving"
    /\ LET turn == [locAsk[by] EXCEPT !.whole = TRUE]
       IN IF by = "voice" THEN /\ locAsk' = [locAsk EXCEPT ![by] = [turn EXCEPT !.at = "shown"]]
                               /\ UNCHANGED locHistory
          ELSE locAsk' = [locAsk EXCEPT ![by] = NoAsk] /\ Committed(by, turn)
    /\ UNCHANGED <<locServer, locEra, locBounds>>

\* The answer or the text in its place is on the lens (commit_turn), or was dismissed.
LocDelivered ==
    /\ locAsk["voice"].at = "shown" /\ locAsk' = [locAsk EXCEPT !["voice"] = NoAsk]
    /\ \/ Committed("voice", locAsk["voice"])
       \/ UNCHANGED locHistory
    /\ UNCHANGED <<locServer, locEra, locBounds>>

\* The bridge is told the result of its switch; a new model clears the history.
LocTold ==
    /\ LocCallAt("told") /\ locCall' = [locCall EXCEPT !.at = "up"]
    /\ IF locCall.told THEN locHistory' = <<>> /\ locEra' = locEra + 1
       ELSE UNCHANGED <<locHistory, locEra>>
    /\ UNCHANGED <<locModel, locProc, locStray, locMonitor, locStopping, locAsk, locBounds>>

LocInit ==
    /\ locModel = LocFirst /\ locProc = NoProc /\ locStray = 0
    /\ locMonitor = [at |-> "none", deaths |-> 0] /\ locStopping = FALSE
    /\ locCall = [at |-> "down", for |-> "start", was |-> LocFirst, next |-> LocFirst,
                  told |-> FALSE]
    /\ locAsk = [by \in LocCallers |-> NoAsk] /\ locHistory = <<>> /\ locEra = 0
    /\ locSwitches = 0 /\ locAsks = 0 /\ locFaults = 0

LocNext ==
    \/ LocStart \/ (\E model \in LocModel : LocSwitch(model))
    \/ LocStop \/ LocEnds \/ LocStrayEnds \/ LocStopped
    \/ \E who \in LocSpawner : LocFork(who) \/ LocRecorded(who) \/ LocHealthy(who)
                               \/ LocUnhealthy(who)
    \/ LocLoads \/ LocDies \/ LocNoticed
    \/ \E by \in LocCallers : LocAsks(by) \/ LocBreaks(by) \/ LocWhole(by)
    \/ LocDelivered \/ LocTold

LocSpec == LocInit /\ [][LocNext]_locVars

-----------------------------------------------------------------------------
(* Properties.                                                               *)

\* The type of the state.
LocTypeOK ==
    /\ locModel \in LocModel /\ locProc.model \in LocModel /\ locStray \in 0 .. MaxLocSwitches
    /\ locProc.at \in {"none", "loading", "serving", "ending", "dead"}
    /\ locMonitor.at \in {"none", "watch", "spawn", "forked", "wait", "gaveup"}
    /\ locCall.at \in {"down", "up", "stop", "reap", "spawn", "forked", "wait", "told"}
    /\ locCall.for \in {"start", "switch", "restore"} /\ locStopping \in BOOLEAN
    /\ Len(locHistory) <= LocTurns

\* Between calls the child is watched, unless the monitor gave it up or the
\* restore of a failed switch failed too; what serves is what is configured; and
\* but for a child that is being reaped there is one at most, whatever a switch
\* interrupted (start, stop, _monitor_main).
LocSupervised ==
    /\ locCall.at \in {"up", "told"} =>
         \/ locMonitor.at \notin {"none", "gaveup"}
         \/ locMonitor.at = "gaveup" /\ locProc.at = "dead"
         \/ locCall.for = "restore" /\ ~Alive(locProc)
    /\ locProc.at = "serving" => locProc.model = locModel
    /\ Children - locStray <= 1

\* A switch that reports success has its model configured and one that reports
\* failure has the former one back (switch_model).
LocSwitched ==
    LocCallAt("told") =>
        locModel = IF locCall.told THEN locCall.next ELSE locCall.was

\* What the bridge remembers was heard to its end, no child's death or switch cut it;
\* it is of no earlier model than the last switch, and when no call of the supervisor
\* is under way it is the configured model that said it, whatever switches failed and
\* were undone since (ask_stream, clear_history, switch_model).  The pipeline's turns
\* are what it showed: an exchange that was answered before a switch and delivered
\* after it, and the text in place of an answer, are among them (commit_turn).
LocRemembered ==
    \A i \in DOMAIN locHistory :
        locHistory[i].by = "device" =>
            /\ locHistory[i].whole /\ locHistory[i].era = locEra
            /\ LocCallAt("up") => locHistory[i].model = locModel

LocSafe == LocSupervised /\ LocSwitched /\ LocRemembered
=============================================================================
