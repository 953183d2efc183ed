------------------------------- MODULE Upkeep -------------------------------
(* Two actors that report to the device on timers: the clock anchor          *)
(* (cm5_time.py) and the tally of link faults (cm5_linkhealth.py,            *)
(* link/health.py).                                                          *)
(*                                                                           *)
(* The clock actor rests for a day once a confident time has landed, and for *)
(* a minute until then; its rest is cut short by the boot noise of a device  *)
(* that restarted, which also ends the link once per episode: the session's  *)
(* hint is sticky until a probation clears it.  The tally is bumped from the *)
(* reader thread as well as the loop, so a bump of the generation may be     *)
(* lost.  Their commands meet on the session's lock only, and each has a     *)
(* reply line of its own here.                                               *)
EXTENDS Naturals, Sequences, FiniteSets

CONSTANTS UkPeers,      \* the firmware may lack both commands (TRUE) or not
          MaxUkTallied, \* bound: faults of the link
          MaxUkFaults   \* bound: restarts, lost replies, rejections, lost links

ASSUME UkAssumption == UkPeers \subseteq BOOLEAN /\ {MaxUkTallied, MaxUkFaults} \subseteq Nat

VARIABLES ukClock,    \* of the host: "wrong", "unsure" or "sure"
          ukDevice,   \* the device: time anchored, command it was sent, legacy, logged
                      \* out by a restart
          ukLine,     \* replies and boot noise on their way to the host
          ukTime,     \* the clock actor: location, _settled, _wake
          ukHint,     \* _reboot_suspected: "none", "fresh" (the link is about to be
                      \* failed for it) or "old" (found by the actors at their start)
          ukMissed,   \* why the last sign of the device's last restart woke nobody:
                      \* it was "lost", or came under a "sticky" hint (history)
          ukTally,    \* LinkHealth: faults counted, fault_generation
          ukReader,   \* the reader thread inside its +=, and what it read
          ukHealth,   \* the tally actor: location, _supported, generation seen
          ukReport,   \* faults in the report being sent
          ukTold,     \* faults the device was told of
          ukFaults

ukTimeVars == <<ukClock, ukDevice, ukLine, ukTime, ukHint, ukMissed>>
ukHealthVars == <<ukTally, ukReader, ukHealth, ukReport, ukTold>>
ukVars == <<ukTimeVars, ukHealthVars, ukFaults>>

UkFault == ukFaults < MaxUkFaults /\ ukFaults' = ukFaults + 1

-----------------------------------------------------------------------------
(* The clock: cm5_time.py.                                                   *)

\* read_local_confidence: RTC and NTP come up in time.
UkClockGains ==
    /\ ukClock' = CASE ukClock = "wrong" -> "unsure" [] OTHER -> "sure"
    /\ ukClock # "sure"
    /\ UNCHANGED <<ukDevice, ukLine, ukTime, ukHint, ukMissed, ukHealthVars, ukFaults>>

UkTimeTo(at) == ukTime' = [ukTime EXCEPT !.at = at]

\* The rest after a push; the wake is cleared before the wait.
Rests(settles) == [at |-> "rest", settled |-> ukTime.settled \/ settles, wake |-> FALSE]

\* _push_once: a time that is no time is not sent.
UkPush ==
    /\ ukTime.at = "push"
    /\ IF ukClock = "wrong" THEN ukTime' = Rests(FALSE) /\ UNCHANGED ukDevice
       ELSE /\ UkTimeTo("await")
            /\ ukDevice' = [ukDevice EXCEPT !.command = ukClock]
    /\ UNCHANGED <<ukClock, ukLine, ukHint, ukMissed, ukHealthVars, ukFaults>>

\* The device (external): it takes a sure time; a refusal is a fault, or a
\* command it does not know.
UkDeviceServes ==
    /\ ukDevice.command # "none" /\ ~ukDevice.out
    /\ \E reply \in {"accepted", "unsure", "missing", "refused"} :
          /\ ukLine' = Append(ukLine, reply)
          /\ ukDevice' = [ukDevice EXCEPT !.anchored = @ \/ reply = "accepted",
                                          !.command = "none"]
          /\ (reply = "missing") = ukDevice.legacy
          /\ reply = "accepted" => ukDevice.command = "sure"
          /\ reply = "unsure" => ukDevice.command = "unsure"
          /\ IF reply = "refused" THEN UkFault ELSE UNCHANGED ukFaults
          /\ ukMissed' = IF reply = "accepted" THEN {} ELSE ukMissed
    /\ UNCHANGED <<ukClock, ukTime, ukHint, ukHealthVars>>

\* The device restarts: its clock is dark, and its boot noise may be lost.
UkRestart ==
    /\ UkFault
    /\ ukDevice' = [ukDevice EXCEPT !.anchored = FALSE, !.command = "none", !.out = TRUE]
    /\ ukLine' \in {ukLine, Append(ukLine, "noise")} /\ ukMissed' = {}
    /\ UNCHANGED <<ukClock, ukTime, ukHint, ukHealthVars>>

\* The next command, of any actor, is answered by the nag, as good as noise, or
\* drowns in the nag's limit; the login follows in place.
UkNag ==
    /\ ukDevice.out /\ ukDevice' = [ukDevice EXCEPT !.out = FALSE]
    /\ \/ ukLine' = Append(ukLine, "noise") /\ UNCHANGED <<ukMissed, ukFaults>>
       \/ UkFault /\ ukMissed' = {"lost"} /\ UNCHANGED ukLine
    /\ UNCHANGED <<ukClock, ukTime, ukHint, ukHealthVars>>

\* Mutant: the wake without the fast cadence.
UkResetWakes == ukTime' = [ukTime EXCEPT !.wake = TRUE]

\* link_reset, _reboot_suspected.
UkReset == ukTime' = [ukTime EXCEPT !.settled = FALSE, !.wake = TRUE]

UkNoiseRead == ukLine # <<>> /\ ukLine[1] = "noise" /\ ukLine' = Tail(ukLine)

\* _mark_reboot_suspected: whoever reads the line finds the boot noise before what
\* the device said after it.
UkNoise ==
    /\ UkNoiseRead /\ ukHint = "none" /\ ukHint' = "fresh" /\ UkReset
    /\ UNCHANGED <<ukClock, ukDevice, ukMissed, ukHealthVars, ukFaults>>

\* Its early return: under a hint the noise wakes nobody.
UkNoiseIgnored ==
    /\ UkNoiseRead /\ ukHint # "none"
    /\ ukMissed' = IF ukDevice.anchored THEN ukMissed ELSE {"sticky"}
    /\ UNCHANGED <<ukClock, ukDevice, ukTime, ukHint, ukHealthVars, ukFaults>>

\* The pipeline served its probation, at its start or before a job.
UkProbation ==
    /\ ukHint = "old" /\ ukHint' = "none"
    /\ UNCHANGED <<ukClock, ukDevice, ukLine, ukTime, ukMissed, ukHealthVars, ukFaults>>

\* A reply: a sure time that was accepted, or a peer without the command,
\* settles; anything else is tried again.
UkAnswered ==
    /\ ukTime.at = "await" /\ ukLine # <<>> /\ ukLine[1] # "noise"
    /\ ukLine' = Tail(ukLine)
    /\ ukTime' = Rests(ukLine[1] \in {"accepted", "missing"})
    /\ UNCHANGED <<ukClock, ukDevice, ukHint, ukMissed, ukHealthVars, ukFaults>>

\* The wake, or the interval of a minute or a day, ends the rest.
UkRested ==
    /\ ukTime.at = "rest" /\ UkTimeTo("push")
    /\ UNCHANGED <<ukClock, ukDevice, ukLine, ukHint, ukMissed, ukHealthVars, ukFaults>>

\* Both actors are reset, and run anew after the reconnection, whose login may
\* read noise of its own.
Reconnected ==
    /\ ukTime' = [at |-> "push", settled |-> FALSE, wake |-> TRUE]
    /\ ukDevice' = [ukDevice EXCEPT !.command = "none", !.out = FALSE]
    /\ ukLine' = <<>> /\ ukMissed' = {}
    /\ ukHint' \in {IF ukHint = "none" THEN "none" ELSE "old", "old"}
    /\ ukHealth' = [at |-> "push", legacy |-> FALSE, seen |-> 0]
    /\ ukTally' = [faults |-> ukTally.faults + 1, generation |-> ukTally.generation + 1]
    /\ UNCHANGED <<ukClock, ukReader, ukReport, ukTold>>

\* A push without an answer, or a damaged one, ends the link, as any lost link
\* does.
UkLinkLost == ukHealth.at # "stamp" /\ UkFault /\ Reconnected

\* _fail_link_on_new_reboot.
UkLinkFailed ==
    ukHealth.at # "stamp" /\ ukHint = "fresh" /\ Reconnected /\ UNCHANGED ukFaults

-----------------------------------------------------------------------------
(* The tally: link/health.py, cm5_linkhealth.py.                             *)

UkTallies == ukTally.faults < MaxUkTallied

\* On the loop thread: a timeout, a stray, a damaged verb.
UkLoopFault ==
    /\ UkTallies /\ ukHealth.at # "stamp"
    /\ ukTally' = [faults |-> ukTally.faults + 1, generation |-> ukTally.generation + 1]
    /\ UNCHANGED <<ukTimeVars, ukReader, ukHealth, ukReport, ukTold, ukFaults>>

\* note_garbage on the reader thread: its own counter, then the generation it
\* shares with the loop, read and written in two steps.
UkGarbage ==
    /\ UkTallies /\ ~ukReader.adds /\ ukReader' = [adds |-> TRUE, read |-> ukTally.generation]
    /\ ukTally' = [ukTally EXCEPT !.faults = @ + 1]
    /\ UNCHANGED <<ukTimeVars, ukHealth, ukReport, ukTold, ukFaults>>

UkGarbageNoted ==
    /\ ukReader.adds /\ ukReader' = [adds |-> FALSE, read |-> 0]
    /\ ukTally' = [ukTally EXCEPT !.generation = ukReader.read + 1]
    /\ UNCHANGED <<ukTimeVars, ukHealth, ukReport, ukTold, ukFaults>>

\* _push_once: the counters first, then the generation they are taken for.
UkReports ==
    /\ ukHealth.at = "push"
    /\ IF ukHealth.legacy THEN ukHealth' = [ukHealth EXCEPT !.at = "wait"] /\ UNCHANGED ukReport
       ELSE /\ ukReport' = ukTally.faults
            /\ ukHealth' = [ukHealth EXCEPT !.at = "stamp"]
    /\ UNCHANGED <<ukTimeVars, ukTally, ukReader, ukTold, ukFaults>>

UkStamps ==
    /\ ukHealth.at = "stamp"
    /\ ukHealth' = [ukHealth EXCEPT !.at = "await", !.seen = ukTally.generation]
    /\ UNCHANGED <<ukTimeVars, ukTally, ukReader, ukReport, ukTold, ukFaults>>

\* A report that is lost or refused is not repeated before the next tick.
UkReported ==
    /\ ukHealth.at = "await"
    /\ \/ /\ ukHealth' = [ukHealth EXCEPT !.at = "wait", !.legacy = ukDevice.legacy]
          /\ ukTold' = IF ukDevice.legacy THEN ukTold ELSE ukReport
          /\ UNCHANGED ukFaults
       \/ /\ ukHealth' = [ukHealth EXCEPT !.at = "wait"]
          /\ UkFault /\ UNCHANGED ukTold
    /\ UNCHANGED <<ukTimeVars, ukTally, ukReader, ukReport>>

\* Mutant: only a fresh fault ends the wait.
UkTicksFresh ==
    /\ ukHealth.at = "wait" /\ ukTally.generation # ukHealth.seen
    /\ ukHealth' = [ukHealth EXCEPT !.at = "push"]
    /\ UNCHANGED <<ukTimeVars, ukTally, ukReader, ukReport, ukTold, ukFaults>>

\* _wait_for_next: a fresh fault ends the wait early, the cadence in any case.
UkTicks ==
    /\ ukHealth.at = "wait"
    /\ ukHealth' = [ukHealth EXCEPT !.at = "push"]
    /\ UNCHANGED <<ukTimeVars, ukTally, ukReader, ukReport, ukTold, ukFaults>>

-----------------------------------------------------------------------------
UkInit ==
    /\ ukClock = "wrong"
    /\ ukDevice \in [anchored : {FALSE}, command : {"none"}, legacy : UkPeers, out : {FALSE}]
    /\ ukLine = <<>> /\ ukHint = "none" /\ ukMissed = {}
    /\ ukTime = [at |-> "push", settled |-> FALSE, wake |-> FALSE]
    /\ ukTally = [faults |-> 0, generation |-> 0] /\ ukReader = [adds |-> FALSE, read |-> 0]
    /\ ukHealth = [at |-> "push", legacy |-> FALSE, seen |-> 0]
    /\ ukReport = 0 /\ ukTold = 0 /\ ukFaults = 0

UkTimer == UkPush \/ UkDeviceServes \/ UkNoise \/ UkNoiseIgnored \/ UkAnswered \/ UkRested
UkTeller == UkReports \/ UkStamps \/ UkReported \/ UkTicks

UkNext ==
    \/ UkClockGains \/ UkTimer \/ UkRestart \/ UkNag \/ UkProbation \/ UkLinkLost \/ UkLinkFailed
    \/ UkLoopFault \/ UkGarbage \/ UkGarbageNoted \/ UkTeller

UkSpec == UkInit /\ [][UkNext]_ukVars

-----------------------------------------------------------------------------
(* Properties.                                                               *)

\* The type of the state.
UkTypeOK ==
    /\ ukClock \in {"wrong", "unsure", "sure"}
    /\ ukDevice \in [anchored : BOOLEAN, command : {"none", "unsure", "sure"},
                     legacy : BOOLEAN, out : BOOLEAN]
    /\ \A i \in DOMAIN ukLine : ukLine[i] \in {"accepted", "unsure", "missing", "refused", "noise"}
    /\ ukTime \in [at : {"push", "await", "rest"}, settled : BOOLEAN, wake : BOOLEAN]
    /\ ukHint \in {"none", "fresh", "old"} /\ ukMissed \subseteq {"lost", "sticky"}
    /\ ukReader \in [adds : BOOLEAN, read : Nat]
    /\ ukTally.generation <= ukTally.faults /\ ukTold <= ukTally.faults
    /\ ukHealth.at \in {"push", "stamp", "await", "wait"} /\ ukHealth.legacy \in BOOLEAN
    /\ ukFaults \in 0 .. MaxUkFaults

UkDark == /\ ukTime.at = "rest" /\ ukTime.settled /\ ~ukTime.wake
          /\ ~ukDevice.legacy /\ ~ukDevice.anchored
UkSignDue == ukDevice.out \/ \E i \in DOMAIN ukLine : ukLine[i] = "noise"

\* While the clock actor rests for a day the device has the time, or a sign that
\* it restarted is still to come, unless that was lost or read under a hint: a
\* restart during a push, before or after its reply, is not slept over (run,
\* link_reset).
UkAnchored == UkDark => UkSignDue \/ ukMissed # {}

\* Every fault is told to the device in the end, also one whose bump of the
\* generation was lost, or that came between the counters and the generation
\* of a report (fields, _wait_for_next).
UkTallied ==
    \A n \in 1 .. MaxUkTallied : ukTally.faults >= n ~> ukTold >= n \/ ukDevice.legacy
=============================================================================
