----------------------------- MODULE LiveLease -----------------------------
(***************************************************************************)
(* The standing arm of live speech recognition (stt/live_gate.py): the     *)
(* task that arms the firmware's recorder shadow, the loop that renews its *)
(* lease, and the disarming from the capture thread.                       *)
(*                                                                         *)
(* Both tasks send their commands through the session, whose lock serves   *)
(* waiting commands in the order they were issued; between a reply and the *)
(* next command either task may find the gate changed.  The firmware wipes *)
(* the shadow when the lease lapses and re-mints the lease, without it, at *)
(* the next ready, answering OK all the same.                              *)
(***************************************************************************)
EXTENDS Integers, Sequences

CONSTANTS
  ArmFailureLimit,     \* _ARM_FAILURE_LIMIT
  BeginTimeoutLimit,   \* _BEGIN_TIMEOUT_DISARM_LIMIT
  VerifyEvery,         \* renewals between two periodic verifications
  MaxLvArms,           \* bound: arming sequences
  MaxLvFaults          \* bound: lapses, lost or refused commands, resets

ASSUME LvAssumption == /\ {ArmFailureLimit, BeginTimeoutLimit, VerifyEvery} \subseteq Nat \ {0}
                       /\ {MaxLvArms, MaxLvFaults} \subseteq Nat

VARIABLES
  lvFirmware,   \* the device: lease, shadow, pending per-wake arm, session epoch
  lvGate,       \* armed, its epoch and generation, failure counts, disabled
  lvArming,     \* ensure_armed: location, generation at its start, epoch read
  lvRenew,      \* the renew loop: location, generation, renewals since verified
  lvLine,       \* commands waiting for the session's lock, oldest first
  lvFaults

lvVars == <<lvFirmware, lvGate, lvArming, lvRenew, lvLine, lvFaults>>

\* The type of the state.
LvTypeOK ==
  /\ lvFirmware \in [lease : BOOLEAN, shadow : BOOLEAN, pending : BOOLEAN,
                     epoch : 0 .. MaxLvFaults]
  /\ lvGate \in [armed : BOOLEAN, epoch : 0 .. MaxLvFaults, gen : Nat,
                 failures : 0 .. ArmFailureLimit, timeouts : 0 .. BeginTimeoutLimit - 1,
                 disabled : BOOLEAN, closing : BOOLEAN]
  /\ lvArming \in [pc : {"idle", "ready", "status", "shadow"}, gen : Nat,
                   epoch : 0 .. MaxLvFaults, runs : 0 .. MaxLvArms]
  /\ lvRenew \in [pc : {"none", "sleep", "ready", "status", "shadow"}, gen : Nat,
                  since : 0 .. VerifyEvery, late : BOOLEAN]
  /\ \A n \in 1 .. Len(lvLine) : lvLine[n] \in {"arming", "renew"}
  /\ Len(lvLine) <= 2
  /\ lvFaults \in 0 .. MaxLvFaults

LvInit ==
  /\ lvFirmware = [lease |-> FALSE, shadow |-> FALSE, pending |-> FALSE, epoch |-> 0]
  /\ lvGate = [armed |-> FALSE, epoch |-> 0, gen |-> 0, failures |-> 0, timeouts |-> 0,
               disabled |-> FALSE, closing |-> FALSE]
  /\ lvArming = [pc |-> "idle", gen |-> 0, epoch |-> 0, runs |-> 0]
  /\ lvRenew = [pc |-> "none", gen |-> 0, since |-> 0, late |-> FALSE]
  /\ lvLine = <<>>
  /\ lvFaults = 0

LvFault == lvFaults < MaxLvFaults /\ lvFaults' = lvFaults + 1

-----------------------------------------------------------------------------
(* The firmware.                                                           *)

\* the lease's time runs out before the next ready is handled
LvLapse ==
  /\ lvFirmware.lease /\ LvFault
  /\ lvFirmware' = [lvFirmware EXCEPT !.lease = FALSE, !.shadow = FALSE, !.pending = FALSE]
  /\ lvRenew' = IF lvRenew.pc = "none" THEN lvRenew ELSE [lvRenew EXCEPT !.late = TRUE]
  /\ UNCHANGED <<lvGate, lvArming, lvLine>>

\* the device restarts, or the session logs in anew, on a link that stays up
LvNewEpoch ==
  /\ LvFault
  /\ lvFirmware' = [lease |-> FALSE, shadow |-> FALSE, pending |-> FALSE,
                    epoch |-> lvFirmware.epoch + 1]
  /\ UNCHANGED <<lvGate, lvArming, lvRenew, lvLine>>

\* a wake mints its own capture arm on the standing shadow
LvWake ==
  /\ lvFirmware.lease /\ lvFirmware.shadow /\ ~lvFirmware.pending
  /\ lvFirmware' = [lvFirmware EXCEPT !.pending = TRUE]
  /\ UNCHANGED <<lvGate, lvArming, lvRenew, lvLine, lvFaults>>

\* the capture's BEGIN uses the arm up, or its five seconds pass
LvBegins ==
  /\ lvFirmware.pending
  /\ lvFirmware' = [lvFirmware EXCEPT !.pending = FALSE]
  /\ UNCHANGED <<lvGate, lvArming, lvRenew, lvLine, lvFaults>>

\* the session epoch a ready grants the lease in, and what a status tells
Granted == lvFirmware.epoch
ShadowOn == lvFirmware.shadow

\* what a command does at the device: ready renews or re-mints the lease and
\* keeps the shadow of a lease that is alive
ReadyHandled == [lvFirmware EXCEPT !.lease = TRUE, !.shadow = @ /\ lvFirmware.lease]
ShadowHandled == [lvFirmware EXCEPT !.shadow = lvFirmware.lease, !.pending = FALSE]

-----------------------------------------------------------------------------
(* ensure_armed.                                                           *)

NextInLine(task) == lvLine # <<>> /\ Head(lvLine) = task
Issued(task) == lvLine' = Append(Tail(lvLine), task)
Served == lvLine' = Tail(lvLine)
LeavesOnly(task) == lvLine' = IF \E i \in DOMAIN lvLine : lvLine[i] = task THEN <<task>> ELSE <<>>
LvStale == lvArming.gen # lvGate.gen \/ lvGate.closing

\* the daemon wants the arm before it is ready and after every exchange
LvEnsure ==
  /\ lvArming.pc = "idle" /\ lvArming.runs < MaxLvArms
  /\ ~lvGate.disabled /\ ~lvGate.closing /\ ~lvGate.armed
  /\ lvArming' = [lvArming EXCEPT !.pc = "ready", !.gen = lvGate.gen, !.runs = @ + 1]
  /\ lvLine' = Append(lvLine, "arming")
  /\ UNCHANGED <<lvFirmware, lvGate, lvRenew, lvFaults>>

\* _arm_failed
ArmFailed ==
  /\ lvArming' = [lvArming EXCEPT !.pc = "idle"]
  /\ lvGate' = IF LvStale THEN lvGate
               ELSE [lvGate EXCEPT !.failures = @ + 1,
                                   !.disabled = @ \/ lvGate.failures + 1 >= ArmFailureLimit]

\* the grant, a new generation and its own renew loop; the older loop is cancelled
Armed(epoch) ==
  /\ lvArming' = [lvArming EXCEPT !.pc = "idle"]
  /\ lvGate' = [lvGate EXCEPT !.armed = TRUE, !.epoch = epoch, !.failures = 0,
                              !.timeouts = 0, !.gen = @ + 1]
  /\ lvRenew' = [pc |-> "sleep", gen |-> lvGate.gen + 1, since |-> 0, late |-> FALSE]

\* the cancelled loop's command leaves the line with it
ServedAlone == lvLine' = <<>>

Aborted == lvArming' = [lvArming EXCEPT !.pc = "idle"] /\ UNCHANGED lvGate

\* one command of the sequence: refused, lost or handled with its reply lost, or
\* answered; after the reply the generation is looked at again
LvArmReady ==
  /\ lvArming.pc = "ready" /\ NextInLine("arming")
  /\ \/ /\ ArmFailed /\ LvFault /\ Served /\ lvFirmware' \in {lvFirmware, ReadyHandled}
        /\ UNCHANGED lvRenew
     \/ /\ lvFirmware' = ReadyHandled /\ UNCHANGED <<lvRenew, lvFaults>>
        /\ \/ LvStale /\ Aborted /\ Served
           \/ /\ ~LvStale /\ Issued("arming") /\ UNCHANGED lvGate
              /\ lvArming' = [lvArming EXCEPT !.pc = "status", !.epoch = Granted]

LvArmStatus ==
  /\ lvArming.pc = "status" /\ NextInLine("arming") /\ UNCHANGED lvFirmware
  /\ \/ ArmFailed /\ LvFault /\ Served /\ UNCHANGED lvRenew
     \/ LvStale /\ Aborted /\ Served /\ UNCHANGED <<lvRenew, lvFaults>>
     \/ ~LvStale /\ ShadowOn /\ Armed(lvArming.epoch) /\ ServedAlone /\ UNCHANGED lvFaults
     \/ /\ ~LvStale /\ ~ShadowOn /\ Issued("arming") /\ UNCHANGED <<lvGate, lvRenew, lvFaults>>
        /\ lvArming' = [lvArming EXCEPT !.pc = "shadow"]

LvArmShadow ==
  /\ lvArming.pc = "shadow" /\ NextInLine("arming")
  /\ \/ ArmFailed /\ LvFault /\ Served /\ lvFirmware' \in {lvFirmware, ShadowHandled}
        /\ UNCHANGED lvRenew
     \/ /\ lvFirmware' = ShadowHandled /\ UNCHANGED lvFaults
        /\ \/ LvStale /\ Aborted /\ Served /\ UNCHANGED lvRenew
           \/ ~LvStale /\ Armed(lvArming.epoch) /\ ServedAlone
-----------------------------------------------------------------------------
(* _renew_loop.                                                            *)

Outdated == lvRenew.gen # lvGate.gen \/ ~lvGate.armed \/ lvGate.closing
LoopEnds == lvRenew' = [lvRenew EXCEPT !.pc = "none"]

\* _disarm, fenced by the loop's own generation
Disarm ==
  /\ LoopEnds
  /\ lvGate' = IF lvRenew.gen # lvGate.gen THEN lvGate ELSE [lvGate EXCEPT !.armed = FALSE]

LvRenewWakes ==
  /\ lvRenew.pc = "sleep"
  /\ \/ Outdated /\ LoopEnds /\ UNCHANGED lvLine
     \/ ~Outdated /\ lvRenew' = [lvRenew EXCEPT !.pc = "ready"] /\ lvLine' = Append(lvLine, "renew")
  /\ UNCHANGED <<lvFirmware, lvGate, lvArming, lvFaults>>

\* Mutant: after a late renewal the shadow is armed again without a look
LvRenewReadyBlind ==
  /\ lvRenew.pc = "ready" /\ NextInLine("renew")
  /\ \/ Disarm /\ LvFault /\ Served /\ lvFirmware' \in {lvFirmware, ReadyHandled}
     \/ /\ lvFirmware' = ReadyHandled /\ UNCHANGED lvFaults
        /\ \/ Outdated /\ LoopEnds /\ Served /\ UNCHANGED lvGate
           \/ /\ ~Outdated /\ UNCHANGED lvGate
              /\ lvRenew' = [lvRenew EXCEPT !.pc = "shadow"] /\ Issued("renew")
  /\ UNCHANGED lvArming

\* a grant of another session epoch is refused; a late or a due renewal is
\* verified, since a lapse that was re-minted answers OK too.  The gap is
\* measured between replies, so a lapse can go unnoticed until the next
\* periodic verification.
LvRenewReady ==
  /\ lvRenew.pc = "ready" /\ NextInLine("renew")
  /\ \/ Disarm /\ LvFault /\ Served /\ lvFirmware' \in {lvFirmware, ReadyHandled}
     \/ /\ lvFirmware' = ReadyHandled /\ UNCHANGED lvFaults
        /\ \/ Outdated /\ LoopEnds /\ Served /\ UNCHANGED lvGate
           \/ ~Outdated /\ Granted # lvGate.epoch /\ Disarm /\ Served
           \/ /\ ~Outdated /\ Granted = lvGate.epoch /\ UNCHANGED lvGate
              /\ \/ /\ lvRenew.late \/ lvRenew.since + 1 = VerifyEvery
                    /\ lvRenew' = [lvRenew EXCEPT !.pc = "status"] /\ Issued("renew")
                 \/ /\ lvRenew.since + 1 < VerifyEvery
                    /\ lvRenew' = [lvRenew EXCEPT !.pc = "sleep", !.since = @ + 1, !.late = FALSE]
                    /\ Served
  /\ UNCHANGED lvArming

Verified == [lvRenew EXCEPT !.pc = "sleep", !.since = 0, !.late = FALSE]

LvRenewStatus ==
  /\ lvRenew.pc = "status" /\ NextInLine("renew") /\ UNCHANGED <<lvFirmware, lvArming>>
  /\ \/ Disarm /\ LvFault /\ Served
     \/ Outdated /\ LoopEnds /\ Served /\ UNCHANGED <<lvGate, lvFaults>>
     \/ /\ ~Outdated /\ ShadowOn /\ lvRenew' = Verified /\ Served
        /\ UNCHANGED <<lvGate, lvFaults>>
     \/ /\ ~Outdated /\ ~ShadowOn /\ Issued("renew")
        /\ lvRenew' = [lvRenew EXCEPT !.pc = "shadow"] /\ UNCHANGED <<lvGate, lvFaults>>

LvRenewShadow ==
  /\ lvRenew.pc = "shadow" /\ NextInLine("renew") /\ Served /\ UNCHANGED lvArming
  /\ \/ Disarm /\ LvFault /\ lvFirmware' \in {lvFirmware, ShadowHandled}
     \/ /\ lvFirmware' = ShadowHandled /\ UNCHANGED <<lvGate, lvFaults>>
        /\ IF Outdated THEN LoopEnds ELSE lvRenew' = Verified

-----------------------------------------------------------------------------
(* The capture thread and the supervisor.                                  *)

\* _note_begin_timeout: streams do not come although the gate is armed; the
\* capture thread disarms without a new generation
LvBeginTimeout ==
  /\ lvGate.armed /\ LvFault
  /\ lvGate' = IF lvGate.timeouts + 1 >= BeginTimeoutLimit
               THEN [lvGate EXCEPT !.timeouts = 0, !.armed = FALSE]
               ELSE [lvGate EXCEPT !.timeouts = @ + 1]
  /\ UNCHANGED <<lvFirmware, lvArming, lvRenew, lvLine>>

\* _note_stream_consumed
LvStreamConsumed ==
  /\ lvGate.timeouts > 0 /\ lvGate' = [lvGate EXCEPT !.timeouts = 0]
  /\ UNCHANGED <<lvFirmware, lvArming, lvRenew, lvLine, lvFaults>>

\* link_reset at a reconnection or a reboot: the daemon's arming goes with its
\* task group, the renew loop stays until it looks at its generation
LvLinkReset ==
  /\ LvFault
  /\ lvGate' = [lvGate EXCEPT !.gen = @ + 1, !.armed = FALSE, !.failures = 0,
                              !.disabled = FALSE, !.timeouts = 0]
  /\ lvArming' = [lvArming EXCEPT !.pc = "idle"]
  /\ LeavesOnly("renew")
  /\ UNCHANGED <<lvFirmware, lvRenew>>

\* close() cancels the renew loop
LvClose ==
  /\ ~lvGate.closing
  /\ lvGate' = [lvGate EXCEPT !.closing = TRUE, !.gen = @ + 1]
  /\ LoopEnds
  /\ LeavesOnly("arming")
  /\ UNCHANGED <<lvFirmware, lvArming, lvFaults>>

LvTasks == LvArmReady \/ LvArmStatus \/ LvArmShadow
           \/ LvRenewWakes \/ LvRenewReady \/ LvRenewStatus \/ LvRenewShadow

LvNext ==
  \/ LvLapse \/ LvNewEpoch \/ LvWake \/ LvBegins
  \/ LvEnsure \/ LvArmReady \/ LvArmStatus \/ LvArmShadow
  \/ LvRenewWakes \/ LvRenewReady \/ LvRenewStatus \/ LvRenewShadow
  \/ LvBeginTimeout \/ LvStreamConsumed \/ LvLinkReset \/ LvClose

LvSpec == LvInit /\ [][LvNext]_lvVars

-----------------------------------------------------------------------------
(* Properties.                                                             *)

\* The shadow is only armed where the firmware's is off, so that no capture
\* arm a wake has just minted is cleared, whichever of the two tasks arms
\* (live_gate.py, contract with the firmware).
LvNoBlindArm ==
  [][LvArmShadow \/ LvRenewShadow => ~lvFirmware.pending]_lvVars

\* While the gate is armed a renew loop of its own generation runs: no loop of
\* an older arm stands in for it and none is missing (_renew_loop, _disarm).
LvRenewed == lvGate.armed /\ ~lvGate.closing =>
               lvRenew.pc # "none" /\ lvRenew.gen = lvGate.gen

\* An arm the firmware has lost is noticed: it is armed again or given up.
LvTruthful == lvGate.armed /\ ~lvFirmware.shadow ~> ~lvGate.armed \/ lvFirmware.shadow
                                                    \/ lvGate.closing

\* The lease is kept by one loop of its own generation, never over a pending
\* capture, and its loss is noticed.
LvKept == []LvRenewed /\ LvNoBlindArm /\ LvTruthful
=============================================================================
