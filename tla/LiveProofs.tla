----------------------------- MODULE LiveProofs -----------------------------
(* What the live audio and the speech gate guarantee of their safety: the     *)
(* lease (LiveLease), the stream of an exchange (LiveCapture), the worker     *)
(* that listens (LiveWorker) and the text of a capture (Transcript), each for *)
(* every value of its constants.                                              *)
EXTENDS LiveLease, LiveCapture, LiveWorker, Transcript, OrderProofs

-----------------------------------------------------------------------------
(* LiveLease: an armed gate is renewed, and never armed blind.               *)

Firmwares == [lease : BOOLEAN, shadow : BOOLEAN, pending : BOOLEAN, epoch : Nat]
Gates == [armed : BOOLEAN, epoch : Nat, gen : Nat, failures : Nat, timeouts : Nat,
          disabled : BOOLEAN, closing : BOOLEAN]
Armings == [pc : {"idle", "ready", "status", "shadow"}, gen : Nat, epoch : Nat, runs : Nat]
Renews == [pc : {"none", "sleep", "ready", "status", "shadow"}, gen : Nat, since : Nat,
           late : BOOLEAN]

LvTypes ==
    lvFirmware \in Firmwares /\ lvGate \in Gates /\ lvArming \in Armings /\ lvRenew \in Renews

Arming == lvArming.pc # "idle"
Renewing == lvRenew.pc \in {"ready", "status", "shadow"}

\* A capture's arm stands on a shadow, a shadow on a lease.
FirmwareInv ==
    /\ lvFirmware.pending => lvFirmware.shadow
    /\ lvFirmware.shadow => lvFirmware.lease

\* Each task waits with one command at the most, and the renew loop, which asks
\* nothing while the gate is unarmed, is never behind an arming.
LineInv ==
    /\ Renewing /\ Arming => lvLine = <<"renew", "arming">>
    /\ Renewing /\ ~Arming => lvLine = <<"renew">>
    /\ ~Renewing /\ Arming => lvLine = <<"arming">>
    /\ ~Renewing /\ ~Arming => lvLine = <<>>

\* An armed gate is not being armed; once an arming has its first answer the
\* renew loop asks nothing; who goes to arm the shadow has seen it off and is
\* alone to arm it.
TurnInv ==
    /\ lvGate.armed => ~Arming
    /\ lvArming.pc \in {"status", "shadow"} => ~Renewing
    /\ lvArming.pc = "shadow" \/ lvRenew.pc = "shadow" => ~lvFirmware.shadow

LvInv == LvTypes /\ FirmwareInv /\ LineInv /\ TurnInv /\ LvRenewed

-----------------------------------------------------------------------------
\* Nothing is armed at the start.
LEMMA LvInitInv == LvInit => LvInv
  BY DEF LvInit, LvInv, LvTypes, Firmwares, Gates, Armings, Renews, FirmwareInv, LineInv, TurnInv,
         LvRenewed, Arming, Renewing

\* What the line is for who is served, and what he makes of it.
LEMMA InLine ==
    ASSUME LvInv
    PROVE  /\ NextInLine("arming") => ~Renewing /\ Arming
           /\ NextInLine("renew") => Renewing
           /\ Served /\ NextInLine("arming") => lvLine' = <<>>
           /\ ServedAlone => lvLine' = <<>>
           /\ Issued("arming") /\ NextInLine("arming") => lvLine' = <<"arming">>
           /\ Served /\ NextInLine("renew") => lvLine' = IF Arming THEN <<"arming">> ELSE <<>>
           /\ Issued("renew") /\ NextInLine("renew") /\ ~Arming => lvLine' = <<"renew">>
           /\ LeavesOnly("renew") => lvLine' = IF Renewing THEN <<"renew">> ELSE <<>>
           /\ LeavesOnly("arming") => lvLine' = IF Arming THEN <<"arming">> ELSE <<>>
<1> USE DEF NextInLine, Served, ServedAlone, Issued, LeavesOnly
<1>1. CASE Renewing /\ Arming
  <2>1. lvLine = <<"renew", "arming">>
    BY <1>1 DEF LvInv, LineInv
  <2>2. Head(lvLine) = "renew" /\ Tail(lvLine) = <<"arming">> /\ lvLine[1] = "renew"
        /\ lvLine[2] = "arming" /\ 1 \in DOMAIN lvLine /\ 2 \in DOMAIN lvLine
    BY <2>1
  <2> QED
    BY <1>1, <2>2
<1>2. CASE Renewing /\ ~Arming
  <2>1. lvLine = <<"renew">>
    BY <1>2 DEF LvInv, LineInv
  <2>2. Head(lvLine) = "renew" /\ Tail(lvLine) = <<>> /\ lvLine[1] = "renew"
        /\ DOMAIN lvLine = 1 .. 1 /\ Append(Tail(lvLine), "renew") = <<"renew">>
    BY <2>1
  <2> QED
    BY <1>2, <2>2
<1>3. CASE ~Renewing /\ Arming
  <2>1. lvLine = <<"arming">>
    BY <1>3 DEF LvInv, LineInv
  <2>2. Head(lvLine) = "arming" /\ Tail(lvLine) = <<>> /\ lvLine[1] = "arming"
        /\ DOMAIN lvLine = {1} /\ Append(Tail(lvLine), "arming") = <<"arming">>
    BY <2>1
  <2>3. LeavesOnly("renew") => lvLine' = <<>>
    BY <2>2
  <2>4. LeavesOnly("arming") => lvLine' = <<"arming">>
    BY <2>2
  <2> QED
    BY <1>3, <2>2, <2>3, <2>4
<1>4. CASE ~Renewing /\ ~Arming
  <2>1. lvLine = <<>> /\ DOMAIN lvLine = {}
    BY <1>4 DEF LvInv, LineInv
  <2> QED
    BY <1>4, <2>1
<1> QED
  BY <1>1, <1>2, <1>3, <1>4

\* What a command does at the device.
LEMMA Handled ==
    ASSUME LvInv
    PROVE  /\ ReadyHandled \in Firmwares /\ ReadyHandled.lease
           /\ ReadyHandled.pending => ReadyHandled.shadow
           /\ ReadyHandled.shadow => lvFirmware.shadow
           /\ ShadowHandled \in Firmwares /\ ~ShadowHandled.pending
           /\ ShadowHandled.shadow => ShadowHandled.lease
<1> DEFINE kept == lvFirmware.shadow /\ lvFirmware.lease
<1>1. lvFirmware \in Firmwares /\ FirmwareInv
  BY DEF LvInv, LvTypes
<1>2. kept \in BOOLEAN /\ (lvFirmware.shadow => kept) /\ (kept => lvFirmware.shadow)
  BY <1>1 DEF FirmwareInv, Firmwares
<1>3. ReadyHandled = [lvFirmware EXCEPT !.lease = TRUE, !.shadow = kept]
  BY DEF ReadyHandled
<1>4. /\ ReadyHandled \in Firmwares /\ ReadyHandled.lease
      /\ ReadyHandled.pending => ReadyHandled.shadow
      /\ ReadyHandled.shadow => lvFirmware.shadow
  <2> HIDE DEF kept
  <2> QED
    BY <1>1, <1>2, <1>3 DEF Firmwares, FirmwareInv
<1>5. ShadowHandled = [lvFirmware EXCEPT !.shadow = lvFirmware.lease, !.pending = FALSE]
  BY DEF ShadowHandled
<1>6. /\ ShadowHandled \in Firmwares /\ ~ShadowHandled.pending
      /\ ShadowHandled.shadow => ShadowHandled.lease
  BY <1>1, <1>5 DEF Firmwares
<1> QED
  BY <1>4, <1>6

-----------------------------------------------------------------------------
(* The steps.                                                                *)

\* The device.
LEMMA DeviceInv ==
    ASSUME LvInv, LvLapse \/ LvNewEpoch \/ LvWake \/ LvBegins
    PROVE  LvInv'
<1> USE DEF LvInv, LvTypes, FirmwareInv, LineInv, TurnInv, LvRenewed, Arming, Renewing
<1>1. CASE LvLapse
  <2>1. lvFirmware' \in Firmwares /\ ~lvFirmware'.shadow /\ ~lvFirmware'.pending
    BY <1>1 DEF LvLapse, Firmwares
  <2>2. lvRenew' \in Renews /\ lvRenew'.pc = lvRenew.pc /\ lvRenew'.gen = lvRenew.gen
    BY <1>1 DEF LvLapse, Renews
  <2> QED
    BY <1>1, <2>1, <2>2 DEF LvLapse
<1>2. CASE LvNewEpoch
  <2>1. lvFirmware' \in Firmwares /\ ~lvFirmware'.shadow /\ ~lvFirmware'.pending
    BY <1>2 DEF LvNewEpoch, Firmwares
  <2> QED
    BY <1>2, <2>1 DEF LvNewEpoch
<1>3. CASE LvWake \/ LvBegins
  <2>1. /\ lvFirmware' \in Firmwares /\ lvFirmware'.shadow = lvFirmware.shadow
        /\ lvFirmware'.lease = lvFirmware.lease
        /\ lvFirmware'.pending => lvFirmware.shadow
    BY <1>3 DEF LvWake, LvBegins, Firmwares
  <2> QED
    BY <1>3, <2>1 DEF LvWake, LvBegins
<1> QED
  BY <1>1, <1>2, <1>3

\* The arming ends without the gate armed, or goes on.
LEMMA ArmingInv ==
    ASSUME LvInv, LvEnsure \/ LvArmReady \/ LvArmStatus \/ LvArmShadow
    PROVE  LvInv'
<1> DEFINE Idle == lvArming' \in Armings /\ lvArming'.pc = "idle"
<1>0. LvTypes /\ FirmwareInv /\ LineInv /\ TurnInv /\ LvRenewed
  BY DEF LvInv
<1>1. CASE LvEnsure
  <2>1. lvArming' \in Armings /\ lvArming'.pc = "ready" /\ lvArming.pc = "idle"
    <3> DEFINE more == lvArming.runs + 1
    <3>1. lvGate.gen \in Nat /\ more \in Nat /\ lvArming.pc = "idle"
      BY <1>0, <1>1 DEF LvEnsure, LvTypes, Gates, Armings
    <3>2. lvArming' = [lvArming EXCEPT !.pc = "ready", !.gen = lvGate.gen, !.runs = more]
      BY <1>1 DEF LvEnsure
    <3> HIDE DEF more
    <3> QED
      BY <1>0, <3>1, <3>2 DEF LvTypes, Armings
  <2>2. lvLine' = IF Renewing THEN <<"renew", "arming">> ELSE <<"arming">>
    <3>1. lvLine' = Append(lvLine, "arming")
      BY <1>1 DEF LvEnsure
    <3>2. lvLine = IF Renewing THEN <<"renew">> ELSE <<>>
      BY <1>0, <2>1 DEF LineInv, Arming
    <3>3. CASE Renewing
      <4>1. lvLine' = Append(<<"renew">>, "arming")
        BY <3>1, <3>2, <3>3
      <4>2. Append(<<"renew">>, "arming") = <<"renew", "arming">>
        <5>1. /\ Append(<<"renew">>, "arming") \in Seq({"renew", "arming"})
              /\ Len(Append(<<"renew">>, "arming")) = 2
              /\ Append(<<"renew">>, "arming")[1] = "renew"
              /\ Append(<<"renew">>, "arming")[2] = "arming"
          OBVIOUS
        <5>2. /\ <<"renew", "arming">> \in Seq({"renew", "arming"})
              /\ Len(<<"renew", "arming">>) = 2
              /\ <<"renew", "arming">>[1] = "renew" /\ <<"renew", "arming">>[2] = "arming"
          OBVIOUS
        <5>3. \A i \in 1 .. 2 : Append(<<"renew">>, "arming")[i] = <<"renew", "arming">>[i]
          BY <5>1, <5>2
        <5> QED
          BY <5>1, <5>2, <5>3, SeqEqual
      <4> QED
        BY <3>3, <4>1, <4>2
    <3>4. CASE ~Renewing
      <4>1. lvLine = <<>>
        BY <3>2, <3>4
      <4> QED
        BY <3>1, <3>4, <4>1
    <3> QED
      BY <3>3, <3>4
  <2> QED
    BY <1>0, <1>1, <2>1, <2>2
       DEF LvEnsure, LvInv, LvTypes, FirmwareInv, LineInv, TurnInv, LvRenewed, Arming, Renewing
<1>2. ArmFailed => /\ Idle /\ lvGate' \in Gates /\ lvGate'.armed = lvGate.armed
                   /\ lvGate'.gen = lvGate.gen /\ lvGate'.closing = lvGate.closing
  <2> SUFFICES ASSUME ArmFailed PROVE /\ Idle /\ lvGate' \in Gates /\ lvGate'.armed = lvGate.armed
                   /\ lvGate'.gen = lvGate.gen /\ lvGate'.closing = lvGate.closing
    OBVIOUS
  <2> DEFINE off == lvGate.disabled \/ lvGate.failures + 1 >= ArmFailureLimit
             more == lvGate.failures + 1
  <2>1. Idle
    BY <1>0 DEF ArmFailed, LvTypes, Armings
  <2>2. off \in BOOLEAN /\ more \in Nat
    BY <1>0 DEF LvTypes, Gates
  <2>3. lvGate' = lvGate \/ lvGate' = [lvGate EXCEPT !.failures = more, !.disabled = off]
    BY DEF ArmFailed
  <2> HIDE DEF off, more
  <2> QED
    BY <1>0, <2>1, <2>2, <2>3 DEF LvTypes, Gates
<1>3. Aborted => Idle /\ lvGate' = lvGate
  BY <1>0 DEF Aborted, LvTypes, Armings
<1>4. ASSUME Armed(lvArming.epoch)
      PROVE  /\ Idle /\ lvGate' \in Gates /\ lvRenew' \in Renews /\ lvRenew'.pc = "sleep"
             /\ lvRenew'.gen = lvGate'.gen
  <2> DEFINE next == lvGate.gen + 1
  <2>1. next \in Nat /\ lvArming.epoch \in Nat /\ lvArming \in Armings /\ lvGate \in Gates
    BY <1>0 DEF LvTypes, Armings, Gates
  <2>2. /\ lvArming' = [lvArming EXCEPT !.pc = "idle"]
        /\ lvGate' = [lvGate EXCEPT !.armed = TRUE, !.epoch = lvArming.epoch, !.failures = 0,
                                    !.timeouts = 0, !.gen = next]
        /\ lvRenew' = [pc |-> "sleep", gen |-> next, since |-> 0, late |-> FALSE]
    BY <1>4 DEF Armed
  <2> HIDE DEF next
  <2>3. Idle
    BY <2>1, <2>2 DEF Armings
  <2>4. lvGate' \in Gates /\ lvGate'.gen = next
    BY <2>1, <2>2 DEF Gates
  <2>5. lvRenew' \in Renews /\ lvRenew'.pc = "sleep" /\ lvRenew'.gen = next
    BY <2>1, <2>2 DEF Renews
  <2> QED
    BY <2>3, <2>4, <2>5
<1> HIDE DEF Idle
<1>5. ASSUME Idle, lvGate' \in Gates, lvGate'.armed = lvGate.armed, lvGate'.gen = lvGate.gen,
             lvGate'.closing = lvGate.closing, NextInLine("arming"), Served,
             UNCHANGED lvRenew, lvFirmware' \in Firmwares, FirmwareInv'
      PROVE  LvInv'
  <2>1. ~Renewing /\ Arming /\ lvLine' = <<>>
    BY <1>5, InLine
  <2> QED
    BY <1>0, <1>5, <2>1 DEF Idle, LvInv, LvTypes, LineInv, TurnInv, LvRenewed, Arming, Renewing
<1>6. ASSUME Armed(lvArming.epoch), ServedAlone, lvFirmware' \in Firmwares, FirmwareInv'
      PROVE  LvInv'
  <2>1. lvLine' = <<>>
    BY <1>6 DEF ServedAlone
  <2> QED
    BY <1>0, <1>4, <1>6, <2>1 DEF Idle, LvInv, LvTypes, LineInv, TurnInv, LvRenewed, Arming, Renewing
<1>7. lvFirmware' = lvFirmware => lvFirmware' \in Firmwares /\ FirmwareInv'
  BY <1>0 DEF LvTypes, FirmwareInv
<1>8. lvFirmware' = ReadyHandled \/ lvFirmware' = ShadowHandled =>
        lvFirmware' \in Firmwares /\ FirmwareInv'
  BY Handled DEF FirmwareInv
<1>9. ASSUME NextInLine("arming"), Issued("arming"), UNCHANGED <<lvGate, lvRenew>>,
             lvArming' \in Armings, lvArming'.pc \in {"status", "shadow"},
             lvFirmware' \in Firmwares, FirmwareInv', lvArming'.pc = "shadow" => ~lvFirmware'.shadow
      PROVE  LvInv'
  <2>1. ~Renewing /\ Arming /\ lvLine' = <<"arming">>
    BY <1>9, InLine
  <2> QED
    BY <1>0, <1>9, <2>1 DEF LvInv, LvTypes, LineInv, TurnInv, LvRenewed, Arming, Renewing
<1>10. CASE LvArmReady
  <2>1. CASE ArmFailed /\ Served /\ UNCHANGED lvRenew /\ lvFirmware' \in {lvFirmware, ReadyHandled}
    BY <1>2, <1>5, <1>7, <1>8, <1>10, <2>1 DEF LvArmReady
  <2>2. CASE lvFirmware' = ReadyHandled /\ UNCHANGED lvRenew /\ Aborted /\ Served
    BY <1>0, <1>3, <1>5, <1>8, <1>10, <2>2 DEF LvArmReady, LvTypes
  <2>3. CASE /\ lvFirmware' = ReadyHandled /\ UNCHANGED <<lvGate, lvRenew>> /\ Issued("arming")
             /\ lvArming' = [lvArming EXCEPT !.pc = "status", !.epoch = Granted]
    <3>1. lvArming' \in Armings /\ lvArming'.pc = "status"
      BY <1>0, <2>3 DEF LvTypes, Armings, Granted, Firmwares
    <3> QED
      BY <1>8, <1>9, <1>10, <2>3, <3>1 DEF LvArmReady
  <2> QED
    BY <1>10, <2>1, <2>2, <2>3 DEF LvArmReady
<1>11. CASE LvArmStatus
  <2>1. CASE ArmFailed /\ Served /\ UNCHANGED lvRenew
    BY <1>2, <1>5, <1>7, <1>11, <2>1 DEF LvArmStatus
  <2>2. CASE Aborted /\ Served /\ UNCHANGED lvRenew
    BY <1>0, <1>3, <1>5, <1>7, <1>11, <2>2 DEF LvArmStatus, LvTypes
  <2>3. CASE Armed(lvArming.epoch) /\ ServedAlone
    BY <1>6, <1>7, <1>11, <2>3 DEF LvArmStatus
  <2>4. CASE /\ ~ShadowOn /\ Issued("arming") /\ UNCHANGED <<lvGate, lvRenew>>
             /\ lvArming' = [lvArming EXCEPT !.pc = "shadow"]
    <3>1. lvArming' \in Armings /\ lvArming'.pc = "shadow" /\ ~lvFirmware'.shadow
      BY <1>0, <1>11, <2>4 DEF LvArmStatus, ShadowOn, LvTypes, Armings
    <3> QED
      BY <1>7, <1>9, <1>11, <2>4, <3>1 DEF LvArmStatus
  <2> QED
    BY <1>11, <2>1, <2>2, <2>3, <2>4 DEF LvArmStatus
<1>12. CASE LvArmShadow
  <2>1. lvFirmware' \in Firmwares /\ FirmwareInv'
    BY <1>7, <1>8, <1>12 DEF LvArmShadow
  <2>2. CASE ArmFailed /\ Served /\ UNCHANGED lvRenew
    BY <1>2, <1>5, <1>12, <2>1, <2>2 DEF LvArmShadow
  <2>3. CASE Aborted /\ Served /\ UNCHANGED lvRenew
    BY <1>0, <1>3, <1>5, <1>12, <2>1, <2>3 DEF LvArmShadow, LvTypes
  <2>4. CASE Armed(lvArming.epoch) /\ ServedAlone
    BY <1>6, <2>1, <2>4
  <2> QED
    BY <1>12, <2>2, <2>3, <2>4 DEF LvArmShadow
<1> QED
  BY <1>1, <1>10, <1>11, <1>12

\* The renew loop ends, sleeps again or goes on.
LEMMA RenewInv ==
    ASSUME LvInv, LvRenewWakes \/ LvRenewReady \/ LvRenewStatus \/ LvRenewShadow
    PROVE  LvInv'
<1> DEFINE Gone == /\ lvRenew' \in Renews /\ lvRenew'.pc = "none" /\ lvGate' \in Gates
                   /\ lvGate'.closing = lvGate.closing
                   /\ lvGate'.armed => lvGate.armed /\ lvGate'.closing
           Asleep == /\ lvRenew' \in Renews /\ lvRenew'.pc = "sleep" /\ lvRenew'.gen = lvRenew.gen
                     /\ lvGate' = lvGate
<1>0. LvTypes /\ FirmwareInv /\ LineInv /\ TurnInv /\ LvRenewed
  BY DEF LvInv
<1>a. ASSUME LoopEnds  PROVE lvRenew' \in Renews /\ lvRenew'.pc = "none"
  BY <1>0, <1>a DEF LoopEnds, LvTypes, Renews
<1>b. LET disarmed == [lvGate EXCEPT !.armed = FALSE]
      IN  disarmed \in Gates /\ disarmed.closing = lvGate.closing /\ disarmed.armed = FALSE
  BY <1>0 DEF LvTypes, Gates
<1>1. ASSUME Disarm  PROVE Gone
  <2>1. LoopEnds
    BY <1>1 DEF Disarm
  <2>2. CASE lvRenew.gen # lvGate.gen
    <3>1. lvGate' = lvGate
      BY <1>1, <2>2 DEF Disarm
    <3> QED
      BY <1>0, <1>a, <2>1, <2>2, <3>1 DEF LvTypes, LvRenewed
  <2>3. CASE lvRenew.gen = lvGate.gen
    <3>1. lvGate' = [lvGate EXCEPT !.armed = FALSE]
      BY <1>1, <2>3 DEF Disarm
    <3> QED
      BY <1>a, <1>b, <2>1, <3>1
  <2> QED
    BY <2>2, <2>3
<1>2. ASSUME Outdated, LoopEnds, UNCHANGED lvGate  PROVE Gone
  BY <1>0, <1>2, <1>a DEF Outdated, LvTypes, LvRenewed
<1>3. ~Outdated => lvGate.armed /\ ~Arming
  BY <1>0 DEF Outdated, TurnInv
<1>4. lvRenew' = Verified /\ UNCHANGED lvGate => Asleep
  <2>1. lvRenew \in Renews
    BY <1>0 DEF LvTypes
  <2>2. ASSUME lvRenew' = [lvRenew EXCEPT !.pc = "sleep", !.since = 0, !.late = FALSE]
        PROVE  lvRenew' \in Renews /\ lvRenew'.pc = "sleep" /\ lvRenew'.gen = lvRenew.gen
    BY <2>1, <2>2 DEF Renews
  <2> QED
    BY <2>2 DEF Verified
<1> HIDE DEF Gone, Asleep
<1>5. lvFirmware' = lvFirmware => lvFirmware' \in Firmwares /\ FirmwareInv'
  BY <1>0 DEF LvTypes, FirmwareInv
<1>6. lvFirmware' = ReadyHandled \/ lvFirmware' = ShadowHandled =>
        lvFirmware' \in Firmwares /\ FirmwareInv'
  BY Handled DEF FirmwareInv
<1>7. ASSUME Gone \/ Asleep, Served, NextInLine("renew"), UNCHANGED lvArming,
             lvFirmware' \in Firmwares, FirmwareInv'
      PROVE  LvInv'
  <2>1. Renewing /\ lvLine' = IF Arming THEN <<"arming">> ELSE <<>>
    BY <1>7, InLine
  <2>2. lvArming.pc # "shadow"
    BY <1>0, <2>1 DEF TurnInv
  <2>3. LineInv'
    BY <1>7, <2>1 DEF Gone, Asleep, LineInv, Arming, Renewing
  <2> QED
    BY <1>0, <1>7, <2>1, <2>2, <2>3
       DEF Gone, Asleep, LvInv, LvTypes, TurnInv, LvRenewed, Arming, Renewing
<1>8. ASSUME ~Outdated, Issued("renew"), NextInLine("renew"), UNCHANGED <<lvGate, lvArming>>,
             lvRenew' \in Renews, lvRenew'.pc \in {"status", "shadow"}, lvRenew'.gen = lvRenew.gen,
             lvFirmware' \in Firmwares, FirmwareInv', lvRenew'.pc = "shadow" => ~lvFirmware'.shadow
      PROVE  LvInv'
  <2>1. ~Arming /\ lvLine' = <<"renew">>
    BY <1>3, <1>8, InLine
  <2> QED
    BY <1>0, <1>8, <2>1 DEF LvInv, LvTypes, LineInv, TurnInv, LvRenewed, Arming, Renewing
<1>9. CASE LvRenewWakes
  <2>1. CASE Outdated /\ LoopEnds /\ UNCHANGED lvLine
    <3>1. Gone
      BY <1>2, <1>9, <2>1 DEF LvRenewWakes
    <3> QED
      BY <1>0, <1>9, <2>1, <3>1
         DEF Gone, LvRenewWakes, LvInv, LvTypes, FirmwareInv, LineInv, TurnInv, LvRenewed, Arming,
             Renewing
  <2>2. CASE ~Outdated /\ lvRenew' = [lvRenew EXCEPT !.pc = "ready"]
             /\ lvLine' = Append(lvLine, "renew")
    <3>1. lvRenew' \in Renews /\ lvRenew'.pc = "ready" /\ lvRenew'.gen = lvRenew.gen
      BY <1>0, <2>2 DEF LvTypes, Renews
    <3>2. ~Arming /\ ~Renewing
      BY <1>3, <1>9, <2>2 DEF LvRenewWakes, Renewing
    <3>3. lvLine' = <<"renew">>
      BY <1>0, <2>2, <3>2 DEF LineInv
    <3> QED
      BY <1>0, <1>9, <3>1, <3>2, <3>3
         DEF LvRenewWakes, LvInv, LvTypes, FirmwareInv, LineInv, TurnInv, LvRenewed, Arming,
             Renewing
  <2> QED
    BY <1>9, <2>1, <2>2 DEF LvRenewWakes
<1>10. CASE LvRenewReady
  <2>0. NextInLine("renew") /\ UNCHANGED lvArming
    BY <1>10 DEF LvRenewReady
  <2>1. CASE Disarm /\ Served /\ (UNCHANGED lvFirmware \/ lvFirmware' = ReadyHandled)
    BY <1>1, <1>5, <1>6, <1>7, <2>0, <2>1
  <2>2. CASE lvFirmware' = ReadyHandled /\ Outdated /\ LoopEnds /\ Served /\ UNCHANGED lvGate
    BY <1>2, <1>6, <1>7, <2>0, <2>2
  <2>3. CASE /\ lvFirmware' = ReadyHandled /\ ~Outdated /\ UNCHANGED lvGate /\ Issued("renew")
             /\ lvRenew' = [lvRenew EXCEPT !.pc = "status"]
    <3>1. lvRenew' \in Renews /\ lvRenew'.pc = "status" /\ lvRenew'.gen = lvRenew.gen
      BY <1>0, <2>3 DEF LvTypes, Renews
    <3> QED
      BY <1>6, <1>8, <2>0, <2>3, <3>1
  <2>4. CASE /\ lvFirmware' = ReadyHandled /\ UNCHANGED lvGate /\ Served
             /\ lvRenew' = [lvRenew EXCEPT !.pc = "sleep", !.since = @ + 1, !.late = FALSE]
    <3>1. Asleep
      <4> DEFINE more == lvRenew.since + 1
      <4>1. lvRenew \in Renews /\ more \in Nat
        BY <1>0 DEF LvTypes, Renews
      <4>2. lvRenew' = [lvRenew EXCEPT !.pc = "sleep", !.since = more, !.late = FALSE]
        BY <2>4
      <4> HIDE DEF more
      <4> QED
        BY <2>4, <4>1, <4>2 DEF Asleep, Renews
    <3> QED
      BY <1>6, <1>7, <2>0, <2>4, <3>1
  <2> QED
    BY <1>10, <2>1, <2>2, <2>3, <2>4 DEF LvRenewReady
<1>11. CASE LvRenewStatus
  <2>0. NextInLine("renew") /\ UNCHANGED <<lvFirmware, lvArming>>
    BY <1>11 DEF LvRenewStatus
  <2>1. CASE Disarm /\ Served
    BY <1>1, <1>5, <1>7, <2>0, <2>1
  <2>2. CASE Outdated /\ LoopEnds /\ Served /\ UNCHANGED lvGate
    BY <1>2, <1>5, <1>7, <2>0, <2>2
  <2>3. CASE lvRenew' = Verified /\ Served /\ UNCHANGED lvGate
    BY <1>4, <1>5, <1>7, <2>0, <2>3
  <2>4. CASE /\ ~Outdated /\ ~ShadowOn /\ Issued("renew") /\ UNCHANGED lvGate
             /\ lvRenew' = [lvRenew EXCEPT !.pc = "shadow"]
    <3>1. /\ lvRenew' \in Renews /\ lvRenew'.pc = "shadow" /\ lvRenew'.gen = lvRenew.gen
          /\ ~lvFirmware'.shadow
      BY <1>0, <2>0, <2>4 DEF LvTypes, Renews, ShadowOn
    <3> QED
      BY <1>5, <1>8, <2>0, <2>4, <3>1
  <2> QED
    BY <1>11, <2>1, <2>2, <2>3, <2>4 DEF LvRenewStatus
<1>12. CASE LvRenewShadow
  <2>0. NextInLine("renew") /\ UNCHANGED lvArming /\ Served
        /\ lvFirmware' \in Firmwares /\ FirmwareInv'
    BY <1>5, <1>6, <1>12 DEF LvRenewShadow
  <2>1. Gone \/ Asleep
    BY <1>1, <1>2, <1>4, <1>12 DEF LvRenewShadow
  <2> QED
    BY <1>7, <2>0, <2>1
<1> QED
  BY <1>9, <1>10, <1>11, <1>12

\* The capture thread, the supervisor and the end.
LEMMA GateInv ==
    ASSUME LvInv, LvBeginTimeout \/ LvStreamConsumed \/ LvLinkReset \/ LvClose
    PROVE  LvInv'
<1>0. LvTypes /\ FirmwareInv /\ LineInv /\ TurnInv /\ LvRenewed
  BY DEF LvInv
<1>1. CASE LvBeginTimeout \/ LvStreamConsumed
  <2>1. /\ lvGate' \in Gates /\ lvGate'.gen = lvGate.gen /\ lvGate'.closing = lvGate.closing
        /\ lvGate'.armed => lvGate.armed
    <3> DEFINE more == lvGate.timeouts + 1
    <3>1. lvGate \in Gates /\ more \in Nat
      BY <1>0 DEF LvTypes, Gates
    <3>2. \/ lvGate' = [lvGate EXCEPT !.timeouts = 0, !.armed = FALSE]
          \/ lvGate' = [lvGate EXCEPT !.timeouts = more]
          \/ lvGate' = [lvGate EXCEPT !.timeouts = 0]
      BY <1>1 DEF LvBeginTimeout, LvStreamConsumed
    <3> HIDE DEF more
    <3>3. CASE lvGate' = [lvGate EXCEPT !.timeouts = 0, !.armed = FALSE]
      BY <3>1, <3>3 DEF Gates
    <3>4. CASE lvGate' = [lvGate EXCEPT !.timeouts = more]
      BY <3>1, <3>4 DEF Gates
    <3>5. CASE lvGate' = [lvGate EXCEPT !.timeouts = 0]
      BY <3>1, <3>5 DEF Gates
    <3> QED
      BY <3>2, <3>3, <3>4, <3>5
  <2> QED
    BY <1>0, <1>1, <2>1
       DEF LvBeginTimeout, LvStreamConsumed, LvInv, LvTypes, FirmwareInv, LineInv, TurnInv,
           LvRenewed, Arming, Renewing
<1>2. CASE LvLinkReset
  <2>1. lvGate' \in Gates /\ ~lvGate'.armed /\ lvArming' \in Armings /\ lvArming'.pc = "idle"
    <3> DEFINE next == lvGate.gen + 1
    <3>1. lvGate \in Gates /\ lvArming \in Armings /\ next \in Nat
      BY <1>0 DEF LvTypes, Gates
    <3>2. /\ lvGate' = [lvGate EXCEPT !.gen = next, !.armed = FALSE, !.failures = 0,
                                      !.disabled = FALSE, !.timeouts = 0]
          /\ lvArming' = [lvArming EXCEPT !.pc = "idle"]
      BY <1>2 DEF LvLinkReset
    <3> HIDE DEF next
    <3>3. lvGate' \in Gates /\ ~lvGate'.armed
      BY <3>1, <3>2 DEF Gates
    <3>4. lvArming' \in Armings /\ lvArming'.pc = "idle"
      BY <3>1, <3>2 DEF Armings
    <3> QED
      BY <3>3, <3>4
  <2>2. lvLine' = IF Renewing THEN <<"renew">> ELSE <<>>
    BY <1>2, InLine DEF LvLinkReset
  <2> QED
    BY <1>0, <1>2, <2>1, <2>2
       DEF LvLinkReset, LvInv, LvTypes, FirmwareInv, LineInv, TurnInv, LvRenewed, Arming, Renewing
<1>3. CASE LvClose
  <2>1. /\ lvGate' \in Gates /\ lvGate'.closing /\ lvGate'.armed = lvGate.armed
        /\ lvRenew' \in Renews /\ lvRenew'.pc = "none"
    <3> DEFINE next == lvGate.gen + 1
    <3>1. lvGate \in Gates /\ lvRenew \in Renews /\ next \in Nat
      BY <1>0 DEF LvTypes, Gates
    <3>2. /\ lvGate' = [lvGate EXCEPT !.closing = TRUE, !.gen = next]
          /\ lvRenew' = [lvRenew EXCEPT !.pc = "none"]
      BY <1>3 DEF LvClose, LoopEnds
    <3> HIDE DEF next
    <3>3. lvGate' \in Gates /\ lvGate'.closing /\ lvGate'.armed = lvGate.armed
      BY <3>1, <3>2 DEF Gates
    <3>4. lvRenew' \in Renews /\ lvRenew'.pc = "none"
      BY <3>1, <3>2 DEF Renews
    <3> QED
      BY <3>3, <3>4
  <2>2. lvLine' = IF Arming THEN <<"arming">> ELSE <<>>
    BY <1>3, InLine DEF LvClose
  <2> QED
    BY <1>0, <1>3, <2>1, <2>2
       DEF LvClose, LvInv, LvTypes, FirmwareInv, LineInv, TurnInv, LvRenewed, Arming, Renewing
<1> QED
  BY <1>1, <1>2, <1>3

\* Every step keeps the invariant.
LEMMA LvStepInv == LvInv /\ [LvNext]_lvVars => LvInv'
<1> SUFFICES ASSUME LvInv, [LvNext]_lvVars PROVE LvInv'
  OBVIOUS
<1>1. CASE UNCHANGED lvVars
  BY <1>1 DEF lvVars, LvInv, LvTypes, FirmwareInv, LineInv, TurnInv, LvRenewed, Arming, Renewing
<1>2. CASE LvNext
  BY <1>2, DeviceInv, ArmingInv, RenewInv, GateInv DEF LvNext
<1> QED
  BY <1>1, <1>2

-----------------------------------------------------------------------------
\* While the gate is armed a renew loop of its own generation runs, whatever is
\* armed, disarmed, lost or reset meanwhile (_arm_shadow, _renew_loop, _disarm).
THEOREM ArmedIsRenewed == LvSpec => []LvRenewed
<1>1. LvInv => LvRenewed
  BY DEF LvInv
<1> QED
  BY LvInitInv, LvStepInv, <1>1, PTL DEF LvSpec

\* Neither task arms the shadow over a capture's arm that a wake has minted: the
\* loss it saw is still there when its command is served (live_gate.py).
THEOREM NeverArmedBlind == LvSpec => LvNoBlindArm
<1>1. LvInv => (LvArmShadow \/ LvRenewShadow => ~lvFirmware.pending)
  <2>1. ASSUME LvInv, LvArmShadow \/ LvRenewShadow PROVE ~lvFirmware.shadow
    BY <2>1 DEF LvInv, TurnInv, LvArmShadow, LvRenewShadow
  <2> QED
    BY <2>1 DEF LvInv, FirmwareInv
<1> QED
  BY LvInitInv, LvStepInv, <1>1, PTL DEF LvSpec, LvNoBlindArm

-----------------------------------------------------------------------------
(* LiveCapture: a capture hears its own utterance whole.                     *)

LcFrames == [kind : {"none", "begin", "pcm", "end", "abort"}, ex : LcEx \cup {0}, seq : Int,
             n : Nat, bad : BOOLEAN]
LcDevices == [now : LcEx \cup {0}, seq : Int, last : LcFrames,
              at : [LcEx -> {"idle", "open", "ended", "aborted"}], said : [LcEx -> Nat]]
LcInboxes == [active : LcEx \cup {0}, fresh : BOOLEAN, tomb : Seq(LcEx)]
LcStreams == [last : Int, got : Nat, queue : Seq(Nat),
              terminal : {"none", "end", "abort", "invalid"}]
LcRuns == [pc : {"idle", "begin", "bury", "claimed", "items", "waiting", "over"},
           awaited : BOOLEAN, cancel : BOOLEAN, holds : LcEx \cup {0}, pcm : Seq(Nat),
           outcome : {"none", "valid", "invalid", "inactive"}]

LcTypes == /\ lcDev \in LcDevices /\ lcInbox \in LcInboxes
           /\ lcStream \in [LcEx -> LcStreams] /\ lcRun \in [LcEx -> LcRuns]

\* A stream is in the hands of its own capture, from the claim to the end.
HandsInv(x) ==
    /\ lcRun[x].holds \in {0, x}
    /\ lcRun[x].pc \in {"claimed", "items", "waiting"} => lcRun[x].holds = x
    /\ lcRun[x].pc \in {"idle", "begin", "bury", "over"} => lcRun[x].holds = 0
    /\ lcRun[x].pc \in {"idle", "begin", "bury", "claimed"} => lcRun[x].pcm = <<>>
    /\ lcRun[x].outcome # "none" => lcRun[x].pc = "over"

\* What the device sent last is of the exchange it is at; a stream that is claimed
\* is not opened again, because its BEGIN is repeated only while it is active.
LastSentInv ==
    LET last == lcDev.last IN
    /\ lcDev.now # 0 => /\ last.kind # "none" /\ last.ex = lcDev.now
                        /\ lcDev.at[last.ex] # "idle"
    /\ last.kind = "end" => last.n = LcSpoken /\ lcDev.at[last.ex] = "ended"
SentInv == LastSentInv /\ (lcInbox.active # 0 => lcDev.at[lcInbox.active] # "idle")
HeldInv(x) ==
    lcRun[x].holds = x =>
        /\ lcDev.at[x] # "idle"
        /\ lcDev.last.kind = "begin" /\ lcDev.last.ex = x => lcInbox.active = x

\* The first n frames of an utterance.
Upto(n) == [i \in 1 .. n |-> i - 1]

\* What was taken and what is queued are the frames so far; an END comes after
\* the last of them.
AudioInv(x) ==
    LET s == lcStream[x] IN
    /\ lcRun[x].pc \notin {"waiting", "over"} /\ s.terminal \in {"none", "end"}
         => lcRun[x].pcm \o s.queue = Upto(s.got)
    /\ s.terminal = "end" => s.got = LcSpoken /\ lcDev.at[x] = "ended"

WholeInv(x) ==
    lcRun[x].pc = "waiting" \/ lcRun[x].outcome = "valid" =>
        lcDev.at[x] = "ended" /\ lcRun[x].pcm = LcUtterance

KeptInv(x) == lcInbox.active = x /\ lcRun[x].pc \in {"idle", "begin"} => lcInbox.fresh

LcEach(x) == HandsInv(x) /\ HeldInv(x) /\ AudioInv(x) /\ WholeInv(x) /\ KeptInv(x)
LcInv == LcTypes /\ SentInv /\ \A x \in LcEx : LcEach(x)

-----------------------------------------------------------------------------
\* Nothing is sent, held or heard at the start.
LEMMA LcInitInv == ASSUME LcInit PROVE LcInv
<1> USE LcAssumption DEF LcAssumption
<1>1. LcSeqMod - 2 \in Int /\ 0 \notin LcEx
  OBVIOUS
<1> DEFINE none == [last |-> 0, got |-> 0, queue |-> <<>>, terminal |-> "invalid"]
<1>2. Invalidated(LcOpened(0)) = none
  BY DEF Invalidated, LcOpened
<1>3. lcStream = [x \in LcEx |-> none] /\ none \in LcStreams
  BY <1>2 DEF LcInit, LcStreams
<1>a. lcStream \in [LcEx -> LcStreams]
  BY <1>3
<1>4. lcDev \in LcDevices
  BY <1>1 DEF LcInit, LcDevices, LcFrames
<1>5. lcInbox \in LcInboxes
  BY DEF LcInit, LcInboxes
<1>6. lcRun \in [LcEx -> LcRuns]
  BY DEF LcInit, LcRuns
<1>7. SentInv
  BY <1>1 DEF LcInit, SentInv, LastSentInv
<1>8. ASSUME NEW x \in LcEx PROVE LcEach(x)
  BY <1>1, <1>3 DEF LcInit, LcEach, HandsInv, HeldInv, AudioInv, WholeInv, KeptInv
<1> QED
  BY <1>a, <1>4, <1>5, <1>6, <1>7, <1>8 DEF LcInv, LcTypes

\* Prefixes of the utterance.
LEMMA UptoSeq ==
    /\ Upto(0) = <<>>
    /\ \A n \in Nat : Upto(n) \in Seq(Nat) /\ Len(Upto(n)) = n
    /\ \A n \in Nat : Append(Upto(n), n) = Upto(n + 1)
    /\ LcSpoken \in Nat => Upto(LcSpoken) = LcUtterance
<1>1. \A n \in Nat : Upto(n) \in Seq(Nat) /\ Len(Upto(n)) = n
  BY DEF Upto
<1>2. ASSUME NEW n \in Nat PROVE Append(Upto(n), n) = Upto(n + 1)
  <2>1. Append(Upto(n), n) \in Seq(Nat) /\ Len(Append(Upto(n), n)) = n + 1
    BY <1>1
  <2>2. \A i \in 1 .. n + 1 : Append(Upto(n), n)[i] = i - 1
    BY <1>1 DEF Upto
  <2> QED
    BY <1>1, <2>1, <2>2, SeqEqual DEF Upto
<1> QED
  BY <1>1, <1>2 DEF Upto, LcUtterance

LEMMA ConcatAppend ==
    ASSUME NEW p \in Seq(Nat), NEW q \in Seq(Nat), NEW n \in Nat
    PROVE  p \o Append(q, n) = Append(p \o q, n)
<1> DEFINE l == p \o Append(q, n)
           r == Append(p \o q, n)
<1>1. l \in Seq(Nat) /\ r \in Seq(Nat) /\ Len(l) = Len(r)
  OBVIOUS
<1>2. \A i \in 1 .. Len(l) : l[i] = r[i]
  OBVIOUS
<1> QED
  BY <1>1, <1>2, SeqEqual

LEMMA HeadMoves ==
    ASSUME NEW p \in Seq(Nat), NEW q \in Seq(Nat), q # <<>>
    PROVE  /\ Head(q) \in Nat /\ Tail(q) \in Seq(Nat) /\ Append(p, Head(q)) \in Seq(Nat)
           /\ Append(p, Head(q)) \o Tail(q) = p \o q
<1> DEFINE l == Append(p, Head(q)) \o Tail(q)
           r == p \o q
<1>1. Len(q) > 0 /\ Head(q) \in Nat /\ Tail(q) \in Seq(Nat) /\ Len(Tail(q)) = Len(q) - 1
      /\ Head(q) = q[1] /\ \A i \in 1 .. Len(q) - 1 : Tail(q)[i] = q[i + 1]
  BY HeadTailProperties, EmptySeq
<1>2. l \in Seq(Nat) /\ r \in Seq(Nat) /\ Len(l) = Len(r) /\ Len(r) = Len(p) + Len(q)
  BY <1>1
<1>3. ASSUME NEW i \in 1 .. Len(p) + Len(q) PROVE l[i] = r[i]
  <2>1. CASE i <= Len(p)
    BY <1>1, <2>1
  <2>2. CASE i = Len(p) + 1
    BY <1>1, <2>2
  <2>3. CASE i > Len(p) + 1
    BY <1>1, <2>3
  <2> QED
    BY <2>1, <2>2, <2>3
<1> HIDE DEF l, r
<1>4. \A i \in 1 .. Len(l) : l[i] = r[i]
  BY <1>2, <1>3
<1>5. l = r
  BY <1>2, <1>4, SeqEqual
<1> QED
  BY <1>1, <1>5, AppendProperties DEF l, r

\* What becomes of a stream while its capture stands still.
Becomes(x) ==
    LET s == lcStream[x]
        t == lcStream'[x]
    IN  \/ t = s
        \/ t.terminal \in {"abort", "invalid"}
        \/ /\ t.terminal = "none" /\ s.terminal = "none"
           /\ t.queue = Append(s.queue, s.got) /\ t.got = s.got + 1
        \/ /\ t.terminal = "end" /\ s.terminal = "none" /\ t.queue = s.queue
           /\ t.got = s.got /\ s.got = LcSpoken /\ lcDev'.at[x] = "ended"
        \/ /\ t.terminal = "none" /\ t.queue = <<>> /\ t.got = 0 /\ lcRun[x].holds = 0

LEMMA BecomesAudio ==
    ASSUME LcInv, NEW x \in LcEx, UNCHANGED lcRun, Becomes(x),
           lcDev.at[x] = "ended" => lcDev'.at[x] = "ended"
    PROVE  AudioInv(x)'
<1> DEFINE s == lcStream[x]
           t == lcStream'[x]
           r == lcRun[x]
<1>1. s \in LcStreams /\ r \in LcRuns /\ AudioInv(x) /\ HandsInv(x)
  BY DEF LcInv, LcTypes, LcEach
<1>2. s.queue \in Seq(Nat) /\ s.got \in Nat /\ r.pcm \in Seq(Nat)
  BY <1>1 DEF LcStreams, LcRuns
<1>3. CASE t = s
  BY <1>1, <1>3 DEF AudioInv
<1>4. CASE t.terminal \in {"abort", "invalid"}
  BY <1>4 DEF AudioInv
<1>5. CASE t.terminal = "none" /\ s.terminal = "none" /\ t.queue = Append(s.queue, s.got)
           /\ t.got = s.got + 1
  <2>1. SUFFICES ASSUME r.pc \notin {"waiting", "over"}
                 PROVE  r.pcm \o t.queue = Upto(t.got)
    BY <1>5 DEF AudioInv
  <2>2. r.pcm \o s.queue = Upto(s.got)
    BY <1>1, <1>5, <2>1 DEF AudioInv
  <2>3. r.pcm \o Append(s.queue, s.got) = Append(r.pcm \o s.queue, s.got)
    BY <1>2, ConcatAppend
  <2>4. Append(Upto(s.got), s.got) = Upto(s.got + 1)
    BY <1>2, UptoSeq
  <2>5. r.pcm \o t.queue = r.pcm \o Append(s.queue, s.got) /\ Upto(t.got) = Upto(s.got + 1)
    BY <1>5
  <2> HIDE DEF s, t, r
  <2> QED
    BY <2>2, <2>3, <2>4, <2>5
<1>6. CASE t.terminal = "end" /\ s.terminal = "none" /\ t.queue = s.queue
           /\ t.got = s.got /\ s.got = LcSpoken /\ lcDev'.at[x] = "ended"
  BY <1>1, <1>6 DEF AudioInv
<1>7. CASE t.terminal = "none" /\ t.queue = <<>> /\ t.got = 0 /\ r.holds = 0
  <2>1. r.pc \notin {"waiting", "over"} => r.pcm = <<>>
    BY <1>1, <1>7, LcAssumption DEF LcAssumption, HandsInv, LcRuns
  <2>2. r.pc \notin {"waiting", "over"} => r.pcm \o t.queue = <<>>
    BY <1>7, <2>1
  <2> QED
    BY <1>7, <2>2, UptoSeq DEF AudioInv
<1> QED
  BY <1>3, <1>4, <1>5, <1>6, <1>7 DEF Becomes

\* A step of the wire or of the reader keeps the invariant if it does to each stream
\* what may become of it.
LEMMA ReaderStep ==
    ASSUME LcInv, UNCHANGED lcRun, lcStream' \in [LcEx -> LcStreams], lcInbox' \in LcInboxes,
           lcDev' \in LcDevices, SentInv',
           \A x \in LcEx : /\ Becomes(x) /\ HeldInv(x)' /\ KeptInv(x)'
                           /\ lcDev.at[x] = "ended" => lcDev'.at[x] = "ended"
    PROVE  LcInv'
<1>1. LcTypes'
  BY DEF LcInv, LcTypes
<1>2. ASSUME NEW x \in LcEx PROVE LcEach(x)'
  <2>1. HandsInv(x) /\ WholeInv(x)
    BY DEF LcInv, LcEach
  <2>2. HandsInv(x)' /\ WholeInv(x)'
    BY <2>1 DEF HandsInv, WholeInv
  <2>3. AudioInv(x)'
    BY BecomesAudio
  <2> QED
    BY <2>2, <2>3 DEF LcEach
<1> QED
  BY <1>1, <1>2 DEF LcInv

-----------------------------------------------------------------------------
\* What the reader does to a stream.
LEMMA InvalidatedBecomes ==
    ASSUME NEW s \in LcStreams
    PROVE  /\ Invalidated(s) \in LcStreams
           /\ Invalidated(s) = s \/ Invalidated(s).terminal = "invalid"
<1>1. CASE s.terminal # "none"
  BY <1>1 DEF Invalidated
<1>2. CASE s.terminal = "none"
  <2> DEFINE t == [s EXCEPT !.terminal = "invalid"]
  <2>1. t \in LcStreams
    BY DEF LcStreams
  <2> DEFINE e == <<>>
  <2>2. e \in Seq(Nat)
    OBVIOUS
  <2> HIDE DEF e
  <2>3. [t EXCEPT !.queue = e] \in LcStreams /\ [t EXCEPT !.queue = e].terminal = "invalid"
    BY <2>1, <2>2 DEF LcStreams
  <2>4. Invalidated(s) = [t EXCEPT !.queue = e]
    BY <1>2 DEF Invalidated, e
  <2> QED
    BY <2>3, <2>4
<1> QED
  BY <1>1, <1>2

LEMMA PcmBecomes ==
    ASSUME NEW s \in LcStreams, NEW f \in LcFrames
    PROVE  LET t == PcmOffered(s, f) IN
           /\ t \in LcStreams
           /\ \/ t = s
              \/ t.terminal = "invalid"
              \/ /\ s.terminal = "none" /\ t.terminal = "none"
                 /\ t.queue = Append(s.queue, s.got) /\ t.got = s.got + 1
<1> DEFINE t == [last |-> f.seq, got |-> s.got + 1, queue |-> Append(s.queue, s.got),
                 terminal |-> "none"]
<1>1. f.seq \in Int /\ s.got \in Nat /\ s.queue \in Seq(Nat)
  BY DEF LcFrames, LcStreams
<1>2. CASE PcmOffered(s, f) \in {s, Invalidated(s)}
  BY <1>2, InvalidatedBecomes
<1>3. CASE s.terminal = "none" /\ f.n = s.got
           /\ PcmOffered(s, f) = [s EXCEPT !.last = f.seq, !.got = @ + 1,
                                           !.queue = Append(@, f.n)]
  <2>1. t \in LcStreams
    BY <1>1 DEF LcStreams
  <2>2. PcmOffered(s, f) = t
    BY <1>3 DEF LcStreams
  <2> QED
    BY <1>3, <2>1, <2>2
<1> QED
  BY <1>2, <1>3 DEF PcmOffered

LEMMA TerminalBecomes ==
    ASSUME NEW s \in LcStreams, NEW f \in LcFrames, f.kind \in {"end", "abort"}
    PROVE  LET t == TerminalOffered(s, f) IN
           /\ t \in LcStreams
           /\ \/ t = s
              \/ t.terminal \in {"invalid", "abort"}
              \/ /\ s.terminal = "none" /\ t.terminal = "end" /\ f.kind = "end"
                 /\ t.queue = s.queue /\ t.got = s.got /\ s.got = f.n
<1>1. f.seq \in Int
  BY DEF LcFrames
<1>2. CASE TerminalOffered(s, f) \in {s, Invalidated(s)}
  BY <1>2, InvalidatedBecomes
<1>3. CASE TerminalOffered(s, f) = [s EXCEPT !.last = f.seq, !.terminal = "abort",
                                             !.queue = <<>>]
  <2> DEFINE e == <<>>
  <2>1. e \in Seq(Nat) /\ TerminalOffered(s, f) = [s EXCEPT !.last = f.seq,
                                                    !.terminal = "abort", !.queue = e]
    BY <1>3
  <2> HIDE DEF e
  <2> QED
    BY <1>1, <2>1 DEF LcStreams
<1>4. CASE s.terminal = "none" /\ f.kind = "end" /\ s.got = f.n
           /\ TerminalOffered(s, f) = [s EXCEPT !.last = f.seq, !.terminal = "end"]
  BY <1>1, <1>4 DEF LcStreams
<1> QED
  BY <1>2, <1>3, <1>4 DEF TerminalOffered

LEMMA EntombedTyped ==
    ASSUME NEW tomb \in Seq(LcEx), NEW x \in LcEx
    PROVE  Entombed(tomb, x) \in Seq(LcEx)
<1> DEFINE t == Append(tomb, x)
<1>1. t \in Seq(LcEx) /\ t # <<>>
  BY AppendProperties
<1>2. Tail(t) \in Seq(LcEx)
  BY <1>1
<1> QED
  BY <1>1, <1>2 DEF Entombed

-----------------------------------------------------------------------------
\* A frame the reader is handed: what it says is true of the device.
Truthful(f) ==
    /\ f \in LcFrames /\ f.ex \in LcEx /\ f.kind # "none"
    /\ ~f.bad /\ f.kind = "end" => f.n = LcSpoken /\ lcDev'.at[f.ex] = "ended"
    /\ ~f.bad /\ f.kind = "begin" =>
           /\ lcDev'.at[f.ex] # "idle"
           /\ lcRun[f.ex].holds = f.ex => lcInbox.active = f.ex

\* What the reader does to each stream, and to the delivery of the one it opens.
Offers ==
    /\ lcStream' \in [LcEx -> LcStreams] /\ lcInbox' \in LcInboxes
    /\ \A x \in LcEx : Becomes(x)
    /\ \/ lcInbox'.active = lcInbox.active /\ lcInbox'.fresh = lcInbox.fresh
       \/ lcInbox'.fresh = TRUE /\ lcDev'.at[lcInbox'.active] # "idle"

LEMMA NothingOffered ==
    ASSUME LcInv, UNCHANGED <<lcInbox, lcStream>>
    PROVE  Offers
  BY DEF LcInv, LcTypes, Offers, Becomes

\* One stream changes, and may be buried.
LEMMA OneOffered ==
    ASSUME LcInv, NEW x \in LcEx, NEW t \in LcStreams, NEW inbox,
           lcStream' = [lcStream EXCEPT ![x] = t], t = lcStream'[x] => Becomes(x),
           lcInbox' = inbox,
           inbox \in {lcInbox, [lcInbox EXCEPT !.tomb = Entombed(@, x)]}
    PROVE  Offers
<1>1. lcStream \in [LcEx -> LcStreams] /\ lcInbox \in LcInboxes
  BY DEF LcInv, LcTypes
<1>2. lcStream' \in [LcEx -> LcStreams] /\ lcStream'[x] = t
      /\ \A y \in LcEx \ {x} : lcStream'[y] = lcStream[y]
  BY <1>1
<1>3. \A y \in LcEx : Becomes(y)
  BY <1>2 DEF Becomes
<1> DEFINE tomb == Entombed(lcInbox.tomb, x)
<1>4. tomb \in Seq(LcEx)
  BY <1>1, EntombedTyped DEF LcInboxes
<1>5. lcInbox' \in LcInboxes /\ lcInbox'.active = lcInbox.active
      /\ lcInbox'.fresh = lcInbox.fresh
  <2>1. lcInbox' = lcInbox \/ lcInbox' = [lcInbox EXCEPT !.tomb = tomb]
    OBVIOUS
  <2> HIDE DEF tomb
  <2> QED
    BY <1>1, <1>4, <2>1 DEF LcInboxes
<1> QED
  BY <1>2, <1>3, <1>5 DEF Offers

\* The active stream is invalidated and buried.
LEMMA ActiveOffered ==
    ASSUME LcInv, lcInbox.active # 0, lcStream' = InvalidatedIn(lcStream, lcInbox.active),
           lcInbox' \in {lcInbox, [lcInbox EXCEPT !.tomb = Entombed(@, lcInbox.active)]}
    PROVE  Offers
<1> DEFINE x == lcInbox.active
           t == Invalidated(lcStream[x])
<1>1. x \in LcEx /\ lcStream \in [LcEx -> LcStreams]
  BY DEF LcInv, LcTypes, LcInboxes
<1>2. lcStream[x] \in LcStreams
  BY <1>1
<1>3. t \in LcStreams /\ (t = lcStream[x] \/ t.terminal = "invalid")
  BY <1>2, InvalidatedBecomes
<1>4. lcStream' = [lcStream EXCEPT ![x] = t]
  BY DEF InvalidatedIn
<1>5. t = lcStream'[x] => Becomes(x)
  BY <1>3 DEF Becomes
<1> HIDE DEF t, x
<1> QED
  BY <1>1, <1>3, <1>4, <1>5, OneOffered DEF x

LEMMA MalformedOffered ==
    ASSUME LcInv, NEW f, LcMalformed(f)
    PROVE  Offers
  BY NothingOffered, ActiveOffered DEF LcMalformed

LEMMA BeginOffered ==
    ASSUME LcInv, NEW f, Truthful(f), LcOfferBegin(f)
    PROVE  Offers
<1> DEFINE prior == lcInbox.active
<1>1. lcStream \in [LcEx -> LcStreams] /\ lcInbox \in LcInboxes /\ prior \in LcEx \cup {0}
      /\ f.ex \in LcEx /\ f.ex # 0 /\ f.seq \in Int
  BY LcAssumption DEF LcAssumption, LcInv, LcTypes, LcInboxes, Truthful, LcFrames
<1>2. CASE UNCHANGED <<lcInbox, lcStream>>
  BY <1>2, NothingOffered
<1>3. CASE prior = f.ex /\ ~UNCHANGED <<lcInbox, lcStream>>
  BY <1>1, <1>3, ActiveOffered DEF LcOfferBegin
<1>4. CASE prior # f.ex /\ ~UNCHANGED <<lcInbox, lcStream>>
  <2> DEFINE tomb == IF prior = 0 THEN lcInbox.tomb ELSE Entombed(lcInbox.tomb, prior)
             to(x) == IF x = f.ex THEN LcOpened(f.seq)
                      ELSE IF x = prior THEN Invalidated(lcStream[x]) ELSE lcStream[x]
  <2>1. lcStream' = [x \in LcEx |-> to(x)]
        /\ lcInbox' = [active |-> f.ex, fresh |-> TRUE, tomb |-> tomb]
    BY <1>4 DEF LcOfferBegin
  <2>2. tomb \in Seq(LcEx)
    BY <1>1, EntombedTyped DEF LcInboxes
  <2>3. LcOpened(f.seq) \in LcStreams
    BY <1>1 DEF LcOpened, LcStreams
  <2>4. \A x \in LcEx : to(x) \in LcStreams
    BY <1>1, <2>3, InvalidatedBecomes
  <2>5. lcRun[f.ex].holds = 0 /\ lcDev'.at[f.ex] # "idle"
    <3>1. ~f.bad /\ f.kind = "begin"
      BY DEF LcOfferBegin
    <3>2. lcDev'.at[f.ex] # "idle" /\ lcRun[f.ex].holds # f.ex
      <4>1. Truthful(f)
        OBVIOUS
      <4> QED
        BY <1>4, <3>1, <4>1 DEF Truthful
    <3>3. lcRun[f.ex].holds \in {0, f.ex}
      BY <1>1 DEF LcInv, LcEach, HandsInv
    <3> QED
      BY <3>2, <3>3
  <2>6. ASSUME NEW x \in LcEx PROVE Becomes(x)
    <3>1. lcStream'[x] = to(x) /\ lcStream[x] \in LcStreams
      BY <1>1, <2>1
    <3>2. CASE x = f.ex
      BY <2>5, <3>1, <3>2 DEF Becomes, LcOpened
    <3>3. CASE x # f.ex
      BY <3>1, <3>3, InvalidatedBecomes DEF Becomes
    <3> QED
      BY <3>2, <3>3
  <2>7. lcStream' \in [LcEx -> LcStreams]
    BY <2>1, <2>4
  <2> HIDE DEF tomb
  <2>8. lcInbox' \in LcInboxes
    BY <1>1, <2>1, <2>2 DEF LcInboxes
  <2> QED
    BY <2>1, <2>5, <2>6, <2>7, <2>8 DEF Offers
<1> QED
  BY <1>2, <1>3, <1>4

LEMMA FrameOffered ==
    ASSUME LcInv, NEW f, Truthful(f), LcOfferFrame(f)
    PROVE  Offers
<1> DEFINE x == lcInbox.active
           t == IF f.ex # x THEN Invalidated(lcStream[x])
                ELSE IF f.kind = "pcm" THEN PcmOffered(lcStream[x], f)
                ELSE TerminalOffered(lcStream[x], f)
<1>1. lcStream \in [LcEx -> LcStreams] /\ x \in LcEx \cup {0}
  BY DEF LcInv, LcTypes, LcInboxes
<1>2. CASE UNCHANGED <<lcInbox, lcStream>>
  BY <1>2, NothingOffered
<1>3. CASE ~UNCHANGED <<lcInbox, lcStream>>
  <2>1. /\ x # 0 /\ lcStream' = [lcStream EXCEPT ![x] = t]
        /\ lcInbox' \in {lcInbox, [lcInbox EXCEPT !.tomb = Entombed(@, x)]}
        /\ ~f.bad /\ f.kind # "begin"
    BY <1>3 DEF LcOfferFrame
  <2>2. x \in LcEx /\ lcStream[x] \in LcStreams /\ f \in LcFrames
    BY <1>1, <2>1 DEF Truthful
  <2>3. f.kind # "pcm" => f.kind \in {"end", "abort"}
    BY <2>1 DEF Truthful, LcFrames
  <2>4. CASE f.ex # x
    BY <2>1, <2>2, <2>4, ActiveOffered DEF InvalidatedIn
  <2>5. CASE f.ex = x /\ f.kind = "pcm"
    <3>1. t = PcmOffered(lcStream[x], f)
      BY <2>5
    <3> HIDE DEF t
    <3> DEFINE s == lcStream[x]
    <3>a. /\ t \in LcStreams
          /\ \/ t = s
             \/ t.terminal = "invalid"
             \/ /\ s.terminal = "none" /\ t.terminal = "none"
                /\ t.queue = Append(s.queue, s.got) /\ t.got = s.got + 1
      BY <2>2, <3>1, PcmBecomes
    <3>2. t \in LcStreams /\ (t = lcStream'[x] => Becomes(x))
      BY <3>a DEF Becomes
    <3> QED
      BY <2>1, <2>2, <3>2, OneOffered
  <2>6. CASE f.ex = x /\ f.kind # "pcm"
    <3>1. t = TerminalOffered(lcStream[x], f)
      BY <2>6
    <3>2. f.kind = "end" => f.n = LcSpoken /\ lcDev'.at[x] = "ended"
      BY <2>1, <2>6 DEF Truthful
    <3> HIDE DEF t
    <3>3. t \in LcStreams /\ (t = lcStream'[x] => Becomes(x))
      BY <2>2, <2>3, <2>6, <3>1, <3>2, TerminalBecomes DEF Becomes
    <3> QED
      BY <2>1, <2>2, <3>3, OneOffered
  <2> QED
    BY <2>4, <2>5, <2>6
<1> QED
  BY <1>2, <1>3

LEMMA OfferOffered ==
    ASSUME LcInv, NEW f, Truthful(f), LcOffer(f)
    PROVE  Offers
  BY MalformedOffered, BeginOffered, FrameOffered DEF LcOffer

-----------------------------------------------------------------------------
\* A step of the device, the wire and the reader keeps the invariant.
LEMMA WireStep ==
    ASSUME LcInv, UNCHANGED lcRun, Offers, lcDev' \in LcDevices, LastSentInv',
           \A x \in LcEx : /\ HeldInv(x)'
                           /\ lcDev.at[x] = "ended" => lcDev'.at[x] = "ended"
                           /\ lcDev.at[x] # "idle" => lcDev'.at[x] # "idle"
    PROVE  LcInv'
<1>1. lcInbox \in LcInboxes /\ lcInbox' \in LcInboxes /\ lcInbox.active \in LcEx \cup {0}
  BY DEF LcInv, LcTypes, Offers, LcInboxes
<1>2. SentInv'
  BY <1>1 DEF LcInv, SentInv, Offers
<1>3. ASSUME NEW x \in LcEx PROVE KeptInv(x)'
  BY <1>1 DEF LcInv, LcEach, KeptInv, Offers
<1> QED
  BY <1>2, <1>3, ReaderStep DEF Offers

\* A frame that is sent: it arrives, or spoilt, or not at all.
LEMMA SendsInv ==
    ASSUME LcInv, NEW x \in LcEx, NEW kind \in {"begin", "pcm", "end", "abort"},
           NEW at \in {"open", "ended", "aborted"}, NEW said \in Nat,
           LcSends(kind, x, at, said), lcDev.at[x] # "ended",
           kind = "begin" => lcDev.at[x] = "idle",
           kind = "end" => at = "ended" /\ lcDev.said[x] = LcSpoken
    PROVE  LcInv'
<1> DEFINE f == [kind |-> kind, ex |-> x, seq |-> lcDev.seq, n |-> lcDev.said[x],
                 bad |-> FALSE]
           spoilt == [f EXCEPT !.bad = TRUE]
           next == (lcDev.seq + 1) % LcSeqMod
<1>1. /\ lcDev.now \in LcEx \cup {0} /\ lcDev.seq \in Int
      /\ lcDev.at \in [LcEx -> {"idle", "open", "ended", "aborted"}]
      /\ lcDev.said \in [LcEx -> Nat]
      /\ lcDev = [now |-> lcDev.now, seq |-> lcDev.seq, last |-> lcDev.last,
                  at |-> lcDev.at, said |-> lcDev.said]
      /\ x # 0
  BY LcAssumption DEF LcAssumption, LcInv, LcTypes, LcDevices
<1>2. next \in Int
  BY <1>1, LcAssumption DEF LcAssumption
<1>3. f \in LcFrames /\ spoilt \in LcFrames
  BY <1>1 DEF LcFrames
<1>4. lcDev' = [now |-> x, seq |-> next, last |-> f, at |-> [lcDev.at EXCEPT ![x] = at],
                said |-> [lcDev.said EXCEPT ![x] = said]]
  BY <1>1 DEF LcSends
<1>5. \/ LcOffer(f) \/ LcOffer(spoilt) \/ UNCHANGED <<lcInbox, lcStream>>
  BY DEF LcSends
<1>6. UNCHANGED lcRun
  BY DEF LcSends
<1>7. lcDev' \in LcDevices
  BY <1>1, <1>2, <1>3, <1>4 DEF LcDevices
<1>8. lcDev'.at[x] = at /\ \A y \in LcEx \ {x} : lcDev'.at[y] = lcDev.at[y]
  BY <1>1, <1>4
<1>9. f.kind = kind /\ f.ex = x /\ f.n = lcDev.said[x] /\ ~f.bad
      /\ spoilt.kind = kind /\ spoilt.ex = x /\ spoilt.bad
  OBVIOUS
<1>10. lcDev'.last = f /\ lcDev'.now = x
  BY <1>4
<1> HIDE DEF f, spoilt, next
<1>11. kind = "begin" => lcRun[x].holds # x
  BY DEF LcInv, LcEach, HeldInv
<1>12. Truthful(f) /\ Truthful(spoilt)
  BY <1>1, <1>3, <1>8, <1>9, <1>11 DEF Truthful
<1>13. Offers
  BY <1>5, <1>12, OfferOffered, NothingOffered
<1>14. LastSentInv'
  BY <1>8, <1>9, <1>10 DEF LastSentInv
<1>15. ASSUME NEW y \in LcEx PROVE HeldInv(y)'
  BY <1>6, <1>8, <1>9, <1>10, <1>11 DEF LcInv, LcEach, HeldInv
<1> QED
  BY <1>6, <1>7, <1>8, <1>13, <1>14, <1>15, WireStep

LEMMA BeginsInv ==
    ASSUME LcInv, NEW x \in LcEx, LcBegins(x)
    PROVE  LcInv'
  BY SendsInv DEF LcBegins

LEMMA SpeaksInv ==
    ASSUME LcInv, NEW x \in LcEx, LcSpeaks(x)
    PROVE  LcInv'
<1>1. lcDev.said[x] + 1 \in Nat
  BY DEF LcInv, LcTypes, LcDevices
<1> QED
  BY <1>1, SendsInv DEF LcSpeaks

LEMMA ClosesInv ==
    ASSUME LcInv, NEW x \in LcEx, LcCloses(x)
    PROVE  LcInv'
<1>1. lcDev.said[x] \in Nat
  BY DEF LcInv, LcTypes, LcDevices
<1> QED
  BY <1>1, SendsInv DEF LcCloses

LEMMA RepeatsInv ==
    ASSUME LcInv, LcRepeats
    PROVE  LcInv'
<1> DEFINE f == lcDev.last
<1>1. f \in LcFrames /\ lcDev \in LcDevices /\ lcDev.now \in LcEx /\ lcDev.now # 0
      /\ UNCHANGED <<lcDev, lcRun>>
  BY LcAssumption DEF LcAssumption, LcInv, LcTypes, LcDevices, LcRepeats
<1>2. LastSentInv
  BY DEF LcInv, SentInv
<1>3. f.kind # "none" /\ f.ex \in LcEx /\ lcDev.at[f.ex] # "idle"
      /\ (f.kind = "end" => f.n = LcSpoken /\ lcDev.at[f.ex] = "ended")
  BY <1>1, <1>2 DEF LastSentInv
<1>4. \A x \in LcEx : HeldInv(x)
  BY DEF LcInv, LcEach
<1>5. f.kind = "begin" => (lcRun[f.ex].holds = f.ex => lcInbox.active = f.ex)
  BY <1>3, <1>4 DEF HeldInv
<1>6. Truthful(f)
  BY <1>1, <1>3, <1>5 DEF Truthful
<1>7. Offers
  BY <1>6, OfferOffered DEF LcRepeats
<1>8. LastSentInv'
  BY <1>1, <1>2 DEF LastSentInv
<1>9. ASSUME NEW x \in LcEx PROVE HeldInv(x)'
  <2>1. SUFFICES ASSUME lcRun[x].holds = x, f.kind = "begin", f.ex = x
                 PROVE  lcInbox'.active = x
    BY <1>1, <1>4 DEF HeldInv
  <2>2. lcInbox.active = x
    BY <1>5, <2>1
  <2> QED
    <3>1. lcInbox \in LcInboxes /\ LcOffer(f)
      BY DEF LcInv, LcTypes, LcRepeats
    <3>2. CASE LcMalformed(f)
      BY <2>1, <2>2, <3>2 DEF LcMalformed
    <3>3. CASE LcOfferBegin(f)
      BY <2>1, <2>2, <3>1, <3>3 DEF LcOfferBegin, LcInboxes
    <3>4. CASE LcOfferFrame(f)
      BY <2>1, <3>4 DEF LcOfferFrame
    <3> QED
      BY <3>1, <3>2, <3>3, <3>4 DEF LcOffer
<1> QED
  BY <1>1, <1>7, <1>8, <1>9, WireStep

LEMMA LinkClosedInv ==
    ASSUME LcInv, LcLinkClosed
    PROVE  LcInv'
<1>1. Offers
  BY NothingOffered, ActiveOffered DEF LcLinkClosed
<1>2. UNCHANGED <<lcDev, lcRun>> /\ lcInbox'.active = lcInbox.active
  BY DEF LcLinkClosed, LcInv, LcTypes, LcInboxes
<1>3. lcDev' \in LcDevices /\ LastSentInv' /\ \A x \in LcEx : HeldInv(x)'
  BY <1>2 DEF LcInv, LcTypes, SentInv, LastSentInv, LcEach, HeldInv
<1> QED
  BY <1>1, <1>2, <1>3, WireStep

-----------------------------------------------------------------------------
\* What a capture may do beside its own record: spoil a stream, and take the
\* delivery of its own.
Around(x) ==
    /\ UNCHANGED lcDev
    /\ lcInbox' \in LcInboxes /\ lcInbox'.active = lcInbox.active
    /\ lcInbox'.fresh = lcInbox.fresh \/ lcInbox.active = x
    /\ lcStream' \in [LcEx -> LcStreams]
    /\ \A y \in LcEx \ {x} : lcStream'[y] = lcStream[y] \/ lcStream'[y].terminal = "invalid"

LEMMA StillAround ==
    ASSUME LcInv, NEW x \in LcEx, UNCHANGED <<lcDev, lcInbox, lcStream>>
    PROVE  Around(x)
  BY DEF LcInv, LcTypes, Around

LEMMA InvalidatedAround ==
    ASSUME LcInv, NEW x \in LcEx, NEW y \in LcEx, UNCHANGED <<lcDev, lcInbox>>,
           lcStream' = InvalidatedIn(lcStream, y)
    PROVE  /\ Around(x)
           /\ lcStream'[x] = lcStream[x] \/ lcStream'[x].terminal = "invalid"
<1> DEFINE t == Invalidated(lcStream[y])
<1>1. lcStream \in [LcEx -> LcStreams] /\ lcInbox \in LcInboxes
  BY DEF LcInv, LcTypes
<1>2. t \in LcStreams /\ (t = lcStream[y] \/ t.terminal = "invalid")
  BY <1>1, InvalidatedBecomes
<1>3. lcStream' = [lcStream EXCEPT ![y] = t]
  BY DEF InvalidatedIn
<1> HIDE DEF t
<1> QED
  BY <1>1, <1>2, <1>3 DEF Around

LEMMA CaptureStep ==
    ASSUME LcInv, NEW x \in LcEx, NEW r \in LcRuns, lcRun' = [lcRun EXCEPT ![x] = r],
           Around(x), LcEach(x)'
    PROVE  LcInv'
<1>1. lcRun \in [LcEx -> LcRuns]
  BY DEF LcInv, LcTypes
<1>2. LcTypes'
  BY <1>1 DEF LcInv, LcTypes, Around
<1>3. SentInv'
  BY DEF LcInv, SentInv, LastSentInv, Around
<1>4. ASSUME NEW y \in LcEx, y # x PROVE LcEach(y)'
  <2>1. LcEach(y)
    BY DEF LcInv
  <2>2. lcRun'[y] = lcRun[y] /\ UNCHANGED lcDev /\ lcInbox'.active = lcInbox.active
    BY <1>1, <1>4 DEF Around
  <2>3. HandsInv(y)' /\ HeldInv(y)' /\ WholeInv(y)'
    BY <2>1, <2>2 DEF LcEach, HandsInv, HeldInv, WholeInv
  <2>4. AudioInv(y)'
    <3>1. CASE lcStream'[y] = lcStream[y]
      BY <2>1, <2>2, <3>1 DEF LcEach, AudioInv
    <3>2. CASE lcStream'[y].terminal = "invalid"
      BY <3>2 DEF AudioInv
    <3> QED
      BY <1>4, <3>1, <3>2 DEF Around
  <2>5. KeptInv(y)'
    BY <1>4, <2>1, <2>2 DEF LcEach, KeptInv, Around
  <2> QED
    BY <2>3, <2>4, <2>5 DEF LcEach
<1> QED
  BY <1>2, <1>3, <1>4 DEF LcInv

\* A thread that ends.
LEMMA EndsInv ==
    ASSUME LcInv, NEW x \in LcEx, NEW o \in {"valid", "invalid", "inactive"},
           o = "valid" => lcRun[x].pc = "waiting", LcEnds(x, o), Around(x),
           lcStream'[x] = lcStream[x] \/ lcStream'[x].terminal = "invalid"
    PROVE  LcInv'
<1> DEFINE pcm == IF o = "valid" THEN lcRun[x].pcm ELSE <<>>
           r == [pc |-> "over", awaited |-> lcRun[x].awaited, cancel |-> FALSE,
                 holds |-> 0, outcome |-> o, pcm |-> pcm]
<1>1. lcRun \in [LcEx -> LcRuns] /\ lcRun[x] \in LcRuns
  BY DEF LcInv, LcTypes
<1>2. pcm \in Seq(Nat) /\ lcRun[x].awaited \in BOOLEAN
  BY <1>1 DEF LcRuns
<1>3. lcRun' = [lcRun EXCEPT ![x] = r]
  BY DEF LcEnds
<1>4. LcEach(x)
  BY DEF LcInv
<1>5. o = "valid" => pcm = LcUtterance /\ lcDev'.at[x] = "ended"
  BY <1>4 DEF LcEach, WholeInv, Around
<1> HIDE DEF pcm
<1>6. r \in LcRuns
  BY <1>2 DEF LcRuns
<1>7. lcRun'[x] = r
  BY <1>1, <1>3
<1>8. AudioInv(x)'
  <2>1. lcStream'[x].terminal = "end" => lcStream[x] = lcStream'[x]
    OBVIOUS
  <2> QED
    BY <1>4, <1>7, <2>1 DEF LcEach, AudioInv, Around
<1>9. HandsInv(x)' /\ HeldInv(x)' /\ WholeInv(x)' /\ KeptInv(x)'
  BY <1>5, <1>7, LcAssumption DEF LcAssumption, HandsInv, HeldInv, WholeInv, KeptInv
<1> HIDE DEF r
<1> QED
  BY <1>3, <1>6, <1>8, <1>9, CaptureStep DEF LcEach

\* A step that changes neither what the thread holds nor what it heard.
LEMMA GoesInv ==
    ASSUME LcInv, NEW x \in LcEx, NEW r \in LcRuns, lcRun' = [lcRun EXCEPT ![x] = r],
           r.pcm = lcRun[x].pcm, r.holds = lcRun[x].holds, r.outcome = lcRun[x].outcome,
           \/ r.pc = lcRun[x].pc
           \/ lcRun[x].pc = "idle" /\ r.pc \in {"begin", "bury"}
           \/ lcRun[x].pc = "claimed" /\ r.pc = "items",
           Around(x), UNCHANGED lcInbox,
           lcStream'[x] = lcStream[x] \/ lcStream'[x].terminal = "invalid"
    PROVE  LcInv'
<1>1. lcRun \in [LcEx -> LcRuns] /\ LcEach(x)
  BY DEF LcInv, LcTypes
<1>2. lcRun'[x] = r /\ UNCHANGED lcDev
  BY <1>1 DEF Around
<1>3. HandsInv(x)'
  BY <1>1, <1>2 DEF LcEach, HandsInv
<1>4. HeldInv(x)' /\ WholeInv(x)'
  BY <1>1, <1>2 DEF LcEach, HeldInv, WholeInv
<1>5. KeptInv(x)'
  BY <1>1, <1>2 DEF LcEach, KeptInv
<1>6. AudioInv(x)'
  <2>1. CASE lcStream'[x] = lcStream[x]
    BY <1>1, <1>2, <2>1 DEF LcEach, AudioInv
  <2>2. CASE lcStream'[x].terminal = "invalid"
    BY <2>2 DEF AudioInv
  <2> QED
    BY <2>1, <2>2
<1> QED
  BY <1>3, <1>4, <1>5, <1>6, CaptureStep DEF LcEach

-----------------------------------------------------------------------------
\* The capture's actions.
LEMMA RunTyped ==
    ASSUME LcInv, NEW x \in LcEx
    PROVE  /\ lcRun[x] \in LcRuns /\ lcStream[x] \in LcStreams
           /\ lcRun \in [LcEx -> LcRuns] /\ lcStream \in [LcEx -> LcStreams]
           /\ lcRun[x].holds \in {0, x} /\ x # 0 /\ LcEach(x)
           /\ lcRun[x].pc \in {"claimed", "items", "waiting"} => lcRun[x].holds = x
  BY LcAssumption DEF LcAssumption, LcInv, LcTypes, LcEach, HandsInv

LEMMA CaptureInv ==
    ASSUME LcInv, NEW x \in LcEx, LcCapture(x)
    PROVE  LcInv'
<1>1. Around(x) /\ UNCHANGED <<lcStream, lcInbox>>
  BY StillAround DEF LcCapture
<1>2. CASE LcEnds(x, "inactive")
  BY <1>1, <1>2, EndsInv
<1>3. ASSUME NEW pc \in {"begin", "bury"},
             lcRun' = [lcRun EXCEPT ![x].pc = pc, ![x].awaited = TRUE]
      PROVE  LcInv'
  <2> DEFINE r == [lcRun[x] EXCEPT !.pc = pc, !.awaited = TRUE]
  <2>1. r \in LcRuns /\ r.pcm = lcRun[x].pcm /\ r.holds = lcRun[x].holds
        /\ r.outcome = lcRun[x].outcome /\ r.pc = pc
    BY RunTyped DEF LcRuns
  <2>2. lcRun' = [lcRun EXCEPT ![x] = r] /\ lcRun[x].pc = "idle"
    BY <1>3, RunTyped DEF LcRuns, LcCapture
  <2> HIDE DEF r
  <2> QED
    BY <1>1, <2>1, <2>2, GoesInv
<1> QED
  BY <1>2, <1>3 DEF LcCapture

LEMMA BuryInv ==
    ASSUME LcInv, NEW x \in LcEx, LcBury(x)
    PROVE  LcInv'
<1>1. CASE UNCHANGED <<lcInbox, lcStream>>
  BY <1>1, StillAround, EndsInv DEF LcBury
<1>2. CASE Offered(x) /\ lcStream' = InvalidatedIn(lcStream, x)
           /\ lcInbox' = [lcInbox EXCEPT !.fresh = FALSE]
  <2> DEFINE t == Invalidated(lcStream[x])
  <2>1. t \in LcStreams /\ (t = lcStream[x] \/ t.terminal = "invalid")
    BY RunTyped, InvalidatedBecomes
  <2>2. lcStream' = [lcStream EXCEPT ![x] = t]
    BY <1>2 DEF InvalidatedIn
  <2>3. lcInbox' \in LcInboxes /\ lcInbox'.active = lcInbox.active /\ lcInbox.active = x
    BY <1>2 DEF LcInv, LcTypes, LcInboxes, Offered
  <2>4. UNCHANGED lcDev /\ LcEnds(x, "invalid")
    BY DEF LcBury
  <2> HIDE DEF t
  <2>5. Around(x) /\ (lcStream'[x] = lcStream[x] \/ lcStream'[x].terminal = "invalid")
    BY <2>1, <2>2, <2>3, <2>4, RunTyped DEF Around
  <2> QED
    BY <2>4, <2>5, EndsInv
<1> QED
  BY <1>1, <1>2 DEF LcBury, Offered

LEMMA ClaimInv ==
    ASSUME LcInv, NEW x \in LcEx, LcClaim(x)
    PROVE  LcInv'
<1> DEFINE r == [lcRun[x] EXCEPT !.pc = "claimed", !.holds = x]
<1>1. r \in LcRuns /\ r.pcm = lcRun[x].pcm /\ r.outcome = lcRun[x].outcome
      /\ r.pc = "claimed" /\ r.holds = x
  <2>1. lcRun[x] \in LcRuns
    BY RunTyped
  <2> QED
    BY <2>1 DEF LcRuns
<1>2. lcRun' = [lcRun EXCEPT ![x] = r] /\ lcRun[x].pc = "begin" /\ lcInbox.active = x
  BY RunTyped DEF LcRuns, LcClaim, Offered
<1> HIDE DEF r
<1>3. lcRun'[x] = r
  BY <1>2, RunTyped
<1>4. Around(x) /\ UNCHANGED <<lcDev, lcStream>> /\ lcInbox'.active = x
  BY <1>2 DEF LcInv, LcTypes, LcInboxes, LcClaim, Around
<1>5. HandsInv(x)'
  BY <1>1, <1>2, <1>3, RunTyped DEF LcEach, HandsInv
<1>6. HeldInv(x)'
  BY <1>2, <1>3, <1>4, RunTyped DEF LcInv, SentInv, HeldInv
<1>7. AudioInv(x)'
  BY <1>1, <1>2, <1>3, <1>4, RunTyped DEF LcEach, AudioInv
<1>8. WholeInv(x)' /\ KeptInv(x)'
  BY <1>1, <1>2, <1>3, RunTyped DEF LcEach, HandsInv, WholeInv, KeptInv
<1> QED
  BY <1>1, <1>2, <1>4, <1>5, <1>6, <1>7, <1>8, CaptureStep DEF LcEach

LEMMA GivesUpInv ==
    ASSUME LcInv, NEW x \in LcEx, LcGivesUp(x)
    PROVE  LcInv'
  BY StillAround, EndsInv DEF LcGivesUp

LEMMA NotedInv ==
    ASSUME LcInv, NEW x \in LcEx, LcNoted(x)
    PROVE  LcInv'
<1>1. CASE lcRun[x].cancel
  BY <1>1, RunTyped, InvalidatedAround, EndsInv DEF LcNoted
<1>2. CASE ~lcRun[x].cancel
  <2> DEFINE r == [lcRun[x] EXCEPT !.pc = "items"]
  <2>1. r \in LcRuns /\ r.pcm = lcRun[x].pcm /\ r.holds = lcRun[x].holds
        /\ r.outcome = lcRun[x].outcome /\ r.pc = "items"
    BY RunTyped DEF LcRuns
  <2>2. lcRun' = [lcRun EXCEPT ![x] = r] /\ lcRun[x].pc = "claimed"
        /\ UNCHANGED <<lcDev, lcInbox, lcStream>>
    BY <1>2, RunTyped DEF LcRuns, LcNoted, LcGoes
  <2> HIDE DEF r
  <2> QED
    BY <2>1, <2>2, StillAround, GoesInv
<1> QED
  BY <1>1, <1>2

\* A chunk goes from the queue to the collector.
LEMMA ItemInv ==
    ASSUME LcInv, NEW x \in LcEx, LcItem(x)
    PROVE  LcInv'
<1> DEFINE s == lcStream[x]
           h == Head(s.queue)
           rest == Tail(s.queue)
           pcm == Append(lcRun[x].pcm, h)
           t == [s EXCEPT !.queue = rest]
           r == [lcRun[x] EXCEPT !.pcm = pcm]
<1>1. lcRun[x].pc = "items" /\ lcRun[x].holds = x
  BY RunTyped DEF LcItem
<1>2. s \in LcStreams /\ s.queue \in Seq(Nat) /\ s.queue # <<>> /\ s.got \in Nat
      /\ lcRun[x] \in LcRuns /\ lcRun[x].pcm \in Seq(Nat)
  BY <1>1, RunTyped DEF LcItem, LcStreams, LcRuns
<1>3. h \in Nat /\ rest \in Seq(Nat) /\ pcm \in Seq(Nat)
      /\ pcm \o rest = lcRun[x].pcm \o s.queue
  BY <1>2, HeadMoves
<1>4. lcStream' = [lcStream EXCEPT ![x] = t]
  BY <1>1, RunTyped DEF LcItem
<1>5. lcRun' = [lcRun EXCEPT ![x] = r]
  BY <1>1, RunTyped DEF LcItem
<1> HIDE DEF h, rest, pcm
<1>6. t \in LcStreams /\ t.queue = rest /\ t.got = s.got /\ t.terminal = s.terminal
  BY <1>2, <1>3 DEF LcStreams
<1>7. r \in LcRuns /\ r.pcm = pcm /\ r.pc = "items" /\ r.holds = x
      /\ r.outcome = lcRun[x].outcome
  BY <1>1, <1>2, <1>3 DEF LcRuns
<1> HIDE DEF t, r
<1>8. lcStream'[x] = t /\ lcRun'[x] = r /\ UNCHANGED <<lcDev, lcInbox>>
  BY <1>4, <1>5, RunTyped DEF LcItem
<1>9. Around(x)
  BY <1>4, <1>6, <1>8, RunTyped DEF Around, LcInv, LcTypes
<1>10. AudioInv(x)'
  <2>1. AudioInv(x)
    BY RunTyped DEF LcEach
  <2>2. s.terminal \in {"none", "end"} => pcm \o rest = Upto(s.got)
    BY <1>1, <1>3, <2>1 DEF AudioInv
  <2>3. lcRun'[x].pcm = pcm /\ lcStream'[x].queue = rest /\ lcStream'[x].got = s.got
        /\ lcStream'[x].terminal = s.terminal /\ UNCHANGED lcDev
    BY <1>6, <1>7, <1>8
  <2> HIDE DEF s
  <2> QED
    BY <2>1, <2>2, <2>3 DEF AudioInv, s
<1>11. HandsInv(x)' /\ HeldInv(x)' /\ WholeInv(x)' /\ KeptInv(x)'
  BY <1>1, <1>7, <1>8, RunTyped DEF LcEach, HandsInv, HeldInv, WholeInv, KeptInv
<1> QED
  BY <1>5, <1>7, <1>9, <1>10, <1>11, CaptureStep DEF LcEach

LEMMA RunUnchanged ==
    ASSUME LcInv, NEW x \in LcEx, UNCHANGED lcRun
    PROVE  lcRun' = [lcRun EXCEPT ![x] = lcRun[x]]
  BY RunTyped

LEMMA ExpiresInv ==
    ASSUME LcInv, NEW x \in LcEx, LcExpires(x)
    PROVE  LcInv'
  BY RunTyped, RunUnchanged, InvalidatedAround, GoesInv DEF LcExpires

\* Only an END, and nothing left in the queue: the collector has it all.
LEMMA TerminalInv ==
    ASSUME LcInv, NEW x \in LcEx, LcTerminal(x)
    PROVE  LcInv'
<1>1. lcRun[x].pc = "items" /\ lcRun[x].holds = x /\ Around(x)
      /\ UNCHANGED <<lcDev, lcInbox, lcStream>>
  BY RunTyped, StillAround DEF LcTerminal
<1>2. CASE LcEnds(x, "invalid")
  BY <1>1, <1>2, EndsInv
<1>3. CASE LcGoes(x, "waiting") /\ lcStream[x].terminal = "end"
  <2> DEFINE r == [lcRun[x] EXCEPT !.pc = "waiting"]
  <2>1. r \in LcRuns /\ r.pcm = lcRun[x].pcm /\ r.holds = x
        /\ r.outcome = lcRun[x].outcome /\ r.pc = "waiting"
    <3>1. lcRun[x] \in LcRuns /\ lcRun[x].holds = x
      BY <1>1, RunTyped
    <3> QED
      BY <3>1 DEF LcRuns
  <2>2. lcRun' = [lcRun EXCEPT ![x] = r]
    BY <1>3, RunTyped DEF LcRuns, LcGoes
  <2> HIDE DEF r
  <2>3. lcRun'[x] = r
    BY <2>2, RunTyped
  <2>4. lcRun[x].pcm \o lcStream[x].queue = Upto(lcStream[x].got)
        /\ lcStream[x].got = LcSpoken /\ lcDev.at[x] = "ended"
    BY <1>1, <1>3, RunTyped DEF LcEach, AudioInv
  <2>5. lcStream[x].queue = <<>> /\ lcRun[x].pcm \in Seq(Nat)
    BY <1>1, RunTyped DEF LcTerminal, LcRuns
  <2>6. lcRun[x].pcm = LcUtterance
    BY <2>4, <2>5, UptoSeq, ConcatEmptySeq, LcAssumption DEF LcAssumption
  <2>7. HandsInv(x)' /\ HeldInv(x)' /\ KeptInv(x)'
    BY <1>1, <2>1, <2>3, RunTyped DEF LcEach, HandsInv, HeldInv, KeptInv
  <2>8. AudioInv(x)' /\ WholeInv(x)'
    BY <1>1, <2>1, <2>3, <2>4, <2>6, RunTyped DEF LcEach, AudioInv, WholeInv
  <2> QED
    BY <1>1, <2>1, <2>2, <2>7, <2>8, CaptureStep DEF LcEach
<1> QED
  BY <1>1, <1>2, <1>3 DEF LcTerminal

LEMMA CaptureResultInv ==
    ASSUME LcInv, NEW x \in LcEx, LcResult(x)
    PROVE  LcInv'
  BY StillAround, EndsInv DEF LcResult

LEMMA CaptureCancelInv ==
    ASSUME LcInv, NEW x \in LcEx, LcCancel(x)
    PROVE  LcInv'
<1>1. PICK left \in BOOLEAN :
          lcRun' = [lcRun EXCEPT ![x].cancel = TRUE, ![x].awaited = ~left]
  BY DEF LcCancel
<1> DEFINE awaited == ~left
           r == [lcRun[x] EXCEPT !.cancel = TRUE, !.awaited = awaited]
<1>2. awaited \in BOOLEAN
  OBVIOUS
<1>3. lcRun' = [lcRun EXCEPT ![x] = r]
  BY <1>1, RunTyped DEF LcRuns
<1> HIDE DEF awaited
<1>4. r \in LcRuns /\ r.pcm = lcRun[x].pcm /\ r.holds = lcRun[x].holds
      /\ r.outcome = lcRun[x].outcome /\ r.pc = lcRun[x].pc
  BY <1>2, RunTyped DEF LcRuns
<1> HIDE DEF r
<1>5. Around(x) /\ UNCHANGED lcInbox
      /\ (lcStream'[x] = lcStream[x] \/ lcStream'[x].terminal = "invalid")
  BY RunTyped, StillAround, InvalidatedAround DEF LcCancel
<1> QED
  BY <1>3, <1>4, <1>5, GoesInv

LEMMA ReturnedInv ==
    ASSUME LcInv, NEW x \in LcEx, LcReturned(x)
    PROVE  LcInv'
<1> DEFINE r == [lcRun[x] EXCEPT !.awaited = FALSE]
<1>1. r \in LcRuns /\ r.pcm = lcRun[x].pcm /\ r.holds = lcRun[x].holds
      /\ r.outcome = lcRun[x].outcome /\ r.pc = lcRun[x].pc
  BY RunTyped DEF LcRuns
<1>2. lcRun' = [lcRun EXCEPT ![x] = r] /\ UNCHANGED <<lcDev, lcInbox, lcStream>>
  BY RunTyped DEF LcRuns, LcReturned
<1> HIDE DEF r
<1> QED
  BY <1>1, <1>2, StillAround, GoesInv

LEMMA CaptureThreadInv ==
    ASSUME LcInv, NEW x \in LcEx, LcThread(x)
    PROVE  LcInv'
<1>1. CASE LcBury(x) \/ LcClaim(x) \/ LcGivesUp(x) \/ LcNoted(x)
  BY <1>1, BuryInv, ClaimInv, GivesUpInv, NotedInv
<1>2. CASE LcItem(x) \/ LcExpires(x) \/ LcTerminal(x) \/ LcResult(x)
  BY <1>2, ItemInv, ExpiresInv, TerminalInv, CaptureResultInv
<1> QED
  BY <1>1, <1>2 DEF LcThread

LEMMA LcInvariance == LcSpec => []LcInv
<1>1. LcInv /\ [LcNext]_lcVars => LcInv'
  <2> SUFFICES ASSUME LcInv, [LcNext]_lcVars PROVE LcInv'
    OBVIOUS
  <2>1. CASE LcNext
    <3>1. CASE LcRepeats \/ LcLinkClosed
      BY <3>1, RepeatsInv, LinkClosedInv
    <3>2. CASE \E x \in LcEx : LcBegins(x) \/ LcSpeaks(x) \/ LcCloses(x)
      BY <3>2, BeginsInv, SpeaksInv, ClosesInv
    <3>3. CASE \E x \in LcEx : LcCapture(x) \/ LcCancel(x) \/ LcReturned(x)
      BY <3>3, CaptureInv, CaptureCancelInv, ReturnedInv
    <3>4. CASE \E x \in LcEx : LcThread(x)
      BY <3>4, CaptureThreadInv
    <3> QED
      BY <2>1, <3>1, <3>2, <3>3, <3>4 DEF LcNext
  <2>2. CASE UNCHANGED lcVars
    <3>1. UNCHANGED <<lcDev, lcInbox, lcStream, lcRun>>
      BY <2>2 DEF lcVars
    <3>2. \A x \in LcEx : HeldInv(x)'
      BY <3>1 DEF LcInv, LcEach, HeldInv
    <3>3. lcDev' \in LcDevices /\ LastSentInv'
      BY <3>1 DEF LcInv, LcTypes, SentInv, LastSentInv
    <3> QED
      BY <3>1, <3>2, <3>3, NothingOffered, WireStep
  <2> QED
    BY <2>1, <2>2
<1> QED
  BY <1>1, LcInitInv, PTL DEF LcSpec

\* For any number of exchanges, frames and faults, any wrap of the sequence and
\* any size of the queue and the tombstones: a capture that reaches the worker's
\* result holds the whole utterance, once and in order, of a stream its own device
\* ended (audio/live.py 137-305), and no capture takes the delivery of another's
\* stream (next_stream, audio/live.py 480-518).
THEOREM CaptureHearsWhole == LcSpec => []LcSound
<1>1. LcInv => LcSound
  BY DEF LcInv, LcEach, HandsInv, WholeInv, KeptInv, LcSound, LcWhole, LcSuccessorKept
<1> QED
  BY <1>1, LcInvariance, PTL

-----------------------------------------------------------------------------
(* LiveWorker: no loaded model is left to nobody.                            *)

LwWorkers == [at : {"none", "loading", "broken", "running", "empty", "stopping", "done"},
              open : BOOLEAN, ended : BOOLEAN, queue : Seq(Seq(Nat)), staged : Seq(Nat),
              heard : Seq(Nat), failed : BOOLEAN]
LwSlots == [warm : Nat, pc : {"off", "joining", "starting", "ending"}, worker : Nat,
            built : Nat, fails : Nat, disabled : BOOLEAN,
            closing : {"no", "yes", "done"}, wanted : BOOLEAN]
LwRuns == [pc : {"idle", "offering", "waiting", "discarded", "finalized", "over"},
           worker : Nat, offered : Nat, cancel : BOOLEAN,
           outcome : {"none", "valid", "invalid"}]

LwTypes == /\ lwWorker \in [LwIds -> LwWorkers] /\ lwSlot \in LwSlots
           /\ lwRun \in [LwCaptures -> LwRuns]

\* Worker i has been built.
Built(i) == i \in LwIds /\ i <= lwSlot.built

SlotInv ==
    /\ lwSlot.warm # 0 => Built(lwSlot.warm)
    /\ lwSlot.pc = "starting" => Built(lwSlot.worker)
    /\ lwSlot.built <= MaxLwBuilds
WorkerInv(x) ==
    /\ lwRun[x].pc = "idle" => lwRun[x].worker = 0
    /\ lwRun[x].pc \notin {"idle", "over"} => Built(lwRun[x].worker)
    /\ lwRun[x].pc \in {"waiting", "finalized"} => lwWorker[lwRun[x].worker].ended = TRUE

\* Worker i holds a model that nobody has told to let go, and somebody will.
Loaded(i) == lwWorker[i].at \in {"loading", "running", "empty"} /\ lwWorker[i].ended # TRUE
Minded(i) ==
    \/ i = lwSlot.warm
    \/ lwSlot.pc = "starting" /\ lwSlot.worker = i
    \/ \E x \in LwCaptures : lwRun[x].worker = i /\ lwRun[x].pc # "over"

LwInv == /\ LwTypes /\ SlotInv /\ \A x \in LwCaptures : WorkerInv(x)
         /\ \A i \in LwIds : Loaded(i) => Minded(i)

LEMMA LwInitInv == ASSUME LwInit PROVE LwInv
<1>1. LwNone \in LwWorkers
  BY DEF LwNone, LwWorkers
<1> DEFINE idle == [pc |-> "idle", worker |-> 0, offered |-> 0, cancel |-> FALSE,
                    outcome |-> "none"]
<1>2. idle \in LwRuns /\ lwRun = [x \in LwCaptures |-> idle]
  BY DEF LwInit, LwRuns
<1>3. lwSlot \in LwSlots /\ SlotInv
  BY LwAssumption DEF LwAssumption, LwInit, LwSlots, SlotInv
<1>4. lwWorker = [i \in LwIds |-> LwNone]
  BY DEF LwInit
<1>5. LwTypes
  BY <1>1, <1>2, <1>3, <1>4 DEF LwTypes
<1>6. \A x \in LwCaptures : WorkerInv(x)
  BY <1>2 DEF WorkerInv
<1>7. \A i \in LwIds : ~Loaded(i)
  BY <1>4 DEF Loaded, LwNone
<1> QED
  BY <1>3, <1>5, <1>6, <1>7 DEF LwInv

\* What its callers do to a worker: it never ends less than it did.
KeepsWorker(w, v) == v \in LwWorkers /\ v.at = w.at /\ (w.ended = TRUE => v.ended = TRUE)

LEMMA PublishedKeeps ==
    ASSUME NEW w \in LwWorkers, NEW chunk \in Seq(Nat)
    PROVE  KeepsWorker(w, PublishedChunk(w, chunk)) /\ PublishedChunk(w, chunk).ended = w.ended
<1> DEFINE q == Append(w.queue, chunk)
<1>1. w.queue \in Seq(Seq(Nat))
  BY DEF LwWorkers
<1>2. q \in Seq(Seq(Nat))
  BY <1>1
<1> HIDE DEF q
<1>3. KeepsWorker(w, [w EXCEPT !.queue = q]) /\ [w EXCEPT !.queue = q].ended = w.ended
  BY <1>2 DEF LwWorkers, KeepsWorker
<1>4. KeepsWorker(w, [w EXCEPT !.failed = TRUE, !.open = FALSE])
      /\ [w EXCEPT !.failed = TRUE, !.open = FALSE].ended = w.ended
  BY DEF LwWorkers, KeepsWorker
<1>5. [w EXCEPT !.queue = Append(@, chunk)] = [w EXCEPT !.queue = q]
  BY DEF LwWorkers, q
<1> QED
  BY <1>3, <1>4, <1>5 DEF PublishedChunk

\* A record whose staged frames are replaced.
LEMMA StagedKeeps ==
    ASSUME NEW w \in LwWorkers, NEW s \in Seq(Nat)
    PROVE  KeepsWorker(w, [w EXCEPT !.staged = s])
  BY DEF LwWorkers, KeepsWorker

LEMMA OfferedKeeps ==
    ASSUME NEW w \in LwWorkers, NEW n \in Nat
    PROVE  KeepsWorker(w, WorkerOffered(w, n))
<1> DEFINE s == Append(w.staged, n)
           e == <<>>
<1>1. w.staged \in Seq(Nat) /\ e \in Seq(Nat)
  BY DEF LwWorkers
<1>2. s \in Seq(Nat)
  BY <1>1
<1>3. [w EXCEPT !.staged = Append(@, n)] = [w EXCEPT !.staged = s]
  BY DEF LwWorkers
<1> DEFINE v == [w EXCEPT !.staged = e]
<1>4. WorkerOffered(w, n) \in {w, [w EXCEPT !.staged = s], PublishedChunk(v, s)}
  BY <1>3 DEF WorkerOffered
<1> HIDE DEF s, e
<1>5. KeepsWorker(w, v) /\ KeepsWorker(w, [w EXCEPT !.staged = s])
  BY <1>1, <1>2, StagedKeeps
<1> HIDE DEF v
<1>6. KeepsWorker(v, PublishedChunk(v, s))
  BY <1>2, <1>5, PublishedKeeps DEF KeepsWorker
<1>7. KeepsWorker(w, w)
  BY DEF KeepsWorker
<1> QED
  BY <1>4, <1>5, <1>6, <1>7 DEF KeepsWorker

LEMMA EndedKeeps ==
    ASSUME NEW w \in LwWorkers
    PROVE  KeepsWorker(w, WorkerEnded(w)) /\ WorkerEnded(w).ended = TRUE
<1> DEFINE v == IF w.open /\ w.staged # <<>> THEN PublishedChunk(w, w.staged) ELSE w
           e == <<>>
<1>1. w.staged \in Seq(Nat) /\ e \in Seq(Nat) /\ w.ended \in BOOLEAN
  BY DEF LwWorkers
<1>2. KeepsWorker(w, v)
  BY <1>1, PublishedKeeps DEF KeepsWorker
<1>3. WorkerEnded(w) = IF w.ended THEN w ELSE [v EXCEPT !.staged = e, !.ended = TRUE]
  BY DEF WorkerEnded
<1> HIDE DEF v, e
<1>4. KeepsWorker(w, [v EXCEPT !.staged = e, !.ended = TRUE])
      /\ [v EXCEPT !.staged = e, !.ended = TRUE].ended = TRUE
  BY <1>1, <1>2 DEF KeepsWorker, LwWorkers
<1>5. KeepsWorker(w, w)
  BY DEF KeepsWorker
<1> QED
  BY <1>1, <1>3, <1>4, <1>5

LEMMA AbortedKeeps ==
    ASSUME NEW w \in LwWorkers
    PROVE  KeepsWorker(w, WorkerAborted(w)) /\ WorkerAborted(w).ended = TRUE
<1> DEFINE e == <<>>
<1>1. e \in Seq(Nat) /\ WorkerAborted(w) = [w EXCEPT !.failed = TRUE, !.open = FALSE,
                                                    !.staged = e, !.ended = TRUE]
  BY DEF WorkerAborted
<1> HIDE DEF e
<1> QED
  BY <1>1 DEF KeepsWorker, LwWorkers

\* Nobody starts to hold a model, and no input that ended opens again.
Calmer ==
    /\ lwWorker' \in [LwIds -> LwWorkers]
    /\ \A i \in LwIds : /\ Loaded(i)' => Loaded(i)
                        /\ lwWorker[i].ended = TRUE => lwWorker'[i].ended = TRUE

LEMMA StillCalm ==
    ASSUME LwInv, UNCHANGED lwWorker
    PROVE  Calmer
  BY DEF LwInv, LwTypes, Calmer, Loaded

LEMMA ChangedCalm ==
    ASSUME LwInv, NEW i \in LwIds, NEW v \in LwWorkers, LwChanges(i, v),
           lwWorker[i].ended = TRUE => v.ended = TRUE,
           v.at \in {"loading", "running", "empty"} /\ v.ended # TRUE => Loaded(i)
    PROVE  Calmer /\ lwWorker'[i] = v
<1>1. lwWorker \in [LwIds -> LwWorkers]
  BY DEF LwInv, LwTypes
<1>2. lwWorker' \in [LwIds -> LwWorkers] /\ lwWorker'[i] = v
      /\ \A j \in LwIds \ {i} : lwWorker'[j] = lwWorker[j]
  BY <1>1 DEF LwChanges
<1> QED
  BY <1>2 DEF Calmer, Loaded

LEMMA KeptCalm ==
    ASSUME LwInv, NEW i \in LwIds, NEW v, LwChanges(i, v), KeepsWorker(lwWorker[i], v)
    PROVE  Calmer /\ lwWorker'[i] = v
  BY ChangedCalm DEF KeepsWorker, Loaded

LEMMA LwTyped ==
    ASSUME LwInv
    PROVE  /\ lwSlot \in LwSlots /\ SlotInv
           /\ \A i \in LwIds : lwWorker[i] \in LwWorkers
           /\ \A x \in LwCaptures : lwRun[x] \in LwRuns /\ WorkerInv(x)
           /\ lwRun \in [LwCaptures -> LwRuns]
  BY DEF LwInv, LwTypes

\* A turn of a worker's thread.
LEMMA CalmInv ==
    ASSUME LwInv, Calmer, UNCHANGED <<lwSlot, lwRun>>
    PROVE  LwInv'
<1>1. LwTypes' /\ SlotInv'
  BY DEF LwInv, LwTypes, SlotInv, Built, Calmer
<1>2. ASSUME NEW x \in LwCaptures PROVE WorkerInv(x)'
  BY DEF LwInv, WorkerInv, Built, Calmer
<1>3. ASSUME NEW i \in LwIds, Loaded(i)' PROVE Minded(i)'
  BY <1>3 DEF LwInv, Minded, Calmer
<1> QED
  BY <1>1, <1>2, <1>3 DEF LwInv

LEMMA ThreadInv ==
    ASSUME LwInv, NEW i \in LwIds, LwThread(i)
    PROVE  LwInv'
<1> DEFINE w == lwWorker[i]
<1>1. w \in LwWorkers /\ UNCHANGED <<lwSlot, lwRun>>
  BY LwTyped DEF LwThread, LwLoads, LwTurns, LwLooks, LwStops
<1>2. CASE LwLoads(i)
  <2>1. ASSUME NEW v \in {[w EXCEPT !.at = "running"],
                          [w EXCEPT !.at = "broken", !.failed = TRUE]}
        PROVE  v \in LwWorkers /\ v.ended = w.ended
    BY <1>1 DEF LwWorkers
  <2>2. w.at = "loading"
    BY <1>2 DEF LwLoads
  <2> QED
    BY <1>1, <1>2, <2>1, <2>2, ChangedCalm, CalmInv DEF LwLoads, Loaded
<1>3. CASE LwTurns(i)
  <2>1. w.queue \in Seq(Seq(Nat)) /\ w.heard \in Seq(Nat) /\ w.at = "running"
    BY <1>1, <1>3 DEF LwWorkers, LwTurns
  <2>2. CASE w.queue = <<>>
    <3>1. LwChanges(i, [w EXCEPT !.at = "empty"])
      BY <1>3, <2>2 DEF LwTurns
    <3>2. [w EXCEPT !.at = "empty"] \in LwWorkers /\ [w EXCEPT !.at = "empty"].ended = w.ended
      BY <1>1 DEF LwWorkers
    <3> QED
      BY <1>1, <2>1, <3>1, <3>2, ChangedCalm, CalmInv DEF Loaded
  <2>3. CASE w.queue # <<>>
    <3> DEFINE q == Tail(w.queue)
               heard == w.heard \o Head(w.queue)
               v == [w EXCEPT !.queue = q, !.heard = heard]
    <3>1. q \in Seq(Seq(Nat)) /\ heard \in Seq(Nat)
      BY <2>1, <2>3
    <3>2. LwChanges(i, v)
      BY <1>1, <1>3, <2>3 DEF LwTurns, LwWorkers
    <3> HIDE DEF q, heard
    <3>3. v \in LwWorkers /\ v.ended = w.ended
      BY <1>1, <3>1 DEF LwWorkers
    <3> QED
      BY <1>1, <2>1, <3>2, <3>3, ChangedCalm, CalmInv DEF Loaded
  <2> QED
    BY <2>2, <2>3
<1>4. CASE LwLooks(i)
  <2> DEFINE at == IF w.ended THEN "stopping" ELSE "running"
             v == [w EXCEPT !.at = at]
  <2>1. w.at = "empty" /\ LwChanges(i, v) /\ at \in {"stopping", "running"}
    BY <1>4 DEF LwLooks
  <2> HIDE DEF at
  <2>2. v \in LwWorkers /\ v.ended = w.ended
    BY <1>1, <2>1 DEF LwWorkers
  <2> QED
    BY <1>1, <2>1, <2>2, ChangedCalm, CalmInv DEF Loaded
<1>5. CASE LwStops(i)
  <2>1. ASSUME NEW v \in {[w EXCEPT !.at = "done"],
                          [w EXCEPT !.at = "done", !.failed = TRUE]}
        PROVE  v \in LwWorkers /\ v.ended = w.ended /\ v.at = "done"
    BY <1>1 DEF LwWorkers
  <2> QED
    BY <1>1, <1>5, <2>1, ChangedCalm, CalmInv DEF LwStops
<1> QED
  BY <1>2, <1>3, <1>4, <1>5 DEF LwThread

\* A step of a capture that goes on with its worker.
LEMMA GoesOnInv ==
    ASSUME LwInv, Calmer, UNCHANGED lwSlot, NEW x \in LwCaptures, NEW r \in LwRuns,
           lwRun' = [lwRun EXCEPT ![x] = r], r.worker = lwRun[x].worker,
           lwRun[x].pc \notin {"idle", "over"}, r.pc \notin {"idle", "over"},
           r.pc \in {"waiting", "finalized"} => lwWorker'[r.worker].ended = TRUE
    PROVE  LwInv'
<1>1. lwRun' \in [LwCaptures -> LwRuns] /\ lwRun'[x] = r
      /\ \A y \in LwCaptures \ {x} : lwRun'[y] = lwRun[y]
  BY LwTyped
<1>2. LwTypes' /\ SlotInv'
  BY <1>1 DEF LwInv, LwTypes, SlotInv, Built, Calmer
<1>3. ASSUME NEW y \in LwCaptures PROVE WorkerInv(y)'
  <2>1. WorkerInv(y)
    BY LwTyped
  <2>2. CASE y = x
    BY <1>1, <2>1, <2>2 DEF WorkerInv, Built
  <2>3. CASE y # x
    BY <1>1, <2>1, <2>3 DEF WorkerInv, Built, Calmer
  <2> QED
    BY <2>2, <2>3
<1>4. ASSUME NEW i \in LwIds, Loaded(i)' PROVE Minded(i)'
  <2>1. Minded(i)
    BY <1>4 DEF LwInv, Calmer
  <2>2. \A y \in LwCaptures : lwRun'[y].worker = lwRun[y].worker
                              /\ (lwRun[y].pc # "over" => lwRun'[y].pc # "over")
    BY <1>1
  <2> QED
    BY <2>1, <2>2 DEF Minded
<1> QED
  BY <1>2, <1>3, <1>4 DEF LwInv

LEMMA OfferInv ==
    ASSUME LwInv, NEW x \in LwCaptures, LwOffer(x)
    PROVE  LwInv'
<1> DEFINE w == lwRun[x].worker
           n == lwRun[x].offered
           r == [lwRun[x] EXCEPT !.offered = n + 1]
<1>1. lwRun[x] \in LwRuns /\ lwRun[x].pc = "offering" /\ w \in LwIds /\ n \in Nat
      /\ lwWorker[w] \in LwWorkers
  BY LwTyped DEF LwOffer, WorkerInv, Built, LwRuns
<1>2. Calmer
  <2>1. KeepsWorker(lwWorker[w], WorkerOffered(lwWorker[w], n))
    BY <1>1, OfferedKeeps
  <2> QED
    BY <1>1, <2>1, KeptCalm DEF LwOffer
<1>3. r \in LwRuns /\ r.worker = w /\ r.pc = "offering"
  BY <1>1 DEF LwRuns
<1>4. lwRun' = [lwRun EXCEPT ![x] = r] /\ UNCHANGED lwSlot
  BY <1>1, LwTyped DEF LwOffer, LwRuns
<1> HIDE DEF r
<1> QED
  BY <1>1, <1>2, <1>3, <1>4, GoesOnInv

\* _CaptureRun's thread goes on to another place.
LEMMA LwGone ==
    ASSUME LwInv, NEW x \in LwCaptures, NEW pc, NEW o \in {"none", "valid", "invalid"},
           pc \in {"waiting", "discarded", "finalized", "over"}, LwGoes(x, pc, o)
    PROVE  \E r \in LwRuns : /\ lwRun' = [lwRun EXCEPT ![x] = r] /\ r.pc = pc
                             /\ r.worker = lwRun[x].worker /\ r.outcome = o
<1> DEFINE r == [lwRun[x] EXCEPT !.pc = pc, !.outcome = o]
<1>1. lwRun[x] \in LwRuns
  BY LwTyped
<1>2. r \in LwRuns /\ r.pc = pc /\ r.worker = lwRun[x].worker /\ r.outcome = o
  BY <1>1 DEF LwRuns
<1>3. lwRun' = [lwRun EXCEPT ![x] = r]
  BY <1>1, LwTyped DEF LwGoes, LwRuns
<1> HIDE DEF r
<1> QED
  BY <1>2, <1>3

LEMMA InputEndsInv ==
    ASSUME LwInv, NEW x \in LwCaptures, LwInputEnds(x)
    PROVE  LwInv'
<1> DEFINE w == lwRun[x].worker
<1>1. lwRun[x].pc = "offering" /\ w \in LwIds /\ lwWorker[w] \in LwWorkers
      /\ UNCHANGED lwSlot
  BY LwTyped DEF LwInputEnds, WorkerInv, Built
<1>2. CASE LwChanges(w, WorkerEnded(lwWorker[w])) /\ LwGoes(x, "waiting", "none")
  <2>1. Calmer /\ lwWorker'[w].ended = TRUE
    <3>1. KeepsWorker(lwWorker[w], WorkerEnded(lwWorker[w]))
          /\ WorkerEnded(lwWorker[w]).ended = TRUE
      BY <1>1, EndedKeeps
    <3> QED
      BY <1>1, <1>2, <3>1, KeptCalm
  <2>2. PICK r \in LwRuns : lwRun' = [lwRun EXCEPT ![x] = r] /\ r.pc = "waiting"
                            /\ r.worker = w
    BY <1>2, LwGone
  <2> QED
    BY <1>1, <2>1, <2>2, GoesOnInv
<1>3. CASE LwGoes(x, "discarded", "invalid") /\ UNCHANGED lwWorker
  <2>1. PICK r \in LwRuns : lwRun' = [lwRun EXCEPT ![x] = r] /\ r.pc = "discarded"
                            /\ r.worker = w
    BY <1>3, LwGone
  <2> QED
    BY <1>1, <1>3, <2>1, StillCalm, GoesOnInv
<1> QED
  BY <1>2, <1>3 DEF LwInputEnds

LEMMA WorkerResultInv ==
    ASSUME LwInv, NEW x \in LwCaptures, LwResult(x)
    PROVE  LwInv'
<1> DEFINE w == lwRun[x].worker
           v == [lwWorker[w] EXCEPT !.failed = TRUE]
<1>1. lwRun[x].pc = "waiting" /\ w \in LwIds /\ lwWorker[w] \in LwWorkers
      /\ lwWorker[w].ended = TRUE /\ UNCHANGED lwSlot
  BY LwTyped DEF LwResult, WorkerInv, Built
<1>2. v \in LwWorkers /\ KeepsWorker(lwWorker[w], v)
  BY <1>1 DEF LwWorkers, KeepsWorker
<1>3. PICK o \in {"none", "valid", "invalid"} : LwGoes(x, "finalized", o)
  BY DEF LwResult
<1>4. Calmer
  BY <1>1, <1>2, StillCalm, KeptCalm DEF LwResult
<1>5. lwWorker'[w].ended = TRUE
  BY <1>1, <1>4 DEF Calmer
<1>6. PICK r \in LwRuns : lwRun' = [lwRun EXCEPT ![x] = r] /\ r.pc = "finalized"
                          /\ r.worker = w
  BY <1>3, LwGone
<1> QED
  BY <1>1, <1>4, <1>5, <1>6, GoesOnInv

LEMMA WorkerCancelInv ==
    ASSUME LwInv, NEW x \in LwCaptures, LwCancel(x)
    PROVE  LwInv'
<1> DEFINE w == lwRun[x].worker
           r == [lwRun[x] EXCEPT !.cancel = TRUE]
<1>1. lwRun[x] \in LwRuns /\ lwRun[x].pc \notin {"idle", "over"} /\ w \in LwIds
      /\ lwWorker[w] \in LwWorkers /\ UNCHANGED lwSlot
  BY LwTyped DEF LwCancel, WorkerInv, Built
<1>2. Calmer /\ lwWorker'[w].ended = TRUE
  BY <1>1, AbortedKeeps, KeptCalm DEF LwCancel
<1>3. r \in LwRuns /\ r.worker = w /\ r.pc = lwRun[x].pc
  BY <1>1 DEF LwRuns
<1>4. lwRun' = [lwRun EXCEPT ![x] = r]
  BY <1>1, LwTyped DEF LwCancel, LwRuns
<1> HIDE DEF r
<1> QED
  BY <1>1, <1>2, <1>3, <1>4, GoesOnInv

\* A step of the slot: whoever loses a worker there has told it to let go.
LEMMA SlotStep ==
    ASSUME LwInv, Calmer, UNCHANGED lwRun, lwSlot' \in LwSlots,
           lwSlot'.built = lwSlot.built,
           lwSlot'.warm # 0 => Built(lwSlot'.warm),
           lwSlot'.pc = "starting" => lwSlot.pc = "starting" /\ lwSlot'.worker = lwSlot.worker,
           \A i \in LwIds : \/ i = lwSlot.warm
                            \/ lwSlot.pc = "starting" /\ i = lwSlot.worker
                => \/ i = lwSlot'.warm \/ lwWorker'[i].ended = TRUE
                   \/ lwWorker'[i].at \notin {"loading", "running", "empty"}
                   \/ lwSlot'.pc = "starting" /\ i = lwSlot'.worker
    PROVE  LwInv'
<1>1. LwTypes' /\ SlotInv'
  BY DEF LwInv, LwTypes, SlotInv, Built, Calmer
<1>2. ASSUME NEW x \in LwCaptures PROVE WorkerInv(x)'
  <2>1. WorkerInv(x)
    BY LwTyped
  <2> QED
    BY <2>1 DEF WorkerInv, Built, Calmer
<1>3. ASSUME NEW i \in LwIds, Loaded(i)' PROVE Minded(i)'
  <2>1. Minded(i) /\ lwWorker'[i].at \in {"loading", "running", "empty"}
        /\ lwWorker'[i].ended # TRUE
    BY <1>3 DEF LwInv, Calmer, Loaded
  <2>2. CASE \E x \in LwCaptures : lwRun[x].worker = i /\ lwRun[x].pc # "over"
    BY <2>2 DEF Minded
  <2>3. CASE i = lwSlot.warm \/ (lwSlot.pc = "starting" /\ i = lwSlot.worker)
    BY <2>1, <2>3 DEF Minded
  <2> QED
    BY <2>1, <2>2, <2>3 DEF Minded
<1> QED
  BY <1>1, <1>2, <1>3 DEF LwInv

\* The slot's record has these fields and no other.
LEMMA SlotFields ==
    ASSUME LwInv
    PROVE  /\ lwSlot \in LwSlots
           /\ lwSlot.warm \in Nat /\ lwSlot.worker \in Nat /\ lwSlot.built \in Nat
           /\ lwSlot.fails \in Nat /\ lwSlot.disabled \in BOOLEAN /\ lwSlot.wanted \in BOOLEAN
           /\ lwSlot.closing \in {"no", "yes", "done"}
           /\ 0 \notin LwIds
           /\ lwSlot.warm # 0 => Built(lwSlot.warm)
  BY LwTyped DEF LwSlots, SlotInv, LwIds

\* The next build: the worker is new, and its build thread minds it.
LEMMA JoinedInv ==
    ASSUME LwInv, WarmJoined
    PROVE  LwInv'
<1>1. lwSlot.pc = "joining" /\ UNCHANGED lwRun
  BY DEF WarmJoined
<1>2. CASE lwSlot.closing # "no"
  <2>1. lwSlot' = [lwSlot EXCEPT !.pc = "ending"] /\ UNCHANGED lwWorker
    BY <1>2 DEF WarmJoined
  <2>2. lwSlot' \in LwSlots /\ lwSlot'.built = lwSlot.built /\ lwSlot'.warm = lwSlot.warm
        /\ lwSlot'.pc = "ending"
    BY <2>1, SlotFields DEF LwSlots
  <2> QED
    BY <1>1, <2>1, <2>2, SlotFields, StillCalm, SlotStep
<1>3. CASE lwSlot.closing = "no"
  <2> DEFINE new == lwSlot.built + 1
  <2>1. new \in LwIds /\ new > lwSlot.built /\ new \in Nat
    BY <1>3, LwAssumption, SlotFields DEF LwAssumption, WarmJoined, LwIds
  <2>2. lwSlot' = [lwSlot EXCEPT !.pc = "starting", !.built = new, !.worker = new]
    BY <1>3, SlotFields DEF WarmJoined, LwSlots
  <2>3. LwChanges(new, LwNew)
    BY <1>3 DEF WarmJoined
  <2> HIDE DEF new
  <2>4. lwSlot' \in LwSlots /\ lwSlot'.built = new /\ lwSlot'.warm = lwSlot.warm
        /\ lwSlot'.pc = "starting" /\ lwSlot'.worker = new
    BY <2>1, <2>2, SlotFields DEF LwSlots
  <2>5. LwNew \in LwWorkers
    <3>1. LwNone \in LwWorkers
      BY DEF LwNone, LwWorkers
    <3> QED
      BY <3>1 DEF LwNew, LwWorkers
  <2>6. /\ lwWorker' \in [LwIds -> LwWorkers]
        /\ \A i \in LwIds \ {new} : lwWorker'[i] = lwWorker[i]
    BY <2>1, <2>3, <2>5 DEF LwChanges, LwInv, LwTypes
  <2>7. LwTypes' /\ SlotInv'
    <3>1. lwSlot'.warm # 0 => lwSlot'.warm \in LwIds /\ lwSlot'.warm <= lwSlot'.built
      BY <2>1, <2>4, SlotFields DEF Built
    <3>2. lwSlot'.worker \in LwIds /\ lwSlot'.worker <= lwSlot'.built
          /\ lwSlot'.built <= MaxLwBuilds
      BY <2>1, <2>4, LwAssumption DEF LwAssumption, LwIds
    <3> QED
      BY <1>1, <2>4, <2>6, <3>1, <3>2 DEF LwInv, LwTypes, SlotInv, Built
  <2>8. ASSUME NEW x \in LwCaptures PROVE WorkerInv(x)'
    <3>1. WorkerInv(x)
      BY LwTyped
    <3>2. ASSUME Built(lwRun[x].worker)
          PROVE  /\ Built(lwRun[x].worker)'
                 /\ lwWorker'[lwRun[x].worker] = lwWorker[lwRun[x].worker]
      <4>1. lwRun[x].worker \in LwIds /\ lwRun[x].worker <= lwSlot.built
            /\ lwRun[x].worker \in Nat
        BY <3>2 DEF Built, LwIds
      <4>2. lwRun[x].worker # new /\ lwRun[x].worker <= new
        BY <2>1, <4>1, SlotFields
      <4> QED
        BY <1>1, <2>4, <2>6, <4>1, <4>2 DEF Built
    <3> QED
      BY <1>1, <3>1, <3>2 DEF WorkerInv
  <2>9. ASSUME NEW i \in LwIds, Loaded(i)' PROVE Minded(i)'
    <3>1. CASE i = new
      BY <2>4, <3>1 DEF Minded
    <3>2. CASE i # new
      <4>1. Loaded(i)
        BY <2>6, <2>9, <3>2 DEF Loaded
      <4> QED
        BY <1>1, <2>4, <4>1 DEF LwInv, Minded
    <3> QED
      BY <3>1, <3>2
  <2> QED
    BY <2>7, <2>8, <2>9 DEF LwInv
<1> QED
  BY <1>2, <1>3

LEMMA LandsInv ==
    ASSUME LwInv, WarmLands
    PROVE  LwInv'
<1> DEFINE w == lwSlot.worker
           warm == IF lwSlot.closing # "no" \/ lwSlot.warm # 0 THEN lwSlot.warm ELSE w
<1>1. lwSlot.pc = "starting" /\ UNCHANGED lwRun /\ w \in LwIds /\ Built(w)
  BY LwTyped DEF WarmLands, SlotInv, Built
<1>2. warm \in Nat /\ (warm # 0 => Built(warm)) /\ (lwSlot.warm # 0 => warm = lwSlot.warm)
  BY <1>1, SlotFields
<1>3. lwSlot' = [lwSlot EXCEPT !.pc = "ending", !.fails = 0, !.warm = warm]
  BY SlotFields DEF WarmLands, LwSlots
<1>4. CASE warm = w /\ UNCHANGED lwWorker
  <2> HIDE DEF warm
  <2>1. lwSlot' \in LwSlots /\ lwSlot'.built = lwSlot.built /\ lwSlot'.warm = warm
        /\ lwSlot'.pc = "ending"
    BY <1>2, <1>3, SlotFields DEF LwSlots
  <2> QED
    BY <1>1, <1>2, <1>4, <2>1, SlotFields, StillCalm, SlotStep
<1>5. CASE LwChanges(w, WorkerAborted(lwWorker[w])) /\ warm = lwSlot.warm
  <2>1. lwWorker[w] \in LwWorkers
    BY <1>1, LwTyped
  <2>2. Calmer /\ lwWorker'[w].ended = TRUE
    BY <1>1, <1>5, <2>1, AbortedKeeps, KeptCalm
  <2> HIDE DEF warm
  <2>3. lwSlot' \in LwSlots /\ lwSlot'.built = lwSlot.built /\ lwSlot'.warm = warm
        /\ lwSlot'.pc = "ending"
    BY <1>2, <1>3, SlotFields DEF LwSlots
  <2> QED
    BY <1>1, <1>2, <1>5, <2>2, <2>3, SlotFields, SlotStep
<1> QED
  BY <1>4, <1>5 DEF WarmLands

LEMMA FailsInv ==
    ASSUME LwInv, WarmFails
    PROVE  LwInv'
<1> DEFINE w == lwSlot.worker
           fails == lwSlot.fails + 1
           disabled == lwSlot.disabled \/ lwSlot.fails + 1 >= WarmFailureLimit
<1>1. lwSlot.pc = "starting" /\ UNCHANGED lwRun /\ w \in LwIds /\ lwWorker[w] \in LwWorkers
  BY LwTyped DEF WarmFails, SlotInv, Built
<1>2. Calmer /\ lwWorker'[w].ended = TRUE
  BY <1>1, AbortedKeeps, KeptCalm DEF WarmFails
<1>3. fails \in Nat /\ disabled \in BOOLEAN
  BY SlotFields
<1>4. lwSlot' = [lwSlot EXCEPT !.pc = "ending", !.fails = fails, !.disabled = disabled]
  BY SlotFields DEF WarmFails, BuildFailed, LwSlots
<1> HIDE DEF fails, disabled
<1>5. lwSlot' \in LwSlots /\ lwSlot'.built = lwSlot.built /\ lwSlot'.warm = lwSlot.warm
      /\ lwSlot'.pc = "ending"
  BY <1>3, <1>4, SlotFields DEF LwSlots
<1> QED
  BY <1>1, <1>2, <1>5, SlotFields, SlotStep

LEMMA WarmEndsInv ==
    ASSUME LwInv, WarmEnds
    PROVE  LwInv'
<1>1. lwSlot' \in LwSlots /\ lwSlot'.built = lwSlot.built /\ lwSlot'.warm = lwSlot.warm
      /\ lwSlot'.pc = "off" /\ lwSlot.pc = "ending"
  BY SlotFields DEF WarmEnds, LwSlots
<1> QED
  BY <1>1, SlotFields, StillCalm, SlotStep DEF WarmEnds

LEMMA ClosingInv ==
    ASSUME LwInv, LwClosing
    PROVE  LwInv'
<1>1. lwSlot' \in LwSlots /\ lwSlot'.built = lwSlot.built /\ lwSlot'.warm = lwSlot.warm
      /\ lwSlot'.pc = lwSlot.pc /\ lwSlot'.worker = lwSlot.worker
  BY SlotFields DEF LwClosing, LwSlots
<1> QED
  BY <1>1, SlotFields, StillCalm, SlotStep DEF LwClosing

\* The slot is looked at, or a gate that gave up is reset.
LEMMA WantedInv ==
    ASSUME LwInv, LwEnsures \/ LwLinkReset
    PROVE  LwInv'
<1>1. lwSlot' \in LwSlots /\ lwSlot'.built = lwSlot.built /\ lwSlot'.warm = lwSlot.warm
      /\ lwSlot'.pc = lwSlot.pc /\ lwSlot'.worker = lwSlot.worker
  BY SlotFields DEF LwEnsures, LwLinkReset, LwSlots
<1> QED
  BY <1>1, SlotFields, StillCalm, SlotStep DEF LwEnsures, LwLinkReset

LEMMA EmptiedInv ==
    ASSUME LwInv, LwEmptied
    PROVE  LwInv'
<1> DEFINE w == lwSlot.warm
<1>1. lwSlot' \in LwSlots /\ lwSlot'.built = lwSlot.built /\ lwSlot'.warm = 0
      /\ lwSlot'.pc = lwSlot.pc /\ lwSlot'.worker = lwSlot.worker /\ UNCHANGED lwRun
  BY SlotFields DEF LwEmptied, LwSlots
<1>2. CASE w = 0
  BY <1>1, <1>2, SlotFields, StillCalm, SlotStep DEF LwEmptied
<1>3. CASE w # 0
  <2>1. w \in LwIds /\ lwWorker[w] \in LwWorkers
    BY <1>3, SlotFields, LwTyped DEF Built
  <2>2. LwChanges(w, WorkerAborted(lwWorker[w]))
    BY <1>3 DEF LwEmptied
  <2>3. Calmer /\ lwWorker'[w].ended = TRUE
    BY <2>1, <2>2, AbortedKeeps, KeptCalm
  <2> QED
    BY <1>1, <2>3, SlotStep
<1> QED
  BY <1>2, <1>3

\* A slot that is asked for another build.
LEMMA SpawnedSlot ==
    ASSUME LwInv, NEW w \in Nat
    PROVE  LET slot == Spawned(lwSlot, w) IN
           /\ slot \in LwSlots /\ slot.built = lwSlot.built /\ slot.warm = lwSlot.warm
           /\ slot.pc = "starting" => lwSlot.pc = "starting" /\ slot.worker = lwSlot.worker
           /\ lwSlot.pc = "starting" => slot = lwSlot
<1> DEFINE slot == [lwSlot EXCEPT !.pc = "joining", !.worker = w]
<1>1. slot \in LwSlots /\ slot.built = lwSlot.built /\ slot.warm = lwSlot.warm
      /\ slot.pc = "joining"
  BY SlotFields DEF LwSlots
<1> QED
  BY <1>1, SlotFields DEF Spawned

\* The build that ensure_armed asks for.
LEMMA EnsuredSlot ==
    ASSUME LwInv, LwEnsured
    PROVE  /\ lwSlot' \in LwSlots /\ lwSlot'.built = lwSlot.built /\ lwSlot'.warm = lwSlot.warm
           /\ lwSlot'.pc = "starting" => lwSlot.pc = "starting" /\ lwSlot'.worker = lwSlot.worker
           /\ lwSlot.pc = "starting" => lwSlot'.pc = "starting"
           /\ UNCHANGED <<lwWorker, lwRun>>
<1> DEFINE slot == Spawned(lwSlot, 0)
<1>1. /\ slot \in LwSlots /\ slot.built = lwSlot.built /\ slot.warm = lwSlot.warm
      /\ slot.pc = "starting" => lwSlot.pc = "starting" /\ slot.worker = lwSlot.worker
      /\ lwSlot.pc = "starting" => slot = lwSlot
  BY SpawnedSlot
<1>2. lwSlot' = [slot EXCEPT !.wanted = FALSE] /\ UNCHANGED <<lwWorker, lwRun>>
  BY DEF LwEnsured
<1> HIDE DEF slot
<1>3. lwSlot' \in LwSlots /\ lwSlot'.built = slot.built /\ lwSlot'.warm = slot.warm
      /\ lwSlot'.pc = slot.pc /\ lwSlot'.worker = slot.worker
  BY <1>1, <1>2 DEF LwSlots
<1> QED
  BY <1>1, <1>2, <1>3

LEMMA EnsuredInv ==
    ASSUME LwInv, LwEnsured
    PROVE  LwInv'
  BY EnsuredSlot, SlotFields, StillCalm, SlotStep

\* A capture is over; its worker, if it has one, has been told to let go.
LEMMA OverInv ==
    ASSUME LwInv, Calmer, NEW x \in LwCaptures, NEW r \in LwRuns,
           lwRun' = [lwRun EXCEPT ![x] = r], r.pc = "over", NEW w \in Nat,
           lwSlot' = Spawned(lwSlot, w),
           lwRun[x].worker \in LwIds => lwWorker'[lwRun[x].worker].ended = TRUE
    PROVE  LwInv'
<1>1. lwRun' \in [LwCaptures -> LwRuns] /\ lwRun'[x] = r
      /\ \A y \in LwCaptures \ {x} : lwRun'[y] = lwRun[y]
  BY LwTyped
<1>2. /\ lwSlot' \in LwSlots /\ lwSlot'.built = lwSlot.built /\ lwSlot'.warm = lwSlot.warm
      /\ lwSlot'.pc = "starting" => lwSlot.pc = "starting" /\ lwSlot'.worker = lwSlot.worker
      /\ lwSlot.pc = "starting" => lwSlot' = lwSlot
  BY SpawnedSlot
<1>3. LwTypes' /\ SlotInv'
  BY <1>1, <1>2 DEF LwInv, LwTypes, SlotInv, Built, Calmer
<1>4. ASSUME NEW y \in LwCaptures PROVE WorkerInv(y)'
  <2>1. CASE y = x
    BY <1>1, <2>1 DEF WorkerInv
  <2>2. CASE y # x
    BY <1>1, <1>2, <2>2, LwTyped DEF WorkerInv, Built, Calmer
  <2> QED
    BY <2>1, <2>2
<1>5. ASSUME NEW i \in LwIds, Loaded(i)' PROVE Minded(i)'
  <2>1. Minded(i) /\ lwWorker'[i].ended # TRUE
    BY <1>5 DEF LwInv, Calmer, Loaded
  <2>2. CASE \E y \in LwCaptures : lwRun[y].worker = i /\ lwRun[y].pc # "over"
    BY <1>1, <2>1, <2>2 DEF Minded
  <2>3. CASE i = lwSlot.warm \/ (lwSlot.pc = "starting" /\ lwSlot.worker = i)
    BY <1>2, <2>3 DEF Minded
  <2> QED
    BY <2>1, <2>2, <2>3 DEF Minded
<1> QED
  BY <1>3, <1>4, <1>5 DEF LwInv

LEMMA TakeInv ==
    ASSUME LwInv, NEW x \in LwCaptures, LwTake(x)
    PROVE  LwInv'
<1>1. lwRun[x] \in LwRuns /\ lwRun[x].pc = "idle" /\ lwRun[x].worker = 0
      /\ UNCHANGED lwWorker
  BY LwTyped DEF LwTake, WorkerInv
<1>2. CASE lwSlot.warm # 0
  <2> DEFINE w == lwSlot.warm
             r == [lwRun[x] EXCEPT !.pc = "offering", !.worker = w]
  <2>1. w \in Nat /\ Built(w) /\ w \in LwIds
    BY <1>2, SlotFields DEF Built
  <2>2. lwRun' = [lwRun EXCEPT ![x] = r] /\ lwSlot' = [lwSlot EXCEPT !.warm = 0]
    BY <1>1, <1>2, LwTyped DEF LwTake, LwRuns
  <2>3. lwSlot' \in LwSlots /\ lwSlot'.built = lwSlot.built /\ lwSlot'.warm = 0
        /\ lwSlot'.pc = lwSlot.pc /\ lwSlot'.worker = lwSlot.worker
    BY <2>2, SlotFields DEF LwSlots
  <2> HIDE DEF w
  <2>4. r \in LwRuns /\ r.pc = "offering" /\ r.worker = w
    BY <1>1, <2>1 DEF LwRuns
  <2> HIDE DEF r
  <2>5. lwRun' \in [LwCaptures -> LwRuns] /\ lwRun'[x] = r
        /\ \A y \in LwCaptures \ {x} : lwRun'[y] = lwRun[y]
    BY <2>2, <2>4, LwTyped
  <2>6. LwTypes' /\ SlotInv'
    BY <1>1, <2>3, <2>5 DEF LwInv, LwTypes, SlotInv, Built
  <2>7. ASSUME NEW y \in LwCaptures PROVE WorkerInv(y)'
    <3>1. CASE y = x
      BY <2>1, <2>3, <2>4, <2>5, <3>1 DEF WorkerInv, Built
    <3>2. CASE y # x
      BY <1>1, <2>3, <2>5, <3>2, LwTyped DEF WorkerInv, Built
    <3> QED
      BY <3>1, <3>2
  <2>8. ASSUME NEW i \in LwIds, Loaded(i)' PROVE Minded(i)'
    <3>1. Minded(i)
      BY <1>1, <2>8 DEF LwInv, Loaded
    <3>2. CASE i = w
      BY <2>4, <2>5, <3>2 DEF Minded
    <3>3. CASE i # w
      <4>1. CASE \E y \in LwCaptures : lwRun[y].worker = i /\ lwRun[y].pc # "over"
        <5>1. PICK y \in LwCaptures : lwRun[y].worker = i /\ lwRun[y].pc # "over"
          BY <4>1
        <5>2. y # x
          BY <1>1, <5>1, SlotFields
        <5> QED
          BY <2>5, <5>1, <5>2 DEF Minded
      <4>2. CASE lwSlot.pc = "starting" /\ lwSlot.worker = i
        BY <2>3, <4>2 DEF Minded
      <4> QED
        BY <3>1, <3>3, <4>1, <4>2 DEF Minded, w
    <3> QED
      BY <3>2, <3>3
  <2> QED
    BY <2>6, <2>7, <2>8 DEF LwInv
<1>3. CASE lwSlot.warm = 0
  <2>1. LwGoes(x, "over", "invalid") /\ lwSlot' = Spawned(lwSlot, 0)
    BY <1>3 DEF LwTake
  <2>2. PICK r \in LwRuns : lwRun' = [lwRun EXCEPT ![x] = r] /\ r.pc = "over"
    BY <2>1, LwGone
  <2>3. lwRun[x].worker \notin LwIds
    BY <1>1, SlotFields
  <2>4. Calmer
    BY <1>1, StillCalm
  <2> QED
    BY <2>1, <2>2, <2>3, <2>4, OverInv
<1> QED
  BY <1>2, <1>3

LEMMA FinallyInv ==
    ASSUME LwInv, NEW x \in LwCaptures, LwFinally(x)
    PROVE  LwInv'
<1> DEFINE w == lwRun[x].worker
<1>1. lwRun[x] \in LwRuns /\ lwRun[x].pc \in {"discarded", "finalized"} /\ w \in Nat
      /\ w \in LwIds /\ lwWorker[w] \in LwWorkers /\ lwSlot' = Spawned(lwSlot, w)
      /\ (lwRun[x].pc = "finalized" => lwWorker[w].ended = TRUE)
      /\ lwRun[x].outcome \in {"none", "valid", "invalid"}
  BY LwTyped DEF LwFinally, WorkerInv, Built, LwRuns
<1>2. Calmer /\ lwWorker'[w].ended = TRUE
  <2>1. CASE lwRun[x].pc = "discarded"
    BY <1>1, <2>1, AbortedKeeps, KeptCalm DEF LwFinally
  <2>2. CASE lwRun[x].pc = "finalized"
    BY <1>1, <2>2, StillCalm DEF LwFinally
  <2> QED
    BY <1>1, <2>1, <2>2
<1>3. PICK r \in LwRuns : lwRun' = [lwRun EXCEPT ![x] = r] /\ r.pc = "over"
  BY <1>1, LwGone DEF LwFinally
<1> QED
  BY <1>1, <1>2, <1>3, OverInv

LEMMA LwInvariance == LwSpec => []LwInv
<1>1. LwInv /\ [LwNext]_lwVars => LwInv'
  <2> SUFFICES ASSUME LwInv, [LwNext]_lwVars PROVE LwInv'
    OBVIOUS
  <2>1. CASE LwNext
    BY <2>1, JoinedInv, LandsInv, FailsInv, WarmEndsInv, ClosingInv, EmptiedInv, ThreadInv,
       WantedInv, EnsuredInv, TakeInv, OfferInv, InputEndsInv, WorkerResultInv, FinallyInv, WorkerCancelInv
       DEF LwNext, WarmThread, LwCaptureThread
  <2>2. CASE UNCHANGED lwVars
    BY <2>2, StillCalm, CalmInv DEF lwVars
  <2> QED
    BY <2>1, <2>2
<1> QED
  BY <1>1, LwInitInv, PTL DEF LwSpec

\* For any number of captures, builds and faults, and any length of an utterance:
\* a loaded model always has somebody who will let it go, the warm slot, the build
\* thread or a capture, or its input has ended and its thread frees it
\* (stt/live_gate.py _warm_build, _CaptureRun.run; stt/live.py abort).
THEOREM ModelsOwned == LwSpec => []LwOwned
<1>1. LwInv => LwOwned
  BY LwTyped DEF LwInv, LwOwned, Loaded, Minded, LwWorkers
<1> QED
  BY <1>1, LwInvariance, PTL

-----------------------------------------------------------------------------
(* LiveWorker: a valid result was given the whole utterance.                 *)

\* What worker w was given and keeps, the chunk it fills left aside.
Held(w) == w.heard \o FlattenSeq(w.queue)

\* A worker that nobody has spoken to.
Clean(w) ==
    w.failed # TRUE => /\ Held(w) = <<>> /\ w.staged = <<>>
                       /\ w.open = TRUE /\ w.ended # TRUE

Untaken(i) ==
    \/ i = lwSlot.warm
    \/ lwSlot.pc = "starting" /\ i = lwSlot.worker

\* A worker is in one place: the slot, its builder's hands or one capture's.
PlaceInv ==
    /\ \A i \in LwIds : Untaken(i) =>
          Clean(lwWorker[i]) /\ \A x \in LwCaptures : lwRun[x].worker # i
    /\ lwSlot.pc = "starting" => lwSlot.warm # lwSlot.worker
    /\ \A x \in LwCaptures : lwRun[x].worker <= lwSlot.built
    /\ \A x, y \in LwCaptures : lwRun[x].worker = lwRun[y].worker /\ lwRun[x].worker # 0 => x = y

\* A worker that did not fail holds the frames so far, and all of them when its
\* input has ended.
GivenInv(x) ==
    LET r == lwRun[x]
        w == lwWorker[r.worker]
    IN  /\ r.pc = "idle" => r.offered = 0 /\ r.outcome = "none"
        /\ r.pc = "offering" =>
              /\ r.outcome = "none"
              /\ w.failed # TRUE => /\ w.open = TRUE /\ w.ended # TRUE
                                    /\ Held(w) \o w.staged = Upto(r.offered)
        /\ r.pc = "waiting" => /\ r.outcome = "none"
                               /\ w.failed # TRUE => Held(w) = LwUtterance
        /\ r.outcome = "valid" => r.worker \in LwIds /\ Held(w) = LwUtterance

HandedInv == PlaceInv /\ \A x \in LwCaptures : GivenInv(x)

\* What a thread, an abort or a timeout does to a worker: nothing is taken from
\* what it holds.
KeepsHeld(w, v) ==
    /\ Held(v) = Held(w)
    /\ v.failed # TRUE => /\ w.failed # TRUE /\ v.staged = w.staged
                          /\ v.open = w.open /\ v.ended = w.ended
\* All workers keep it, but for worker k if there is one.
Holding(k) == \A i \in LwIds \ {k} : KeepsHeld(lwWorker[i], lwWorker'[i])

LEMMA HeldIs ==
    ASSUME NEW w \in LwWorkers
    PROVE  /\ w.queue \in Seq(Seq(Nat)) /\ w.heard \in Seq(Nat) /\ w.staged \in Seq(Nat)
           /\ FlattenSeq(w.queue) \in Seq(Nat) /\ Held(w) \in Seq(Nat)
<1>1. w.queue \in Seq(Seq(Nat)) /\ w.heard \in Seq(Nat) /\ w.staged \in Seq(Nat)
  BY DEF LwWorkers
<1>2. FlattenSeq(w.queue) \in Seq(Nat)
  BY <1>1, FlatConcat
<1>3. w.heard \o FlattenSeq(w.queue) \in Seq(Nat)
  BY <1>1, <1>2, ConcatProperties
<1> QED
  BY <1>1, <1>2, <1>3 DEF Held

\* Joining frames associates.
LEMMA FramesJoin ==
    ASSUME NEW a \in Seq(Nat), NEW b \in Seq(Nat), NEW c \in Seq(Nat)
    PROVE  /\ a \o (b \o c) = (a \o b) \o c /\ a \o b \in Seq(Nat)
           /\ a \o <<>> = a
<1>1. a \o b \in Seq(Nat) /\ a \o <<>> = a
  BY ConcatProperties, ConcatEmptySeq
<1>2. a \o (b \o c) = (a \o b) \o c
  BY ONLY a \in Seq(Nat), b \in Seq(Nat), c \in Seq(Nat), ConcatProperties, SeqEqual, SMTT(30)
<1> QED
  BY <1>1, <1>2

LEMMA TurnHolds ==
    ASSUME NEW w \in LwWorkers, w.queue # <<>>,
           NEW q, q = Tail(w.queue), NEW heard, heard = w.heard \o Head(w.queue)
    PROVE  KeepsHeld(w, [w EXCEPT !.queue = q, !.heard = heard])
<1> DEFINE v == [w EXCEPT !.queue = q, !.heard = heard]
<1>1. /\ v.queue = q /\ v.heard = heard /\ v.failed = w.failed /\ v.staged = w.staged
      /\ v.open = w.open /\ v.ended = w.ended
  BY DEF LwWorkers
<1> HIDE DEF v
<1>2. /\ w.heard \in Seq(Nat) /\ Head(w.queue) \in Seq(Nat) /\ q \in Seq(Seq(Nat))
      /\ FlattenSeq(w.queue) = Head(w.queue) \o FlattenSeq(q)
  BY HeldIs, FlatQueue, HeadTailProperties
<1>3. FlattenSeq(q) \in Seq(Nat)
  BY <1>2, FlatConcat
<1> DEFINE a == w.heard
           b == Head(w.queue)
           c == FlattenSeq(q)
<1>4. a \in Seq(Nat) /\ b \in Seq(Nat) /\ c \in Seq(Nat)
  BY <1>2, <1>3
<1>5. Held(v) = (a \o b) \o c /\ Held(w) = a \o (b \o c)
  BY <1>1, <1>2 DEF Held
<1> HIDE DEF a, b, c
<1>6. a \o (b \o c) = (a \o b) \o c
  BY ONLY <1>4, FramesJoin
<1>7. Held(v) = Held(w)
  BY <1>5, <1>6
<1> QED
  BY <1>1, <1>7 DEF KeepsHeld, v

\* A change of the fields that say how a worker goes on.
LEMMA OtherHolds ==
    ASSUME NEW w \in LwWorkers, NEW v, v.queue = w.queue, v.heard = w.heard,
           v.failed # TRUE => /\ w.failed # TRUE /\ v.staged = w.staged
                              /\ v.open = w.open /\ v.ended = w.ended
    PROVE  KeepsHeld(w, v)
  BY DEF KeepsHeld, Held

LEMMA AbortHolds ==
    ASSUME NEW w \in LwWorkers
    PROVE  KeepsHeld(w, WorkerAborted(w)) /\ KeepsHeld(w, [w EXCEPT !.failed = TRUE])
<1>1. /\ WorkerAborted(w).queue = w.queue /\ WorkerAborted(w).heard = w.heard
      /\ WorkerAborted(w).failed = TRUE
  BY DEF WorkerAborted, LwWorkers
<1>2. /\ [w EXCEPT !.failed = TRUE].queue = w.queue /\ [w EXCEPT !.failed = TRUE].heard = w.heard
      /\ [w EXCEPT !.failed = TRUE].failed = TRUE
  BY DEF LwWorkers
<1> QED
  BY <1>1, <1>2, OtherHolds

\* A chunk is published, or the worker fails.
LEMMA PublishGives ==
    ASSUME NEW w \in LwWorkers, NEW chunk \in Seq(Nat), PublishedChunk(w, chunk).failed # TRUE
    PROVE  LET v == PublishedChunk(w, chunk) IN
           /\ w.failed # TRUE /\ v.staged = w.staged /\ v.open = w.open /\ v.ended = w.ended
           /\ Held(v) = Held(w) \o chunk
<1> DEFINE q == Append(w.queue, chunk)
           v == [w EXCEPT !.queue = q]
<1>1. w.queue \in Seq(Seq(Nat)) /\ w.heard \in Seq(Nat) /\ FlattenSeq(w.queue) \in Seq(Nat)
  BY HeldIs
<1>2. FlattenSeq(q) = FlattenSeq(w.queue) \o chunk
  BY <1>1, FlatQueue
<1>3. PublishedChunk(w, chunk) = v
  <2>1. [w EXCEPT !.failed = TRUE, !.open = FALSE].failed = TRUE
    BY DEF LwWorkers
  <2>2. [w EXCEPT !.queue = Append(@, chunk)] = v
    BY DEF LwWorkers
  <2> QED
    BY <2>1, <2>2 DEF PublishedChunk
<1> HIDE DEF q
<1>4. /\ v.failed = w.failed /\ v.staged = w.staged /\ v.open = w.open /\ v.ended = w.ended
      /\ v.heard = w.heard /\ v.queue = q
  BY DEF LwWorkers
<1>5. Held(v) = w.heard \o (FlattenSeq(w.queue) \o chunk) /\ Held(w) = w.heard \o FlattenSeq(w.queue)
  BY <1>2, <1>4 DEF Held
<1> HIDE DEF v
<1> DEFINE a == w.heard
           b == FlattenSeq(w.queue)
<1>6. a \in Seq(Nat) /\ b \in Seq(Nat) /\ chunk \in Seq(Nat)
  BY <1>1
<1>7. Held(v) = a \o (b \o chunk) /\ Held(w) = a \o b
  BY <1>5
<1> HIDE DEF a, b
<1>8. a \o (b \o chunk) = (a \o b) \o chunk
  BY ONLY <1>6, FramesJoin
<1> QED
  BY <1>3, <1>4, <1>7, <1>8

\* A frame is staged or published, or the worker fails.
LEMMA OfferGives ==
    ASSUME NEW w \in LwWorkers, NEW n \in Nat, WorkerOffered(w, n).failed # TRUE
    PROVE  LET v == WorkerOffered(w, n) IN
           /\ w.failed # TRUE
           /\ w.open = TRUE /\ w.ended # TRUE =>
                 /\ v.open = TRUE /\ v.ended # TRUE
                 /\ Held(v) \o v.staged = Append(Held(w) \o w.staged, n)
<1> DEFINE e == <<>>
           u == [w EXCEPT !.staged = e]
           s == Append(w.staged, n)
           t == [w EXCEPT !.staged = s]
<1>1. /\ w.staged \in Seq(Nat) /\ e \in Seq(Nat) /\ s \in Seq(Nat) /\ Held(w) \in Seq(Nat)
      /\ w.open \in BOOLEAN /\ w.ended \in BOOLEAN
  BY HeldIs DEF LwWorkers
<1>2. [w EXCEPT !.staged = Append(@, n)] = t /\ [w EXCEPT !.staged = <<>>] = u
  BY DEF LwWorkers
<1>3. Held(w) \o s = Append(Held(w) \o w.staged, n)
  BY <1>1, ConcatAppend
<1>4. WorkerOffered(w, n) = IF ~w.open \/ w.ended THEN w
                            ELSE IF Len(w.staged) + 1 < LwChunk THEN t
                            ELSE PublishedChunk(u, s)
  BY <1>2 DEF WorkerOffered
<1> HIDE DEF e, s
<1>5. /\ t.failed = w.failed /\ t.open = w.open /\ t.ended = w.ended /\ t.staged = s
      /\ t.queue = w.queue /\ t.heard = w.heard
  BY DEF LwWorkers
<1>6. /\ u \in LwWorkers /\ u.failed = w.failed /\ u.open = w.open /\ u.ended = w.ended
      /\ u.staged = e /\ u.queue = w.queue /\ u.heard = w.heard
  BY <1>1 DEF LwWorkers
<1>7. Held(t) = Held(w) /\ Held(u) = Held(w)
  BY <1>5, <1>6 DEF Held
<1> HIDE DEF t, u
<1>8. CASE ~w.open \/ w.ended
  BY <1>1, <1>4, <1>8
<1>9. CASE ~(~w.open \/ w.ended) /\ Len(w.staged) + 1 < LwChunk
  <2>1. WorkerOffered(w, n) = t
    BY <1>4, <1>9
  <2> QED
    BY <1>3, <1>5, <1>7, <2>1
<1>10. CASE ~(~w.open \/ w.ended) /\ ~(Len(w.staged) + 1 < LwChunk)
  <2>1. WorkerOffered(w, n) = PublishedChunk(u, s)
    BY <1>4, <1>10
  <2> DEFINE v == PublishedChunk(u, s)
  <2>2. /\ u.failed # TRUE /\ v.staged = u.staged /\ v.open = u.open /\ v.ended = u.ended
        /\ Held(v) = Held(u) \o s
    BY <1>1, <1>6, <2>1, PublishGives
  <2> HIDE DEF v
  <2>3. Held(v) \o v.staged = Held(w) \o s
    <3>1. Held(v) = Held(w) \o s /\ v.staged = <<>>
      BY <1>6, <1>7, <2>2 DEF e
    <3>2. Held(w) \o s \in Seq(Nat)
      BY <1>1, ConcatProperties
    <3>3. (Held(w) \o s) \o <<>> = Held(w) \o s
      BY <3>2, ConcatEmptySeq
    <3> QED
      BY <3>1, <3>3
  <2> QED
    BY <1>3, <1>6, <2>1, <2>2, <2>3 DEF v
<1> QED
  BY <1>8, <1>9, <1>10

\* The rest is published with the end of the input, or the worker fails.
LEMMA EndGives ==
    ASSUME NEW w \in LwWorkers, WorkerEnded(w).failed # TRUE
    PROVE  /\ w.failed # TRUE
           /\ w.open = TRUE /\ w.ended # TRUE => Held(WorkerEnded(w)) = Held(w) \o w.staged
<1> DEFINE u == IF w.open /\ w.staged # <<>> THEN PublishedChunk(w, w.staged) ELSE w
           e == <<>>
           v == [u EXCEPT !.staged = e, !.ended = TRUE]
<1>1. w.staged \in Seq(Nat) /\ Held(w) \in Seq(Nat) /\ w.ended \in BOOLEAN /\ w.open \in BOOLEAN
  BY HeldIs DEF LwWorkers
<1>2. u \in LwWorkers
  BY <1>1, PublishedKeeps DEF KeepsWorker
<1>3. WorkerEnded(w) = IF w.ended THEN w ELSE v
  BY DEF WorkerEnded
<1>4. CASE w.ended
  BY <1>1, <1>3, <1>4
<1>5. CASE ~w.ended
  <2>0. WorkerEnded(w) = v
    BY <1>3, <1>5
  <2>a. u = IF w.open /\ w.staged # <<>> THEN PublishedChunk(w, w.staged) ELSE w
    OBVIOUS
  <2> HIDE DEF e, u
  <2>1. v.failed = u.failed /\ v.queue = u.queue /\ v.heard = u.heard
    BY <1>2 DEF LwWorkers
  <2>2. Held(v) = Held(u) /\ u.failed # TRUE
    BY <2>0, <2>1 DEF Held
  <2> HIDE DEF v
  <2>3. CASE w.open /\ w.staged # <<>>
    <3>1. u = PublishedChunk(w, w.staged)
      BY <2>a, <2>3
    <3>2. w.failed # TRUE /\ Held(u) = Held(w) \o w.staged
      BY <1>1, <2>2, <3>1, PublishGives
    <3> QED
      BY <2>0, <2>2, <3>2
  <2>4. CASE ~(w.open /\ w.staged # <<>>)
    <3>1. u = w
      BY <2>a, <2>4
    <3>2. w.open = TRUE => Held(w) \o w.staged = Held(w)
      BY <1>1, <2>4, ConcatEmptySeq
    <3> QED
      BY <2>0, <2>2, <3>1, <3>2
  <2> QED
    BY <2>3, <2>4
<1> QED
  BY <1>4, <1>5

\* What a worker holds is kept while the captures stand still or go elsewhere.
LEMMA KeepsClean ==
    ASSUME NEW w, NEW v, KeepsHeld(w, v), Clean(w)
    PROVE  Clean(v)
  BY DEF KeepsHeld, Clean

\* Worker i changes and keeps what it holds, or it is the one that does not.
LEMMA ChangedHolds ==
    ASSUME LwInv, NEW i \in LwIds, NEW v, LwChanges(i, v)
    PROVE  /\ Holding(i) /\ lwWorker'[i] = v
           /\ KeepsHeld(lwWorker[i], v) => Holding(0)
<1>1. lwWorker'[i] = v /\ \A j \in LwIds \ {i} : lwWorker'[j] = lwWorker[j]
  BY DEF LwInv, LwTypes, LwChanges
<1>2. \A j \in LwIds \ {i} : KeepsHeld(lwWorker[j], lwWorker'[j])
  BY <1>1 DEF KeepsHeld
<1> QED
  BY <1>1, <1>2 DEF Holding

LEMMA StillHolds ==
    ASSUME UNCHANGED lwWorker
    PROVE  Holding(0)
  BY DEF Holding, KeepsHeld

LEMMA KeepsGiven ==
    ASSUME LwInv, HandedInv, NEW k, Holding(k), NEW x \in LwCaptures, lwRun'[x] = lwRun[x],
           lwRun[x].worker # k \/ k = 0
    PROVE  GivenInv(x)'
<1> DEFINE i == lwRun[x].worker
<1>1. GivenInv(x) /\ WorkerInv(x)
  BY DEF HandedInv, LwInv
<1>2. CASE i \in LwIds
  <2>1. KeepsHeld(lwWorker[i], lwWorker'[i])
    BY <1>2, SlotFields DEF Holding
  <2> QED
    BY <1>1, <2>1 DEF GivenInv, KeepsHeld
<1>3. CASE i \notin LwIds
  <2>1. lwRun[x].pc \notin {"offering", "waiting"} /\ lwRun[x].outcome # "valid"
    BY <1>1, <1>3 DEF GivenInv, WorkerInv, Built
  <2> QED
    BY <1>1, <2>1 DEF GivenInv
<1> QED
  BY <1>2, <1>3

\* A step after which nobody has a worker that had none, and no build begins.
LEMMA KeepsHanded ==
    ASSUME LwInv, HandedInv, NEW k, Holding(k), ~Untaken(k) \/ k = 0,
           lwSlot'.built = lwSlot.built,
           \A x \in LwCaptures : lwRun'[x].worker = lwRun[x].worker,
           \A i \in LwIds : Untaken(i)' => Untaken(i),
           lwSlot'.pc = "starting" =>
              /\ lwSlot.pc = "starting" /\ lwSlot'.worker = lwSlot.worker
              /\ lwSlot'.warm = 0 \/ lwSlot'.warm = lwSlot.warm,
           \A x \in LwCaptures : GivenInv(x)'
    PROVE  HandedInv'
<1>1. ASSUME NEW i \in LwIds, Untaken(i)'
      PROVE  Clean(lwWorker'[i]) /\ \A x \in LwCaptures : lwRun'[x].worker # i
  <2>1. Untaken(i) /\ i # 0
    BY <1>1, SlotFields
  <2>2. KeepsHeld(lwWorker[i], lwWorker'[i]) /\ Clean(lwWorker[i])
        /\ \A x \in LwCaptures : lwRun[x].worker # i
    BY <2>1 DEF Holding, HandedInv, PlaceInv
  <2> QED
    BY <2>2, KeepsClean
<1>2. lwSlot'.pc = "starting" => lwSlot'.warm # lwSlot'.worker
  <2> SUFFICES ASSUME lwSlot'.pc = "starting" PROVE lwSlot'.warm # lwSlot'.worker
    OBVIOUS
  <2>1. lwSlot.worker \in LwIds /\ lwSlot.worker # lwSlot.warm
    BY LwTyped DEF SlotInv, Built, HandedInv, PlaceInv
  <2>2. lwSlot.worker # 0
    BY <2>1, SlotFields
  <2> QED
    BY <2>1, <2>2
<1>3. \A x \in LwCaptures : lwRun'[x].worker <= lwSlot'.built
  BY DEF HandedInv, PlaceInv
<1>4. \A x, y \in LwCaptures :
         lwRun'[x].worker = lwRun'[y].worker /\ lwRun'[x].worker # 0 => x = y
  BY DEF HandedInv, PlaceInv
<1>5. \A i \in LwIds : Untaken(i)' =>
         Clean(lwWorker'[i]) /\ \A x \in LwCaptures : lwRun'[x].worker # i
  BY <1>1
<1>6. PlaceInv'
  BY <1>2, <1>3, <1>4, <1>5 DEF PlaceInv, Clean, Held
<1> QED
  BY <1>6 DEF HandedInv

LEMMA AbortedHolds ==
    ASSUME LwInv, NEW i \in LwIds, LwChanges(i, WorkerAborted(lwWorker[i]))
    PROVE  Holding(0)
<1>1. KeepsHeld(lwWorker[i], WorkerAborted(lwWorker[i]))
  BY LwTyped, AbortHolds
<1> DEFINE v == WorkerAborted(lwWorker[i])
<1> HIDE DEF v
<1>2. LwChanges(i, v) /\ KeepsHeld(lwWorker[i], v)
  BY <1>1 DEF v
<1> QED
  BY <1>2, ChangedHolds

\* A step of the slot or of a worker's thread.
LEMMA SlotHanded ==
    ASSUME LwInv, HandedInv, Holding(0), UNCHANGED lwRun, lwSlot'.built = lwSlot.built,
           \A i \in LwIds : Untaken(i)' => Untaken(i),
           lwSlot'.pc = "starting" =>
              /\ lwSlot.pc = "starting" /\ lwSlot'.worker = lwSlot.worker
              /\ lwSlot'.warm = 0 \/ lwSlot'.warm = lwSlot.warm
    PROVE  HandedInv'
<1>1. \A x \in LwCaptures : GivenInv(x)'
  BY KeepsGiven
<1> QED
  BY <1>1, KeepsHanded

LEMMA ThreadHanded ==
    ASSUME LwInv, HandedInv, NEW i \in LwIds, LwThread(i)
    PROVE  HandedInv'
<1> DEFINE w == lwWorker[i]
<1>1. w \in LwWorkers /\ UNCHANGED <<lwSlot, lwRun>>
  BY LwTyped DEF LwThread, LwLoads, LwTurns, LwLooks, LwStops
<1>2. CASE LwTurns(i) /\ w.queue # <<>>
  <2> DEFINE q == Tail(w.queue)
             heard == w.heard \o Head(w.queue)
  <2>1. LwChanges(i, [w EXCEPT !.queue = q, !.heard = heard])
    BY <1>1, <1>2 DEF LwTurns, LwWorkers
  <2>2. KeepsHeld(w, [w EXCEPT !.queue = q, !.heard = heard])
    BY <1>1, <1>2, TurnHolds
  <2>3. Holding(0)
    BY <2>1, <2>2, ChangedHolds
  <2> QED
    BY <1>1, <2>3, SlotHanded DEF Untaken
<1>3. CASE ~(LwTurns(i) /\ w.queue # <<>>)
  <2>1. \E at \in {"running", "broken", "empty", "stopping", "done"} :
            \/ LwChanges(i, [w EXCEPT !.at = at])
            \/ LwChanges(i, [w EXCEPT !.at = at, !.failed = TRUE])
    BY <1>3 DEF LwThread, LwLoads, LwTurns, LwLooks, LwStops
  <2>2. PICK at \in {"running", "broken", "empty", "stopping", "done"} :
            \/ LwChanges(i, [w EXCEPT !.at = at])
            \/ LwChanges(i, [w EXCEPT !.at = at, !.failed = TRUE])
    BY <2>1
  <2> DEFINE v == [w EXCEPT !.at = at]
             u == [w EXCEPT !.at = at, !.failed = TRUE]
  <2>a. /\ v.queue = w.queue /\ v.heard = w.heard /\ v.failed = w.failed
        /\ v.staged = w.staged /\ v.open = w.open /\ v.ended = w.ended
        /\ u.queue = w.queue /\ u.heard = w.heard /\ u.failed = TRUE
    BY <1>1 DEF LwWorkers
  <2>3. KeepsHeld(w, v) /\ KeepsHeld(w, u)
    <3> HIDE DEF v, u
    <3> QED
      BY <1>1, <2>a, OtherHolds
  <2>4. Holding(0)
    BY <2>2, <2>3, ChangedHolds
  <2> QED
    BY <1>1, <2>4, SlotHanded DEF Untaken
<1> QED
  BY <1>2, <1>3

LEMMA NewClean == Clean(LwNew)
<1>1. LwNew.heard = <<>> /\ LwNew.queue = <<>> /\ LwNew.staged = <<>> /\ LwNew.open = TRUE
      /\ LwNew.ended # TRUE
  BY DEF LwNew, LwNone
<1>2. Held(LwNew) = <<>> \o FlattenSeq(<<>>)
  BY <1>1 DEF Held
<1>3. FlattenSeq(<<>>) = <<>>
  <2>1. <<>> \in Seq(Nat)
    OBVIOUS
  <2> QED
    BY <2>1, FlatOne
<1>4. <<>> \o <<>> = <<>>
  OBVIOUS
<1> QED
  BY <1>1, <1>2, <1>3, <1>4 DEF Clean

LEMMA JoinedHanded ==
    ASSUME LwInv, HandedInv, WarmJoined
    PROVE  HandedInv'
<1>1. lwSlot.pc = "joining" /\ UNCHANGED lwRun
  BY DEF WarmJoined
<1>2. CASE lwSlot.closing # "no"
  <2>1. lwSlot' = [lwSlot EXCEPT !.pc = "ending"] /\ UNCHANGED lwWorker
    BY <1>2 DEF WarmJoined
  <2>2. lwSlot'.built = lwSlot.built /\ lwSlot'.warm = lwSlot.warm /\ lwSlot'.pc = "ending"
    BY <2>1, SlotFields DEF LwSlots
  <2> QED
    BY <1>1, <2>1, <2>2, StillHolds, SlotHanded DEF Untaken
<1>3. CASE lwSlot.closing = "no"
  <2> DEFINE new == lwSlot.built + 1
  <2>1. new \in LwIds /\ new > lwSlot.built /\ new \in Nat
    BY <1>3, LwAssumption, SlotFields DEF LwAssumption, WarmJoined, LwIds
  <2>2. lwSlot' = [lwSlot EXCEPT !.pc = "starting", !.built = new, !.worker = new]
    BY <1>3, SlotFields DEF WarmJoined, LwSlots
  <2>3. Holding(new) /\ lwWorker'[new] = LwNew
    BY <1>3, <2>1, ChangedHolds DEF WarmJoined
  <2>a. \A x \in LwCaptures : lwRun[x].worker \in Nat /\ lwRun[x].worker <= lwSlot.built
    BY LwTyped DEF HandedInv, PlaceInv, LwRuns
  <2>b. \A x \in LwCaptures : lwRun[x].worker # new /\ lwRun[x].worker <= new
    BY <2>a, SlotFields
  <2>c. lwSlot.warm # new
    BY <2>1, SlotFields DEF Built
  <2> HIDE DEF new
  <2>4. lwSlot'.built = new /\ lwSlot'.warm = lwSlot.warm /\ lwSlot'.worker = new
    BY <2>2, SlotFields DEF LwSlots
  <2>5. \A x \in LwCaptures : GivenInv(x)'
    BY <1>1, <2>3, <2>b, KeepsGiven
  <2>6. ASSUME NEW i \in LwIds, Untaken(i)'
        PROVE  Clean(lwWorker'[i]) /\ \A x \in LwCaptures : lwRun'[x].worker # i
    <3>1. CASE i = new
      BY <1>1, <2>3, <2>b, <3>1, NewClean
    <3>2. CASE i # new
      <4>1. i = lwSlot.warm
        BY <2>4, <2>6, <3>2 DEF Untaken
      <4>2. Clean(lwWorker[i]) /\ \A x \in LwCaptures : lwRun[x].worker # i
        BY <4>1 DEF HandedInv, PlaceInv, Untaken
      <4>3. KeepsHeld(lwWorker[i], lwWorker'[i])
        BY <2>3, <3>2 DEF Holding
      <4> QED
        BY <1>1, <4>2, <4>3, KeepsClean
    <3> QED
      BY <3>1, <3>2
  <2>7. \A i \in LwIds : Untaken(i)' =>
           Clean(lwWorker'[i]) /\ \A x \in LwCaptures : lwRun'[x].worker # i
    BY <2>6
  <2>8. /\ \A x \in LwCaptures : lwRun'[x].worker <= lwSlot'.built
        /\ \A x, y \in LwCaptures :
              lwRun'[x].worker = lwRun'[y].worker /\ lwRun'[x].worker # 0 => x = y
    BY <1>1, <2>4, <2>b DEF HandedInv, PlaceInv
  <2>9. lwSlot'.warm # lwSlot'.worker
    BY <2>4, <2>c
  <2>10. PlaceInv'
    BY <2>7, <2>8, <2>9 DEF PlaceInv, Clean, Held
  <2> QED
    BY <2>5, <2>10 DEF HandedInv
<1> QED
  BY <1>2, <1>3

LEMMA LandsHanded ==
    ASSUME LwInv, HandedInv, WarmLands
    PROVE  HandedInv'
<1> DEFINE w == lwSlot.worker
           warm == IF lwSlot.closing # "no" \/ lwSlot.warm # 0 THEN lwSlot.warm ELSE w
<1>1. lwSlot.pc = "starting" /\ UNCHANGED lwRun /\ w \in LwIds /\ lwWorker[w] \in LwWorkers
  BY LwTyped DEF WarmLands, SlotInv, Built
<1>2. warm = lwSlot.warm \/ warm = w
  OBVIOUS
<1>3. lwSlot' = [lwSlot EXCEPT !.pc = "ending", !.fails = 0, !.warm = warm]
  BY SlotFields DEF WarmLands, LwSlots
<1>4. Holding(0)
  BY <1>1, AbortedHolds, StillHolds DEF WarmLands
<1> HIDE DEF warm
<1>5. lwSlot'.built = lwSlot.built /\ lwSlot'.warm = warm /\ lwSlot'.pc = "ending"
  BY <1>3, SlotFields DEF LwSlots
<1>6. \A i \in LwIds : Untaken(i)' => Untaken(i)
  BY <1>1, <1>2, <1>5 DEF Untaken
<1> QED
  BY <1>1, <1>4, <1>5, <1>6, SlotHanded

LEMMA FailsHanded ==
    ASSUME LwInv, HandedInv, WarmFails
    PROVE  HandedInv'
<1> DEFINE w == lwSlot.worker
<1>1. UNCHANGED lwRun /\ w \in LwIds /\ lwWorker[w] \in LwWorkers
  BY LwTyped DEF WarmFails, SlotInv, Built
<1>2. Holding(0)
  BY <1>1, AbortedHolds DEF WarmFails
<1>3. lwSlot'.built = lwSlot.built /\ lwSlot'.warm = lwSlot.warm /\ lwSlot'.pc = "ending"
  BY SlotFields DEF WarmFails, BuildFailed, LwSlots
<1>4. \A i \in LwIds : Untaken(i)' => Untaken(i)
  BY <1>3 DEF Untaken
<1> QED
  BY <1>1, <1>2, <1>3, <1>4, SlotHanded

LEMMA WarmEndsHanded ==
    ASSUME LwInv, HandedInv, WarmEnds
    PROVE  HandedInv'
<1>1. lwSlot'.built = lwSlot.built /\ lwSlot'.warm = lwSlot.warm /\ lwSlot'.pc = "off"
  BY SlotFields DEF WarmEnds, LwSlots
<1>2. \A i \in LwIds : Untaken(i)' => Untaken(i)
  BY <1>1 DEF Untaken
<1> QED
  BY <1>1, <1>2, StillHolds, SlotHanded DEF WarmEnds

LEMMA ClosingHanded ==
    ASSUME LwInv, HandedInv, LwClosing
    PROVE  HandedInv'
<1>1. /\ lwSlot'.built = lwSlot.built /\ lwSlot'.warm = lwSlot.warm
      /\ lwSlot'.pc = lwSlot.pc /\ lwSlot'.worker = lwSlot.worker
  BY SlotFields DEF LwClosing, LwSlots
<1>2. \A i \in LwIds : Untaken(i)' => Untaken(i)
  BY <1>1 DEF Untaken
<1> QED
  BY <1>1, <1>2, StillHolds, SlotHanded DEF LwClosing

LEMMA WantedHanded ==
    ASSUME LwInv, HandedInv, LwEnsures \/ LwLinkReset
    PROVE  HandedInv'
<1>1. /\ lwSlot'.built = lwSlot.built /\ lwSlot'.warm = lwSlot.warm
      /\ lwSlot'.pc = lwSlot.pc /\ lwSlot'.worker = lwSlot.worker
  BY SlotFields DEF LwEnsures, LwLinkReset, LwSlots
<1>2. \A i \in LwIds : Untaken(i)' => Untaken(i)
  BY <1>1 DEF Untaken
<1> QED
  BY <1>1, <1>2, StillHolds, SlotHanded DEF LwEnsures, LwLinkReset

LEMMA EnsuredHanded ==
    ASSUME LwInv, HandedInv, LwEnsured
    PROVE  HandedInv'
<1>1. \A i \in LwIds : Untaken(i)' => Untaken(i)
  BY EnsuredSlot DEF Untaken
<1> QED
  BY <1>1, EnsuredSlot, StillHolds, SlotHanded

LEMMA EmptiedHanded ==
    ASSUME LwInv, HandedInv, LwEmptied
    PROVE  HandedInv'
<1> DEFINE w == lwSlot.warm
<1>1. /\ lwSlot'.built = lwSlot.built /\ lwSlot'.warm = 0
      /\ lwSlot'.pc = lwSlot.pc /\ lwSlot'.worker = lwSlot.worker /\ UNCHANGED lwRun
  BY SlotFields DEF LwEmptied, LwSlots
<1>2. Holding(0)
  <2>1. CASE w = 0
    BY <2>1, StillHolds DEF LwEmptied
  <2>2. CASE w # 0
    <3>1. w \in LwIds /\ lwWorker[w] \in LwWorkers
      BY <2>2, SlotFields, LwTyped DEF Built
    <3> QED
      BY <2>2, <3>1, AbortedHolds DEF LwEmptied
  <2> QED
    BY <2>1, <2>2
<1>3. \A i \in LwIds : Untaken(i)' => Untaken(i)
  BY <1>1, SlotFields DEF Untaken
<1> QED
  BY <1>1, <1>2, <1>3, SlotHanded

\* A step of capture x, and the worker k it may have spoken to.
LEMMA RunHanded ==
    ASSUME LwInv, HandedInv, NEW k, Holding(k), NEW x \in LwCaptures,
           k = 0 \/ (k \in LwIds /\ k = lwRun[x].worker),
           NEW r \in LwRuns, lwRun' = [lwRun EXCEPT ![x] = r], r.worker = lwRun[x].worker,
           UNCHANGED lwSlot \/ \E w \in Nat : lwSlot' = Spawned(lwSlot, w),
           GivenInv(x)'
    PROVE  HandedInv'
<1>1. lwRun' \in [LwCaptures -> LwRuns] /\ lwRun'[x] = r
      /\ \A y \in LwCaptures \ {x} : lwRun'[y] = lwRun[y]
  BY LwTyped
<1>2. /\ lwSlot'.built = lwSlot.built /\ lwSlot'.warm = lwSlot.warm
      /\ lwSlot'.pc = "starting" => lwSlot.pc = "starting" /\ lwSlot'.worker = lwSlot.worker
  BY SpawnedSlot
<1>3. ~Untaken(k) \/ k = 0
  BY DEF HandedInv, PlaceInv
<1>4. ASSUME NEW y \in LwCaptures PROVE GivenInv(y)'
  <2>1. CASE y # x
    <3>1. lwRun[y].worker # k \/ k = 0
      BY <2>1, SlotFields DEF HandedInv, PlaceInv
    <3> QED
      BY <1>1, <2>1, <3>1, KeepsGiven
  <2> QED
    BY <2>1
<1>5. \A y \in LwCaptures : lwRun'[y].worker = lwRun[y].worker
  BY <1>1
<1>6. \A i \in LwIds : Untaken(i)' => Untaken(i)
  BY <1>2 DEF Untaken
<1> QED
  BY <1>2, <1>3, <1>4, <1>5, <1>6, KeepsHanded

LEMMA OfferHanded ==
    ASSUME LwInv, HandedInv, NEW x \in LwCaptures, LwOffer(x)
    PROVE  HandedInv'
<1> DEFINE i == lwRun[x].worker
           n == lwRun[x].offered
           r == [lwRun[x] EXCEPT !.offered = n + 1]
           w == lwWorker[i]
           v == WorkerOffered(w, n)
<1>1. lwRun[x] \in LwRuns /\ lwRun[x].pc = "offering" /\ i \in LwIds /\ n \in Nat
      /\ w \in LwWorkers
  BY LwTyped DEF LwOffer, WorkerInv, Built, LwRuns
<1>2. /\ lwRun[x].outcome = "none"
      /\ w.failed # TRUE => /\ w.open = TRUE /\ w.ended # TRUE
                            /\ Held(w) \o w.staged = Upto(n)
  BY <1>1 DEF HandedInv, GivenInv
<1>3. v.failed # TRUE => /\ v.open = TRUE /\ v.ended # TRUE
                         /\ Held(v) \o v.staged = Upto(n + 1)
  BY <1>1, <1>2, OfferGives, UptoSeq
<1>4. r \in LwRuns /\ r.worker = i /\ r.pc = "offering" /\ r.offered = n + 1
      /\ r.outcome = "none"
  BY <1>1, <1>2 DEF LwRuns
<1>5. lwRun' = [lwRun EXCEPT ![x] = r] /\ UNCHANGED lwSlot /\ LwChanges(i, v)
  BY <1>1, LwTyped DEF LwOffer, LwRuns
<1> HIDE DEF r, v
<1>6. Holding(i) /\ lwWorker'[i] = v
  BY <1>1, <1>5, ChangedHolds
<1>7. lwRun'[x] = r
  BY <1>5, LwTyped
<1>8. GivenInv(x)'
  BY <1>3, <1>4, <1>6, <1>7 DEF GivenInv
<1> QED
  BY <1>1, <1>4, <1>5, <1>6, <1>8, RunHanded

LEMMA InputEndsHanded ==
    ASSUME LwInv, HandedInv, NEW x \in LwCaptures, LwInputEnds(x)
    PROVE  HandedInv'
<1> DEFINE i == lwRun[x].worker
           w == lwWorker[i]
           v == WorkerEnded(w)
<1>1. lwRun[x].pc = "offering" /\ i \in LwIds /\ w \in LwWorkers /\ UNCHANGED lwSlot
  BY LwTyped DEF LwInputEnds, WorkerInv, Built
<1>2. CASE lwRun[x].offered = LwFrames /\ LwChanges(i, v) /\ LwGoes(x, "waiting", "none")
  <2>1. w.failed # TRUE => /\ w.open = TRUE /\ w.ended # TRUE
                           /\ Held(w) \o w.staged = Upto(LwFrames)
    BY <1>1, <1>2 DEF HandedInv, GivenInv
  <2>2. v.failed # TRUE => Held(v) = LwUtterance
    BY <1>1, <2>1, EndGives DEF Upto, LwUtterance
  <2> HIDE DEF v
  <2>3. Holding(i) /\ lwWorker'[i] = v
    BY <1>1, <1>2, ChangedHolds
  <2>4. PICK r \in LwRuns : lwRun' = [lwRun EXCEPT ![x] = r] /\ r.pc = "waiting"
                            /\ r.worker = i /\ r.outcome = "none"
    BY <1>2, LwGone
  <2>5. lwRun'[x] = r
    BY <2>4, LwTyped
  <2>6. GivenInv(x)'
    BY <2>2, <2>3, <2>4, <2>5 DEF GivenInv
  <2> QED
    BY <1>1, <2>3, <2>4, <2>6, RunHanded
<1>3. CASE LwGoes(x, "discarded", "invalid") /\ UNCHANGED lwWorker
  <2>1. PICK r \in LwRuns : lwRun' = [lwRun EXCEPT ![x] = r] /\ r.pc = "discarded"
                            /\ r.worker = i /\ r.outcome = "invalid"
    BY <1>3, LwGone
  <2>2. lwRun'[x] = r
    BY <2>1, LwTyped
  <2>3. GivenInv(x)'
    BY <2>1, <2>2 DEF GivenInv
  <2>4. Holding(0)
    BY <1>3, StillHolds
  <2> QED
    BY <1>1, <2>1, <2>3, <2>4, RunHanded
<1> QED
  BY <1>2, <1>3 DEF LwInputEnds

LEMMA WorkerResultHanded ==
    ASSUME LwInv, HandedInv, NEW x \in LwCaptures, LwResult(x)
    PROVE  HandedInv'
<1> DEFINE i == lwRun[x].worker
           w == lwWorker[i]
           v == [w EXCEPT !.failed = TRUE]
<1>1. lwRun[x].pc = "waiting" /\ i \in LwIds /\ w \in LwWorkers /\ UNCHANGED lwSlot
  BY LwTyped DEF LwResult, WorkerInv, Built
<1>2. w.failed # TRUE => Held(w) = LwUtterance
  BY <1>1 DEF HandedInv, GivenInv
<1>3. Holding(0)
  <2>1. KeepsHeld(w, v)
    BY <1>1, AbortHolds
  <2> HIDE DEF v
  <2>2. LwChanges(i, v) \/ UNCHANGED lwWorker
    BY DEF LwResult, v
  <2> QED
    BY <1>1, <2>1, <2>2, ChangedHolds, StillHolds
<1>4. PICK o \in {"valid", "invalid"} : LwGoes(x, "finalized", o)
                                        /\ (o = "valid" => w.failed # TRUE)
  BY DEF LwResult
<1>5. PICK r \in LwRuns : lwRun' = [lwRun EXCEPT ![x] = r] /\ r.pc = "finalized"
                          /\ r.worker = i /\ r.outcome = o
  BY <1>4, LwGone
<1>6. lwRun'[x] = r
  BY <1>5, LwTyped
<1>7. Held(lwWorker'[i]) = Held(w)
  BY <1>1, <1>3, SlotFields DEF Holding, KeepsHeld
<1>8. GivenInv(x)'
  <2>1. r.outcome = "valid" => r.worker \in LwIds /\ Held(lwWorker'[r.worker]) = LwUtterance
    BY <1>1, <1>2, <1>4, <1>5, <1>7
  <2> QED
    BY <1>5, <1>6, <2>1 DEF GivenInv
<1> QED
  BY <1>1, <1>3, <1>5, <1>8, RunHanded

LEMMA FinallyHanded ==
    ASSUME LwInv, HandedInv, NEW x \in LwCaptures, LwFinally(x)
    PROVE  HandedInv'
<1> DEFINE i == lwRun[x].worker
           o == lwRun[x].outcome
<1>1. /\ lwRun[x].pc \in {"discarded", "finalized"} /\ i \in Nat /\ i \in LwIds
      /\ lwSlot' = Spawned(lwSlot, i) /\ o \in {"none", "valid", "invalid"}
      /\ LwGoes(x, "over", o)
  BY LwTyped DEF LwFinally, WorkerInv, Built, LwRuns
<1>2. Holding(0)
  BY <1>1, AbortedHolds, StillHolds DEF LwFinally
<1>3. PICK r \in LwRuns : lwRun' = [lwRun EXCEPT ![x] = r] /\ r.pc = "over"
                          /\ r.worker = i /\ r.outcome = o
  BY <1>1, LwGone
<1>4. lwRun'[x] = r /\ Held(lwWorker'[i]) = Held(lwWorker[i])
  BY <1>1, <1>2, <1>3, LwTyped, SlotFields DEF Holding, KeepsHeld
<1>5. o = "valid" => Held(lwWorker[i]) = LwUtterance
  BY DEF HandedInv, GivenInv
<1>6. GivenInv(x)'
  BY <1>1, <1>3, <1>4, <1>5 DEF GivenInv
<1> QED
  BY <1>1, <1>2, <1>3, <1>6, RunHanded

LEMMA WorkerCancelHanded ==
    ASSUME LwInv, HandedInv, NEW x \in LwCaptures, LwCancel(x)
    PROVE  HandedInv'
<1> DEFINE i == lwRun[x].worker
           r == [lwRun[x] EXCEPT !.cancel = TRUE]
<1>1. lwRun[x] \in LwRuns /\ lwRun[x].pc \notin {"idle", "over"} /\ i \in LwIds
      /\ UNCHANGED lwSlot
  BY LwTyped DEF LwCancel, WorkerInv, Built
<1>2. Holding(0)
  BY <1>1, AbortedHolds DEF LwCancel
<1>3. /\ r \in LwRuns /\ r.worker = i /\ r.pc = lwRun[x].pc /\ r.outcome = lwRun[x].outcome
      /\ r.offered = lwRun[x].offered
  BY <1>1 DEF LwRuns
<1>4. lwRun' = [lwRun EXCEPT ![x] = r]
  BY <1>1, LwTyped DEF LwCancel, LwRuns
<1> HIDE DEF r
<1>5. lwRun'[x] = r /\ KeepsHeld(lwWorker[i], lwWorker'[i])
  BY <1>1, <1>2, <1>3, <1>4, LwTyped, SlotFields DEF Holding
<1>6. GivenInv(x)
  BY DEF HandedInv
<1>7. GivenInv(x)'
  BY <1>1, <1>3, <1>5, <1>6 DEF GivenInv, KeepsHeld
<1> QED
  BY <1>1, <1>2, <1>3, <1>4, <1>7, RunHanded

LEMMA TakeHanded ==
    ASSUME LwInv, HandedInv, NEW x \in LwCaptures, LwTake(x)
    PROVE  HandedInv'
<1>1. lwRun[x] \in LwRuns /\ lwRun[x].pc = "idle" /\ lwRun[x].worker = 0
      /\ lwRun[x].offered = 0 /\ lwRun[x].outcome = "none" /\ UNCHANGED lwWorker
  BY LwTyped DEF LwTake, WorkerInv, HandedInv, GivenInv
<1>2. Holding(0)
  BY <1>1, StillHolds
<1>3. CASE lwSlot.warm = 0
  <2>1. LwGoes(x, "over", "invalid") /\ lwSlot' = Spawned(lwSlot, 0)
    BY <1>3 DEF LwTake
  <2>2. PICK r \in LwRuns : lwRun' = [lwRun EXCEPT ![x] = r] /\ r.pc = "over"
                            /\ r.worker = lwRun[x].worker /\ r.outcome = "invalid"
    BY <2>1, LwGone
  <2>3. lwRun'[x] = r
    BY <2>2, LwTyped
  <2>4. GivenInv(x)'
    BY <2>2, <2>3 DEF GivenInv
  <2> QED
    BY <1>2, <2>1, <2>2, <2>4, RunHanded
<1>4. CASE lwSlot.warm # 0
  <2> DEFINE w == lwSlot.warm
             r == [lwRun[x] EXCEPT !.pc = "offering", !.worker = w]
  <2>1. w \in Nat /\ w \in LwIds /\ w <= lwSlot.built /\ w # 0
    BY <1>4, SlotFields DEF Built
  <2>2. lwRun' = [lwRun EXCEPT ![x] = r] /\ lwSlot' = [lwSlot EXCEPT !.warm = 0]
    BY <1>1, <1>4, LwTyped DEF LwTake, LwRuns
  <2>3. lwSlot'.built = lwSlot.built /\ lwSlot'.warm = 0
        /\ lwSlot'.pc = lwSlot.pc /\ lwSlot'.worker = lwSlot.worker
    BY <2>2, SlotFields DEF LwSlots
  <2>4. Clean(lwWorker[w]) /\ \A y \in LwCaptures : lwRun[y].worker # w
    BY <2>1 DEF HandedInv, PlaceInv, Untaken
  <2>5. lwSlot.pc = "starting" => lwSlot.worker # w
    BY DEF HandedInv, PlaceInv
  <2> HIDE DEF w
  <2>6. r \in LwRuns /\ r.pc = "offering" /\ r.worker = w /\ r.offered = 0
        /\ r.outcome = "none"
    BY <1>1, <2>1 DEF LwRuns
  <2> HIDE DEF r
  <2>7. lwRun'[x] = r /\ \A y \in LwCaptures \ {x} : lwRun'[y] = lwRun[y]
    BY <2>2, LwTyped
  <2>8. ASSUME NEW y \in LwCaptures PROVE GivenInv(y)'
    <3>1. CASE y = x
      <4>1. <<>> \o <<>> = Upto(0)
        BY UptoSeq
      <4>2. lwWorker'[w].failed # TRUE
               => /\ lwWorker'[w].open = TRUE /\ lwWorker'[w].ended # TRUE
                  /\ Held(lwWorker'[w]) \o lwWorker'[w].staged = Upto(0)
        BY <1>1, <2>4, <4>1 DEF Clean
      <4> QED
        BY <2>6, <2>7, <3>1, <4>2 DEF GivenInv
    <3>2. CASE y # x
      BY <1>2, <2>7, <3>2, KeepsGiven
    <3> QED
      BY <3>1, <3>2
  <2>9. ASSUME NEW i \in LwIds, Untaken(i)'
        PROVE  Clean(lwWorker'[i]) /\ \A y \in LwCaptures : lwRun'[y].worker # i
    <3>1. i # 0
      BY SlotFields
    <3>2. lwSlot.pc = "starting" /\ i = lwSlot.worker
      BY <2>3, <2>9, <3>1 DEF Untaken
    <3>3. Clean(lwWorker[i]) /\ \A y \in LwCaptures : lwRun[y].worker # i
      BY <3>2 DEF HandedInv, PlaceInv, Untaken
    <3> QED
      BY <1>1, <2>5, <2>6, <2>7, <3>2, <3>3
  <2>10. lwSlot'.pc = "starting" => lwSlot'.warm # lwSlot'.worker
    BY <2>3, LwTyped, SlotFields DEF SlotInv, Built
  <2>11. \A y \in LwCaptures : lwRun'[y].worker <= lwSlot'.built
    BY <2>1, <2>3, <2>6, <2>7 DEF HandedInv, PlaceInv
  <2>12. \A y, z \in LwCaptures :
            lwRun'[y].worker = lwRun'[z].worker /\ lwRun'[y].worker # 0 => y = z
    BY <2>4, <2>6, <2>7 DEF HandedInv, PlaceInv
  <2>13. \A i \in LwIds : Untaken(i)' =>
            Clean(lwWorker'[i]) /\ \A y \in LwCaptures : lwRun'[y].worker # i
    BY <2>9
  <2>14. PlaceInv'
    BY <2>10, <2>11, <2>12, <2>13 DEF PlaceInv, Clean, Held
  <2> QED
    BY <2>8, <2>14 DEF HandedInv
<1> QED
  BY <1>3, <1>4

LEMMA HandedInit == ASSUME LwInit PROVE HandedInv
<1>1. /\ lwSlot.warm = 0 /\ lwSlot.pc = "joining" /\ lwSlot.built = 0
      /\ \A x \in LwCaptures : /\ lwRun[x].pc = "idle" /\ lwRun[x].worker = 0
                               /\ lwRun[x].offered = 0 /\ lwRun[x].outcome = "none"
  BY DEF LwInit
<1>2. \A i \in LwIds : ~Untaken(i)
  BY <1>1 DEF Untaken, LwIds
<1>3. PlaceInv
  BY <1>1, <1>2 DEF PlaceInv
<1>4. \A x \in LwCaptures : GivenInv(x)
  BY <1>1 DEF GivenInv
<1> QED
  BY <1>3, <1>4 DEF HandedInv

\* For any number of captures, builds and faults, any length of an utterance and of
\* a queue: a result that is called valid comes from a worker that was given the
\* whole utterance in order, whatever overflowed, failed or was cancelled on the way
\* (stt/live.py _publish, end_input, wait; stt/live_gate.py _CaptureRun.run).
THEOREM WorkerGiven == LwSpec => []LwGiven
<1>1. LwInit => HandedInv
  BY HandedInit
<1>2. LwInv /\ HandedInv /\ [LwNext]_lwVars => HandedInv'
  <2> SUFFICES ASSUME LwInv, HandedInv, [LwNext]_lwVars PROVE HandedInv'
    OBVIOUS
  <2>1. CASE WarmThread \/ LwEnsures \/ LwEnsured \/ LwLinkReset \/ LwClosing \/ LwEmptied
    BY <2>1, JoinedHanded, LandsHanded, FailsHanded, WarmEndsHanded, WantedHanded,
       EnsuredHanded, ClosingHanded, EmptiedHanded DEF WarmThread
  <2>2. CASE \E i \in LwIds : LwThread(i)
    BY <2>2, ThreadHanded
  <2>3. CASE \E x \in LwCaptures : LwTake(x) \/ LwCaptureThread(x) \/ LwCancel(x)
    BY <2>3, TakeHanded, OfferHanded, InputEndsHanded, WorkerResultHanded, FinallyHanded,
       WorkerCancelHanded DEF LwCaptureThread
  <2>4. CASE UNCHANGED lwVars
    BY <2>4, StillHolds, SlotHanded DEF lwVars, Untaken
  <2> QED
    BY <2>1, <2>2, <2>3, <2>4 DEF LwNext
<1>3. HandedInv => LwGiven
  BY DEF HandedInv, GivenInv, LwGiven, Held
<1> QED
  BY <1>1, <1>2, <1>3, LwInvariance, PTL DEF LwSpec

-----------------------------------------------------------------------------
(* Transcript: nothing said is lost, and nothing is invented.                 *)

Entries == [words : Seq(TxWord), complete : BOOLEAN, late : BOOLEAN]
TxRows == [id : TxLineIds, words : Seq(TxWord)]
StopRows == [start : 0 .. 2, words : Seq(TxWord)]

\* A text that is in the history, and one that stands: nothing followed it there but
\* what came after the end of the audio.
RecordedIn(h, words) == words = <<>> \/ \E i \in DOMAIN h : h[i].words = words
Standing(h, i) == h[i].words # <<>> /\ \A j \in DOMAIN h : j > i => h[j].late = TRUE

\* What came after the end of the audio comes last.
LateLast(h) == \A i, j \in DOMAIN h : i < j /\ h[i].late = TRUE => h[j].late = TRUE

\* While the audio flows the hypothesis is what was recorded last; the one at its end
\* stands.
TxStands ==
    /\ txPhase = "flowing" =>
          txStood = <<>> /\ \A i \in DOMAIN txHistory : txHistory[i].late # TRUE
    /\ LateLast(txHistory)
    /\ txPhase = "flowing" /\ txDropped # TRUE /\ txLast # <<>> =>
          Len(txHistory) \in DOMAIN txHistory /\ txHistory[Len(txHistory)].words = txLast
    /\ txDropped # TRUE /\ txStood # <<>> => \E i \in DOMAIN txHistory : Standing(txHistory, i)

\* Every text drained is in the history, the hypothesis among them.
TxRecorded ==
    txDropped # TRUE =>
        /\ txPhase # "stopped" => RecordedIn(txHistory, txLast)
        /\ \A entry \in txSeen : RecordedIn(txHistory, entry.words)

TxInv ==
    /\ txPhase \in {"flowing", "ended", "stopped"}
    /\ txLines \in Seq(TxRows) /\ txHistory \in Seq(Entries) /\ txDropped \in BOOLEAN
    /\ ToSet(txHistory) \subseteq txSeen
    /\ TxRecorded /\ TxStands /\ TxSound

\* The words of lines and of entries are words.
LEMMA RowWords ==
    /\ \A lines \in Seq(TxRows) : \A i \in 1 .. Len(lines) :
          lines[i].id \in TxLineIds /\ lines[i].words \in Seq(TxWord)
    /\ \A lines \in Seq(StopRows) : \A i \in 1 .. Len(lines) : lines[i].words \in Seq(TxWord)
<1>1. ASSUME NEW lines \in Seq(TxRows), NEW i \in 1 .. Len(lines)
      PROVE  lines[i].id \in TxLineIds /\ lines[i].words \in Seq(TxWord)
  <2>1. lines[i] \in TxRows
    BY ElementOfSeq
  <2> QED
    BY <2>1 DEF TxRows
<1>2. ASSUME NEW lines \in Seq(StopRows), NEW i \in 1 .. Len(lines)
      PROVE  lines[i].words \in Seq(TxWord)
  <2>1. lines[i] \in StopRows
    BY ElementOfSeq
  <2> QED
    BY <2>1 DEF StopRows
<1> QED
  BY <1>1, <1>2

LEMMA HypothesisSeq ==
    ASSUME NEW lines \in Seq(TxRows)
    PROVE  Hypothesis(lines) \in Seq(TxWord)
<1> DEFINE s == [i \in DOMAIN lines |-> lines[i].words]
<1>1. DOMAIN lines = 1 .. Len(lines) /\ Len(lines) \in Nat
  BY LenProperties
<1>2. \A i \in 1 .. Len(lines) : lines[i].words \in Seq(TxWord)
  BY RowWords
<1>3. s \in Seq(Seq(TxWord))
  BY <1>1, <1>2, IsASeq
<1> HIDE DEF s
<1>4. FlattenSeq(s) \in Seq(TxWord)
  BY <1>3, FlatConcat
<1> QED
  BY <1>4 DEF Hypothesis, s

LEMMA LinesKept ==
    ASSUME NEW lines \in Seq(TxRows), NEW id \in TxLineIds, NEW words \in Seq(TxWord)
    PROVE  LinesWith(lines, id, words) \in Seq(TxRows)
<1> DEFINE row == [id |-> id, words |-> words]
           s == [i \in DOMAIN lines |-> IF lines[i].id = id THEN row ELSE lines[i]]
<1>1. DOMAIN lines = 1 .. Len(lines) /\ Len(lines) \in Nat /\ row \in TxRows
  BY LenProperties DEF TxRows
<1> HIDE DEF row
<1>2. \A i \in 1 .. Len(lines) : (IF lines[i].id = id THEN row ELSE lines[i]) \in TxRows
  BY <1>1, ElementOfSeq
<1>3. s \in Seq(TxRows)
  BY <1>1, <1>2, IsASeq
<1>4. Append(lines, row) \in Seq(TxRows)
  BY <1>1, AppendProperties
<1> HIDE DEF s
<1>5. LinesWith(lines, id, words) = s \/ LinesWith(lines, id, words) = Append(lines, row)
  BY DEF LinesWith, s, row
<1> QED
  BY <1>3, <1>4, <1>5

LEMMA StopsTyped ==
    ASSUME NEW lines \in Seq(TxRows), NEW starts \in [DOMAIN lines -> 0 .. 2],
           NEW stop \in StopLines(lines, starts)
    PROVE  stop \in Seq(StopRows) /\ Len(stop) = Len(lines) /\ DOMAIN stop = DOMAIN lines
<1>1. DOMAIN lines = 1 .. Len(lines) /\ Len(lines) \in Nat
  BY LenProperties
<1>2. PICK keep \in [DOMAIN lines -> 0 .. TxLineLength] :
          /\ \A i \in DOMAIN lines : keep[i] <= Len(lines[i].words)
          /\ stop = [i \in DOMAIN lines |-> [start |-> starts[i],
                                             words |-> SubSeq(lines[i].words, 1, keep[i])]]
  BY DEF StopLines
<1>3. ASSUME NEW i \in 1 .. Len(lines)
      PROVE  [start |-> starts[i], words |-> SubSeq(lines[i].words, 1, keep[i])] \in StopRows
  <2>1. lines[i].words \in Seq(TxWord)
    BY RowWords
  <2>a. i \in DOMAIN lines
    BY <1>1
  <2>2. keep[i] \in Nat /\ keep[i] <= Len(lines[i].words) /\ starts[i] \in 0 .. 2
    BY <1>2, <2>a, TxAssumption DEF TxAssumption
  <2>3. SubSeq(lines[i].words, 1, keep[i]) \in Seq(TxWord)
    BY <2>1, <2>2, SubSeqProperties
  <2> QED
    BY <2>2, <2>3 DEF StopRows
<1>4. stop \in Seq(StopRows)
  BY <1>1, <1>2, <1>3, IsASeq
<1> QED
  BY <1>1, <1>2, <1>4, LenProperties

LEMMA TranscriptSeq ==
    ASSUME NEW lines \in Seq(StopRows)
    PROVE  TranscriptText(lines) \in Seq(TxWord)
<1> DEFINE here(k) == Select(lines, {line \in ToSet(lines) : line.start = k - 1})
           text(k) == FlattenSeq([i \in DOMAIN here(k) |-> here(k)[i].words])
<1>1. ASSUME NEW k \in 1 .. 3 PROVE text(k) \in Seq(TxWord)
  <2>1. here(k) \in Seq(StopRows)
    BY SelectIn
  <2> HIDE DEF here
  <2> DEFINE h == here(k)
             s == [i \in DOMAIN h |-> h[i].words]
  <2>2. h \in Seq(StopRows) /\ DOMAIN h = 1 .. Len(h) /\ Len(h) \in Nat
    BY <2>1, LenProperties
  <2>3. \A i \in 1 .. Len(h) : h[i].words \in Seq(TxWord)
    BY <2>2, RowWords
  <2>4. s \in Seq(Seq(TxWord))
    BY <2>2, <2>3, IsASeq
  <2> HIDE DEF s
  <2>5. FlattenSeq(s) \in Seq(TxWord)
    BY <2>4, FlatConcat
  <2> QED
    BY <2>5 DEF s
<1>2. TranscriptText(lines) = FlattenSeq([k \in 1 .. 3 |-> text(k)])
  BY DEF TranscriptText
<1> HIDE DEF text
<1> DEFINE s == [k \in 1 .. 3 |-> text(k)]
<1>3. s \in Seq(Seq(TxWord))
  BY <1>1, IsASeq
<1> HIDE DEF s
<1>4. FlattenSeq(s) \in Seq(TxWord)
  BY <1>3, FlatConcat
<1> QED
  BY <1>2, <1>4 DEF s

LEMMA ErasedSeq ==
    ASSUME txLines \in Seq(TxRows), NEW stop \in Seq(StopRows), Len(stop) = Len(txLines)
    PROVE  /\ Erased(stop) \in Seq(Entries)
           /\ \A i \in DOMAIN Erased(stop) : Erased(stop)[i].late = TRUE
<1> DEFINE After(n) == [i \in DOMAIN txLines |->
                          [id |-> txLines[i].id,
                           words |-> IF i <= n THEN stop[i].words ELSE txLines[i].words]]
           changed == Select([n \in DOMAIN stop |-> n],
                          {n \in DOMAIN stop : Hypothesis(After(n)) # Hypothesis(After(n - 1))})
<1>1. /\ DOMAIN txLines = 1 .. Len(txLines) /\ DOMAIN stop = 1 .. Len(txLines)
      /\ Len(txLines) \in Nat
  BY LenProperties
<1>2. ASSUME NEW n \in Nat PROVE Hypothesis(After(n)) \in Seq(TxWord)
  <2>1. \A i \in 1 .. Len(txLines) :
            /\ txLines[i].id \in TxLineIds /\ txLines[i].words \in Seq(TxWord)
            /\ stop[i].words \in Seq(TxWord)
    BY RowWords
  <2>2. \A i \in 1 .. Len(txLines) :
            [id |-> txLines[i].id,
             words |-> IF i <= n THEN stop[i].words ELSE txLines[i].words] \in TxRows
    BY <2>1 DEF TxRows
  <2>3. After(n) \in Seq(TxRows)
    BY <1>1, <2>2, IsASeq
  <2> HIDE DEF After
  <2> QED
    BY <2>3, HypothesisSeq
<1>3. [n \in DOMAIN stop |-> n] \in Seq(Nat)
  BY <1>1, IsASeq
<1>4. changed \in Seq(Nat)
  BY <1>3, SelectIn
<1>5. Erased(stop) = [k \in DOMAIN changed |-> [words |-> Hypothesis(After(changed[k])),
                                                complete |-> FALSE, late |-> TRUE]]
  BY DEF Erased
<1> HIDE DEF changed, After
<1>6. DOMAIN changed = 1 .. Len(changed) /\ Len(changed) \in Nat
      /\ \A k \in 1 .. Len(changed) : changed[k] \in Nat
  BY <1>4, LenProperties, ElementOfSeq
<1>7. \A k \in 1 .. Len(changed) :
         [words |-> Hypothesis(After(changed[k])), complete |-> FALSE, late |-> TRUE] \in Entries
  BY <1>2, <1>6 DEF Entries
<1>8. Erased(stop) \in Seq(Entries)
  BY <1>5, <1>6, <1>7, IsASeq
<1>9. \A k \in DOMAIN Erased(stop) : Erased(stop)[k].late = TRUE
  BY <1>5
<1> QED
  BY <1>8, <1>9

\* What the final text owes to the recorded hypotheses, before its wake fragment goes.
Owed(stop, h, mode, said) ==
    /\ said \in Seq(TxWord) /\ IsPrefix(stop, said)
    /\ said = stop \/ \E i \in DOMAIN h : said = h[i].words
    /\ stop # <<>> => \A i \in DOMAIN h : IsStrictPrefix(stop, h[i].words) =>
          said # stop /\ (h[i].complete = TRUE => Len(said) >= Len(h[i].words))
    /\ said = <<>> => \A i \in DOMAIN h :
          (h[i].complete = TRUE => h[i].words = <<>>) /\ ~Standing(h, i)
    /\ mode = "empty_rescue_incomplete" =>
          \E i \in DOMAIN h : /\ h[i].words = said
                              /\ \A j \in i + 1 .. Len(h) : h[j].late = TRUE

LEMMA Entry ==
    ASSUME NEW h \in Seq(Entries)
    PROVE  /\ Len(h) \in Nat /\ DOMAIN h = 1 .. Len(h)
           /\ \A i \in DOMAIN h : /\ h[i].words \in Seq(TxWord) /\ h[i].complete \in BOOLEAN
                                  /\ h[i].late \in BOOLEAN /\ Len(h[i].words) \in Nat
<1>1. Len(h) \in Nat /\ DOMAIN h = 1 .. Len(h)
  BY LenProperties
<1>2. ASSUME NEW i \in DOMAIN h
      PROVE  h[i].words \in Seq(TxWord) /\ h[i].complete \in BOOLEAN /\ h[i].late \in BOOLEAN
  <2>1. h[i] \in Entries
    BY <1>1, ElementOfSeq
  <2> QED
    BY <2>1 DEF Entries
<1>3. \A i \in DOMAIN h : Len(h[i].words) \in Nat
  BY <1>2, LenProperties
<1> QED
  BY <1>1, <1>2, <1>3

LEMMA PrefixFacts ==
    ASSUME NEW p \in Seq(TxWord)
    PROVE  IsPrefix(p, p) /\ IsPrefix(<<>>, p)
           /\ (\A q \in Seq(TxWord) : IsStrictPrefix(q, p) => p # <<>>)
<1>1. Len(p) \in Nat /\ SubSeq(p, 1, Len(p)) = p
  BY LenProperties, SubSeqFull
<1>2. Len(<<>>) = 0 /\ SubSeq(<<>>, 1, 0) = SubSeq(p, 1, 0)
  BY SubSeqEmpty, EmptySeq
<1>3. ASSUME NEW q \in Seq(TxWord), IsStrictPrefix(q, p), p = <<>> PROVE FALSE
  <2>1. Len(q) <= Len(p) /\ Len(p) = 0 /\ q # p /\ Len(q) \in Nat
    BY <1>3, EmptySeq, LenProperties DEF IsStrictPrefix, IsPrefix
  <2>2. q = <<>>
    BY <2>1, EmptySeq
  <2> QED
    BY <1>3, <2>1, <2>2
<1> QED
  BY <1>1, <1>2, <1>3 DEF IsPrefix

\* A recorded hypothesis is there when there is one to take.
LEMMA Chosen ==
    ASSUME NEW h \in Seq(Entries), NEW stop \in Seq(TxWord)
    PROVE  /\ BestComplete(h) = {}
                => \A i \in DOMAIN h : h[i].complete = TRUE => h[i].words = <<>>
           /\ RichestExtension(h, stop) = {} => Extending(h, stop) = {}
           /\ LastStanding(h) = {} => \A i \in DOMAIN h : ~Standing(h, i)
<1>1. ASSUME NEW k \in DOMAIN h, h[k].complete = TRUE, h[k].words # <<>>
      PROVE  BestComplete(h) # {}
  <2> DEFINE complete == {i \in DOMAIN h : h[i].complete /\ h[i].words # <<>>}
  <2>1. k \in complete /\ complete \subseteq 1 .. Len(h) /\ Len(h) \in Nat
    BY <1>1, Entry
  <2> HIDE DEF complete
  <2>2. PICK m \in complete : \A j \in complete : j <= m
    BY <2>1, LastPlace
  <2>3. m \in BestComplete(h)
    BY <2>2 DEF BestComplete, complete
  <2> QED
    BY <2>3
<1>2. ASSUME Extending(h, stop) # {} PROVE RichestExtension(h, stop) # {}
  <2> DEFINE complete == {i \in Extending(h, stop) : h[i].complete}
             pool == IF complete = {} THEN Extending(h, stop) ELSE complete
             f == [i \in DOMAIN h |-> Len(h[i].words)]
  <2>1. /\ pool \subseteq 1 .. Len(h) /\ pool # {} /\ Len(h) \in Nat
        /\ \A i \in 1 .. Len(h) : f[i] \in Nat /\ f[i] = Len(h[i].words)
    BY <1>2, Entry DEF Extending
  <2>2. RichestExtension(h, stop) = {i \in pool : \A j \in pool :
            \/ Len(h[j].words) < Len(h[i].words)
            \/ Len(h[j].words) = Len(h[i].words) /\ i <= j}
    BY DEF RichestExtension
  <2> HIDE DEF pool, f
  <2>3. PICK i \in pool : \A j \in pool : f[j] < f[i] \/ (f[j] = f[i] /\ i <= j)
    BY <2>1, FirstLargest
  <2>4. \A j \in pool : f[j] = Len(h[j].words)
    BY <2>1
  <2>5. \A j \in pool : \/ Len(h[j].words) < Len(h[i].words)
                        \/ Len(h[j].words) = Len(h[i].words) /\ i <= j
    BY <2>3, <2>4
  <2> QED
    BY <2>2, <2>5
<1>3. ASSUME NEW k \in DOMAIN h, Standing(h, k) PROVE LastStanding(h) # {}
  <2> DEFINE spoken == {i \in DOMAIN h : h[i].words # <<>>}
  <2>1. k \in spoken /\ spoken \subseteq 1 .. Len(h) /\ Len(h) \in Nat
    BY <1>3, Entry DEF Standing
  <2> HIDE DEF spoken
  <2>2. PICK m \in spoken : \A j \in spoken : j <= m
    BY <2>1, LastPlace
  <2>3. \A j \in DOMAIN h : j > m => j > k
    BY <2>1, <2>2, Entry
  <2>4. \A j \in DOMAIN h : j > m => h[j].late
    BY <1>3, <2>3 DEF Standing
  <2>5. m \in LastStanding(h)
    BY <2>2, <2>4 DEF LastStanding, spoken
  <2> QED
    BY <2>5
<1> QED
  BY <1>1, <1>2, <1>3

LEMMA FinalizedOwed ==
    ASSUME NEW h \in Seq(Entries), NEW stop \in Seq(TxWord), NEW final \in Finalized(stop, h)
    PROVE  Owed(stop, h, final.mode, final.words)
<1> DEFINE Taken(mode, pool) == {[mode |-> mode, words |-> h[i].words] : i \in pool}
           best == BestComplete(h)
           standing == LastStanding(h)
           rich == RichestExtension(h, stop)
<1>1. final \in IF stop = <<>>
                THEN IF best # {} THEN Taken("empty_rescue", best)
                     ELSE IF standing # {} THEN Taken("empty_rescue_incomplete", standing)
                     ELSE {[mode |-> "empty", words |-> <<>>]}
                ELSE IF rich # {} THEN Taken("erasure_rescue", rich)
                     ELSE {[mode |-> "stop", words |-> stop]}
  BY DEF Finalized
<1>2. CASE stop = <<>> /\ best # {}
  <2>1. PICK i \in best : final = [mode |-> "empty_rescue", words |-> h[i].words]
    BY <1>1, <1>2
  <2>2. i \in DOMAIN h /\ h[i].words # <<>>
    BY DEF BestComplete
  <2> QED
    BY <1>2, <2>1, <2>2, Entry, PrefixFacts DEF Owed
<1>3. CASE stop = <<>> /\ best = {} /\ standing # {}
  <2>1. PICK i \in standing :
            final = [mode |-> "empty_rescue_incomplete", words |-> h[i].words]
    BY <1>1, <1>3
  <2>2. i \in DOMAIN h /\ h[i].words # <<>> /\ \A j \in DOMAIN h : j > i => h[j].late
    BY DEF LastStanding
  <2>3. \A j \in i + 1 .. Len(h) : h[j].late = TRUE
    <3>1. ASSUME NEW j \in i + 1 .. Len(h) PROVE j \in DOMAIN h /\ j > i
      BY <2>2, Entry
    <3> QED
      BY <2>2, <3>1, Entry
  <2> QED
    BY <1>3, <2>1, <2>2, <2>3, Entry, PrefixFacts DEF Owed
<1>4. CASE stop = <<>> /\ best = {} /\ standing = {}
  <2>1. final = [mode |-> "empty", words |-> <<>>]
    BY <1>1, <1>4
  <2> QED
    BY <1>4, <2>1, Chosen, PrefixFacts DEF Owed
<1>5. CASE stop # <<>> /\ rich # {}
  <2>1. PICK i \in rich : final = [mode |-> "erasure_rescue", words |-> h[i].words]
    BY <1>1, <1>5
  <2>2. i \in Extending(h, stop)
    BY DEF RichestExtension
  <2>3. i \in DOMAIN h /\ IsStrictPrefix(stop, h[i].words)
    BY <2>2 DEF Extending
  <2>4. ASSUME NEW j \in DOMAIN h, h[j].complete = TRUE, IsStrictPrefix(stop, h[j].words)
        PROVE  Len(h[i].words) >= Len(h[j].words)
    <3>1. j \in {k \in Extending(h, stop) : h[k].complete}
      BY <2>4 DEF Extending
    <3>2. Len(h[j].words) < Len(h[i].words) \/ Len(h[j].words) = Len(h[i].words)
      BY <3>1 DEF RichestExtension
    <3> QED
      BY <2>3, <3>2, Entry
  <2>5. h[i].words # <<>> /\ IsPrefix(stop, h[i].words) /\ h[i].words \in Seq(TxWord)
    BY <2>3, Entry, PrefixFacts DEF IsStrictPrefix
  <2>6. h[i].words # stop
    BY <2>3 DEF IsStrictPrefix
  <2> QED
    BY <2>1, <2>3, <2>4, <2>5, <2>6 DEF Owed
<1>6. CASE stop # <<>> /\ rich = {}
  <2>1. final = [mode |-> "stop", words |-> stop]
    BY <1>1, <1>6
  <2>2. \A i \in DOMAIN h : ~IsStrictPrefix(stop, h[i].words)
    BY <1>6, Chosen DEF Extending
  <2> QED
    BY <1>6, <2>1, <2>2, PrefixFacts DEF Owed
<1> QED
  BY <1>2, <1>3, <1>4, <1>5, <1>6

\* What goes with the wake fragment and what stays are the text.
LEMMA StrippedWhole ==
    ASSUME NEW final, final.words \in Seq(TxWord), NEW lines \in Seq(StopRows)
    PROVE  LET f == Stripped(final, lines)
           IN  f.dropped \o f.words = final.words /\ f.mode = final.mode
<1> DEFINE fragment == WakeFragment(final, lines)
           w == final.words
<1>1. /\ Stripped(final, lines).mode = final.mode
      /\ Stripped(final, lines).dropped = fragment
      /\ Stripped(final, lines).words = SubSeq(w, Len(fragment) + 1, Len(w))
  BY DEF Stripped
<1>2. /\ fragment \in Seq(TxWord) /\ Len(fragment) \in Nat /\ Len(fragment) <= Len(w)
      /\ fragment = SubSeq(w, 1, Len(fragment)) /\ Len(w) \in Nat
  <2>1. Len(w) \in Nat
    BY LenProperties
  <2>2. CASE fragment = <<>>
    BY <2>1, <2>2, EmptySeq, SubSeqEmpty
  <2>3. CASE fragment # <<>>
    <3>1. fragment = lines[1].words /\ IsStrictPrefix(lines[1].words, w) /\ Len(lines) >= 2
      BY <2>3 DEF WakeFragment
    <3>2. fragment \in Seq(TxWord)
      <4>1. 1 \in 1 .. Len(lines)
        BY <3>1, LenProperties
      <4> QED
        BY <3>1, <4>1, RowWords
    <3>3. Len(fragment) <= Len(w) /\ SubSeq(fragment, 1, Len(fragment)) = SubSeq(w, 1, Len(fragment))
      BY <3>1 DEF IsStrictPrefix, IsPrefix
    <3>4. SubSeq(fragment, 1, Len(fragment)) = fragment /\ Len(fragment) \in Nat
      BY <3>2, SubSeqFull, LenProperties
    <3> QED
      BY <2>1, <3>2, <3>3, <3>4
  <2> QED
    BY <2>2, <2>3
<1> HIDE DEF fragment
<1>3. SubSeq(w, 1, Len(fragment)) \o SubSeq(w, Len(fragment) + 1, Len(w)) = w
  <2> DEFINE k == Len(fragment)
             n == Len(w)
  <2>1. w = SubSeq(w, 1, n) /\ w \in Seq(TxWord)
    BY SubSeqFull
  <2>2. 1 \in 1 .. n + 1 /\ k \in 1 - 1 .. n /\ n \in k .. n
    BY <1>2
  <2> HIDE DEF k, w
  <2>3. SubSeq(w, 1, k) \o SubSeq(w, k + 1, n) = SubSeq(w, 1, n)
    BY <2>1, <2>2, ConcatAdjacentSubSeq
  <2> QED
    BY <2>1, <2>3 DEF k
<1> QED
  BY <1>1, <1>2, <1>3

\* Nothing the properties speak of changes.
LEMMA TxUnchanged ==
    ASSUME TxInv, UNCHANGED txVars
    PROVE  TxInv'
<1>1. TxSound'
  BY DEF TxInv, TxSound, txVars
<1> QED
  BY <1>1 DEF TxInv, TxRecorded, TxStands, txVars

LEMMA AudioEndsInv ==
    ASSUME TxInv, TxInputEnds
    PROVE  TxInv'
<1>1. /\ txPhase = "flowing" /\ txPhase' = "ended" /\ txStood' = txLast
      /\ UNCHANGED <<txLines, txLast, txHistory, txDropped, txSeen, txStop, txFinal>>
  BY DEF TxInputEnds
<1>2. TxSound'
  BY <1>1 DEF TxSound
<1>3. ASSUME txDropped # TRUE, txLast # <<>>
      PROVE  \E i \in DOMAIN txHistory : Standing(txHistory, i)
  <2>1. Len(txHistory) \in DOMAIN txHistory /\ txHistory[Len(txHistory)].words # <<>>
    BY <1>1, <1>3 DEF TxInv, TxStands
  <2>2. \A j \in DOMAIN txHistory : ~(j > Len(txHistory))
    BY Entry DEF TxInv
  <2> QED
    BY <2>1, <2>2 DEF Standing
<1>4. TxStands'
  BY <1>1, <1>3 DEF TxInv, TxStands
<1> QED
  BY <1>1, <1>2, <1>4 DEF TxInv, TxRecorded

LEMMA HearsInv ==
    ASSUME TxInv, NEW id \in TxLineIds, NEW words \in TxTexts, NEW complete \in BOOLEAN,
           TxHears(id, words, complete)
    PROVE  TxInv'
<1>1. words \in Seq(TxWord)
  BY DEF TxTexts, BoundedSeq, SeqOf
<1> DEFINE lines == LinesWith(txLines, id, words)
           entry == [words |-> Hypothesis(lines), complete |-> complete,
                     late |-> txPhase # "flowing"]
<1>2. lines \in Seq(TxRows)
  BY <1>1, LinesKept DEF TxInv
<1>3. entry \in Entries
  BY <1>2, HypothesisSeq DEF Entries
<1>4. /\ txPhase # "stopped" /\ UNCHANGED <<txPhase, txStood>> /\ txLines' = lines
      /\ txLast' = entry.words /\ txSeen' = txSeen \cup {entry}
      /\ \/ UNCHANGED <<txHistory, txDropped>> /\ entry.words = txLast
         \/ txHistory' = Append(txHistory, entry) /\ UNCHANGED txDropped
         \/ txDropped' = TRUE /\ UNCHANGED txHistory
  <2>1. txDropped \in BOOLEAN
    BY DEF TxInv
  <2> QED
    BY <2>1 DEF TxHears, TxDrained
<1>5. entry.late = TRUE <=> txPhase # "flowing"
  OBVIOUS
<1> HIDE DEF entry, lines
<1>6. TxSound'
  BY <1>4 DEF TxSound
<1>7. ToSet(txHistory) \subseteq txSeen /\ txHistory \in Seq(Entries) /\ txDropped \in BOOLEAN
  BY DEF TxInv
<1>8. CASE UNCHANGED <<txHistory, txDropped>> /\ entry.words = txLast
  <2>1. TxRecorded' /\ TxStands'
    BY <1>4, <1>8 DEF TxInv, TxRecorded, TxStands
  <2> QED
    BY <1>2, <1>4, <1>6, <1>7, <1>8, <2>1 DEF TxInv
<1>9. CASE txDropped' = TRUE /\ UNCHANGED txHistory
  <2>1. TxRecorded' /\ TxStands'
    BY <1>4, <1>9 DEF TxInv, TxRecorded, TxStands
  <2> QED
    BY <1>2, <1>4, <1>6, <1>7, <1>9, <2>1 DEF TxInv
<1>10. CASE txHistory' = Append(txHistory, entry) /\ UNCHANGED txDropped
  <2> DEFINE h == txHistory
             n == Len(h)
  <2>1. /\ n \in Nat /\ DOMAIN h = 1 .. n /\ txHistory' \in Seq(Entries)
        /\ Len(txHistory') = n + 1 /\ DOMAIN txHistory' = 1 .. n + 1
        /\ \A i \in 1 .. n : txHistory'[i] = h[i]
        /\ txHistory'[n + 1] = entry
    BY <1>3, <1>7, <1>10, AppendProperties, LenProperties
  <2> HIDE DEF n
  <2>2. ToSet(txHistory') \subseteq txSeen'
    <3>1. \A i \in 1 .. n + 1 : i \in 1 .. n \/ i = n + 1
      BY <2>1
    <3>2. \A i \in 1 .. n : h[i] \in txSeen
      BY <1>7, <2>1 DEF ToSet
    <3> QED
      BY <1>4, <2>1, <3>1, <3>2 DEF ToSet
  <2>3. \A w : RecordedIn(h, w) => RecordedIn(txHistory', w)
    <3>1. \A i \in 1 .. n : i \in 1 .. n + 1
      BY <2>1
    <3> QED
      BY <2>1, <3>1 DEF RecordedIn
  <2>4. n + 1 \in DOMAIN txHistory'
    BY <2>1
  <2>5. RecordedIn(txHistory', entry.words)
    BY <2>1, <2>4 DEF RecordedIn
  <2>6. TxRecorded'
    BY <1>4, <1>10, <2>3, <2>5 DEF TxInv, TxRecorded
  <2>7. \A i \in DOMAIN txHistory' : i \in 1 .. n \/ i = n + 1
    BY <2>1
  <2>8. txPhase = "flowing" => \A i \in DOMAIN txHistory' : txHistory'[i].late # TRUE
    BY <1>5, <2>1, <2>7 DEF TxInv, TxStands
  <2>9. LateLast(txHistory')
    <3> SUFFICES ASSUME NEW i \in DOMAIN txHistory', NEW j \in DOMAIN txHistory',
                        i < j, txHistory'[i].late = TRUE
                 PROVE  txHistory'[j].late = TRUE
      BY DEF LateLast
    <3>1. i \in 1 .. n /\ (j \in 1 .. n \/ j = n + 1)
      BY <2>1
    <3>2. h[i].late = TRUE
      BY <2>1, <3>1
    <3>3. txPhase # "flowing"
      BY <2>1, <3>1, <3>2 DEF TxInv, TxStands
    <3>4. CASE j \in 1 .. n
      BY <2>1, <3>1, <3>2, <3>4 DEF TxInv, TxStands, LateLast
    <3>5. CASE j = n + 1
      BY <1>5, <2>1, <3>3, <3>5
    <3> QED
      BY <3>1, <3>4, <3>5
  <2>10. ASSUME txDropped # TRUE, txStood # <<>>
         PROVE  \E i \in DOMAIN txHistory' : Standing(txHistory', i)
    <3>1. PICK i \in 1 .. n : Standing(h, i)
      BY <2>1, <2>10 DEF TxInv, TxStands
    <3>2. entry.late = TRUE
      BY <1>5, <2>10 DEF TxInv, TxStands
    <3>3. \A j \in DOMAIN txHistory' : j > i => txHistory'[j].late = TRUE
      BY <2>1, <2>7, <3>1, <3>2 DEF Standing
    <3>4. i \in DOMAIN txHistory' /\ txHistory'[i].words # <<>>
      BY <2>1, <3>1 DEF Standing
    <3> QED
      BY <3>3, <3>4 DEF Standing
  <2>11. Len(txHistory') \in DOMAIN txHistory' /\ txHistory'[Len(txHistory')].words = txLast'
    BY <1>4, <2>1, <2>4
  <2>12. TxStands'
    BY <1>4, <1>10, <2>8, <2>9, <2>10, <2>11 DEF TxInv, TxStands
  <2> QED
    BY <1>2, <1>4, <1>6, <1>7, <1>10, <2>1, <2>2, <2>6, <2>12 DEF TxInv
<1> QED
  BY <1>4, <1>8, <1>9, <1>10

LEMMA StopsInv ==
    ASSUME TxInv, TxStops
    PROVE  TxInv'
<1> DEFINE Ends(stop) ==
          LET history == txHistory \o Erased(stop)
              kept == SubSeq(history, 1, IF Len(history) > TxHistoryMax THEN TxHistoryMax
                                         ELSE Len(history))
          IN /\ txStop' = stop /\ txHistory' = kept
             /\ txDropped' = (txDropped \/ kept # history)
             /\ txSeen' = txSeen \cup ToSet(Erased(stop))
             /\ txLines' = [i \in DOMAIN txLines |->
                              [id |-> txLines[i].id, words |-> stop[i].words]]
             /\ \E final \in Finalized(TranscriptText(stop), kept) :
                    txFinal' = Stripped(final, stop)
<1>1. PICK starts \in [DOMAIN txLines -> 0 .. 2] :
          \E stop \in StopLines(txLines, starts) : Ends(stop)
  BY DEF TxStops
<1>2. PICK stop \in StopLines(txLines, starts) : Ends(stop)
  BY <1>1
<1>3. txLines \in Seq(TxRows) /\ txHistory \in Seq(Entries) /\ txDropped \in BOOLEAN
  BY DEF TxInv
<1>4. stop \in Seq(StopRows) /\ Len(stop) = Len(txLines) /\ DOMAIN stop = DOMAIN txLines
  BY <1>3, StopsTyped
<1> DEFINE erased == Erased(stop)
           history == txHistory \o erased
           k == IF Len(history) > TxHistoryMax THEN TxHistoryMax ELSE Len(history)
           kept == SubSeq(history, 1, k)
           text == TranscriptText(stop)
<1>5. /\ erased \in Seq(Entries) /\ text \in Seq(TxWord)
      /\ \A i \in DOMAIN erased : erased[i].late = TRUE
  BY <1>3, <1>4, ErasedSeq, TranscriptSeq
<1>6. /\ txStop' = stop /\ txHistory' = kept /\ txDropped' = (txDropped \/ kept # history)
      /\ txSeen' = txSeen \cup ToSet(erased)
      /\ txLines' = [i \in DOMAIN txLines |-> [id |-> txLines[i].id, words |-> stop[i].words]]
      /\ \E final \in Finalized(text, kept) : txFinal' = Stripped(final, stop)
      /\ txPhase = "ended" /\ txPhase' = "stopped" /\ txStood' = txStood
  BY <1>2 DEF TxStops
<1> HIDE DEF erased, text
<1>7. history \in Seq(Entries) /\ ToSet(history) = ToSet(txHistory) \cup ToSet(erased)
  <2>1. history \in Seq(Entries) /\ Range(history) = Range(txHistory) \cup Range(erased)
    BY <1>3, <1>5, ConcatProperties, RangeConcatenation
  <2> QED
    BY <2>1 DEF ToSet, Range
<1>8. /\ Len(txHistory) \in Nat /\ DOMAIN txHistory = 1 .. Len(txHistory)
      /\ DOMAIN txHistory \subseteq DOMAIN history /\ DOMAIN history = 1 .. Len(history)
      /\ Len(history) \in Nat
      /\ \A i \in DOMAIN history :
            IF i <= Len(txHistory) THEN history[i] = txHistory[i] ELSE history[i].late = TRUE
  <2>1. /\ Len(history) = Len(txHistory) + Len(erased)
        /\ \A i \in 1 .. Len(history) :
              history[i] = IF i <= Len(txHistory) THEN txHistory[i] ELSE erased[i - Len(txHistory)]
    BY <1>3, <1>5, ConcatProperties
  <2>2. /\ Len(txHistory) \in Nat /\ DOMAIN txHistory = 1 .. Len(txHistory)
        /\ Len(erased) \in Nat /\ DOMAIN erased = 1 .. Len(erased)
        /\ DOMAIN history = 1 .. Len(history)
    BY <1>3, <1>5, <1>7, LenProperties
  <2> HIDE DEF history
  <2>3. \A i \in 1 .. Len(history) :
           i <= Len(txHistory) \/ i - Len(txHistory) \in DOMAIN erased
    BY <2>1, <2>2
  <2>4. Len(history) \in Nat /\ 1 .. Len(txHistory) \subseteq 1 .. Len(history)
    BY <2>1, <2>2
  <2> QED
    BY <1>5, <2>1, <2>2, <2>3, <2>4
<1> HIDE DEF history
<1>9. LateLast(history)
  <2> SUFFICES ASSUME NEW i \in DOMAIN history, NEW j \in DOMAIN history, i < j,
                      history[i].late = TRUE
               PROVE  history[j].late = TRUE
    BY DEF LateLast
  <2>1. CASE j <= Len(txHistory)
    <3>1. i <= Len(txHistory) /\ i \in DOMAIN txHistory /\ j \in DOMAIN txHistory
      BY <1>8, <2>1
    <3>2. history[i] = txHistory[i] /\ history[j] = txHistory[j]
      BY <1>8, <2>1, <3>1
    <3> QED
      BY <3>1, <3>2 DEF TxInv, TxStands, LateLast
  <2> QED
    BY <1>8, <2>1
<1>10. ASSUME NEW i \in DOMAIN txHistory, Standing(txHistory, i)
      PROVE  i \in DOMAIN history /\ Standing(history, i)
  <2>1. i \in DOMAIN history /\ i <= Len(txHistory)
    BY <1>8
  <2>2. history[i].words # <<>>
    BY <1>8, <1>10, <2>1 DEF Standing
  <2>3. ASSUME NEW j \in DOMAIN history, j > i PROVE history[j].late = TRUE
    <3>1. CASE j <= Len(txHistory)
      <4>1. j \in DOMAIN txHistory /\ history[j] = txHistory[j]
        BY <1>8, <3>1
      <4> QED
        BY <1>10, <2>3, <4>1 DEF Standing
    <3> QED
      BY <1>8, <3>1
  <2> QED
    BY <2>1, <2>2, <2>3 DEF Standing
<1>11. k \in Nat /\ k <= Len(history) /\ Len(history) \in Nat
  BY <1>7, LenProperties, TxAssumption DEF TxAssumption
<1> HIDE DEF k
<1>12. /\ kept \in Seq(Entries) /\ ToSet(kept) \subseteq ToSet(history)
      /\ \A i \in DOMAIN kept : i \in DOMAIN history /\ kept[i] = history[i]
  <2>1. \A i \in 1 .. k : history[i] \in Entries /\ i \in DOMAIN history
    BY <1>7, <1>11, ElementOfSeq, LenProperties
  <2>2. /\ kept \in Seq(Entries) /\ Len(kept) = IF 1 <= k THEN k - 1 + 1 ELSE 0
        /\ \A i \in 1 .. k - 1 + 1 : kept[i] = history[1 + i - 1]
    BY <1>11, <2>1, SubSeqProperties
  <2> HIDE DEF kept
  <2>3. \A i \in DOMAIN kept : i \in 1 .. k /\ kept[i] = history[i]
    BY <1>11, <2>2, LenProperties
  <2> QED
    BY <2>1, <2>2, <2>3 DEF ToSet
<1> HIDE DEF kept
<1>13. LateLast(kept)
  BY <1>12, <1>9 DEF LateLast
<1>14. txLines' \in Seq(TxRows)
  <2>1. DOMAIN txLines = 1 .. Len(txLines) /\ Len(txLines) \in Nat
    BY <1>3, LenProperties
  <2>2. \A i \in 1 .. Len(txLines) : txLines[i].id \in TxLineIds /\ stop[i].words \in Seq(TxWord)
    BY <1>3, <1>4, RowWords
  <2>3. \A i \in 1 .. Len(txLines) : [id |-> txLines[i].id, words |-> stop[i].words] \in TxRows
    BY <2>2 DEF TxRows
  <2> QED
    BY <1>6, <2>1, <2>3, IsASeq
<1>15. ToSet(kept) \subseteq txSeen'
  BY <1>3, <1>6, <1>7, <1>12 DEF TxInv
<1>16. txDropped' # TRUE => kept = history /\ txDropped # TRUE
  BY <1>3, <1>6
<1>17. ASSUME txDropped' # TRUE, NEW entry \in txSeen'
      PROVE  RecordedIn(kept, entry.words)
  <2>1. CASE entry \in txSeen
    <3>1. RecordedIn(txHistory, entry.words)
      BY <1>16, <1>17, <2>1 DEF TxInv, TxRecorded
    <3>2. \A i \in DOMAIN txHistory : i \in DOMAIN history /\ history[i] = txHistory[i]
      BY <1>8
    <3> QED
      BY <1>16, <1>17, <3>1, <3>2 DEF RecordedIn
  <2>2. CASE entry \in ToSet(erased)
    <3>1. PICK i \in DOMAIN history : history[i] = entry
      BY <1>7, <2>2 DEF ToSet
    <3> QED
      BY <1>16, <1>17, <3>1 DEF RecordedIn
  <2> QED
    BY <1>6, <2>1, <2>2
<1>18. txDropped' # TRUE /\ txStood # <<>> => \E i \in DOMAIN kept : Standing(kept, i)
  BY <1>10, <1>16 DEF TxInv, TxStands
<1>19. PICK final \in Finalized(text, kept) : txFinal' = Stripped(final, stop)
  BY <1>6
<1>20. Owed(text, kept, final.mode, final.words)
  BY <1>5, <1>12, FinalizedOwed
<1>21. txFinal'.dropped \o txFinal'.words = final.words /\ txFinal'.mode = final.mode
  BY <1>4, <1>19, <1>20, StrippedWhole DEF Owed
<1> DEFINE said == txFinal'.dropped \o txFinal'.words
<1>22. said = final.words
  BY <1>21
<1> HIDE DEF said
<1>23. IsPrefix(text, said) /\ (said = text \/ \E entry \in txSeen' : said = entry.words)
  <2>1. \A i \in DOMAIN kept : kept[i] \in txSeen'
    BY <1>15 DEF ToSet
  <2> QED
    BY <1>20, <1>22, <2>1 DEF Owed
<1>24. ASSUME text # <<>>, NEW i \in DOMAIN kept, IsStrictPrefix(text, kept[i].words)
      PROVE  /\ said # text
             /\ kept[i].complete => Len(said) >= Len(kept[i].words)
  <2>1. kept[i].complete \in BOOLEAN
    BY <1>12, Entry
  <2>2. said # text /\ (kept[i].complete = TRUE => Len(said) >= Len(kept[i].words))
    BY <1>20, <1>22, <1>24 DEF Owed
  <2> QED
    BY <2>1, <2>2
<1>25. ASSUME said = <<>>, NEW i \in DOMAIN kept, kept[i].late \/ kept[i].complete
      PROVE  kept[i].words = <<>>
  <2>1. kept[i].complete \in BOOLEAN /\ kept[i].late \in BOOLEAN
    BY <1>12, Entry
  <2>2. (kept[i].complete = TRUE => kept[i].words = <<>>) /\ ~Standing(kept, i)
    BY <1>20, <1>22, <1>25 DEF Owed
  <2>3. kept[i].late = TRUE => kept[i].words = <<>>
    <3>1. kept[i].late = TRUE => \A n \in DOMAIN kept : n > i => kept[n].late = TRUE
      BY <1>12, <1>13, Entry DEF LateLast
    <3> QED
      BY <2>2, <3>1 DEF Standing
  <2> QED
    BY <1>25, <2>1, <2>2, <2>3
<1>26. txDropped' # TRUE /\ said = <<>> => txStood = <<>>
  BY <1>20, <1>22, <1>18 DEF Owed
<1>27. txDropped' # TRUE => \A entry \in txSeen' :
           entry.words = <<>> \/ \E i \in DOMAIN kept : kept[i].words = entry.words
  BY <1>17 DEF RecordedIn
<1>28. ASSUME txFinal'.mode = "empty_rescue_incomplete"
       PROVE  \E i \in DOMAIN kept : /\ kept[i].words = said
                                     /\ \A j \in i + 1 .. Len(kept) : kept[j].late
  BY <1>20, <1>21, <1>22, <1>28 DEF Owed
<1>29. txDropped' \in BOOLEAN
  BY <1>3, <1>6
<1>30. TxSound'
  BY <1>6, <1>23, <1>27, <1>28, <1>29, <1>24, <1>25, <1>26 DEF TxSound, said, text
<1>31. TxRecorded'
  BY <1>6, <1>17 DEF TxRecorded
<1>32. TxStands'
  BY <1>6, <1>13, <1>18 DEF TxStands
<1> QED
  BY <1>6, <1>12, <1>14, <1>15, <1>29, <1>30, <1>31, <1>32 DEF TxInv

\* For every word, length of a line and of the history, and any number of updates:
\* the final text with its wake fragment begins with all that stop() returned and is
\* that or a hypothesis that was drained; unless the history overflowed, no text
\* drained is unrecorded, what goes on from a non-empty stop() is never all lost, an
\* empty final means that nothing stood at the end of the audio, and none that the
\* audio retracted comes back (stt/live.py _drain_text, finalize_transcript,
\* strip_leading_wake_fragment).
THEOREM TextSound == TxSpec => []TxSound
<1>1. TxInit => TxInv
  <2> SUFFICES ASSUME TxInit PROVE TxInv
    OBVIOUS
  <2>1. ToSet(<<>>) = {} /\ DOMAIN <<>> = {}
    BY DEF ToSet
  <2>2. TxRecorded
    BY DEF TxInit, TxRecorded, RecordedIn
  <2>3. TxStands
    BY <2>1 DEF TxInit, TxStands, LateLast
  <2> QED
    BY <2>1, <2>2, <2>3, EmptySeq DEF TxInit, TxInv, TxSound
<1>2. TxInv /\ [TxNext]_txVars => TxInv'
  <2> SUFFICES ASSUME TxInv, [TxNext]_txVars PROVE TxInv'
    OBVIOUS
  <2>1. CASE \E id \in TxLineIds, words \in TxTexts, complete \in BOOLEAN :
                 TxHears(id, words, complete)
    BY <2>1, HearsInv
  <2>2. CASE TxInputEnds
    BY <2>2, AudioEndsInv
  <2>3. CASE TxStops
    BY <2>3, StopsInv
  <2>4. CASE UNCHANGED txVars
    BY <2>4, TxUnchanged
  <2> QED
    BY <2>1, <2>2, <2>3, <2>4 DEF TxNext
<1>3. TxInv => TxSound
  BY DEF TxInv
<1> QED
  BY <1>1, <1>2, <1>3, PTL DEF TxSpec
=============================================================================
