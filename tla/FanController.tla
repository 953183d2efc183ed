---------------------------- MODULE FanController ----------------------------
(* The root fan controller (systemd/hw1-fan-controller): its poll loop over    *)
(* the files of the pwm fan and of its thermal zone, which the governor of the *)
(* kernel writes too, the ways it gives the fan back, and the guards that the  *)
(* unit runs before its start and after its stop (hw1-fan-controller.service). *)
(*                                                                             *)
(* Time is left out: a boost, a stalled rotor's patience and the wait for the  *)
(* next discovery may be over at any tick.                                     *)
EXTENDS Naturals, Sequences, FiniteSetsExt

CONSTANTS FcCurve,                   \* curve: [temp, pwm], increasing
          FcCurveHyst, FcSafeTemp, FcSafeHyst, FcHottest,
          FcQuiet, FcBoost, FcMaxPwm,
          MaxFcCommands, MaxFcMoves, MaxFcFaults  \* bounds

ASSUME FcAssumption ==
    /\ FcCurve \in Seq([temp : 0 .. FcHottest, pwm : 1 .. FcMaxPwm])
    /\ {FcCurveHyst, FcSafeTemp, FcSafeHyst, FcHottest} \subseteq Nat
    /\ FcMaxPwm \in Nat
    /\ FcSafeHyst < FcSafeTemp /\ FcQuiet \in 1 .. FcMaxPwm - 1 /\ FcBoost \in FcQuiet .. FcMaxPwm
    /\ {MaxFcCommands, MaxFcMoves, MaxFcFaults} \subseteq Nat

VARIABLES fcHw,      \* the files: [pwm, temp, zone] and governed, that the last to set
                     \* the duty was the governor (history)
          fc,        \* FanController: _hardware (holds), modes, latches, health
          fcDo,      \* what it is doing: [at, goal, tries, why, mode, level, asked]
          fcAgreed,  \* the mode the caller was last told is in force (history)
          fcFailed,  \* a hand-over failed in both of its ways (history)
          fcCut,     \* a bounce of the zone ended half way (history)
          fcCommands, fcMoves, fcFaults

fcSeen == <<fcAgreed, fcFailed, fcCut>>
fcBounds == <<fcCommands, fcMoves, fcFaults>>
fcVars == <<fcHw, fc, fcDo, fcSeen, fcBounds>>

FcModes == {"auto", "quiet", "max"}
FcFault == fcFaults < MaxFcFaults /\ fcFaults' = fcFaults + 1 /\ UNCHANGED <<fcCommands, fcMoves>>
FcAt(at) == fcDo.at = at
FcGoes(at) == fcDo' = [fcDo EXCEPT !.at = at]

\* Latches of _attach.
FcFresh(ctl) == [ctl EXCEPT !.level = 0, !.boost = FALSE, !.zero = FALSE,
                            !.stall = FALSE, !.hot = FALSE]
FcBorn == [holds |-> FALSE, mode |-> "auto", effective |-> "max", level |-> 0, boost |-> FALSE,
           zero |-> FALSE, stall |-> FALSE, hot |-> FALSE, target |-> FcMaxPwm,
           health |-> "unavailable"]
FcIdle == [at |-> "idle", goal |-> 0, tries |-> 0, why |-> "none", mode |-> "auto",
           level |-> 0, asked |-> FALSE]
FcOperational(ctl) == ctl.health \notin {"unavailable", "io_error"}

-----------------------------------------------------------------------------
(* The files.                                                                *)

\* The temperature moves, and with it a trip target: the governor of an enabled
\* zone writes the duty it wants.
FcMoves(temp) ==
    /\ fcMoves < MaxFcMoves /\ fcMoves' = fcMoves + 1
    /\ \/ fcHw' = [fcHw EXCEPT !.temp = temp]
       \/ /\ fcHw.zone = "enabled"
          /\ \E pwm \in {0, FcQuiet} :
                 fcHw' = [fcHw EXCEPT !.temp = temp, !.pwm = pwm, !.governed = TRUE]
    /\ UNCHANGED <<fc, fcDo, fcSeen, fcCommands, fcFaults>>

FcCommanded(pwm) == fcHw' = [fcHw EXCEPT !.pwm = pwm, !.governed = FALSE]

-----------------------------------------------------------------------------
(* The end of a tick, of a command and of a hand-over.                       *)

\* tick() returns; command() puts the former mode back when it failed.
Ticked(ctl) ==
    /\ fc' = IF fcDo.asked /\ ~FcOperational(ctl)
             THEN [ctl EXCEPT !.mode = fcDo.mode, !.level = fcDo.level] ELSE ctl
    /\ fcAgreed' = IF fcDo.asked /\ FcOperational(ctl) THEN ctl.mode ELSE fcAgreed
    /\ fcDo' = FcIdle

\* _io_failure and the failed _attach forget the files.
Forgotten(health) == Ticked([fc EXCEPT !.holds = FALSE, !.health = health, !.effective = "max",
                                       !.target = FcMaxPwm])

\* A hand-over is over: of an I/O failure or a failed discovery, of a stop, or
\* of the unit's guard.
HandedOver(failed) ==
    /\ fcFailed' = failed
    /\ CASE fcDo.why = "io" -> Forgotten("io_error")
         [] fcDo.why = "attach" -> Forgotten("unavailable")
         [] fcDo.why = "stop" -> /\ fc' = FcBorn /\ fcAgreed' = "auto"
                                 /\ fcDo' = [FcIdle EXCEPT !.at = "down"]
         [] fcDo.why = "guard" -> /\ UNCHANGED <<fc, fcAgreed>>
                                  /\ FcGoes(IF fcDo.tries = 0 THEN "stopped" ELSE "start")

\* Mutant: after an I/O failure a maximum that was not verified has to do.
MaxFailedTrusting == HandedOver(fcDo.why # "io")

\* The verified maximum failed: the zone's turn after an I/O failure, else the end.
MaxFailed == IF fcDo.why = "io" THEN FcGoes("policy") /\ UNCHANGED <<fc, fcAgreed, fcFailed>>
             ELSE HandedOver(TRUE)

\* The bounce failed: the maximum where it was not tried before.
BounceFailed == IF fcDo.why \in {"attach", "stop"} /\ fc.holds
                THEN FcGoes("max") /\ UNCHANGED <<fc, fcAgreed, fcFailed>>
                ELSE HandedOver(TRUE)

IoFails == fcDo' = [fcDo EXCEPT !.at = "max", !.why = "io"]

-----------------------------------------------------------------------------
(* tick().                                                                   *)

FcTick ==
    /\ FcAt("idle") /\ FcGoes(IF fc.holds THEN "read" ELSE "discover")
    /\ UNCHANGED <<fcHw, fc, fcSeen, fcBounds>>

FcCommand(mode) ==
    /\ FcAt("idle") /\ fcCommands < MaxFcCommands /\ fcCommands' = fcCommands + 1
    /\ fcDo' = [fcDo EXCEPT !.at = IF fc.holds THEN "read" ELSE "discover", !.asked = TRUE,
                            !.mode = fc.mode, !.level = fc.level]
    /\ fc' = IF mode = fc.mode THEN fc
             ELSE [fc EXCEPT !.mode = mode, !.level = IF mode = "auto" THEN 0 ELSE @]
    /\ UNCHANGED <<fcHw, fcSeen, fcMoves, fcFaults>>

\* The next discovery is not due.
FcNotDue ==
    /\ FcAt("discover") /\ Ticked(fc)
    /\ UNCHANGED <<fcHw, fcFailed, fcCut, fcBounds>>

\* _attach: the files are found and read; a fault of the first leaves nothing to
\* hand over, one of the second does.
FcAttach ==
    /\ FcAt("discover")
    /\ \/ /\ fc' = [FcFresh(fc) EXCEPT !.holds = TRUE] /\ FcGoes("read")
          /\ UNCHANGED <<fcAgreed, fcBounds>>
       \/ FcFault /\ Forgotten("unavailable")
       \/ /\ FcFault /\ fc' = [fc EXCEPT !.holds = TRUE]
          /\ fcDo' = [fcDo EXCEPT !.at = "policy", !.why = "attach"] /\ UNCHANGED fcAgreed
    /\ UNCHANGED <<fcHw, fcFailed, fcCut>>

\* _auto_pwm: the level of the curve, with hysteresis downwards.
AutoLevel(level, temp) ==
    LET up == Max({level} \cup {i \in DOMAIN FcCurve : FcCurve[i].temp <= temp})
    IN Max({0} \cup {i \in 1 .. up : FcCurve[i].temp <= temp + FcCurveHyst})
AutoPwm(level) == IF level = 0 THEN 0 ELSE FcCurve[level].pwm

HotLatch(hot, temp) == temp >= FcSafeTemp \/ (hot /\ temp + FcSafeHyst > FcSafeTemp)

\* _update up to its command: the temperature, the duty, and the tachometer, which
\* may be missing; `expired` and `patient` stand for the clock.
FcReads(rpm, expired, patient) ==
    LET hot == HotLatch(fc.hot, fcHw.temp)
        level == IF fc.mode = "auto" THEN AutoLevel(fc.level, fcHw.temp) ELSE fc.level
        normal == CASE fc.mode = "auto" -> AutoPwm(level)
                    [] fc.mode = "quiet" -> FcQuiet
                    [] fc.mode = "max" -> FcMaxPwm
        base == IF hot THEN FcMaxPwm ELSE normal
        running == fc.boost /\ ~expired
        launch == base > 0 /\ fcHw.pwm = 0 /\ rpm # "turns" /\ ~running
        still == base > 0 /\ rpm = "still"
        boost == base > 0 /\ (running \/ launch \/ (still /\ ~fc.zero))
        stall == still /\ (fc.stall \/ (fc.zero /\ ~boost /\ ~patient))
        goal == IF hot \/ stall THEN FcMaxPwm
                ELSE IF boost THEN Max({base, FcBoost}) ELSE base
        ctl == [fc EXCEPT !.hot = hot, !.level = level, !.boost = boost, !.zero = still,
                          !.stall = stall]
        done == [ctl EXCEPT !.target = goal, !.effective = IF hot \/ stall THEN "max" ELSE fc.mode,
                            !.health = "ok"]
    IN /\ FcAt("read")
       /\ IF goal = fcHw.pwm THEN Ticked(done)
          ELSE /\ fc' = ctl /\ UNCHANGED fcAgreed
               /\ fcDo' = [fcDo EXCEPT !.at = "write", !.goal = goal, !.tries = 0]
       /\ UNCHANGED <<fcHw, fcFailed, fcCut, fcBounds>>

\* The reads before the command, or the one that follows a verified write.
FcReadFails ==
    /\ FcAt("read") \/ FcAt("verify")
    /\ FcFault /\ IoFails
    /\ UNCHANGED <<fcHw, fc, fcSeen>>

\* _write_verified of the duty: written here, read back by FcVerify.
FcWrites ==
    /\ FcAt("write") /\ FcCommanded(fcDo.goal) /\ FcGoes("verify")
    /\ UNCHANGED <<fc, fcSeen, fcBounds>>

FcVerify ==
    /\ FcAt("verify") /\ fcHw.pwm = fcDo.goal
    /\ Ticked([fc EXCEPT !.target = fcDo.goal, !.health = "ok",
                         !.effective = IF fc.hot \/ fc.stall THEN "max" ELSE fc.mode])
    /\ UNCHANGED <<fcHw, fcFailed, fcCut, fcBounds>>

\* A failed write, one that took effect and was not read back, or another duty than
\* the one written: once more, then a failure.
FcWriteFails ==
    /\ \/ FcAt("verify") /\ fcHw.pwm # fcDo.goal /\ UNCHANGED fcBounds
       \/ (FcAt("write") \/ FcAt("verify")) /\ FcFault
    /\ IF fcDo.tries = 0 THEN fcDo' = [fcDo EXCEPT !.at = "write", !.tries = 1] ELSE IoFails
    /\ UNCHANGED <<fcHw, fc, fcSeen>>

-----------------------------------------------------------------------------
(* The maximum and the bounce of the zone: _best_effort_max,                 *)
(* _return_to_kernel. A write fails before it took effect or, at the readback  *)
(* of _write_verified, after.                                                  *)

FcMax ==
    /\ FcAt("max")
    /\ \/ /\ FcCommanded(FcMaxPwm) /\ FcGoes("maxed")
          /\ UNCHANGED <<fc, fcAgreed, fcFailed, fcBounds>>
       \/ FcFault /\ MaxFailed /\ (UNCHANGED fcHw \/ FcCommanded(FcMaxPwm))
    /\ UNCHANGED fcCut

FcMaxed ==
    /\ FcAt("maxed")
    /\ IF fcHw.pwm = FcMaxPwm THEN HandedOver(FALSE) ELSE MaxFailed
    /\ UNCHANGED <<fcHw, fcCut, fcBounds>>

\* The policy is step_wise already; writing it may fail all the same.
FcPolicy ==
    /\ FcAt("policy")
    /\ \/ FcGoes("disable") /\ UNCHANGED <<fc, fcAgreed, fcFailed, fcBounds>>
       \/ FcFault /\ BounceFailed
    /\ UNCHANGED <<fcHw, fcCut>>

FcDisable ==
    /\ FcAt("disable")
    /\ \/ /\ fcHw' = [fcHw EXCEPT !.zone = "disabled"] /\ FcGoes("enable")
          /\ UNCHANGED <<fc, fcAgreed, fcFailed, fcCut, fcBounds>>
       \/ FcFault /\ BounceFailed /\ UNCHANGED <<fcHw, fcCut>>
       \/ FcFault /\ BounceFailed /\ fcCut' = TRUE /\ fcHw' = [fcHw EXCEPT !.zone = "disabled"]

\* The zone evaluates anew and sets the duty it wants.
FcEnable ==
    /\ FcAt("enable")
    /\ \/ /\ \E pwm \in {0, FcQuiet} :
                 fcHw' = [fcHw EXCEPT !.zone = "enabled", !.pwm = pwm, !.governed = TRUE]
          /\ fcCut' = FALSE
          /\ \/ HandedOver(FALSE) /\ UNCHANGED fcBounds
             \/ FcFault /\ BounceFailed
       \/ FcFault /\ BounceFailed /\ fcCut' = TRUE /\ UNCHANGED fcHw

-----------------------------------------------------------------------------
(* The unit.                                                                 *)

\* SIGTERM: restore(), with the files it holds or, like the guards, with those it
\* discovers, in which case there is no maximum to fall back on.
FcStop ==
    /\ FcAt("idle")
    /\ fcDo' = [fcDo EXCEPT !.at = "policy", !.why = "stop"]
    /\ UNCHANGED <<fcHw, fc, fcSeen, fcBounds>>

\* The watchdog's SIGKILL, or a power cut of the process at any other point.
FcKilled ==
    /\ ~\E at \in {"down", "stopped", "start"} : FcAt(at)
    /\ fcDo.why # "guard" /\ FcFault
    /\ fc' = FcBorn /\ fcDo' = [FcIdle EXCEPT !.at = "down"]
    /\ fcAgreed' = "auto" /\ fcFailed' = FALSE
    /\ fcCut' = (fcCut \/ fcHw.zone = "disabled")
    /\ UNCHANGED fcHw

\* ExecStopPost and ExecStartPre: --restore-kernel, whose discovery may fail.
FcGuard ==
    /\ \/ FcAt("down") /\ fcDo' = [FcIdle EXCEPT !.at = "policy", !.why = "guard"]
       \/ FcAt("stopped") /\ fcDo' = [FcIdle EXCEPT !.at = "policy", !.why = "guard", !.tries = 1]
    /\ UNCHANGED <<fcHw, fc, fcSeen, fcBounds>>

FcStart ==
    /\ FcAt("start")
    /\ fcDo' = [FcIdle EXCEPT !.at = "discover"]
    /\ UNCHANGED <<fcHw, fc, fcSeen, fcBounds>>

FcInit ==
    /\ fcHw = [pwm |-> 0, temp |-> 0, zone |-> "enabled", governed |-> TRUE]
    /\ fc = FcBorn /\ fcAgreed = "auto" /\ fcFailed = FALSE /\ fcCut = FALSE
    /\ fcDo = [FcIdle EXCEPT !.at = "start"]
    /\ fcCommands = 0 /\ fcMoves = 0 /\ fcFaults = 0

FcNext ==
    \/ \E temp \in 0 .. FcHottest : FcMoves(temp)
    \/ FcTick \/ (\E mode \in FcModes : FcCommand(mode)) \/ FcNotDue \/ FcAttach
    \/ \E rpm \in {"missing", "still", "turns"}, expired, patient \in BOOLEAN :
           FcReads(rpm, expired, patient)
    \/ FcReadFails \/ FcWrites \/ FcVerify \/ FcWriteFails
    \/ FcMax \/ FcMaxed \/ FcPolicy \/ FcDisable \/ FcEnable
    \/ FcStop \/ FcKilled \/ FcGuard \/ FcStart

FcSpec == FcInit /\ [][FcNext]_fcVars

-----------------------------------------------------------------------------
(* Properties.                                                               *)

\* The type of the state.
FcTypeOK ==
    /\ fcHw.pwm \in 0 .. FcMaxPwm /\ fcHw.temp \in 0 .. FcHottest
    /\ fcHw.zone \in {"enabled", "disabled"} /\ fcHw.governed \in BOOLEAN
    /\ fc.mode \in FcModes /\ fc.effective \in FcModes /\ fc.level \in 0 .. Len(FcCurve)
    /\ fcDo.at \in {"idle", "discover", "read", "write", "verify", "max", "maxed", "policy",
                    "disable", "enable", "down", "stopped", "start"}
    /\ fcDo.why \in {"none", "io", "attach", "stop", "guard"} /\ fcDo.tries \in 0 .. 1

\* A controller that lost its files, or was stopped and cleaned up after, leaves
\* the fan at its maximum or to a governor that has set its duty since, never at a
\* duty of its own that nobody revises: unless both ways of the hand-over failed
\* (_io_failure, _attach, restore, the unit's guards).
FcReleased ==
    FcAt("stopped") \/ FcAt("start") \/ (FcAt("idle") /\ ~fc.holds) =>
        fcHw.governed \/ fcHw.pwm = FcMaxPwm \/ fcFailed

\* Between ticks nothing but the maximum is in force over a latched temperature or
\* stall, whatever mode is asked for (_update).
FcCools ==
    FcAt("idle") /\ fc.holds /\ (fc.hot \/ fc.stall) =>
        fc.effective = "max" /\ fc.target = FcMaxPwm

\* The mode in force is the last that a caller was told is: one whose command
\* failed is not applied by a later discovery (command).
FcAsAgreed == FcAt("idle") => fc.mode = fcAgreed

\* The zone is off only within a bounce, or after one that a fault cut short.
FcZoneOn == fcHw.zone = "disabled" => FcAt("enable") \/ fcCut

FcSafe == FcReleased /\ FcCools /\ FcAsAgreed /\ FcZoneOn
=============================================================================
