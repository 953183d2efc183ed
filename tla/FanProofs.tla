----------------------------- MODULE FanProofs -----------------------------
(* What FanController and FanBridge guarantee for every curve, every size and *)
(* bound and every number of faults: nobody leaves the fan at a duty that     *)
(* nobody revises, and a fan request is answered in order, once, over the link*)
(* it came by.  The two do not share state; each part has its invariant.      *)
EXTENDS FanController, FanBridge, WellFoundedInduction, SequenceTheorems, TLAPS

-----------------------------------------------------------------------------
(* The controller.                                                           *)

Duties == 0 .. FcMaxPwm
Levels == 0 .. Len(FcCurve)
Places == {"idle", "discover", "read", "write", "verify", "max", "maxed", "policy",
           "disable", "enable", "down", "stopped", "start"}
Handing == {"max", "maxed", "policy", "disable", "enable"}
Files == [pwm : Duties, temp : 0 .. FcHottest, zone : {"enabled", "disabled"},
          governed : BOOLEAN]
Controllers == [holds : BOOLEAN, mode : FcModes, effective : FcModes, level : Levels,
                boost : BOOLEAN, zero : BOOLEAN, stall : BOOLEAN, hot : BOOLEAN,
                target : Duties, health : {"unavailable", "io_error", "ok"}]
Doings == [at : Places, goal : Duties, tries : {0, 1},
           why : {"none", "io", "attach", "stop", "guard"}, mode : FcModes,
           level : Levels, asked : BOOLEAN]

FcTypes ==
    /\ fcHw \in Files /\ fc \in Controllers /\ fcDo \in Doings
    /\ fcAgreed \in FcModes /\ fcFailed \in BOOLEAN /\ fcCut \in BOOLEAN

\* Outside the controller's life, and under the guards, its state is that of birth.
BornInv ==
    \/ fcDo.at \in {"down", "stopped", "start"}
    \/ fcDo.why = "guard"
    => fc = FcBorn /\ fcAgreed = "auto" /\ ~fcDo.asked

\* The files are held from the discovery to the end, and only a hand-over has a
\* reason.
PlaceInv ==
    /\ fcDo.at = "idle" => fcDo = FcIdle
    /\ fcDo.at = "discover" => ~fc.holds
    /\ fcDo.at \in {"read", "write", "verify"} => fc.holds
    /\ fcDo.at \in {"discover", "read", "write", "verify", "down"} => fcDo.why = "none"
    /\ fcDo.at \in Handing => fcDo.why # "none"

\* Whoever is about to look for the files finds the fan given back.
ReleasedInv ==
    \/ fcDo.at \in {"stopped", "start", "discover"}
    \/ fcDo.at = "idle" /\ ~fc.holds
    => fcHw.governed \/ fcHw.pwm = FcMaxPwm \/ fcFailed

Cool(ctl) == ctl.hot \/ ctl.stall => ctl.effective = "max" /\ ctl.target = FcMaxPwm

CoolInv ==
    /\ fcDo.at = "idle" /\ fc.holds => Cool(fc)
    /\ fcDo.at \in {"write", "verify"} /\ (fc.hot \/ fc.stall) => fcDo.goal = FcMaxPwm

\* While a command is served the mode to come back to is the agreed one.
AgreedInv == /\ fcDo.asked => fcDo.mode = fcAgreed
             /\ ~fcDo.asked => fc.mode = fcAgreed

ZoneInv == fcHw.zone = "disabled" => fcDo.at = "enable" \/ fcCut

FcInv == FcTypes /\ BornInv /\ PlaceInv /\ ReleasedInv /\ CoolInv /\ AgreedInv /\ ZoneInv

-----------------------------------------------------------------------------
(* The curve.                                                                *)

\* A set of naturals with a bound has a greatest element.
LEMMA MaxOfBounded ==
    ASSUME NEW N \in Nat, NEW S \in SUBSET (0 .. N), S # {}
    PROVE Max(S) \in S /\ \A y \in S : Max(S) >= y
<1> DEFINE T == {N - x : x \in S}
           R == {p \in Nat \X Nat : p[1] < p[2]}
<1>1. IsWellFoundedOn(OpToRel(<, Nat), Nat)
  BY NatLessThanWellFounded
<1>2. T \subseteq Nat /\ T # {}
  <2>1. PICK x \in S : TRUE
    OBVIOUS
  <2>2. N - x \in T
    OBVIOUS
  <2>3. \A y \in S : y \in 0 .. N
    OBVIOUS
  <2>4. \A y \in S : N - y \in Nat
    BY <2>3
  <2> QED
    BY <2>2, <2>4
<1>3. PICK m \in T : \A y \in T : ~(<<y, m>> \in OpToRel(<, Nat))
  BY <1>1, <1>2, WFMin
<1>4. PICK x \in S : m = N - x
  OBVIOUS
<1>5. \A y \in S : x >= y
  <2> SUFFICES ASSUME NEW y \in S PROVE x >= y
    OBVIOUS
  <2>1. N - y \in T /\ N - y \in Nat /\ m \in Nat
    BY <1>2
  <2>2. ~(N - y < m)
    BY <2>1, <1>3 DEF OpToRel
  <2> QED
    BY <2>2, <1>4
<1> QED
  BY <1>5 DEF Max

\* The level stays on the curve.
LEMMA LevelTyped ==
    ASSUME NEW level \in Levels, NEW temp \in 0 .. FcHottest
    PROVE AutoLevel(level, temp) \in Levels
<1> DEFINE up == Max({level} \cup {i \in DOMAIN FcCurve : FcCurve[i].temp <= temp})
           down == {0} \cup {i \in 1 .. up : FcCurve[i].temp <= temp + FcCurveHyst}
<1>1. DOMAIN FcCurve = 1 .. Len(FcCurve) /\ Len(FcCurve) \in Nat
  BY FcAssumption DEF FcAssumption
<1>2. up \in Levels
  <2>1. {level} \cup {i \in DOMAIN FcCurve : FcCurve[i].temp <= temp} \in SUBSET Levels
    BY <1>1 DEF Levels
  <2> QED
    BY <2>1, <1>1, MaxOfBounded DEF Levels
<1> HIDE DEF up
<1>3. down \in SUBSET Levels /\ down # {}
  BY <1>1, <1>2 DEF Levels
<1>4. Max(down) \in down
  BY <1>1, <1>3, MaxOfBounded DEF Levels
<1>5. Max(down) \in Levels
  BY <1>3, <1>4
<1> QED
  BY <1>5 DEF AutoLevel, up

\* A level's duty is a duty.
LEMMA DutyTyped == ASSUME NEW level \in Levels PROVE AutoPwm(level) \in Duties
<1> DEFINE Steps == [temp : 0 .. FcHottest, pwm : 1 .. FcMaxPwm]
<1>1. FcCurve \in Seq(Steps)
  BY FcAssumption DEF FcAssumption
<1> HIDE DEF Steps
<1>2. DOMAIN FcCurve = 1 .. Len(FcCurve) /\ Len(FcCurve) \in Nat
      /\ \A i \in DOMAIN FcCurve : FcCurve[i] \in Steps
  BY <1>1
<1>3. DOMAIN FcCurve = 1 .. Len(FcCurve) /\ Len(FcCurve) \in Nat
      /\ \A i \in DOMAIN FcCurve : FcCurve[i] \in [temp : 0 .. FcHottest, pwm : 1 .. FcMaxPwm]
  BY <1>2 DEF Steps
<1>4. CASE level = 0
  BY <1>4, FcAssumption DEF FcAssumption, AutoPwm, Duties
<1>5. CASE level # 0
  BY <1>3, <1>5 DEF AutoPwm, Duties, Levels
<1> QED
  BY <1>4, <1>5

\* What the controller is born with has its types.
LEMMA BornTyped == /\ FcBorn \in Controllers /\ FcIdle \in Doings
                   /\ FcMaxPwm \in Duties /\ 0 \in Levels
<1>1. Len(FcCurve) \in Nat /\ FcMaxPwm \in Nat
  BY FcAssumption DEF FcAssumption
<1>2. FcMaxPwm \in Duties /\ 0 \in Levels /\ 0 \in Duties
  BY <1>1 DEF Duties, Levels
<1> QED
  BY <1>2 DEF FcBorn, FcIdle, Controllers, Doings, Places, FcModes

-----------------------------------------------------------------------------
(* The ends of a tick and of a hand-over.                                    *)

\* The unit starts the controller, with the zone on.
LEMMA FcInitInv == FcInit => FcInv
<1> SUFFICES ASSUME FcInit PROVE FcInv
  OBVIOUS
<1>1. /\ fcDo = [FcIdle EXCEPT !.at = "start"] /\ fc = FcBorn
      /\ fcHw = [pwm |-> 0, temp |-> 0, zone |-> "enabled", governed |-> TRUE]
      /\ fcAgreed = "auto" /\ fcFailed = FALSE /\ fcCut = FALSE
  BY DEF FcInit
<1>2. /\ fcDo.at = "start" /\ fcDo.why = "none" /\ ~fcDo.asked /\ fcDo \in Doings
      /\ fc.mode = "auto" /\ ~fc.holds
  BY <1>1, BornTyped DEF FcIdle, FcBorn, Doings, Places
<1>3. fcHw \in Files /\ fcHw.governed /\ fcHw.zone = "enabled"
  <2>1. 0 \in Duties /\ 0 \in 0 .. FcHottest
    BY FcAssumption DEF FcAssumption, Duties
  <2> QED
    BY <1>1, <2>1 DEF Files
<1> QED
  BY <1>1, <1>2, <1>3, BornTyped
     DEF FcInv, FcTypes, BornInv, PlaceInv, ReleasedInv, CoolInv, AgreedInv, ZoneInv,
         FcModes, Handing

\* A tick returns, and a command with it: the agreed mode is the one in force.
LEMMA TickedInv ==
    ASSUME FcInv, NEW ctl \in Controllers, Ticked(ctl), ctl.mode = fc.mode,
           ctl.holds => Cool(ctl),
           ctl.holds \/ fcHw'.governed \/ fcHw'.pwm = FcMaxPwm \/ fcFailed',
           fcHw' \in Files, fcFailed' \in BOOLEAN, fcCut' \in BOOLEAN,
           fcHw'.zone = "disabled" => fcCut'
    PROVE FcInv'
<1> USE DEF FcInv, FcTypes
<1>1. fcDo' = FcIdle /\ fcDo'.at = "idle" /\ fcDo'.why = "none" /\ ~fcDo'.asked
  BY DEF Ticked, FcIdle
<1>2. fcDo' \in Doings
  BY <1>1, BornTyped
<1>3. CASE fcDo.asked /\ ~FcOperational(ctl)
  <2>1. fc' = [ctl EXCEPT !.mode = fcDo.mode, !.level = fcDo.level] /\ fcAgreed' = fcAgreed
    BY <1>3 DEF Ticked
  <2>2. fcDo.mode \in FcModes /\ fcDo.level \in Levels /\ fcDo.mode = fcAgreed
    BY <1>3 DEF Doings, AgreedInv
  <2>3. /\ fc' \in Controllers /\ fc'.mode = fcAgreed' /\ fc'.holds = ctl.holds
        /\ fc'.hot = ctl.hot /\ fc'.stall = ctl.stall
        /\ fc'.effective = ctl.effective /\ fc'.target = ctl.target
    BY <2>1, <2>2 DEF Controllers
  <2> QED
    BY <1>1, <1>2, <2>1, <2>3
       DEF BornInv, PlaceInv, ReleasedInv, CoolInv, Cool, AgreedInv, ZoneInv, Handing
<1>4. CASE ~(fcDo.asked /\ ~FcOperational(ctl))
  <2>1. fc' = ctl
    BY <1>4 DEF Ticked
  <2>2. fcAgreed' = ctl.mode /\ ctl.mode \in FcModes
    BY <1>4 DEF Ticked, AgreedInv, Controllers
  <2> QED
    BY <1>1, <1>2, <2>1, <2>2
       DEF BornInv, PlaceInv, ReleasedInv, CoolInv, Cool, AgreedInv, ZoneInv, Handing
<1> QED
  BY <1>3, <1>4

\* A hand-over ends with the maximum, with a governor that has set its duty, or
\* with the failure of both.
LEMMA HandedOverInv ==
    ASSUME FcInv, NEW failed \in BOOLEAN, HandedOver(failed), fcDo.at \in Handing,
           failed \/ fcHw'.governed \/ fcHw'.pwm = FcMaxPwm,
           fcHw' \in Files, fcCut' \in BOOLEAN, fcHw'.zone = "disabled" => fcCut'
    PROVE FcInv'
<1> USE DEF FcInv, FcTypes
<1>1. fcFailed' = failed
  BY DEF HandedOver
<1>2. fcDo.why \in {"io", "attach", "stop", "guard"}
  BY DEF PlaceInv, Doings
<1>3. ASSUME NEW health \in {"io_error", "unavailable"}, Forgotten(health)
      PROVE FcInv'
  <2> DEFINE ctl == [fc EXCEPT !.holds = FALSE, !.health = health, !.effective = "max",
                               !.target = FcMaxPwm]
  <2>1. ctl \in Controllers /\ ctl.mode = fc.mode /\ ~ctl.holds
    BY BornTyped DEF Controllers, FcModes
  <2>2. Ticked(ctl)
    BY <1>3 DEF Forgotten
  <2> HIDE DEF ctl
  <2> QED
    BY <1>1, <2>1, <2>2, TickedInv
<1>4. CASE fcDo.why = "io"
  BY <1>3, <1>4 DEF HandedOver
<1>5. CASE fcDo.why = "attach"
  BY <1>3, <1>5 DEF HandedOver
<1>6. CASE fcDo.why = "stop"
  <2>1. fc' = FcBorn /\ fcAgreed' = "auto" /\ fcDo' = [FcIdle EXCEPT !.at = "down"]
    BY <1>6 DEF HandedOver
  <2>2. /\ fcDo' \in Doings /\ fcDo'.at = "down" /\ ~fcDo'.asked /\ fcDo'.why = "none"
        /\ FcBorn.mode = "auto"
    BY <2>1, BornTyped DEF FcIdle, Doings, Places, FcBorn
  <2> QED
    BY <1>1, <2>1, <2>2, BornTyped
       DEF BornInv, PlaceInv, ReleasedInv, CoolInv, AgreedInv, ZoneInv, Handing, FcModes
<1>7. CASE fcDo.why = "guard"
  <2>1. UNCHANGED <<fc, fcAgreed>> /\ \E at \in {"stopped", "start"} : FcGoes(at)
    BY <1>7 DEF HandedOver
  <2>2. PICK at \in {"stopped", "start"} : fcDo' = [fcDo EXCEPT !.at = at]
    BY <2>1 DEF FcGoes
  <2>3. /\ fcDo' \in Doings /\ fcDo'.at = at /\ fcDo'.asked = fcDo.asked
        /\ fcDo'.mode = fcDo.mode
    BY <2>2 DEF Doings, Places
  <2> QED
    BY <1>1, <1>7, <2>1, <2>3
       DEF BornInv, PlaceInv, ReleasedInv, CoolInv, AgreedInv, ZoneInv, Handing
<1> QED
  BY <1>2, <1>4, <1>5, <1>6, <1>7

\* The next place of a tick or of a hand-over that no property looks at.
LEMMA GoesInv ==
    ASSUME FcInv, NEW at \in {"read", "write", "verify", "max", "maxed", "policy", "disable"},
           FcGoes(at), at \in Handing => fcDo.why # "none",
           fcDo.at \notin {"down", "stopped", "start"},
           at \notin Handing => fcDo.why = "none" /\ fc.holds,
           UNCHANGED <<fc, fcAgreed, fcFailed, fcCut>>,
           fcHw' \in Files, fcHw'.zone = fcHw.zone, fcDo.at # "enable",
           at \in {"write", "verify"} /\ (fc.hot \/ fc.stall) => fcDo.goal = FcMaxPwm
    PROVE FcInv'
<1>1. fcDo' \in Doings /\ fcDo'.at = at /\ fcDo'.asked = fcDo.asked
      /\ fcDo'.mode = fcDo.mode /\ fcDo'.why = fcDo.why /\ fcDo'.goal = fcDo.goal
  BY DEF FcGoes, FcInv, FcTypes, Doings, Places
<1> QED
  BY <1>1 DEF FcInv, FcTypes, BornInv, PlaceInv, ReleasedInv, CoolInv, AgreedInv, ZoneInv,
              Handing

-----------------------------------------------------------------------------
(* The steps.                                                                *)

\* The trigger of a hand-over after an I/O failure.
LEMMA IoFailsInv ==
    ASSUME FcInv, IoFails, fcDo.at \in {"read", "verify", "write"},
           UNCHANGED <<fcHw, fc, fcAgreed, fcFailed, fcCut>>
    PROVE FcInv'
<1>1. /\ fcDo' \in Doings /\ fcDo'.at = "max" /\ fcDo'.asked = fcDo.asked
      /\ fcDo'.mode = fcDo.mode /\ fcDo'.why = "io"
  BY DEF IoFails, FcInv, FcTypes, Doings, Places
<1> QED
  BY <1>1 DEF FcInv, FcTypes, BornInv, PlaceInv, ReleasedInv, CoolInv, AgreedInv, ZoneInv,
              Handing

\* One reading of the files: the duty it asks for is the maximum over a latch.
LEMMA FcReadsInv ==
    ASSUME FcInv, NEW rpm \in {"missing", "still", "turns"}, NEW expired \in BOOLEAN,
           NEW patient \in BOOLEAN, FcReads(rpm, expired, patient)
    PROVE FcInv'
<1> DEFINE hot == HotLatch(fc.hot, fcHw.temp)
           level == IF fc.mode = "auto" THEN AutoLevel(fc.level, fcHw.temp) ELSE fc.level
           normal == CASE fc.mode = "auto" -> AutoPwm(level)
                       [] fc.mode = "quiet" -> FcQuiet
                       [] fc.mode = "max" -> FcMaxPwm
           base == IF hot THEN FcMaxPwm ELSE normal
           running == fc.boost /\ ~expired
           launch == base > 0 /\ fcHw.pwm = 0 /\ rpm # "turns" /\ ~running
           still == base > 0 /\ rpm = "still"
           boost == base > 0 /\ (running \/ launch \/ (still /\ ~fc.zero))
           stall == still /\ (fc.stall \/ (fc.zero /\ ~boost /\ ~patient))
           goal == IF hot \/ stall THEN FcMaxPwm
                   ELSE IF boost THEN Max({base, FcBoost}) ELSE base
           ctl == [fc EXCEPT !.hot = hot, !.level = level, !.boost = boost, !.zero = still,
                             !.stall = stall]
           done == [ctl EXCEPT !.target = goal,
                               !.effective = IF hot \/ stall THEN "max" ELSE fc.mode,
                               !.health = "ok"]
<1>1. /\ fc \in Controllers /\ fcHw \in Files /\ fcDo \in Doings /\ fcDo.at = "read"
      /\ fc.mode \in FcModes /\ fc.level \in Levels /\ fcHw.temp \in 0 .. FcHottest
  BY DEF FcReads, FcAt, FcInv, FcTypes, Controllers, Files
<1>2. level \in Levels
  BY <1>1, LevelTyped
<1>3. base \in Duties
  <2> HIDE DEF level, hot
  <2>1. AutoPwm(level) \in Duties /\ FcQuiet \in Duties /\ FcMaxPwm \in Duties
    BY <1>2, DutyTyped, BornTyped, FcAssumption DEF FcAssumption, Duties
  <2> QED
    BY <2>1, <1>1 DEF FcModes
<1>4. hot \in BOOLEAN /\ still \in BOOLEAN /\ boost \in BOOLEAN /\ stall \in BOOLEAN
  <2> HIDE DEF base
  <2> QED
    BY DEF HotLatch
<1>5. FcReads(rpm, expired, patient) <=>
        /\ FcAt("read")
        /\ IF goal = fcHw.pwm THEN Ticked(done)
           ELSE /\ fc' = ctl /\ UNCHANGED fcAgreed
                /\ fcDo' = [fcDo EXCEPT !.at = "write", !.goal = goal, !.tries = 0]
        /\ UNCHANGED <<fcHw, fcFailed, fcCut, fcBounds>>
  BY DEF FcReads
<1>6. goal \in Duties /\ (hot \/ stall => goal = FcMaxPwm)
  <2> HIDE DEF base, hot, stall, boost
  <2>1. FcBoost \in Duties /\ FcMaxPwm \in Nat
    BY FcAssumption DEF FcAssumption, Duties
  <2>2. {base, FcBoost} \in SUBSET (0 .. FcMaxPwm) /\ {base, FcBoost} # {}
    BY <2>1, <1>3 DEF Duties
  <2>3. Max({base, FcBoost}) \in {base, FcBoost}
    BY <2>1, <2>2, MaxOfBounded
  <2>4. CASE hot \/ stall
    BY <2>4, BornTyped
  <2>5. CASE ~(hot \/ stall) /\ boost
    <3>1. goal = Max({base, FcBoost})
      BY <2>5
    <3> QED
      BY <2>5, <3>1, <2>1, <2>3, <1>3
  <2>6. CASE ~(hot \/ stall) /\ ~boost
    BY <2>6, <1>3
  <2> QED
    BY <2>4, <2>5, <2>6
<1> HIDE DEF hot, level, base, still, boost, stall, goal
<1>7. /\ ctl \in Controllers /\ ctl.mode = fc.mode /\ ctl.holds = fc.holds
      /\ ctl.hot = hot /\ ctl.stall = stall
  <2> DEFINE warm == [fc EXCEPT !.hot = hot, !.level = level]
  <2>1. /\ warm \in Controllers /\ warm.mode = fc.mode /\ warm.holds = fc.holds
        /\ warm.hot = hot
    BY <1>1, <1>2, <1>4 DEF Controllers
  <2>2. ctl = [warm EXCEPT !.boost = boost, !.zero = still, !.stall = stall]
    BY <1>1 DEF Controllers
  <2> HIDE DEF warm, ctl
  <2> QED
    BY <2>1, <2>2, <1>4 DEF Controllers
<1>8. /\ done \in Controllers /\ done.mode = fc.mode /\ done.holds = fc.holds
      /\ Cool(done)
  <2>1. (IF hot \/ stall THEN "max" ELSE fc.mode) \in FcModes
    BY <1>1 DEF FcModes
  <2>2. /\ done \in Controllers /\ done.mode = fc.mode /\ done.holds = fc.holds
        /\ done.hot = hot /\ done.stall = stall /\ done.target = goal
        /\ done.effective = IF hot \/ stall THEN "max" ELSE fc.mode
    <3> DEFINE shown == IF hot \/ stall THEN "max" ELSE fc.mode
    <3>1. shown \in FcModes
      BY <2>1
    <3>2. done = [ctl EXCEPT !.target = goal, !.effective = shown, !.health = "ok"]
      OBVIOUS
    <3> HIDE DEF ctl, done, shown
    <3>3. /\ done \in Controllers /\ done.mode = fc.mode /\ done.holds = fc.holds
          /\ done.hot = hot /\ done.stall = stall /\ done.target = goal
          /\ done.effective = shown
      BY <3>1, <3>2, <1>6, <1>7 DEF Controllers
    <3> QED
      BY <3>3 DEF shown
  <2> QED
    BY <2>2, <1>6 DEF Cool
<1> HIDE DEF ctl, done
<1>9. UNCHANGED <<fcHw, fcFailed, fcCut>>
  BY <1>5
<1>10. CASE goal = fcHw.pwm
  <2>1. Ticked(done)
    BY <1>5, <1>10
  <2>2. fcHw.zone = "disabled" => fcCut
    BY <1>1 DEF FcInv, ZoneInv
  <2>3. fc.holds
    BY <1>1 DEF FcInv, PlaceInv
  <2> QED
    BY <2>1, <2>2, <2>3, <1>8, <1>9, TickedInv DEF FcInv, FcTypes
<1>11. CASE goal # fcHw.pwm
  <2>1. /\ fc' = ctl /\ fcAgreed' = fcAgreed
        /\ fcDo' = [fcDo EXCEPT !.at = "write", !.goal = goal, !.tries = 0]
    BY <1>5, <1>11
  <2>2. /\ fcDo' \in Doings /\ fcDo'.at = "write" /\ fcDo'.goal = goal
        /\ fcDo'.why = fcDo.why /\ fcDo'.asked = fcDo.asked /\ fcDo'.mode = fcDo.mode
    BY <2>1, <1>1, <1>6 DEF Doings, Places
  <2> QED
    BY <2>1, <2>2, <1>1, <1>6, <1>7, <1>9
       DEF FcInv, FcTypes, BornInv, PlaceInv, ReleasedInv, CoolInv, AgreedInv, ZoneInv, Handing
<1> QED
  BY <1>10, <1>11

\* The write of the duty and its reading back.
LEMMA FcWriteInv ==
    ASSUME FcInv, FcWrites \/ FcVerify \/ FcWriteFails \/ FcReadFails PROVE FcInv'
<1>1. CASE FcWrites
  <2>1. fcDo.at = "write" /\ FcGoes("verify") /\ UNCHANGED <<fc, fcAgreed, fcFailed, fcCut>>
        /\ fcHw' = [fcHw EXCEPT !.pwm = fcDo.goal, !.governed = FALSE]
    BY <1>1 DEF FcWrites, FcAt, FcCommanded, fcSeen
  <2>2. fcHw' \in Files /\ fcHw'.zone = fcHw.zone
    BY <2>1 DEF FcInv, FcTypes, Files, Doings
  <2>3. /\ fc.holds /\ fcDo.why = "none"
        /\ fc.hot \/ fc.stall => fcDo.goal = FcMaxPwm
    BY <2>1 DEF FcInv, PlaceInv, CoolInv
  <2> QED
    BY <2>1, <2>2, <2>3, GoesInv DEF Handing
<1>2. CASE FcReadFails
  BY <1>2, IoFailsInv DEF FcReadFails, FcAt, fcSeen
<1>3. CASE FcVerify
  <2>1. fcDo.at = "verify" /\ UNCHANGED <<fcHw, fcFailed, fcCut>>
    BY <1>3 DEF FcVerify, FcAt
  <2> DEFINE ctl == [fc EXCEPT !.target = fcDo.goal, !.health = "ok",
                       !.effective = IF fc.hot \/ fc.stall THEN "max" ELSE fc.mode]
  <2>2. Ticked(ctl)
    BY <1>3 DEF FcVerify
  <2>3. (IF fc.hot \/ fc.stall THEN "max" ELSE fc.mode) \in FcModes /\ fcDo.goal \in Duties
    BY DEF FcInv, FcTypes, Controllers, FcModes, Doings
  <2>4. /\ ctl \in Controllers /\ ctl.mode = fc.mode /\ ctl.holds = fc.holds
        /\ ctl.hot = fc.hot /\ ctl.stall = fc.stall /\ ctl.target = fcDo.goal
        /\ ctl.effective = IF fc.hot \/ fc.stall THEN "max" ELSE fc.mode
    BY <2>3 DEF FcInv, FcTypes, Controllers
  <2>5. Cool(ctl) /\ fc.holds /\ (fcHw.zone = "disabled" => fcCut)
    BY <2>1, <2>4 DEF FcInv, CoolInv, Cool, PlaceInv, ZoneInv
  <2> HIDE DEF ctl
  <2> QED
    BY <2>1, <2>2, <2>4, <2>5, TickedInv DEF FcInv, FcTypes
<1>4. CASE FcWriteFails
  <2>1. fcDo.at \in {"verify", "write"} /\ UNCHANGED <<fcHw, fc, fcAgreed, fcFailed, fcCut>>
    BY <1>4 DEF FcWriteFails, FcAt, fcSeen
  <2>2. CASE fcDo.tries = 0
    <3>1. fcDo' = [fcDo EXCEPT !.at = "write", !.tries = 1] /\ fcDo \in Doings
      BY <1>4, <2>2 DEF FcWriteFails, FcInv, FcTypes
    <3>2. /\ fcDo' \in Doings /\ fcDo'.at = "write" /\ fcDo'.goal = fcDo.goal
          /\ fcDo'.why = fcDo.why /\ fcDo'.asked = fcDo.asked /\ fcDo'.mode = fcDo.mode
      BY <3>1 DEF Doings, Places
    <3> QED
      BY <2>1, <3>2
         DEF FcInv, FcTypes, BornInv, PlaceInv, ReleasedInv, CoolInv, AgreedInv, ZoneInv,
             Handing
  <2>3. CASE fcDo.tries # 0
    BY <1>4, <2>1, <2>3, IoFailsInv DEF FcWriteFails
  <2> QED
    BY <2>2, <2>3
<1> QED
  BY <1>1, <1>2, <1>3, <1>4

\* The maximum failed, or the bounce did: the other way's turn, or the end.
LEMMA FailedInv ==
    ASSUME FcInv, MaxFailed \/ BounceFailed, fcDo.at \in Handing,
           fcHw' \in Files, fcCut' \in BOOLEAN, fcHw'.zone = "disabled" => fcCut'
    PROVE FcInv'
<1>1. /\ fcHw' \in Files /\ fcCut' \in BOOLEAN /\ fcDo.at \in Handing
      /\ fcHw'.zone = "disabled" => fcCut'
  OBVIOUS
<1>2. CASE HandedOver(TRUE)
  BY <1>1, <1>2, HandedOverInv
<1>3. ASSUME NEW at \in {"max", "policy"}, FcGoes(at), UNCHANGED <<fc, fcAgreed, fcFailed>>
      PROVE FcInv'
  <2>1. /\ fcDo' \in Doings /\ fcDo'.at = at /\ fcDo'.asked = fcDo.asked
        /\ fcDo'.mode = fcDo.mode /\ fcDo'.why = fcDo.why
    BY <1>3 DEF FcGoes, FcInv, FcTypes, Doings, Places
  <2> QED
    BY <1>1, <1>3, <2>1
       DEF FcInv, FcTypes, BornInv, PlaceInv, ReleasedInv, CoolInv, AgreedInv, ZoneInv, Handing
<1> QED
  BY <1>2, <1>3 DEF MaxFailed, BounceFailed

\* The maximum, which counts as the fan's release only when it was read back.
LEMMA FcMaxInv == ASSUME FcInv, FcMax \/ FcMaxed PROVE FcInv'
<1>1. fcHw \in Files /\ fcDo.at \in {"max", "maxed"} /\ fcCut' = fcCut
  BY DEF FcInv, FcTypes, FcMax, FcMaxed, FcAt
<1>2. CASE FcCommanded(FcMaxPwm) /\ FcGoes("maxed") /\ UNCHANGED <<fc, fcAgreed, fcFailed>>
  <2>1. fcHw' \in Files /\ fcHw'.zone = fcHw.zone
    BY <1>1, <1>2, BornTyped DEF FcCommanded, Files
  <2>2. fcDo.why # "none"
    BY <1>1 DEF FcInv, PlaceInv, Handing
  <2> QED
    BY <1>1, <1>2, <2>1, <2>2, GoesInv DEF Handing
<1>3. CASE MaxFailed /\ (UNCHANGED fcHw \/ FcCommanded(FcMaxPwm))
  <2>1. fcHw' \in Files /\ fcHw'.zone = fcHw.zone
    BY <1>1, <1>3, BornTyped DEF FcCommanded, Files
  <2>2. fcCut' \in BOOLEAN /\ fcDo.at \in Handing /\ (fcHw'.zone = "disabled" => fcCut')
    BY <1>1, <2>1 DEF FcInv, FcTypes, ZoneInv, Handing
  <2> QED
    BY <1>3, <2>1, <2>2, FailedInv
<1>4. CASE fcHw.pwm = FcMaxPwm /\ HandedOver(FALSE) /\ UNCHANGED fcHw
  <2>1. fcHw'.pwm = FcMaxPwm /\ fcDo.at \in Handing /\ fcDo.at # "enable"
    BY <1>1, <1>4 DEF Handing
  <2>2. fcHw' \in Files /\ fcCut' \in BOOLEAN /\ (fcHw'.zone = "disabled" => fcCut')
    BY <1>1, <1>4 DEF FcInv, FcTypes, ZoneInv
  <2> QED
    BY <1>4, <2>1, <2>2, HandedOverInv
<1> QED
  BY <1>2, <1>3, <1>4 DEF FcMax, FcMaxed

\* The bounce of the zone, after which its governor has set the duty.
LEMMA FcBounceInv == ASSUME FcInv, FcPolicy \/ FcDisable \/ FcEnable PROVE FcInv'
<1>1. /\ fcHw \in Files /\ fcDo.at \in {"policy", "disable", "enable"}
      /\ fcDo.at \in Handing /\ fcDo.why # "none" /\ fcDo \in Doings
  BY DEF FcInv, FcTypes, FcPolicy, FcDisable, FcEnable, FcAt, PlaceInv, Handing
<1>2. CASE FcPolicy
  <2>1. /\ UNCHANGED <<fcHw, fcCut>> /\ fcDo.at = "policy" /\ fcCut \in BOOLEAN
        /\ fcHw.zone = "disabled" => fcCut
    BY <1>2 DEF FcPolicy, FcAt, FcInv, FcTypes, ZoneInv
  <2>2. CASE BounceFailed
    BY <1>1, <2>1, <2>2, FailedInv
  <2>3. CASE FcGoes("disable") /\ UNCHANGED <<fc, fcAgreed, fcFailed>>
    BY <1>1, <2>1, <2>3, GoesInv DEF Handing
  <2> QED
    BY <1>2, <2>2, <2>3 DEF FcPolicy
<1>3. CASE FcDisable
  <2>1. CASE BounceFailed /\ UNCHANGED <<fcHw, fcCut>>
    <3>1. fcCut' \in BOOLEAN /\ (fcHw'.zone = "disabled" => fcCut')
      BY <1>3, <2>1 DEF FcDisable, FcAt, FcInv, FcTypes, ZoneInv
    <3> QED
      BY <1>1, <2>1, <3>1, FailedInv
  <2>2. CASE /\ fcHw' = [fcHw EXCEPT !.zone = "disabled"] /\ FcGoes("enable")
             /\ UNCHANGED <<fc, fcAgreed, fcFailed, fcCut>>
    <3>1. fcHw' \in Files /\ fcCut' = fcCut
      BY <1>1, <2>2 DEF Files
    <3>2. /\ fcDo' \in Doings /\ fcDo'.at = "enable" /\ fcDo'.asked = fcDo.asked
          /\ fcDo'.mode = fcDo.mode /\ fcDo'.why = fcDo.why
      BY <1>1, <2>2 DEF FcGoes, Doings, Places
    <3> QED
      BY <1>1, <2>2, <3>1, <3>2
         DEF FcInv, FcTypes, BornInv, PlaceInv, ReleasedInv, CoolInv, AgreedInv, ZoneInv,
             Handing
  <2>3. CASE BounceFailed /\ fcCut' = TRUE /\ fcHw' = [fcHw EXCEPT !.zone = "disabled"]
    <3>1. fcHw' \in Files
      BY <1>1, <2>3 DEF Files
    <3> QED
      BY <1>1, <2>3, <3>1, FailedInv
  <2> QED
    BY <1>3, <2>1, <2>2, <2>3 DEF FcDisable
<1>4. CASE FcEnable
  <2>1. CASE BounceFailed /\ fcCut' = TRUE /\ UNCHANGED fcHw
    BY <1>1, <2>1, FailedInv
  <2>2. ASSUME NEW pwm \in {0, FcQuiet}, HandedOver(FALSE) \/ BounceFailed, fcCut' = FALSE,
               fcHw' = [fcHw EXCEPT !.zone = "enabled", !.pwm = pwm, !.governed = TRUE]
        PROVE FcInv'
    <3>1. pwm \in Duties
      BY FcAssumption DEF FcAssumption, Duties
    <3>2. fcHw' \in Files /\ fcHw'.governed /\ fcHw'.zone = "enabled"
      BY <1>1, <2>2, <3>1 DEF Files
    <3> QED
      BY <1>1, <2>2, <3>2, HandedOverInv, FailedInv
  <2> QED
    BY <1>4, <2>1, <2>2 DEF FcEnable
<1> QED
  BY <1>2, <1>3, <1>4

\* A tick or a command begins, and the files are looked for when none are held.
LEMMA FcBeginInv ==
    ASSUME FcInv,
           \/ FcTick \/ (\E mode \in FcModes : FcCommand(mode)) \/ FcNotDue \/ FcAttach
    PROVE FcInv'
<1> USE DEF FcAt
<1>1. fc \in Controllers /\ fcDo \in Doings /\ fcHw \in Files
  BY DEF FcInv, FcTypes
<1>2. CASE FcTick
  <2>1. /\ fcDo' \in Doings /\ fcDo'.at = (IF fc.holds THEN "read" ELSE "discover")
        /\ fcDo'.asked = fcDo.asked /\ fcDo'.mode = fcDo.mode /\ fcDo'.why = fcDo.why
    BY <1>1, <1>2 DEF FcTick, FcGoes, Doings, Places
  <2>2. fcDo = FcIdle /\ fcDo.why = "none" /\ fcDo.at = "idle"
    BY <1>2 DEF FcTick, FcInv, PlaceInv, FcIdle
  <2>3. UNCHANGED <<fcHw, fc, fcAgreed, fcFailed, fcCut>>
    BY <1>2 DEF FcTick, fcSeen
  <2> QED
    BY <2>1, <2>2, <2>3
       DEF FcInv, FcTypes, BornInv, PlaceInv, ReleasedInv, CoolInv, AgreedInv, ZoneInv, Handing
<1>3. ASSUME NEW mode \in FcModes, FcCommand(mode) PROVE FcInv'
  <2>1. fcDo = FcIdle /\ fcDo.why = "none" /\ fcDo.at = "idle" /\ ~fcDo.asked
        /\ fc.mode = fcAgreed
    <3>1. fcDo = FcIdle /\ fcDo.at = "idle"
      BY <1>3 DEF FcCommand, FcInv, PlaceInv
    <3>2. fcDo.why = "none" /\ ~fcDo.asked
      BY <3>1 DEF FcIdle
    <3> QED
      BY <3>1, <3>2 DEF FcInv, AgreedInv
  <2>2. fc.mode \in FcModes /\ fc.level \in Levels
    BY <1>1 DEF Controllers
  <2>3. /\ fcDo' \in Doings /\ fcDo'.at = (IF fc.holds THEN "read" ELSE "discover")
        /\ fcDo'.asked /\ fcDo'.mode = fc.mode /\ fcDo'.why = fcDo.why
    BY <1>1, <1>3, <2>2 DEF FcCommand, Doings, Places
  <2>4. fc' \in Controllers /\ fc'.holds = fc.holds
    BY <1>1, <1>3, <2>2, BornTyped DEF FcCommand, Controllers
  <2>5. UNCHANGED <<fcHw, fcAgreed, fcFailed, fcCut>>
    BY <1>3 DEF FcCommand, fcSeen
  <2> QED
    BY <2>1, <2>3, <2>4, <2>5
       DEF FcInv, FcTypes, BornInv, PlaceInv, ReleasedInv, CoolInv, AgreedInv, ZoneInv, Handing
<1>4. CASE FcNotDue
  <2>1. Ticked(fc) /\ fcDo.at = "discover" /\ UNCHANGED <<fcHw, fcFailed, fcCut>>
    BY <1>4 DEF FcNotDue
  <2>2. ~fc.holds /\ (fcHw.governed \/ fcHw.pwm = FcMaxPwm \/ fcFailed)
        /\ (fcHw.zone = "disabled" => fcCut)
    BY <2>1 DEF FcInv, PlaceInv, ReleasedInv, ZoneInv
  <2> QED
    BY <1>1, <2>1, <2>2, TickedInv DEF FcInv, FcTypes
<1>5. CASE FcAttach
  <2>1. fcDo.at = "discover" /\ fcDo.why = "none" /\ UNCHANGED <<fcHw, fcFailed, fcCut>>
        /\ (fcHw.governed \/ fcHw.pwm = FcMaxPwm \/ fcFailed)
        /\ (fcHw.zone = "disabled" => fcCut)
    BY <1>5 DEF FcAttach, FcInv, PlaceInv, ReleasedInv, ZoneInv
  <2>2. CASE Forgotten("unavailable")
    <3> DEFINE ctl == [fc EXCEPT !.holds = FALSE, !.health = "unavailable",
                                 !.effective = "max", !.target = FcMaxPwm]
    <3>1. ctl \in Controllers /\ ctl.mode = fc.mode /\ ~ctl.holds /\ Ticked(ctl)
      BY <1>1, <2>2, BornTyped DEF Forgotten, Controllers, FcModes
    <3> HIDE DEF ctl
    <3> QED
      BY <2>1, <3>1, TickedInv DEF FcInv, FcTypes
  <2>3. CASE /\ fc' = [FcFresh(fc) EXCEPT !.holds = TRUE] /\ FcGoes("read")
             /\ UNCHANGED fcAgreed
    <3>1. fc' \in Controllers /\ fc'.holds /\ fc'.mode = fc.mode
      BY <1>1, <2>3, BornTyped DEF FcFresh, Controllers
    <3>2. /\ fcDo' \in Doings /\ fcDo'.at = "read" /\ fcDo'.asked = fcDo.asked
          /\ fcDo'.mode = fcDo.mode /\ fcDo'.why = fcDo.why
      BY <1>1, <2>3 DEF FcGoes, Doings, Places
    <3> QED
      BY <2>1, <2>3, <3>1, <3>2
         DEF FcInv, FcTypes, BornInv, PlaceInv, ReleasedInv, CoolInv, AgreedInv, ZoneInv,
             Handing
  <2>4. CASE /\ fc' = [fc EXCEPT !.holds = TRUE] /\ UNCHANGED fcAgreed
             /\ fcDo' = [fcDo EXCEPT !.at = "policy", !.why = "attach"]
    <3>1. fc' \in Controllers /\ fc'.mode = fc.mode
      BY <1>1, <2>4 DEF Controllers
    <3>2. /\ fcDo' \in Doings /\ fcDo'.at = "policy" /\ fcDo'.asked = fcDo.asked
          /\ fcDo'.mode = fcDo.mode /\ fcDo'.why = "attach"
      BY <1>1, <2>4 DEF Doings, Places
    <3> QED
      BY <2>1, <2>4, <3>1, <3>2
         DEF FcInv, FcTypes, BornInv, PlaceInv, ReleasedInv, CoolInv, AgreedInv, ZoneInv,
             Handing
  <2> QED
    BY <1>5, <2>2, <2>3, <2>4 DEF FcAttach
<1> QED
  BY <1>2, <1>3, <1>4, <1>5

\* The unit's life: the stop, the kill, the guards and the start.
LEMMA FcUnitInv == ASSUME FcInv, FcStop \/ FcKilled \/ FcGuard \/ FcStart PROVE FcInv'
<1> USE DEF FcAt
<1>1. fc \in Controllers /\ fcDo \in Doings /\ fcHw \in Files /\ fcCut \in BOOLEAN
  BY DEF FcInv, FcTypes
<1>2. CASE FcStop
  <2>1. fcDo = FcIdle /\ ~fcDo.asked /\ fcDo.at = "idle"
    BY <1>2 DEF FcStop, FcInv, PlaceInv, FcIdle
  <2>2. /\ fcDo' \in Doings /\ fcDo'.at = "policy" /\ fcDo'.why = "stop" /\ ~fcDo'.asked
        /\ UNCHANGED <<fcHw, fc, fcAgreed, fcFailed, fcCut>>
    BY <1>1, <1>2, <2>1 DEF FcStop, fcSeen, Doings, Places
  <2> QED
    BY <2>1, <2>2
       DEF FcInv, FcTypes, BornInv, PlaceInv, ReleasedInv, CoolInv, AgreedInv, ZoneInv, Handing
<1>3. CASE FcKilled
  <2>1. /\ fc' = FcBorn /\ fcDo' = [FcIdle EXCEPT !.at = "down"] /\ fcAgreed' = "auto"
        /\ fcFailed' = FALSE /\ fcHw' = fcHw
        /\ fcCut' = (fcCut \/ fcHw.zone = "disabled")
    BY <1>3 DEF FcKilled
  <2>2. /\ fcDo' \in Doings /\ fcDo'.at = "down" /\ fcDo'.why = "none" /\ ~fcDo'.asked
        /\ fcCut' \in BOOLEAN /\ fc'.mode = "auto"
    BY <1>1, <2>1, BornTyped DEF FcIdle, FcBorn, Doings, Places
  <2> QED
    BY <2>1, <2>2, BornTyped
       DEF FcInv, FcTypes, BornInv, PlaceInv, ReleasedInv, CoolInv, AgreedInv, ZoneInv, Handing,
           FcModes
<1>4. CASE FcGuard
  <2>1. /\ fcDo.at \in {"down", "stopped"} /\ UNCHANGED <<fcHw, fc, fcAgreed, fcFailed, fcCut>>
        /\ \/ fcDo' = [FcIdle EXCEPT !.at = "policy", !.why = "guard"]
           \/ fcDo' = [FcIdle EXCEPT !.at = "policy", !.why = "guard", !.tries = 1]
    BY <1>4 DEF FcGuard, fcSeen
  <2>2. fcDo' \in Doings /\ fcDo'.at = "policy" /\ fcDo'.why = "guard" /\ ~fcDo'.asked
    BY <2>1, BornTyped DEF FcIdle, Doings, Places
  <2>3. fc = FcBorn /\ fcAgreed = "auto" /\ FcBorn.mode = "auto"
    BY <2>1 DEF FcInv, BornInv, FcBorn
  <2> QED
    BY <2>1, <2>2, <2>3
       DEF FcInv, FcTypes, BornInv, PlaceInv, ReleasedInv, CoolInv, AgreedInv, ZoneInv, Handing
<1>5. CASE FcStart
  <2>1. /\ fcDo.at = "start" /\ fcDo' = [FcIdle EXCEPT !.at = "discover"]
        /\ UNCHANGED <<fcHw, fc, fcAgreed, fcFailed, fcCut>>
    BY <1>5 DEF FcStart, fcSeen
  <2>2. fcDo' \in Doings /\ fcDo'.at = "discover" /\ fcDo'.why = "none" /\ ~fcDo'.asked
    BY <2>1, BornTyped DEF FcIdle, Doings, Places
  <2>3. fc = FcBorn /\ fcAgreed = "auto" /\ fc.mode = "auto" /\ ~fc.holds
    BY <2>1 DEF FcInv, BornInv, FcBorn
  <2> QED
    BY <2>1, <2>2, <2>3
       DEF FcInv, FcTypes, BornInv, PlaceInv, ReleasedInv, CoolInv, AgreedInv, ZoneInv, Handing
<1> QED
  BY <1>2, <1>3, <1>4, <1>5

\* The temperature moves, and the governor may set the duty it wants.
LEMMA FcMovesInv == ASSUME FcInv, NEW temp \in 0 .. FcHottest, FcMoves(temp) PROVE FcInv'
<1>1. fcHw \in Files /\ UNCHANGED <<fc, fcDo, fcAgreed, fcFailed, fcCut>>
  BY DEF FcInv, FcTypes, FcMoves, fcSeen
<1>2. CASE fcHw' = [fcHw EXCEPT !.temp = temp]
  <2>1. /\ fcHw' \in Files /\ fcHw'.zone = fcHw.zone /\ fcHw'.pwm = fcHw.pwm
        /\ fcHw'.governed = fcHw.governed
    BY <1>1, <1>2 DEF Files
  <2> QED
    BY <1>1, <2>1
       DEF FcInv, FcTypes, BornInv, PlaceInv, ReleasedInv, CoolInv, AgreedInv, ZoneInv
<1>3. ASSUME NEW pwm \in {0, FcQuiet},
             fcHw' = [fcHw EXCEPT !.temp = temp, !.pwm = pwm, !.governed = TRUE]
      PROVE FcInv'
  <2>1. pwm \in Duties
    BY FcAssumption DEF FcAssumption, Duties
  <2>2. fcHw' \in Files /\ fcHw'.zone = fcHw.zone /\ fcHw'.governed
    BY <1>1, <1>3, <2>1 DEF Files
  <2> QED
    BY <1>1, <2>2
       DEF FcInv, FcTypes, BornInv, PlaceInv, ReleasedInv, CoolInv, AgreedInv, ZoneInv
<1> QED
  BY <1>2, <1>3 DEF FcMoves

\* One lemma per group of actions.
LEMMA FcStepInv == FcInv /\ [FcNext]_fcVars => FcInv'
<1> SUFFICES ASSUME FcInv, [FcNext]_fcVars PROVE FcInv'
  OBVIOUS
<1>1. CASE UNCHANGED fcVars
  BY <1>1 DEF fcVars, fcSeen, FcInv, FcTypes, BornInv, PlaceInv, ReleasedInv, CoolInv, Cool,
              AgreedInv, ZoneInv
<1>2. CASE FcNext
  BY <1>2, FcMovesInv, FcBeginInv, FcReadsInv, FcWriteInv, FcMaxInv, FcBounceInv, FcUnitInv
     DEF FcNext
<1> QED
  BY <1>1, <1>2

\* The strengthening implies what the runs check.
LEMMA FcInvSafe == FcInv => FcSafe /\ FcTypeOK
<1> SUFFICES ASSUME FcInv PROVE FcSafe /\ FcTypeOK
  OBVIOUS
<1>1. FcSafe
  <2>1. FcReleased
    BY DEF FcInv, ReleasedInv, FcReleased, FcAt
  <2>2. FcCools
    BY DEF FcInv, CoolInv, Cool, FcCools, FcAt
  <2>3. FcAsAgreed
    BY DEF FcInv, PlaceInv, AgreedInv, FcAsAgreed, FcAt, FcIdle
  <2>4. FcZoneOn
    BY DEF FcInv, ZoneInv, FcZoneOn, FcAt
  <2> QED
    BY <2>1, <2>2, <2>3, <2>4 DEF FcSafe
<1>2. FcTypeOK
  BY DEF FcInv, FcTypes, Files, Controllers, Doings, Duties, Levels, Places, FcTypeOK
<1> QED
  BY <1>1, <1>2

\* The controller's state has its types, for every curve and every bound.
THEOREM FcTyped == FcSpec => []FcTypeOK
<1> QED
  BY FcInitInv, FcStepInv, FcInvSafe, PTL DEF FcSpec

\* The fan is never left at a duty that nobody revises, the maximum is in force
\* over a latched temperature or stall, a failed command's mode is undone and the
\* zone is off only within a bounce, for every curve, bound and number of faults.
THEOREM FanNeverAbandoned == FcSpec => []FcSafe
<1> QED
  BY FcInitInv, FcStepInv, FcInvSafe, PTL DEF FcSpec

-----------------------------------------------------------------------------
(* The bridge.                                                               *)

Calls == {"accept", "report", "applied", "failed"}
Recs == [id : FanId, action : {"status", "mode"}, stage : {"queued", "accepted", "terminal"},
         started : BOOLEAN, acceptDue : BOOLEAN, reportDue : BOOLEAN, finalDue : BOOLEAN,
         outcome : {"none", "applied", "failed"}, enqueued : BOOLEAN, retries : Nat,
         timer : BOOLEAN, detached : BOOLEAN, epoch : Nat, login : Nat, calls : Nat,
         got : Seq(Calls), missed : BOOLEAN]
Workers == [at : {"idle", "accept", "report", "final", "call"}, r : Nat, tries : Nat]

\* What the firmware can have seen of a record, and what it is owed then.
Told(rec) ==
    /\ rec.stage = "queued" => rec.got = <<>> \/ rec.got = <<"accept">>
    /\ rec.stage = "accepted" => rec.got = <<"accept">>
    /\ rec.outcome = "applied" =>
          \/ rec.got = <<"accept">> /\ (rec.finalDue => rec.reportDue)
          \/ rec.got = <<"accept", "report">> \/ rec.got = <<"accept", "report", "applied">>
    /\ rec.outcome = "failed" =>
          \/ rec.got = <<>> \/ rec.got = <<"failed">>
          \/ rec.got = <<"accept">> \/ rec.got = <<"accept", "failed">>

\* How far a record has come.
Staged(rec) ==
    /\ rec.outcome = "none" <=> rec.stage # "terminal"
    /\ rec.stage = "queued" => ~rec.started /\ rec.calls = 0 /\ (rec.timer => rec.acceptDue)
    /\ rec.stage = "accepted" => rec.started
    /\ rec.acceptDue => rec.stage = "queued"
    /\ rec.reportDue => rec.outcome = "applied"
    /\ rec.finalDue => rec.stage = "terminal"
    /\ rec.calls <= IF rec.action = "mode" THEN 2 ELSE 1
    /\ rec.detached => rec.outcome = "failed" /\ ~rec.timer

\* What the worker awaits for a record, and what a cached record owes meanwhile.
Awaited(r, rec, queue, cache, worker) ==
    /\ worker.at = "accept" => rec.stage = "queued"
    /\ worker.at = "call" => rec.stage = "accepted" /\ rec.calls = worker.tries
    /\ worker.at = "report" => rec.outcome = "applied"
    /\ worker.at = "final" =>
          rec.stage = "terminal" /\ (rec.outcome = "applied" => rec.got # <<"accept">>)
    /\ r \in cache =>
          /\ worker.at = "accept" => rec.acceptDue
          /\ worker.at = "report" => rec.reportDue
          /\ worker.at = "final" => rec.finalDue /\ (rec.reportDue => r \in queue \/ rec.missed)

\* Who holds a record: the queue, the cache, the worker or its timer, all of them
\* only in the epoch of the record.
Held(r, rec, queue, cache, worker, epoch) ==
    /\ rec.epoch <= epoch
    /\ rec.timer \/ r \in queue \/ r \in cache \/ worker.r = r => rec.epoch = epoch
    /\ r \in queue => rec.enqueued \/ rec.detached
    /\ rec.enqueued /\ rec.epoch = epoch => r \in queue
    /\ r \in cache => /\ ~rec.detached
                      /\ \/ rec.stage = "terminal" /\ ~FanPending(rec)
                         \/ worker.r = r \/ r \in queue \/ rec.timer \/ rec.missed
    /\ rec.stage = "accepted" /\ rec.epoch = epoch => worker.at = "call" /\ worker.r = r
    /\ worker.r = r => Awaited(r, rec, queue, cache, worker)

Sound(rec) == rec \in Recs /\ Told(rec) /\ Staged(rec)

\* A sequence of records holds each once.
Line(s) == s \in Seq(Nat) /\ IsInjective(s)

Lines == /\ Line(fanCache) /\ Range(fanCache) \subseteq DOMAIN fan
         /\ Line(fanQueue) /\ Range(fanQueue) \subseteq DOMAIN fan

AtWork == /\ fanWorker \in Workers
          /\ fanWorker.at = "idle" => fanWorker = FanIdle
          /\ fanWorker.at # "idle" => fanWorker.r \in DOMAIN fan

FbInv ==
    /\ fan \in Seq(Recs) /\ fanEpoch \in Nat /\ Lines /\ AtWork
    /\ \A r \in DOMAIN fan :
          Sound(fan[r]) /\ Held(r, fan[r], Range(fanQueue), Range(fanCache), fanWorker, fanEpoch)

-----------------------------------------------------------------------------
LEMMA LineAppend ==
    ASSUME NEW s, Line(s), NEW r \in Nat, r \notin Range(s)
    PROVE  Line(Append(s, r)) /\ Range(Append(s, r)) = Range(s) \cup {r}
<1>1. /\ s \in Seq(Nat) /\ Len(s) \in Nat /\ DOMAIN s = 1 .. Len(s)
      /\ Append(s, r) \in Seq(Nat) /\ DOMAIN Append(s, r) = 1 .. Len(s) + 1
      /\ \A i \in 1 .. Len(s) : Append(s, r)[i] = s[i]
      /\ Append(s, r)[Len(s) + 1] = r
  BY AppendProperties, LenProperties DEF Line
<1>2. \A i \in DOMAIN Append(s, r) : \/ i \in DOMAIN s /\ Append(s, r)[i] = s[i]
                                     \/ i = Len(s) + 1 /\ Append(s, r)[i] = r
  BY <1>1
<1>3. \A i \in DOMAIN s : i \in DOMAIN Append(s, r)
  BY <1>1
<1>4. Len(s) + 1 \in DOMAIN Append(s, r)
  BY <1>1
<1>5. IsInjective(Append(s, r))
  BY <1>2 DEF Line, IsInjective, Range
<1>6. Range(Append(s, r)) = Range(s) \cup {r}
  BY <1>1, <1>2, <1>3, <1>4 DEF Range
<1> QED
  BY <1>1, <1>5, <1>6 DEF Line

LEMMA LineTail ==
    ASSUME NEW s, Line(s), s # <<>>
    PROVE  /\ Line(Tail(s)) /\ Head(s) \in Range(s) /\ Range(Tail(s)) = Range(s) \ {Head(s)}
<1>1. /\ Tail(s) \in Seq(Nat) /\ Len(s) \in Nat \ {0}
      /\ DOMAIN s = 1 .. Len(s) /\ DOMAIN Tail(s) = 1 .. Len(s) - 1 /\ s[1] = Head(s)
      /\ \A i \in 1 .. Len(s) - 1 : Tail(s)[i] = s[i + 1]
  BY HeadTailProperties, LenProperties, EmptySeq DEF Line
<1>2. \A i \in DOMAIN Tail(s) : i + 1 \in DOMAIN s /\ Tail(s)[i] = s[i + 1] /\ i + 1 # 1 /\ i \in Nat
  BY <1>1
<1>3. \A i \in DOMAIN s : i = 1 \/ (i - 1 \in DOMAIN Tail(s) /\ Tail(s)[i - 1] = s[i])
  BY <1>1
<1>4. 1 \in DOMAIN s
  BY <1>1
<1>5. IsInjective(Tail(s))
  <2> SUFFICES ASSUME NEW k \in DOMAIN Tail(s), NEW l \in DOMAIN Tail(s), Tail(s)[k] = Tail(s)[l]
              PROVE  k = l
    BY DEF IsInjective
  <2>1. /\ k \in Nat /\ k + 1 \in DOMAIN s /\ Tail(s)[k] = s[k + 1]
        /\ l \in Nat /\ l + 1 \in DOMAIN s /\ Tail(s)[l] = s[l + 1]
    BY <1>2
  <2> DEFINE a == k + 1
             b == l + 1
  <2>2. a \in DOMAIN s /\ b \in DOMAIN s /\ s[a] = s[b]
    BY <2>1
  <2>3. a = b
    <3> HIDE DEF a, b
    <3> QED
      BY <2>2 DEF Line, IsInjective
  <2> QED
    BY <2>1, <2>3
<1>6. Range(Tail(s)) = Range(s) \ {Head(s)}
  <2>1. ASSUME NEW k \in DOMAIN Tail(s) PROVE Tail(s)[k] \in Range(s) \ {Head(s)}
    <3> DEFINE a == k + 1
    <3>1. a \in DOMAIN s /\ Tail(s)[k] = s[a] /\ a # 1
      BY <1>2
    <3> HIDE DEF a
    <3> QED
      BY <1>1, <1>4, <3>1 DEF Line, IsInjective, Range
  <2>2. ASSUME NEW k \in DOMAIN s, k # 1 PROVE s[k] \in Range(Tail(s))
    BY <1>3, <2>2 DEF Range
  <2> QED
    BY <1>1, <2>1, <2>2 DEF Range
<1> QED
  BY <1>1, <1>4, <1>5, <1>6 DEF Line, Range

LEMMA LineRemoved ==
    ASSUME NEW s, Line(s), NEW i \in DOMAIN s
    PROVE  /\ Line(RemoveAt(s, i)) /\ Range(RemoveAt(s, i)) = Range(s) \ {s[i]}
<1> DEFINE n == Len(s)
           t == RemoveAt(s, i)
<1>1. s \in Seq(Nat) /\ n \in Nat /\ DOMAIN s = 1 .. n /\ i \in 1 .. n
  BY LenProperties DEF Line
<1>2. \A k \in 1 .. n : s[k] \in Nat
  BY <1>1, ElementOfSeq
<1>3. /\ SubSeq(s, 1, i - 1) \in Seq(Nat) /\ Len(SubSeq(s, 1, i - 1)) = i - 1
      /\ \A k \in 1 .. i - 1 : SubSeq(s, 1, i - 1)[k] = s[k]
  <2>1. \A k \in 1 .. i - 1 : s[k] \in Nat
    BY <1>1, <1>2
  <2>2. /\ SubSeq(s, 1, i - 1) \in Seq(Nat)
        /\ Len(SubSeq(s, 1, i - 1)) = IF 1 <= i - 1 THEN i - 1 - 1 + 1 ELSE 0
        /\ \A k \in 1 .. i - 1 - 1 + 1 : SubSeq(s, 1, i - 1)[k] = s[1 + k - 1]
    BY <1>1, <2>1, SubSeqProperties
  <2> QED
    BY <1>1, <2>2
<1>4. /\ SubSeq(s, i + 1, n) \in Seq(Nat) /\ Len(SubSeq(s, i + 1, n)) = n - i
      /\ \A k \in 1 .. n - i : SubSeq(s, i + 1, n)[k] = s[i + k]
  <2> DEFINE m == i + 1
             b == SubSeq(s, m, n)
  <2>1. \A k \in m .. n : s[k] \in Nat
    BY <1>1, <1>2
  <2>2. m \in Int /\ n \in Int /\ i \in Int /\ m = i + 1 /\ n \in Nat /\ i \in 1 .. n
    BY <1>1
  <2>3. /\ b \in Seq(Nat) /\ Len(b) = IF m <= n THEN n - m + 1 ELSE 0
        /\ \A k \in 1 .. n - m + 1 : b[k] = s[m + k - 1]
    <3> HIDE DEF m, n
    <3> QED
      BY <2>1, <2>2, SubSeqProperties, SMTT(20)
  <2>4. Len(b) = n - i
    <3> HIDE DEF b, m, n
    <3>1. CASE m <= n
      BY <2>2, <2>3, <3>1
    <3>2. CASE ~(m <= n)
      BY <2>2, <2>3, <3>2
    <3> QED
      BY <3>1, <3>2
  <2>5. ASSUME NEW k \in 1 .. n - i PROVE b[k] = s[i + k]
    <3>1. k \in 1 .. n - m + 1 /\ m + k - 1 = i + k
      BY <1>1
    <3> HIDE DEF b, m
    <3> QED
      BY <2>3, <3>1
  <2> QED
    BY <2>3, <2>4, <2>5
<1>5. /\ t \in Seq(Nat) /\ Len(t) = n - 1
      /\ \A k \in 1 .. n - 1 : t[k] = IF k <= i - 1 THEN s[k] ELSE s[k + 1]
  <2> DEFINE a == SubSeq(s, 1, i - 1)
             b == SubSeq(s, i + 1, n)
  <2>1. t = a \o b
    BY DEF RemoveAt
  <2>2. /\ a \in Seq(Nat) /\ Len(a) = i - 1 /\ (\A k \in 1 .. i - 1 : a[k] = s[k])
        /\ b \in Seq(Nat) /\ Len(b) = n - i /\ (\A k \in 1 .. n - i : b[k] = s[i + k])
    BY <1>3, <1>4
  <2> HIDE DEF a, b, t
  <2>3. /\ a \o b \in Seq(Nat) /\ Len(a \o b) = Len(a) + Len(b)
        /\ \A k \in 1 .. Len(a) + Len(b) : (a \o b)[k] = IF k <= Len(a) THEN a[k] ELSE b[k - Len(a)]
    BY <2>2, ConcatProperties
  <2>4. Len(a) + Len(b) = n - 1
    BY <1>1, <2>2
  <2>5. ASSUME NEW k \in 1 .. n - 1 PROVE t[k] = IF k <= i - 1 THEN s[k] ELSE s[k + 1]
    <3>1. t[k] = IF k <= i - 1 THEN a[k] ELSE b[k - (i - 1)]
      BY <2>1, <2>2, <2>3, <2>4
    <3>2. CASE k <= i - 1
      BY <1>1, <2>2, <3>1, <3>2
    <3>3. CASE ~(k <= i - 1)
      <4> DEFINE l == k - (i - 1)
      <4>1. l \in 1 .. n - i /\ i + l = k + 1
        BY <1>1, <3>3
      <4>2. t[k] = b[l]
        BY <3>1, <3>3
      <4> HIDE DEF l
      <4>3. t[k] = s[i + l]
        BY <2>2, <4>1, <4>2
      <4> QED
        BY <3>3, <4>1, <4>3
    <3> QED
      BY <3>2, <3>3
  <2> QED
    BY <2>1, <2>3, <2>4, <2>5
<1> HIDE DEF t, n
<1>6. DOMAIN t = 1 .. n - 1
  <2>1. DOMAIN t = 1 .. Len(t)
    BY <1>5, LenProperties
  <2> QED
    BY <1>5, <2>1
<1>7. \A k \in DOMAIN t : \/ k < i /\ k \in DOMAIN s /\ t[k] = s[k]
                          \/ k >= i /\ k + 1 \in DOMAIN s /\ t[k] = s[k + 1]
  <2> SUFFICES ASSUME NEW k \in 1 .. n - 1
               PROVE  \/ k < i /\ k \in DOMAIN s /\ t[k] = s[k]
                      \/ k >= i /\ k + 1 \in DOMAIN s /\ t[k] = s[k + 1]
    BY <1>6
  <2>1. t[k] = IF k <= i - 1 THEN s[k] ELSE s[k + 1]
    BY <1>5
  <2>2. n \in Nat /\ i \in 1 .. n /\ DOMAIN s = 1 .. n
    BY <1>1
  <2>3. CASE k <= i - 1
    BY <2>1, <2>2, <2>3
  <2>4. CASE ~(k <= i - 1)
    BY <2>1, <2>2, <2>4
  <2> QED
    BY <2>3, <2>4
<1>8. \A k \in DOMAIN s : \/ k = i \/ (k < i /\ k \in DOMAIN t /\ t[k] = s[k])
                          \/ (k > i /\ k - 1 \in DOMAIN t /\ t[k - 1] = s[k])
  <2> SUFFICES ASSUME NEW k \in DOMAIN s, k # i
               PROVE  \/ (k < i /\ k \in DOMAIN t /\ t[k] = s[k])
                      \/ (k > i /\ k - 1 \in DOMAIN t /\ t[k - 1] = s[k])
    OBVIOUS
  <2>1. n \in Nat /\ i \in 1 .. n /\ k \in 1 .. n
    BY <1>1
  <2>2. CASE k < i
    BY <1>5, <1>6, <2>1, <2>2
  <2>3. CASE k > i
    <3> DEFINE l == k - 1
    <3>1. l \in 1 .. n - 1 /\ ~(l <= i - 1) /\ l + 1 = k
      BY <2>1, <2>3
    <3> HIDE DEF l
    <3>2. l \in DOMAIN t /\ t[l] = s[k]
      BY <1>5, <1>6, <3>1
    <3> QED
      BY <2>3, <3>2 DEF l
  <2> QED
    BY <2>1, <2>2, <2>3
<1>9. DOMAIN s \subseteq Nat /\ DOMAIN t \subseteq Nat /\ i \in Nat
  BY <1>1, <1>6
<1>10. IsInjective(t)
  <2> SUFFICES ASSUME NEW k \in DOMAIN t, NEW l \in DOMAIN t, t[k] = t[l] PROVE k = l
    BY DEF IsInjective
  <2>1. PICK a \in DOMAIN s : t[k] = s[a] /\ ((k < i /\ a = k) \/ (k >= i /\ a = k + 1))
    BY <1>7
  <2>2. PICK b \in DOMAIN s : t[l] = s[b] /\ ((l < i /\ b = l) \/ (l >= i /\ b = l + 1))
    BY <1>7
  <2>3. a = b
    BY <2>1, <2>2 DEF Line, IsInjective
  <2> QED
    BY <1>9, <2>1, <2>2, <2>3
<1>11. Range(t) = Range(s) \ {s[i]}
  <2>1. ASSUME NEW k \in DOMAIN t PROVE t[k] \in Range(s) \ {s[i]}
    <3>1. PICK a \in DOMAIN s : t[k] = s[a] /\ ((k < i /\ a = k) \/ (k >= i /\ a = k + 1))
      BY <1>7
    <3>2. a # i
      BY <1>9, <3>1
    <3> QED
      BY <3>1, <3>2 DEF Line, IsInjective, Range
  <2>2. ASSUME NEW k \in DOMAIN s, k # i PROVE s[k] \in Range(t)
    BY <1>8, <2>2 DEF Range
  <2> QED
    BY <2>1, <2>2 DEF Range
<1> QED
  BY <1>5, <1>10, <1>11 DEF Line, t

LEMMA LineWithout ==
    ASSUME NEW s, Line(s), NEW r
    PROVE  Line(Without(s, r)) /\ Range(Without(s, r)) = Range(s) \ {r}
<1>1. CASE r \in Range(s)
  <2> DEFINE i == CHOOSE k \in DOMAIN s : s[k] = r
  <2>1. i \in DOMAIN s /\ s[i] = r
    BY <1>1 DEF Range
  <2>2. Without(s, r) = RemoveAt(s, i)
    BY <1>1 DEF Without
  <2> HIDE DEF i
  <2> QED
    BY <2>1, <2>2, LineRemoved
<1>2. CASE r \notin Range(s)
  BY <1>2 DEF Without
<1> QED
  BY <1>1, <1>2

\* Room is made by forgetting at most one record.
LEMMA RoomIs ==
    ASSUME FbInv, Len(fanCache) < FanCacheSize \/ Evictable # {}
    PROVE  Line(RoomMade) /\ Range(RoomMade) \subseteq Range(fanCache)
<1>0. Line(fanCache)
  BY DEF FbInv, Lines
<1>1. CASE Len(fanCache) < FanCacheSize
  BY <1>0, <1>1 DEF RoomMade
<1>2. CASE ~(Len(fanCache) < FanCacheSize)
  <2>1. Evictable # {} /\ Evictable \subseteq DOMAIN fanCache
    BY <1>2 DEF Evictable
  <2>2. Evictable \subseteq Nat
    <3>1. DOMAIN fanCache = 1 .. Len(fanCache) /\ Len(fanCache) \in Nat
      BY <1>0, LenProperties DEF Line
    <3> QED
      BY <2>1, <3>1
  <2>3. \E i \in Evictable : \A j \in Evictable : i <= j
    <3>1. IsWellFoundedOn(OpToRel(<, Nat), Nat)
      BY NatLessThanWellFounded
    <3>2. PICK i \in Evictable : \A j \in Evictable : ~(<<j, i>> \in OpToRel(<, Nat))
      BY <2>1, <2>2, <3>1, WFMin
    <3>3. \A j \in Evictable : ~(j < i)
      BY <2>2, <3>2 DEF OpToRel
    <3> QED
      BY <2>2, <3>3
  <2> DEFINE i == CHOOSE i \in Evictable : \A j \in Evictable : i <= j
  <2>4. i \in Evictable
    BY <2>3
  <2>5. RoomMade = RemoveAt(fanCache, i)
    BY <1>2 DEF RoomMade
  <2> HIDE DEF i
  <2> QED
    BY <1>0, <2>1, <2>4, <2>5, LineRemoved
<1> QED
  BY <1>1, <1>2

-----------------------------------------------------------------------------
\* A step that changes one record.
LEMMA OneRecord ==
    ASSUME FbInv, NEW r \in DOMAIN fan, NEW rec, Sound(rec),
           fan' = [fan EXCEPT ![r] = rec], UNCHANGED fanEpoch,
           Line(fanCache'), Range(fanCache') \subseteq Range(fanCache),
           Line(fanQueue'), Range(fanQueue') \subseteq Range(fanQueue) \cup {r},
           Range(fanQueue) \subseteq Range(fanQueue') \cup {r},
           AtWork', \/ UNCHANGED fanWorker
                    \/ fanWorker.r \in {0, r} /\ fanWorker'.r \in {0, r},
           Held(r, rec, Range(fanQueue'), Range(fanCache'), fanWorker', fanEpoch)
    PROVE  FbInv'
<1>1. fan' \in Seq(Recs) /\ DOMAIN fan' = DOMAIN fan /\ fanEpoch' \in Nat
  BY DEF FbInv, Sound
<1>2. fan'[r] = rec /\ \A q \in DOMAIN fan : q # r => fan'[q] = fan[q]
  BY DEF FbInv
<1>3. Lines'
  BY <1>1 DEF FbInv, Lines
<1>4. ASSUME NEW q \in DOMAIN fan, q # r
      PROVE  /\ Sound(fan'[q])
             /\ Held(q, fan'[q], Range(fanQueue'), Range(fanCache'), fanWorker', fanEpoch')
  <2>1. Sound(fan[q]) /\ Held(q, fan[q], Range(fanQueue), Range(fanCache), fanWorker, fanEpoch)
    BY DEF FbInv
  <2>2. q # 0
    BY LenProperties DEF FbInv
  <2>3. q \in Range(fanQueue') <=> q \in Range(fanQueue)
    BY <1>4
  <2>4. q \in Range(fanCache') => q \in Range(fanCache)
    OBVIOUS
  <2>5. fan'[q] = fan[q]
    BY <1>2, <1>4
  <2>6. CASE UNCHANGED fanWorker
    BY <2>1, <2>3, <2>4, <2>5, <2>6 DEF Held, Awaited
  <2>7. CASE fanWorker.r \in {0, r} /\ fanWorker'.r \in {0, r}
    <3>1. fanWorker.r # q /\ fanWorker'.r # q
      BY <1>4, <2>2, <2>7
    <3> QED
      BY <2>1, <2>3, <2>4, <2>5, <3>1 DEF Held
  <2> QED
    BY <2>1, <2>5, <2>6, <2>7
<1>5. \A q \in DOMAIN fan' :
         Sound(fan'[q]) /\ Held(q, fan'[q], Range(fanQueue'), Range(fanCache'), fanWorker', fanEpoch')
  BY <1>1, <1>2, <1>4
<1> QED
  BY <1>1, <1>3, <1>5 DEF FbInv

\* A step that adds a record.
LEMMA NewRecord ==
    ASSUME FbInv, NEW rec, Sound(rec), NEW n, n = Len(fan) + 1,
           fan' = Append(fan, rec), UNCHANGED <<fanEpoch, fanWorker>>,
           Line(fanCache'), Range(fanCache') \subseteq Range(fanCache) \cup {n},
           Line(fanQueue'), Range(fanQueue') = Range(fanQueue) \cup {n},
           rec.epoch = fanEpoch, rec.enqueued \/ rec.detached, ~rec.timer,
           rec.stage # "accepted", n \in Range(fanCache') => ~rec.detached
    PROVE  FbInv'
<1>0. rec \in Recs /\ fan \in Seq(Recs)
  BY DEF FbInv, Sound
<1>1. /\ fan' \in Seq(Recs) /\ Len(fan) \in Nat /\ DOMAIN fan = 1 .. Len(fan)
      /\ DOMAIN fan' = 1 .. Len(fan) + 1 /\ fan'[n] = rec
      /\ \A q \in DOMAIN fan : fan'[q] = fan[q]
  BY <1>0, AppendProperties, LenProperties
<1>2. DOMAIN fan' = DOMAIN fan \cup {n} /\ n \notin DOMAIN fan /\ n \in Nat \ {0}
  BY <1>1
<1>3. Lines' /\ AtWork'
  BY <1>1, <1>2 DEF FbInv, Lines, AtWork
<1>4. ASSUME NEW q \in DOMAIN fan
      PROVE  /\ Sound(fan'[q])
             /\ Held(q, fan'[q], Range(fanQueue'), Range(fanCache'), fanWorker', fanEpoch')
  <2>1. Sound(fan[q]) /\ Held(q, fan[q], Range(fanQueue), Range(fanCache), fanWorker, fanEpoch)
    BY DEF FbInv
  <2>2. q \in Range(fanQueue') <=> q \in Range(fanQueue)
    BY <1>2
  <2>3. q \in Range(fanCache') => q \in Range(fanCache)
    BY <1>2
  <2>4. fan'[q] = fan[q]
    BY <1>1
  <2> QED
    BY <2>1, <2>2, <2>3, <2>4 DEF Held, Awaited
<1>5. Held(n, rec, Range(fanQueue'), Range(fanCache'), fanWorker', fanEpoch')
  <2>1. fanWorker.r # n
    BY <1>2 DEF FbInv, AtWork, FanIdle
  <2>2. rec.epoch \in Nat
    BY <1>0 DEF Recs
  <2> QED
    BY <2>1, <2>2 DEF Held
<1>6. \A q \in DOMAIN fan' :
         Sound(fan'[q]) /\ Held(q, fan'[q], Range(fanQueue'), Range(fanCache'), fanWorker', fanEpoch')
  BY <1>1, <1>2, <1>4, <1>5
<1> QED
  BY <1>1, <1>3, <1>6 DEF FbInv

-----------------------------------------------------------------------------
(* What each part of a step needs of the record it is about.                 *)

LEMMA RecordAt ==
    ASSUME FbInv, NEW r \in DOMAIN fan
    PROVE  /\ Sound(fan[r]) /\ r \in Nat \ {0}
           /\ Held(r, fan[r], Range(fanQueue), Range(fanCache), fanWorker, fanEpoch)
  BY LenProperties DEF FbInv

LEMMA WorkersAt ==
    ASSUME NEW a \in {"accept", "report", "final", "call"}, NEW r \in Nat, NEW t \in Nat
    PROVE  [at |-> a, r |-> r, tries |-> t] \in Workers
  BY DEF Workers

LEMMA IdleIs == FanIdle \in Workers /\ FanIdle.at = "idle" /\ FanIdle.r = 0
  BY DEF FanIdle, Workers

\* The record r is done with: it owes nothing, or somebody else serves it.
LEMMA DoneKeeps ==
    ASSUME FbInv, NEW r \in DOMAIN fan, NEW rec, Sound(rec),
           fanWorker.r \in {0, r}, rec.stage = "terminal", rec.epoch = fanEpoch,
           FanDone(r, rec), UNCHANGED <<fanCache, fanEpoch>>,
           r \in Range(fanCache) => ~rec.detached,
           r \in Range(fanCache) =>
              ~FanPending(rec) \/ r \in Range(fanQueue') \/ rec.missed,
           Line(fanQueue'), Range(fanQueue') \subseteq Range(fanQueue) \cup {r},
           Range(fanQueue) \subseteq Range(fanQueue') \cup {r},
           r \in Range(fanQueue') => rec.enqueued \/ rec.detached,
           rec.enqueued => r \in Range(fanQueue')
    PROVE  FbInv'
<1> DEFINE new == [rec EXCEPT !.timer = FALSE, !.retries = 0]
<1>1. new \in Recs
  BY DEF Sound, Recs
<1>2. /\ new.got = rec.got /\ new.stage = rec.stage /\ new.outcome = rec.outcome
      /\ new.started = rec.started /\ new.calls = rec.calls /\ new.action = rec.action
      /\ new.acceptDue = rec.acceptDue /\ new.reportDue = rec.reportDue
      /\ new.finalDue = rec.finalDue /\ new.detached = rec.detached /\ ~new.timer
      /\ new.enqueued = rec.enqueued /\ new.epoch = rec.epoch /\ new.missed = rec.missed
  BY DEF Sound, Recs
<1>3. fan' = [fan EXCEPT ![r] = new] /\ fanWorker' = FanIdle
  BY DEF FanDone
<1> HIDE DEF new
<1>4. Sound(new)
  BY <1>1, <1>2 DEF Sound, Told, Staged
<1>5. fanEpoch \in Nat /\ r # 0
  BY RecordAt DEF FbInv
<1>6. Held(r, new, Range(fanQueue'), Range(fanCache'), fanWorker', fanEpoch)
  BY <1>2, <1>3, <1>5, IdleIs DEF Held, FanPending
<1>7. AtWork' /\ fanWorker'.r = 0
  BY <1>3, IdleIs DEF AtWork
<1>8. Line(fanCache') /\ Range(fanCache') \subseteq Range(fanCache)
  BY DEF FbInv, Lines
<1> QED
  BY <1>3, <1>4, <1>6, <1>7, <1>8, OneRecord

\* The worker goes on to await something for the record r.
LEMMA AwaitKeeps ==
    ASSUME FbInv, NEW r \in DOMAIN fan, NEW rec, Sound(rec),
           fanWorker.r \in {0, r}, rec.epoch = fanEpoch,
           NEW a \in {"accept", "report", "final", "call"}, NEW t \in Nat,
           fanWorker' = [at |-> a, r |-> r, tries |-> t], fan' = [fan EXCEPT ![r] = rec],
           UNCHANGED <<fanCache, fanEpoch>>,
           r \in Range(fanCache) => ~rec.detached,
           Line(fanQueue'), Range(fanQueue') \subseteq Range(fanQueue) \cup {r},
           Range(fanQueue) \subseteq Range(fanQueue') \cup {r},
           r \in Range(fanQueue') => rec.enqueued \/ rec.detached,
           rec.enqueued => r \in Range(fanQueue'),
           rec.stage = "accepted" <=> a = "call",
           Awaited(r, rec, Range(fanQueue'), Range(fanCache'), fanWorker')
    PROVE  FbInv'
<1>1. fanWorker'.at = a /\ fanWorker'.r = r /\ a # "idle"
  OBVIOUS
<1>2. fanEpoch \in Nat /\ r \in Nat
  BY RecordAt DEF FbInv
<1>3. AtWork'
  <2>1. fanWorker' \in Workers
    BY <1>2, WorkersAt
  <2>2. r \in DOMAIN fan'
    OBVIOUS
  <2> QED
    BY <1>1, <2>1, <2>2 DEF AtWork
<1>4. Held(r, rec, Range(fanQueue'), Range(fanCache'), fanWorker', fanEpoch)
  BY <1>1, <1>2 DEF Held
<1>5. Line(fanCache') /\ Range(fanCache') \subseteq Range(fanCache)
  BY DEF FbInv, Lines
<1> QED
  BY <1>1, <1>3, <1>4, <1>5, OneRecord

\* _flush_terminal.
LEMMA FlushKeeps ==
    ASSUME FbInv, NEW r \in DOMAIN fan, NEW rec, Sound(rec),
           fanWorker.r \in {0, r}, rec.stage = "terminal", rec.epoch = fanEpoch,
           Flush(r, rec), UNCHANGED <<fanCache, fanEpoch>>,
           r \in Range(fanCache) => ~rec.detached,
           Line(fanQueue'), Range(fanQueue') \subseteq Range(fanQueue) \cup {r},
           Range(fanQueue) \subseteq Range(fanQueue') \cup {r},
           r \in Range(fanQueue') => rec.enqueued \/ rec.detached,
           rec.enqueued => r \in Range(fanQueue')
    PROVE  FbInv'
<1>1. CASE rec.reportDue
  <2>1. fanWorker' = [at |-> "report", r |-> r, tries |-> 1] /\ fan' = [fan EXCEPT ![r] = rec]
    BY <1>1 DEF Flush, At
  <2>2. rec.outcome = "applied"
    BY <1>1 DEF Sound, Staged
  <2>3. Awaited(r, rec, Range(fanQueue'), Range(fanCache'), fanWorker')
    BY <1>1, <2>1, <2>2 DEF Awaited
  <2> QED
    BY <2>1, <2>3, AwaitKeeps
<1>2. CASE ~rec.reportDue /\ rec.finalDue
  <2>1. fanWorker' = [at |-> "final", r |-> r, tries |-> 1] /\ fan' = [fan EXCEPT ![r] = rec]
    BY <1>2 DEF Flush, At
  <2>2. rec.outcome = "applied" => rec.got # <<"accept">>
    <3> SUFFICES ASSUME rec.outcome = "applied", rec.got = <<"accept">> PROVE FALSE
      OBVIOUS
    <3>1. /\ <<"accept">> # <<"accept", "report">>
          /\ <<"accept">> # <<"accept", "report", "applied">>
      OBVIOUS
    <3> QED
      BY <1>2, <3>1 DEF Sound, Told
  <2>3. Awaited(r, rec, Range(fanQueue'), Range(fanCache'), fanWorker')
    BY <1>2, <2>1, <2>2 DEF Awaited
  <2> QED
    BY <2>1, <2>3, AwaitKeeps
<1>3. CASE ~rec.reportDue /\ ~rec.finalDue
  <2>1. FanDone(r, rec)
    BY <1>3 DEF Flush
  <2>2. ~FanPending(rec)
    BY <1>3 DEF Sound, Staged, FanPending
  <2> QED
    BY <2>1, <2>2, DoneKeeps
<1> QED
  BY <1>1, <1>2, <1>3

\* _finish_failed, from a record that was accepted and called, or is about to be.
LEMMA FailedKeeps ==
    ASSUME FbInv, NEW r \in DOMAIN fan, NEW rec, rec \in Recs,
           fanWorker.r \in {0, r}, rec.epoch = fanEpoch, FinishFailed(r, rec),
           UNCHANGED <<fanCache, fanQueue, fanEpoch>>,
           rec.got = <<"accept">>, ~rec.acceptDue, ~rec.reportDue, ~rec.detached,
           rec.calls <= IF rec.action = "mode" THEN 2 ELSE 1,
           rec.enqueued <=> r \in Range(fanQueue)
    PROVE  FbInv'
<1> DEFINE new == [rec EXCEPT !.stage = "terminal", !.outcome = "failed", !.finalDue = TRUE]
<1>1. new \in Recs
  BY DEF Recs
<1>2. /\ new.got = rec.got /\ new.stage = "terminal" /\ new.outcome = "failed"
      /\ new.calls = rec.calls /\ new.action = rec.action
      /\ new.acceptDue = rec.acceptDue /\ new.reportDue = rec.reportDue /\ new.finalDue
      /\ new.detached = rec.detached /\ new.enqueued = rec.enqueued /\ new.epoch = rec.epoch
  BY DEF Recs
<1>3. /\ fan' = [fan EXCEPT ![r] = new]
      /\ fanWorker' = [at |-> "final", r |-> r, tries |-> 1]
  BY DEF FinishFailed, At
<1> HIDE DEF new
<1>4. Sound(new)
  BY <1>1, <1>2 DEF Sound, Told, Staged
<1>5. Awaited(r, new, Range(fanQueue'), Range(fanCache'), fanWorker')
  BY <1>2, <1>3 DEF Awaited
<1>6. Line(fanQueue)
  BY DEF FbInv, Lines
<1> QED
  BY <1>2, <1>3, <1>4, <1>5, <1>6, AwaitKeeps

\* run() takes the head of the queue.
LEMMA TakeKeeps ==
    ASSUME FbInv, FanTake
    PROVE  FbInv'
<1> DEFINE r == Head(fanQueue)
           rec == [fan[r] EXCEPT !.enqueued = FALSE]
<1>1. /\ fanWorker = FanIdle /\ fanQueue # <<>> /\ fanQueue' = Tail(fanQueue)
      /\ CASE rec.stage = "queued" -> FanBegin(r, rec)
           [] rec.stage = "accepted" /\ ~rec.started -> FanExecute(r, rec)
           [] OTHER -> Flush(r, rec)
      /\ UNCHANGED <<fanCache, fanEpoch>>
  BY DEF FanTake
<1>2. /\ Line(fanQueue') /\ r \in Range(fanQueue)
      /\ Range(fanQueue') = Range(fanQueue) \ {r}
  BY <1>1, LineTail DEF FbInv, Lines
<1>3. r \in DOMAIN fan
  BY <1>2 DEF FbInv, Lines
<1> DEFINE cur == fan[r]
<1>4. /\ Sound(cur) /\ r \in Nat \ {0}
      /\ Held(r, cur, Range(fanQueue), Range(fanCache), fanWorker, fanEpoch)
  BY <1>3, RecordAt
<1>5. /\ rec \in Recs /\ rec.got = cur.got /\ rec.stage = cur.stage /\ rec.outcome = cur.outcome
      /\ rec.started = cur.started /\ rec.calls = cur.calls /\ rec.action = cur.action
      /\ rec.acceptDue = cur.acceptDue /\ rec.reportDue = cur.reportDue
      /\ rec.finalDue = cur.finalDue /\ rec.detached = cur.detached /\ rec.timer = cur.timer
      /\ ~rec.enqueued /\ rec.epoch = cur.epoch /\ rec.missed = cur.missed
  BY <1>4 DEF Sound, Recs
<1>6. fanWorker.r = 0 /\ fanWorker.at = "idle"
  BY <1>1, IdleIs
<1> HIDE DEF rec, cur
<1>7. cur.epoch = fanEpoch /\ cur.stage # "accepted" /\ (r \in Range(fanCache) => ~cur.detached)
  BY <1>2, <1>4, <1>6 DEF Held
<1> HIDE DEF r
<1>8. Sound(rec)
  BY <1>4, <1>5 DEF Sound, Told, Staged
<1>9. rec.stage = "queued" \/ rec.stage = "terminal"
  BY <1>5, <1>7 DEF Recs
<1>10. CASE rec.stage = "queued"
  <2> DEFINE new == [rec EXCEPT !.acceptDue = TRUE]
  <2>1. /\ fanWorker' = [at |-> "accept", r |-> r, tries |-> 1]
        /\ fan' = [fan EXCEPT ![r] = new]
    BY <1>1, <1>10 DEF FanBegin, At
  <2>2. /\ new \in Recs /\ new.got = rec.got /\ new.stage = rec.stage /\ new.outcome = rec.outcome
        /\ new.started = rec.started /\ new.calls = rec.calls /\ new.action = rec.action
        /\ new.acceptDue /\ new.reportDue = rec.reportDue
        /\ new.finalDue = rec.finalDue /\ new.detached = rec.detached /\ new.timer = rec.timer
        /\ ~new.enqueued /\ new.epoch = rec.epoch
    BY <1>5 DEF Recs
  <2> HIDE DEF new
  <2>3. Sound(new)
    BY <1>8, <1>10, <2>2 DEF Sound, Told, Staged
  <2>4. Awaited(r, new, Range(fanQueue'), Range(fanCache'), fanWorker')
    BY <1>10, <2>1, <2>2 DEF Awaited
  <2> QED
    BY <1>1, <1>2, <1>3, <1>5, <1>6, <1>7, <1>10, <2>1, <2>2, <2>3, <2>4, AwaitKeeps
<1>11. CASE rec.stage = "terminal"
  <2>1. Flush(r, rec)
    BY <1>1, <1>11
  <2> QED
    BY <1>1, <1>2, <1>3, <1>5, <1>6, <1>7, <1>8, <1>11, <2>1, FlushKeeps
<1> QED
  BY <1>9, <1>10, <1>11

\* The record the worker awaits something for.
LEMMA WorkerRecord ==
    ASSUME FbInv, fanWorker.at # "idle", NEW r, r = fanWorker.r
    PROVE  /\ r \in DOMAIN fan /\ Sound(fan[r]) /\ fan[r].epoch = fanEpoch
           /\ r \in Range(fanQueue) => fan[r].enqueued \/ fan[r].detached
           /\ fan[r].enqueued => r \in Range(fanQueue)
           /\ r \in Range(fanCache) => ~fan[r].detached
           /\ Awaited(r, fan[r], Range(fanQueue), Range(fanCache), fanWorker)
           /\ Line(fanQueue)
<1>1. r \in DOMAIN fan
  BY DEF FbInv, AtWork
<1> QED
  BY <1>1, RecordAt DEF Held, FbInv, Lines

\* The controller answers.
LEMMA CalledKeeps ==
    ASSUME FbInv, FanServed \/ FanRefused \/ FanUnavailable
    PROVE  FbInv'
<1> SUFFICES ASSUME NEW r, r = fanWorker.r PROVE FbInv'
  OBVIOUS
<1> DEFINE cur == fan[r]
<1>1. fanWorker.at = "call" /\ fanWorker.at # "idle" /\ UNCHANGED <<fanCache, fanQueue, fanEpoch>>
  BY DEF FanServed, FanRefused, FanUnavailable, FanCalling
<1>2. /\ r \in DOMAIN fan /\ Sound(cur) /\ cur.epoch = fanEpoch
      /\ r \in Range(fanQueue) => cur.enqueued \/ cur.detached
      /\ cur.enqueued => r \in Range(fanQueue)
      /\ Awaited(r, cur, Range(fanQueue), Range(fanCache), fanWorker)
      /\ Line(fanQueue)
  BY <1>1, WorkerRecord
<1>3. /\ cur.stage = "accepted" /\ cur.outcome = "none" /\ cur.got = <<"accept">>
      /\ cur.calls = fanWorker.tries /\ ~cur.acceptDue /\ ~cur.reportDue /\ ~cur.detached
      /\ cur.started /\ cur.calls <= IF cur.action = "mode" THEN 2 ELSE 1
  BY <1>1, <1>2 DEF Awaited, Sound, Told, Staged, Recs
<1>4. CASE FanServed
  <2> DEFINE rec == [cur EXCEPT !.stage = "terminal", !.outcome = "applied",
                                !.reportDue = TRUE, !.finalDue = TRUE]
  <2>1. Flush(r, rec)
    BY <1>4 DEF FanServed
  <2>2. /\ rec \in Recs /\ rec.got = cur.got /\ rec.stage = "terminal" /\ rec.outcome = "applied"
        /\ rec.calls = cur.calls /\ rec.action = cur.action
        /\ rec.acceptDue = cur.acceptDue /\ rec.reportDue /\ rec.finalDue
        /\ rec.detached = cur.detached /\ rec.enqueued = cur.enqueued /\ rec.epoch = cur.epoch
    BY <1>2 DEF Sound, Recs
  <2> HIDE DEF rec, cur
  <2>3. Sound(rec)
    BY <1>3, <2>2 DEF Sound, Told, Staged
  <2> QED
    BY <1>1, <1>2, <1>3, <2>1, <2>2, <2>3, FlushKeeps
<1>5. ASSUME FinishFailed(r, cur) PROVE FbInv'
  <2>1. cur \in Recs
    BY <1>2 DEF Sound
  <2> HIDE DEF cur
  <2> QED
    BY <1>1, <1>2, <1>3, <1>5, <2>1, FailedKeeps
<1>6. CASE FanUnavailable /\ cur.action = "mode" /\ fanWorker.tries = 1
  <2> DEFINE rec == [cur EXCEPT !.calls = @ + 1]
  <2>1. fanWorker' = [fanWorker EXCEPT !.tries = 2] /\ fan' = [fan EXCEPT ![r] = rec]
    BY <1>6, Zenon DEF FanUnavailable
  <2>2. /\ rec \in Recs /\ rec.got = cur.got /\ rec.stage = "accepted" /\ rec.outcome = "none"
        /\ rec.calls = 2 /\ rec.action = "mode" /\ rec.started
        /\ rec.acceptDue = cur.acceptDue /\ rec.reportDue = cur.reportDue
        /\ rec.finalDue = cur.finalDue
        /\ rec.detached = cur.detached /\ rec.enqueued = cur.enqueued /\ rec.epoch = cur.epoch
    BY <1>2, <1>3, <1>6 DEF Sound, Recs
  <2>3. fanWorker' = [at |-> "call", r |-> r, tries |-> 2]
    BY <1>1, <2>1 DEF FbInv, AtWork, Workers
  <2> HIDE DEF rec, cur
  <2>4. Sound(rec)
    BY <1>2, <1>3, <2>2 DEF Sound, Told, Staged
  <2>5. Awaited(r, rec, Range(fanQueue'), Range(fanCache'), fanWorker')
    BY <2>2, <2>3 DEF Awaited
  <2>6. /\ rec.epoch = fanEpoch /\ ~rec.detached /\ Line(fanQueue')
        /\ Range(fanQueue') \subseteq Range(fanQueue) \cup {r}
        /\ Range(fanQueue) \subseteq Range(fanQueue') \cup {r}
        /\ r \in Range(fanQueue') => rec.enqueued \/ rec.detached
        /\ rec.enqueued => r \in Range(fanQueue')
        /\ "call" \in {"accept", "report", "final", "call"} /\ 2 \in Nat
        /\ r \in DOMAIN fan /\ fanWorker.r \in {0, r} /\ UNCHANGED <<fanCache, fanEpoch>>
        /\ rec.stage = "accepted" <=> "call" = "call"
    BY <1>1, <1>2, <1>3, <2>2
  <2> QED
    BY <2>1, <2>3, <2>4, <2>5, <2>6, AwaitKeeps
<1> QED
  BY <1>4, <1>5, <1>6 DEF FanRefused, FanUnavailable

\* Two versions of a record that differ at most in what the firmware was told.
SameWork(a, b) ==
    /\ a.id = b.id /\ a.action = b.action /\ a.stage = b.stage /\ a.started = b.started
    /\ a.acceptDue = b.acceptDue /\ a.reportDue = b.reportDue /\ a.finalDue = b.finalDue
    /\ a.outcome = b.outcome /\ a.enqueued = b.enqueued /\ a.retries = b.retries
    /\ a.timer = b.timer /\ a.detached = b.detached /\ a.epoch = b.epoch
    /\ a.calls = b.calls /\ a.missed = b.missed

LEMMA OneLonger ==
    ASSUME NEW s \in Seq(Calls), NEW c \in Calls, NEW t \in Seq(Calls),
           Len(t) = Len(s) + 1, t[Len(s) + 1] = c, \A i \in 1 .. Len(s) : t[i] = s[i]
    PROVE  Append(s, c) = t
<1>1. /\ Append(s, c) \in Seq(Calls) /\ Len(Append(s, c)) = Len(s) + 1
      /\ Append(s, c)[Len(s) + 1] = c /\ \A i \in 1 .. Len(s) : Append(s, c)[i] = s[i]
  BY AppendProperties
<1>2. \A i \in 1 .. Len(Append(s, c)) : Append(s, c)[i] = t[i]
  BY <1>1, LenProperties
<1> QED
  BY <1>1, <1>2, SeqEqual

LEMMA GotIs ==
    /\ Append(<<>>, "accept") = <<"accept">> /\ Append(<<>>, "failed") = <<"failed">>
    /\ Append(<<"accept">>, "report") = <<"accept", "report">>
    /\ Append(<<"accept">>, "failed") = <<"accept", "failed">>
    /\ Append(<<"accept", "report">>, "applied") = <<"accept", "report", "applied">>
<1>1. Append(<<>>, "accept") = <<"accept">> /\ Append(<<>>, "failed") = <<"failed">>
  OBVIOUS
<1>2. /\ <<"accept">> \in Seq(Calls) /\ <<"accept", "report">> \in Seq(Calls)
      /\ <<"accept", "failed">> \in Seq(Calls) /\ <<"accept", "report", "applied">> \in Seq(Calls)
  BY DEF Calls
<1>3. Append(<<"accept">>, "report") = <<"accept", "report">>
  <2>1. Len(<<"accept">>) = 1 /\ Len(<<"accept", "report">>) = 2 /\ <<"accept", "report">>[2] = "report"
    OBVIOUS
  <2>2. ASSUME NEW i \in 1 .. 1 PROVE <<"accept", "report">>[i] = <<"accept">>[i]
    <3>1. i = 1
      OBVIOUS
    <3> QED
      BY <3>1
  <2>3. "report" \in Calls
    BY DEF Calls
  <2> DEFINE s == <<"accept">>
             t == <<"accept", "report">>
  <2>4. /\ s \in Seq(Calls) /\ t \in Seq(Calls) /\ Len(t) = Len(s) + 1
        /\ t[Len(s) + 1] = "report" /\ \A i \in 1 .. Len(s) : t[i] = s[i]
    BY <1>2, <2>1, <2>2
  <2> HIDE DEF s, t
  <2>5. Append(s, "report") = t
    BY <2>3, <2>4, OneLonger
  <2> QED
    BY <2>5 DEF s, t
<1>4. Append(<<"accept">>, "failed") = <<"accept", "failed">>
  <2>1. Len(<<"accept">>) = 1 /\ Len(<<"accept", "failed">>) = 2 /\ <<"accept", "failed">>[2] = "failed"
    OBVIOUS
  <2>2. ASSUME NEW i \in 1 .. 1 PROVE <<"accept", "failed">>[i] = <<"accept">>[i]
    <3>1. i = 1
      OBVIOUS
    <3> QED
      BY <3>1
  <2>3. "failed" \in Calls
    BY DEF Calls
  <2> DEFINE s == <<"accept">>
             t == <<"accept", "failed">>
  <2>4. /\ s \in Seq(Calls) /\ t \in Seq(Calls) /\ Len(t) = Len(s) + 1
        /\ t[Len(s) + 1] = "failed" /\ \A i \in 1 .. Len(s) : t[i] = s[i]
    BY <1>2, <2>1, <2>2
  <2> HIDE DEF s, t
  <2>5. Append(s, "failed") = t
    BY <2>3, <2>4, OneLonger
  <2> QED
    BY <2>5 DEF s, t
<1>5. Append(<<"accept", "report">>, "applied") = <<"accept", "report", "applied">>
  <2>1. Len(<<"accept", "report">>) = 2 /\ Len(<<"accept", "report", "applied">>) = 3 /\ <<"accept", "report", "applied">>[3] = "applied"
    OBVIOUS
  <2>2. ASSUME NEW i \in 1 .. 2 PROVE <<"accept", "report", "applied">>[i] = <<"accept", "report">>[i]
    <3>1. i = 1 \/ i = 2
      OBVIOUS
    <3> QED
      BY <3>1
  <2>3. "applied" \in Calls
    BY DEF Calls
  <2> DEFINE s == <<"accept", "report">>
             t == <<"accept", "report", "applied">>
  <2>4. /\ s \in Seq(Calls) /\ t \in Seq(Calls) /\ Len(t) = Len(s) + 1
        /\ t[Len(s) + 1] = "applied" /\ \A i \in 1 .. Len(s) : t[i] = s[i]
    BY <1>2, <2>1, <2>2
  <2> HIDE DEF s, t
  <2>5. Append(s, "applied") = t
    BY <2>3, <2>4, OneLonger
  <2> QED
    BY <2>5 DEF s, t
<1> QED
  BY <1>1, <1>3, <1>4, <1>5

LEMMA ToldContains ==
    ASSUME NEW c
    PROVE  /\ ~Contains(<<>>, c)
           /\ Contains(<<"accept">>, c) <=> c = "accept"
           /\ Contains(<<"failed">>, c) <=> c = "failed"
           /\ Contains(<<"accept", "report">>, c) <=> c \in {"accept", "report"}
           /\ Contains(<<"accept", "failed">>, c) <=> c \in {"accept", "failed"}
           /\ Contains(<<"accept", "report", "applied">>, c) <=> c \in {"accept", "report", "applied"}
<1>1. /\ ~Contains(<<>>, c)
      /\ Contains(<<"accept">>, c) <=> c = "accept"
      /\ Contains(<<"failed">>, c) <=> c = "failed"
  BY DEF Contains
<1>2. 1 .. 2 = {1, 2} /\ 1 .. 3 = {1, 2, 3}
  OBVIOUS
<1>3. /\ Contains(<<"accept", "report">>, c) <=> c \in {"accept", "report"}
      /\ Contains(<<"accept", "failed">>, c) <=> c \in {"accept", "failed"}
  BY <1>2 DEF Contains
<1>4. Contains(<<"accept", "report", "applied">>, c) <=> c \in {"accept", "report", "applied"}
  BY <1>2 DEF Contains
<1> QED
  BY <1>1, <1>3, <1>4

\* The firmware saw the callback that is under way.
LEMMA ShownIs ==
    ASSUME FbInv, Sending, NEW r, r = fanWorker.r, NEW rec, rec = Shown(fan[r])
    PROVE  /\ Sound(rec) /\ SameWork(rec, fan[r])
           /\ fanWorker.at = "accept" => rec.got = <<"accept">>
           /\ fanWorker.at = "report" => rec.got \in {<<"accept", "report">>,
                                                      <<"accept", "report", "applied">>}
<1> DEFINE cur == fan[r]
<1>1. fanWorker.at \in {"accept", "report", "final"} /\ fanWorker.at # "idle"
  BY DEF Sending
<1>2. Sound(cur) /\ Awaited(r, cur, Range(fanQueue), Range(fanCache), fanWorker)
  BY <1>1, WorkerRecord
<1>3. Callback = IF fanWorker.at = "final" THEN cur.outcome ELSE fanWorker.at
  BY DEF Callback
<1> DEFINE new == Append(cur.got, Callback)
<1>4. rec = IF Contains(cur.got, Callback) THEN cur ELSE [cur EXCEPT !.got = new]
  BY DEF Shown
<1>5. cur \in Recs /\ Callback \in Calls
  BY <1>1, <1>2, <1>3 DEF Sound, Staged, Awaited, Recs, Calls
<1>6. cur.got \in Seq(Calls)
  BY <1>5 DEF Recs
<1>7. new \in Seq(Calls)
  BY <1>5, <1>6, AppendProperties
<1> DEFINE shown == IF Contains(cur.got, Callback) THEN cur.got ELSE new
<1> HIDE DEF cur, new
<1>8. rec \in Recs /\ SameWork(rec, cur) /\ rec.got = shown
  <2>1. CASE Contains(cur.got, Callback)
    BY <1>4, <1>5, <2>1 DEF SameWork
  <2>2. CASE ~Contains(cur.got, Callback)
    BY <1>4, <1>5, <1>7, <2>2 DEF SameWork, Recs
  <2> QED
    BY <2>1, <2>2
<1> HIDE DEF shown
<1>s. Staged(rec)
  BY <1>2, <1>8 DEF Sound, Staged, SameWork
<1>9. CASE cur.stage = "queued"
  <2>1. fanWorker.at = "accept" /\ Callback = "accept"
    BY <1>1, <1>2, <1>3, <1>9 DEF Awaited, Sound, Staged
  <2>2. cur.got = <<>> \/ cur.got = <<"accept">>
    BY <1>2, <1>9 DEF Sound, Told
  <2>3. shown = <<"accept">>
    BY <2>1, <2>2, GotIs, ToldContains DEF new, shown
  <2>4. Told(rec)
    <3>1. rec.stage = "queued" /\ rec.outcome = "none" /\ rec.got = <<"accept">>
      BY <1>8, <1>9, <1>s, <2>3 DEF Staged, SameWork
    <3> QED
      BY <3>1 DEF Told
  <2> QED
    BY <1>8, <1>s, <2>1, <2>3, <2>4 DEF Sound, cur
<1>10. CASE cur.outcome = "applied"
  <2>1. cur.stage = "terminal"
    BY <1>2, <1>10 DEF Sound, Staged
  <2>2. fanWorker.at \in {"report", "final"}
    BY <1>1, <1>2, <2>1 DEF Awaited
  <2>3. \/ cur.got = <<"accept">> /\ (cur.finalDue => cur.reportDue)
        \/ cur.got = <<"accept", "report">> \/ cur.got = <<"accept", "report", "applied">>
    BY <1>2, <1>10 DEF Sound, Told
  <2>4. CASE fanWorker.at = "report"
    <3>1. Callback = "report"
      BY <1>3, <2>4
    <3>2. shown \in {<<"accept", "report">>, <<"accept", "report", "applied">>}
      BY <2>3, <3>1, GotIs, ToldContains DEF new, shown
    <3>3. rec.stage = "terminal" /\ rec.outcome = "applied" /\ rec.got = shown
      BY <1>8, <1>10, <2>1 DEF SameWork
    <3>4. Told(rec)
      BY <3>2, <3>3 DEF Told
    <3> QED
      BY <1>8, <1>s, <2>4, <3>2, <3>4 DEF Sound, cur
  <2>5. CASE fanWorker.at = "final"
    <3>1. Callback = "applied" /\ cur.got # <<"accept">>
      BY <1>2, <1>3, <1>10, <2>5 DEF Awaited
    <3>2. shown = <<"accept", "report", "applied">>
      BY <2>3, <3>1, GotIs, ToldContains DEF new, shown
    <3>3. rec.stage = "terminal" /\ rec.outcome = "applied" /\ rec.got = shown
      BY <1>8, <1>10, <2>1 DEF SameWork
    <3>4. Told(rec)
      BY <3>2, <3>3 DEF Told
    <3> QED
      BY <1>8, <1>s, <2>5, <3>4 DEF Sound, cur
  <2> QED
    BY <2>2, <2>4, <2>5
<1>11. CASE cur.outcome = "failed"
  <2>1. cur.stage = "terminal"
    BY <1>2, <1>11 DEF Sound, Staged
  <2>2. fanWorker.at = "final" /\ Callback = "failed"
    BY <1>1, <1>2, <1>3, <1>11, <2>1 DEF Awaited
  <2>3. \/ cur.got = <<>> \/ cur.got = <<"failed">>
        \/ cur.got = <<"accept">> \/ cur.got = <<"accept", "failed">>
    BY <1>2, <1>11 DEF Sound, Told
  <2>4. \/ shown = <<"failed">> \/ shown = <<"accept", "failed">>
    BY <2>2, <2>3, GotIs, ToldContains DEF new, shown
  <2>5. rec.stage = "terminal" /\ rec.outcome = "failed" /\ rec.got = shown
    BY <1>8, <1>11, <2>1 DEF SameWork
  <2>6. Told(rec)
    BY <2>4, <2>5 DEF Told
  <2> QED
    BY <1>8, <1>s, <2>2, <2>6 DEF Sound, cur
<1>12. cur.stage = "queued" \/ cur.outcome = "applied" \/ cur.outcome = "failed"
  BY <1>1, <1>2 DEF Awaited, Sound, Staged, Recs
<1> QED
  BY <1>9, <1>10, <1>11, <1>12

LEMMA AcceptedIs ==
    ASSUME NEW c \in Recs
    PROVE  /\ [c EXCEPT !.acceptDue = FALSE, !.stage = "accepted"] \in Recs
           /\ [c EXCEPT !.reportDue = FALSE] \in Recs /\ [c EXCEPT !.finalDue = FALSE] \in Recs
<1>1. [c EXCEPT !.acceptDue = FALSE, !.stage = "accepted"] \in Recs
  BY DEF Recs
<1>2. [c EXCEPT !.reportDue = FALSE] \in Recs
  BY DEF Recs
<1>3. [c EXCEPT !.finalDue = FALSE] \in Recs
  BY DEF Recs
<1> QED
  BY <1>1, <1>2, <1>3

\* A callback is confirmed.
LEMMA ConfirmedKeeps ==
    ASSUME FbInv, FanConfirmed
    PROVE  FbInv'
<1> SUFFICES ASSUME NEW r, r = fanWorker.r, NEW shown, shown = Shown(fan[r]) PROVE FbInv'
  OBVIOUS
<1>0. Sending /\ fanWorker.at # "idle" /\ UNCHANGED <<fanCache, fanQueue, fanEpoch>>
  BY DEF FanConfirmed, Sending
<1> DEFINE cur == fan[r]
<1>1. /\ r \in DOMAIN fan /\ Sound(cur) /\ cur.epoch = fanEpoch
      /\ r \in Range(fanQueue) => cur.enqueued \/ cur.detached
      /\ cur.enqueued => r \in Range(fanQueue)
      /\ r \in Range(fanCache) => ~cur.detached
      /\ Awaited(r, cur, Range(fanQueue), Range(fanCache), fanWorker)
      /\ Line(fanQueue)
  BY <1>0, WorkerRecord
<1>2. /\ Sound(shown) /\ shown \in Recs /\ SameWork(shown, cur)
      /\ fanWorker.at = "accept" => shown.got = <<"accept">>
      /\ fanWorker.at = "report" => shown.got \in {<<"accept", "report">>,
                                                   <<"accept", "report", "applied">>}
  BY <1>0, ShownIs DEF Sound
<1>3. CASE fanWorker.at = "accept"
  <2> DEFINE rec == [shown EXCEPT !.acceptDue = FALSE, !.stage = "accepted"]
  <2>1. FanExecute(r, rec)
    BY <1>3 DEF FanConfirmed
  <2>2. /\ rec \in Recs /\ rec.got = <<"accept">> /\ rec.stage = "accepted"
        /\ rec.started = cur.started
        /\ rec.calls = cur.calls /\ rec.action = cur.action /\ rec.outcome = cur.outcome
        /\ ~rec.acceptDue /\ rec.reportDue = cur.reportDue /\ rec.finalDue = cur.finalDue
        /\ rec.detached = cur.detached /\ rec.enqueued = cur.enqueued /\ rec.epoch = cur.epoch
    <3>1. rec \in Recs
      BY <1>2, AcceptedIs
    <3>2. /\ rec.got = <<"accept">> /\ rec.stage = "accepted"
          /\ rec.started = shown.started
          /\ rec.calls = shown.calls /\ rec.action = shown.action /\ rec.outcome = shown.outcome
          /\ ~rec.acceptDue /\ rec.reportDue = shown.reportDue /\ rec.finalDue = shown.finalDue
          /\ rec.detached = shown.detached /\ rec.enqueued = shown.enqueued /\ rec.epoch = shown.epoch
      BY <1>2, <1>3 DEF Recs
    <3> HIDE DEF rec, cur
    <3> QED
      BY <1>2, <3>1, <3>2 DEF SameWork
  <2>3. /\ cur.stage = "queued" /\ cur.outcome = "none" /\ cur.calls = 0 /\ ~cur.reportDue
        /\ ~cur.finalDue /\ ~cur.detached
    BY <1>1, <1>3 DEF Awaited, Sound, Staged
  <2> HIDE DEF rec, cur
  <2>4. CASE ~FanEnabled
    <3>1. FinishFailed(r, rec)
      BY <2>1, <2>4 DEF FanExecute
    <3> QED
      BY <1>0, <1>1, <2>2, <2>3, <3>1, FailedKeeps
  <2>5. CASE FanEnabled
    <3> DEFINE new == [rec EXCEPT !.started = TRUE, !.calls = @ + 1]
    <3>1. /\ fanWorker' = [at |-> "call", r |-> r, tries |-> 1]
          /\ fan' = [fan EXCEPT ![r] = new]
      BY <2>1, <2>5 DEF FanExecute, At
    <3>2. /\ new \in Recs /\ new.got = <<"accept">> /\ new.stage = "accepted" /\ new.started
          /\ new.calls = 1 /\ new.action = rec.action /\ new.outcome = "none"
          /\ ~new.acceptDue /\ ~new.reportDue /\ ~new.finalDue
          /\ ~new.detached /\ new.enqueued = rec.enqueued /\ new.epoch = rec.epoch
      <4> DEFINE n == rec.calls + 1
      <4>1. n = 1 /\ n \in Nat /\ new = [rec EXCEPT !.started = TRUE, !.calls = n]
        BY <2>2, <2>3
      <4> HIDE DEF n, new
      <4> QED
        BY <2>2, <2>3, <4>1 DEF Recs
    <3> HIDE DEF new
    <3>3. Sound(new)
      BY <3>2 DEF Sound, Told, Staged
    <3>4. Awaited(r, new, Range(fanQueue'), Range(fanCache'), fanWorker')
      BY <3>1, <3>2 DEF Awaited
    <3>5. /\ new.epoch = fanEpoch /\ ~new.detached /\ Line(fanQueue')
          /\ Range(fanQueue') \subseteq Range(fanQueue) \cup {r}
          /\ Range(fanQueue) \subseteq Range(fanQueue') \cup {r}
          /\ r \in Range(fanQueue') => new.enqueued \/ new.detached
          /\ new.enqueued => r \in Range(fanQueue')
          /\ "call" \in {"accept", "report", "final", "call"} /\ 1 \in Nat
          /\ r \in DOMAIN fan /\ fanWorker.r \in {0, r} /\ UNCHANGED <<fanCache, fanEpoch>>
          /\ new.stage = "accepted" <=> "call" = "call"
      BY <1>0, <1>1, <2>2, <2>3, <3>2
    <3> QED
      BY <3>1, <3>3, <3>4, <3>5, AwaitKeeps
  <2> QED
    BY <2>4, <2>5
<1>4. CASE fanWorker.at = "report"
  <2> DEFINE rec == [shown EXCEPT !.reportDue = FALSE]
  <2>1. Flush(r, rec)
    BY <1>4 DEF FanConfirmed
  <2>2. /\ rec \in Recs /\ rec.got = shown.got /\ rec.stage = cur.stage
        /\ rec.started = cur.started
        /\ rec.calls = cur.calls /\ rec.action = cur.action /\ rec.outcome = cur.outcome
        /\ rec.acceptDue = cur.acceptDue /\ ~rec.reportDue /\ rec.finalDue = cur.finalDue
        /\ rec.detached = cur.detached /\ rec.enqueued = cur.enqueued /\ rec.epoch = cur.epoch
    <3>1. rec \in Recs
      BY <1>2, AcceptedIs
    <3>2. /\ rec.got = shown.got /\ rec.stage = shown.stage
          /\ rec.started = shown.started
          /\ rec.calls = shown.calls /\ rec.action = shown.action /\ rec.outcome = shown.outcome
          /\ rec.acceptDue = shown.acceptDue /\ ~rec.reportDue /\ rec.finalDue = shown.finalDue
          /\ rec.detached = shown.detached /\ rec.enqueued = shown.enqueued /\ rec.epoch = shown.epoch
      BY <1>2, <1>4 DEF Recs
    <3> HIDE DEF rec, cur
    <3> QED
      BY <1>2, <3>1, <3>2 DEF SameWork
  <2>3. cur.outcome = "applied" /\ cur.stage = "terminal"
    BY <1>1, <1>4 DEF Awaited, Sound, Staged
  <2> HIDE DEF rec, cur
  <2>4. Sound(rec)
    BY <1>1, <1>2, <1>4, <2>2, <2>3 DEF Sound, Told, Staged
  <2>5. fanWorker.r \in {0, r} /\ rec.stage = "terminal" /\ rec.epoch = fanEpoch
    BY <1>1, <2>2, <2>3
  <2> QED
    BY <1>0, <1>1, <2>1, <2>2, <2>4, <2>5, FlushKeeps
<1>5. CASE fanWorker.at = "final"
  <2> DEFINE rec == [shown EXCEPT !.finalDue = FALSE]
  <2>1. FanDone(r, rec)
    BY <1>5 DEF FanConfirmed
  <2>2. /\ rec \in Recs /\ rec.got = shown.got /\ rec.stage = cur.stage
        /\ rec.started = cur.started /\ rec.missed = cur.missed
        /\ rec.calls = cur.calls /\ rec.action = cur.action /\ rec.outcome = cur.outcome
        /\ rec.acceptDue = cur.acceptDue /\ rec.reportDue = cur.reportDue /\ ~rec.finalDue
        /\ rec.detached = cur.detached /\ rec.enqueued = cur.enqueued /\ rec.epoch = cur.epoch
        /\ rec.timer = shown.timer
    <3>1. rec \in Recs
      BY <1>2, AcceptedIs
    <3>2. /\ rec.got = shown.got /\ rec.stage = shown.stage
          /\ rec.started = shown.started /\ rec.missed = shown.missed
          /\ rec.calls = shown.calls /\ rec.action = shown.action /\ rec.outcome = shown.outcome
          /\ rec.acceptDue = shown.acceptDue /\ rec.reportDue = shown.reportDue /\ ~rec.finalDue
          /\ rec.detached = shown.detached /\ rec.enqueued = shown.enqueued /\ rec.epoch = shown.epoch
          /\ rec.timer = shown.timer
      BY <1>2, <1>5 DEF Recs
    <3> HIDE DEF rec, cur
    <3> QED
      BY <1>2, <3>1, <3>2 DEF SameWork
  <2>3. cur.stage = "terminal" /\ ~cur.acceptDue
    BY <1>1, <1>5 DEF Awaited, Sound, Staged
  <2> HIDE DEF rec
  <2>4. Sound(rec)
    <3> HIDE DEF cur
    <3>1. Told(rec)
      <4>1. /\ shown.stage = rec.stage /\ shown.outcome = rec.outcome /\ shown.got = rec.got
            /\ ~rec.finalDue
        BY <1>2, <2>2 DEF SameWork
      <4>2. Told(shown)
        BY <1>2 DEF Sound
      <4> QED
        BY <4>1, <4>2 DEF Told
    <3>2. Staged(rec)
      BY <1>2, <2>2, <2>3 DEF Sound, Staged, SameWork
    <3> QED
      BY <2>2, <3>1, <3>2 DEF Sound
  <2>5. r \in Range(fanCache) => ~FanPending(rec) \/ r \in Range(fanQueue') \/ rec.missed
    BY <1>0, <1>1, <1>5, <2>2, <2>3 DEF Awaited, FanPending
  <2>6. fanWorker.r \in {0, r} /\ rec.stage = "terminal" /\ rec.epoch = fanEpoch
    BY <1>1, <2>2, <2>3
  <2> HIDE DEF cur
  <2> QED
    BY <1>0, <1>1, <2>1, <2>2, <2>4, <2>5, <2>6, DoneKeeps
<1> QED
  BY <1>3, <1>4, <1>5 DEF FanConfirmed, Sending

\* _schedule_retry: what becomes of a record that still owes a callback.
LEMMA RetriedIs ==
    ASSUME NEW rec, Sound(rec), NEW next, next = Retried(rec)
    PROVE  /\ Sound(next)
           /\ next.stage = rec.stage /\ next.outcome = rec.outcome /\ next.epoch = rec.epoch
           /\ next.enqueued = rec.enqueued /\ next.detached = rec.detached
           /\ next.missed = rec.missed /\ next.got = rec.got /\ next.calls = rec.calls
           /\ next.reportDue => rec.reportDue
           /\ next.timer => ~next.detached
           /\ \/ ~FanPending(rec) /\ next = rec
              \/ FanPending(rec) /\ (rec.detached \/ OutOfRetries(rec))
              \/ /\ FanPending(rec) /\ next.timer /\ next.acceptDue = rec.acceptDue
                 /\ next.reportDue = rec.reportDue /\ next.finalDue = rec.finalDue
<1>0. rec \in Recs /\ Staged(rec) /\ Told(rec)
  BY DEF Sound
<1>1. CASE ~FanPending(rec)
  <2>1. next = rec
    BY <1>1 DEF Retried
  <2> QED
    BY <1>0, <1>1, <2>1 DEF Sound, Staged
<1>2. CASE FanPending(rec) /\ (rec.detached \/ OutOfRetries(rec))
  <2>1. next = [rec EXCEPT !.acceptDue = FALSE, !.reportDue = FALSE, !.finalDue = FALSE]
    BY <1>2 DEF Retried, NothingDue
  <2>2. /\ next \in Recs /\ next.got = rec.got /\ next.stage = rec.stage
        /\ next.outcome = rec.outcome /\ next.started = rec.started /\ next.calls = rec.calls
        /\ next.action = rec.action /\ next.detached = rec.detached /\ next.timer = rec.timer
        /\ next.enqueued = rec.enqueued /\ next.epoch = rec.epoch /\ next.missed = rec.missed
        /\ ~next.acceptDue /\ ~next.reportDue /\ ~next.finalDue
    BY <1>0, <2>1 DEF Recs
  <2>3. ~rec.timer
    BY <1>0, <1>2 DEF Staged, OutOfRetries
  <2> QED
    BY <1>0, <1>2, <2>2, <2>3 DEF Sound, Told, Staged
<1>3. CASE FanPending(rec) /\ ~rec.detached /\ ~OutOfRetries(rec) /\ rec.timer
  <2>1. next = rec
    BY <1>3 DEF Retried
  <2> QED
    BY <1>0, <1>3, <2>1 DEF Sound
<1>4. CASE FanPending(rec) /\ ~rec.detached /\ ~OutOfRetries(rec) /\ ~rec.timer
  <2> DEFINE n == rec.retries + 1
  <2>1. next = [rec EXCEPT !.timer = TRUE, !.retries = n]
    BY <1>4 DEF Retried
  <2>2. n \in Nat
    BY <1>0 DEF Recs
  <2> HIDE DEF n
  <2>3. /\ next \in Recs /\ next.got = rec.got /\ next.stage = rec.stage
        /\ next.outcome = rec.outcome /\ next.started = rec.started /\ next.calls = rec.calls
        /\ next.action = rec.action /\ next.detached = rec.detached /\ next.timer
        /\ next.enqueued = rec.enqueued /\ next.epoch = rec.epoch /\ next.missed = rec.missed
        /\ next.acceptDue = rec.acceptDue /\ next.reportDue = rec.reportDue
        /\ next.finalDue = rec.finalDue
    BY <1>0, <2>1, <2>2 DEF Recs
  <2> QED
    BY <1>0, <1>4, <2>3 DEF Sound, Told, Staged, FanPending
<1> QED
  BY <1>1, <1>2, <1>3, <1>4

LEMMA CacheAfter ==
    ASSUME FbInv, NEW r, NEW rec, Scheduled(r, rec)
    PROVE  /\ Line(fanCache') /\ Range(fanCache') \subseteq Range(fanCache)
           /\ FanPending(rec) /\ OutOfRetries(rec) => r \notin Range(fanCache')
<1>1. Line(fanCache)
  BY DEF FbInv, Lines
<1>2. CASE FanPending(rec) /\ OutOfRetries(rec)
  <2>1. fanCache' = Without(fanCache, r)
    BY <1>2 DEF Scheduled
  <2> QED
    BY <1>1, <2>1, LineWithout
<1>3. CASE ~(FanPending(rec) /\ OutOfRetries(rec))
  BY <1>1, <1>3 DEF Scheduled
<1> QED
  BY <1>2, <1>3

\* A callback is not confirmed, whether or not the firmware saw it.
LEMMA UnconfirmedKeeps ==
    ASSUME FbInv, FanUnconfirmed
    PROVE  FbInv'
<1> SUFFICES ASSUME NEW r, r = fanWorker.r PROVE FbInv'
  OBVIOUS
<1>0. /\ Sending /\ fanWorker.at \in {"accept", "report", "final"} /\ fanWorker.at # "idle"
      /\ fanWorker' = FanIdle /\ UNCHANGED <<fanQueue, fanEpoch>>
  BY DEF FanUnconfirmed, Sending
<1> DEFINE cur == fan[r]
<1>1. /\ r \in DOMAIN fan /\ Sound(cur) /\ cur.epoch = fanEpoch
      /\ r \in Range(fanQueue) => cur.enqueued \/ cur.detached
      /\ cur.enqueued => r \in Range(fanQueue)
      /\ r \in Range(fanCache) => ~cur.detached
      /\ Awaited(r, cur, Range(fanQueue), Range(fanCache), fanWorker)
      /\ Line(fanQueue)
  BY <1>0, WorkerRecord
<1>2. PICK seen \in BOOLEAN : Scheduled(r, IF seen /\ FanCurrent THEN Shown(cur) ELSE cur)
  BY DEF FanUnconfirmed
<1> DEFINE rec == IF seen /\ FanCurrent THEN Shown(cur) ELSE cur
<1>3. Sound(rec) /\ SameWork(rec, cur)
  <2>1. CASE seen /\ FanCurrent
    BY <1>0, <2>1, ShownIs
  <2>2. CASE ~(seen /\ FanCurrent)
    BY <1>1, <2>2 DEF SameWork
  <2> QED
    BY <2>1, <2>2
<1> DEFINE next == Retried(rec)
<1>4. fan' = [fan EXCEPT ![r] = next] /\ Scheduled(r, rec)
  BY <1>2 DEF Scheduled
<1> HIDE DEF rec
<1>5. /\ Line(fanCache') /\ Range(fanCache') \subseteq Range(fanCache)
      /\ FanPending(rec) /\ OutOfRetries(rec) => r \notin Range(fanCache')
  BY <1>4, CacheAfter
<1>6. /\ Sound(next)
      /\ next.stage = rec.stage /\ next.outcome = rec.outcome /\ next.epoch = rec.epoch
      /\ next.enqueued = rec.enqueued /\ next.detached = rec.detached
      /\ next.missed = rec.missed
      /\ \/ ~FanPending(rec) /\ next = rec
         \/ FanPending(rec) /\ (rec.detached \/ OutOfRetries(rec))
         \/ FanPending(rec) /\ next.timer
  BY <1>3, RetriedIs
<1> HIDE DEF next, cur
<1>7. /\ rec.stage \in {"queued", "terminal"}
      /\ r \in Range(fanCache) /\ rec.stage = "queued" => rec.acceptDue
  BY <1>0, <1>1, <1>3 DEF Awaited, SameWork, Sound, Staged
<1>8. AtWork' /\ fanWorker'.r = 0
  BY <1>0, IdleIs DEF AtWork
<1>9. fanEpoch \in Nat /\ r # 0
  BY <1>1, RecordAt DEF FbInv
<1>10. r \in Range(fanCache') =>
          \/ next.stage = "terminal" /\ ~FanPending(next)
          \/ next.timer
  BY <1>1, <1>3, <1>5, <1>6, <1>7 DEF FanPending, SameWork
<1>11. Held(r, next, Range(fanQueue'), Range(fanCache'), fanWorker', fanEpoch)
  BY <1>0, <1>1, <1>3, <1>5, <1>6, <1>7, <1>8, <1>9, <1>10 DEF Held, SameWork
<1>12. /\ Line(fanQueue') /\ Range(fanQueue') \subseteq Range(fanQueue) \cup {r}
       /\ Range(fanQueue) \subseteq Range(fanQueue') \cup {r} /\ UNCHANGED fanEpoch
       /\ fanWorker.r \in {0, r} /\ fanWorker'.r \in {0, r}
  BY <1>0, <1>1, <1>8
<1> QED
  BY <1>1, <1>4, <1>5, <1>6, <1>8, <1>11, <1>12, OneRecord

\* The timer of a record fires.
LEMMA TimerKeeps ==
    ASSUME FbInv, NEW r, FanTimer(r)
    PROVE  FbInv'
<1> DEFINE cur == fan[r]
           rec == [cur EXCEPT !.timer = FALSE]
<1>0. /\ r \in DOMAIN fan /\ cur.timer /\ UNCHANGED <<fanWorker, fanEpoch>>
      /\ IF ~FanPending(rec) \/ rec.enqueued
           THEN fan' = [fan EXCEPT ![r] = rec] /\ UNCHANGED <<fanCache, fanQueue>>
           ELSE IF FanQueueFull THEN Scheduled(r, rec) /\ UNCHANGED fanQueue
           ELSE /\ fan' = [fan EXCEPT ![r] = [rec EXCEPT !.enqueued = TRUE]]
                /\ fanQueue' = Append(fanQueue, r) /\ UNCHANGED fanCache
  BY DEF FanTimer
<1>1. /\ Sound(cur) /\ cur \in Recs /\ r \in Nat \ {0}
      /\ Held(r, cur, Range(fanQueue), Range(fanCache), fanWorker, fanEpoch)
  BY <1>0, RecordAt DEF Sound
<1>2. rec \in Recs /\ ~rec.timer
  BY <1>1 DEF Recs
<1>3. /\ rec.got = cur.got /\ rec.stage = cur.stage
      /\ rec.outcome = cur.outcome /\ rec.started = cur.started /\ rec.calls = cur.calls
      /\ rec.action = cur.action /\ rec.detached = cur.detached
      /\ rec.enqueued = cur.enqueued /\ rec.epoch = cur.epoch /\ rec.missed = cur.missed
      /\ rec.acceptDue = cur.acceptDue /\ rec.reportDue = cur.reportDue
      /\ rec.finalDue = cur.finalDue
  BY <1>1 DEF Recs
<1> HIDE DEF rec, cur
<1>4. Sound(rec) /\ cur.epoch = fanEpoch /\ ~cur.detached
  BY <1>0, <1>1, <1>2, <1>3 DEF Sound, Told, Staged, Held
<1>5. /\ Line(fanQueue) /\ Line(fanCache) /\ AtWork /\ fanEpoch \in Nat
  BY DEF FbInv, Lines
<1>6. AtWork'
  <2>1. DOMAIN fan' = DOMAIN fan
    BY <1>0 DEF Scheduled
  <2> QED
    BY <1>0, <1>5, <2>1 DEF AtWork
<1>7. \/ rec.stage = "terminal" \/ rec.stage = "accepted" \/ FanPending(rec)
  BY <1>0, <1>1, <1>3 DEF Sound, Staged, FanPending, Recs
<1>8. CASE ~FanPending(rec) \/ rec.enqueued
  <2>1. fan' = [fan EXCEPT ![r] = rec] /\ UNCHANGED <<fanCache, fanQueue>>
    BY <1>0, <1>8
  <2>2. Held(r, rec, Range(fanQueue), Range(fanCache), fanWorker, fanEpoch)
    BY <1>1, <1>2, <1>3, <1>4, <1>7, <1>8 DEF Held, Awaited, FanPending
  <2>3. Held(r, rec, Range(fanQueue'), Range(fanCache'), fanWorker', fanEpoch)
    BY <1>0, <2>1, <2>2
  <2> QED
    BY <1>0, <1>4, <1>5, <1>6, <2>1, <2>3, OneRecord
<1>9. CASE FanPending(rec) /\ ~rec.enqueued /\ FanQueueFull
  <2> DEFINE next == Retried(rec)
  <2>1. Scheduled(r, rec) /\ fan' = [fan EXCEPT ![r] = next] /\ UNCHANGED fanQueue
    BY <1>0, <1>9 DEF Scheduled
  <2>2. /\ Line(fanCache') /\ Range(fanCache') \subseteq Range(fanCache)
        /\ FanPending(rec) /\ OutOfRetries(rec) => r \notin Range(fanCache')
    BY <2>1, CacheAfter
  <2>3. /\ Sound(next)
        /\ next.stage = rec.stage /\ next.outcome = rec.outcome /\ next.epoch = rec.epoch
        /\ next.enqueued = rec.enqueued /\ next.detached = rec.detached
        /\ next.missed = rec.missed /\ next.got = rec.got /\ next.calls = rec.calls
        /\ \/ FanPending(rec) /\ OutOfRetries(rec)
           \/ /\ next.timer /\ next.acceptDue = rec.acceptDue
              /\ next.reportDue = rec.reportDue /\ next.finalDue = rec.finalDue
    BY <1>3, <1>4, <1>9, RetriedIs
  <2> HIDE DEF next
  <2>4. Held(r, next, Range(fanQueue), Range(fanCache'), fanWorker, fanEpoch)
    <3>1. CASE FanPending(rec) /\ OutOfRetries(rec)
      BY <1>1, <1>3, <1>4, <1>5, <2>2, <2>3, <3>1 DEF Held, Awaited
    <3>2. CASE /\ next.timer /\ next.acceptDue = rec.acceptDue
               /\ next.reportDue = rec.reportDue /\ next.finalDue = rec.finalDue
      BY <1>1, <1>3, <1>4, <1>5, <2>2, <2>3, <3>2 DEF Held, Awaited
    <3> QED
      BY <2>3, <3>1, <3>2
  <2>5. Held(r, next, Range(fanQueue'), Range(fanCache'), fanWorker', fanEpoch)
    BY <1>0, <2>1, <2>4
  <2> QED
    BY <1>0, <1>5, <1>6, <2>1, <2>2, <2>3, <2>5, OneRecord
<1>10. CASE FanPending(rec) /\ ~rec.enqueued /\ ~FanQueueFull
  <2> DEFINE next == [rec EXCEPT !.enqueued = TRUE]
  <2>1. fan' = [fan EXCEPT ![r] = next] /\ fanQueue' = Append(fanQueue, r) /\ UNCHANGED fanCache
    BY <1>0, <1>10
  <2>2. /\ next \in Recs /\ next.got = rec.got /\ next.stage = rec.stage
        /\ next.outcome = rec.outcome /\ next.started = rec.started /\ next.calls = rec.calls
        /\ next.action = rec.action /\ next.detached = rec.detached /\ ~next.timer
        /\ next.enqueued /\ next.epoch = rec.epoch /\ next.missed = rec.missed
        /\ next.acceptDue = rec.acceptDue /\ next.reportDue = rec.reportDue
        /\ next.finalDue = rec.finalDue
    BY <1>2 DEF Recs
  <2> HIDE DEF next
  <2>3. Sound(next)
    BY <1>4, <2>2 DEF Sound, Told, Staged
  <2>4. r \notin Range(fanQueue)
    BY <1>1, <1>3, <1>4, <1>10 DEF Held
  <2>5. Line(fanQueue') /\ Range(fanQueue') = Range(fanQueue) \cup {r}
    BY <1>1, <1>5, <2>1, <2>4, LineAppend
  <2>6. Held(r, next, Range(fanQueue'), Range(fanCache), fanWorker, fanEpoch)
    BY <1>1, <1>3, <1>4, <1>5, <2>2, <2>5 DEF Held, Awaited
  <2>7. Held(r, next, Range(fanQueue'), Range(fanCache'), fanWorker', fanEpoch)
    BY <1>0, <2>1, <2>6
  <2> QED
    BY <1>0, <1>5, <1>6, <2>1, <2>3, <2>5, <2>7, OneRecord
<1> QED
  BY <1>8, <1>9, <1>10

-----------------------------------------------------------------------------
(* submit_event.                                                             *)

LEMMA KnownKeeps ==
    ASSUME FbInv, fanLogin \in Nat, NEW id, FanSubmitKnown(id)
    PROVE  FbInv'
<1>1. PICK r \in Known(id) :
        LET cur == fan[r]
            over == cur.stage = "terminal"
            queues == ~cur.enqueued /\ ~FanQueueFull IN
        /\ fanCache' = Append(Without(fanCache, r), r)
        /\ fan' = [fan EXCEPT ![r] = [cur EXCEPT
             !.reportDue = IF over THEN cur.outcome = "applied" ELSE cur.reportDue,
             !.finalDue = over \/ cur.finalDue,
             !.enqueued = cur.enqueued \/ queues, !.login = fanLogin,
             !.missed = cur.missed \/ (~cur.enqueued /\ FanQueueFull)]]
        /\ fanQueue' = IF queues THEN Append(fanQueue, r) ELSE fanQueue
  BY DEF FanSubmitKnown
<1> DEFINE cur == fan[r]
           over == cur.stage = "terminal"
           queues == ~cur.enqueued /\ ~FanQueueFull
           report == IF over THEN cur.outcome = "applied" ELSE cur.reportDue
           final == over \/ cur.finalDue
           holds == cur.enqueued \/ queues
           lost == cur.missed \/ (~cur.enqueued /\ FanQueueFull)
           rec == [cur EXCEPT !.reportDue = report, !.finalDue = final,
                              !.enqueued = holds, !.login = fanLogin, !.missed = lost]
<1>2. /\ fan' = [fan EXCEPT ![r] = rec] /\ fanCache' = Append(Without(fanCache, r), r)
      /\ fanQueue' = IF queues THEN Append(fanQueue, r) ELSE fanQueue
  BY <1>1
<1>3. UNCHANGED <<fanWorker, fanEpoch>>
  BY DEF FanSubmitKnown
<1>4. r \in Range(fanCache)
  BY DEF Known
<1>5. r \in DOMAIN fan /\ Line(fanCache) /\ Line(fanQueue) /\ AtWork /\ fanEpoch \in Nat
  BY <1>4 DEF FbInv, Lines
<1>6. /\ Sound(cur) /\ cur \in Recs /\ r \in Nat \ {0}
      /\ Held(r, cur, Range(fanQueue), Range(fanCache), fanWorker, fanEpoch)
  BY <1>5, RecordAt DEF Sound
<1>7. report \in BOOLEAN /\ final \in BOOLEAN /\ holds \in BOOLEAN /\ lost \in BOOLEAN
  BY <1>6 DEF Recs
<1> HIDE DEF report, final, holds, lost
<1>8. rec \in Recs
  BY <1>6, <1>7 DEF Recs
<1>9. /\ rec.got = cur.got /\ rec.stage = cur.stage
      /\ rec.outcome = cur.outcome /\ rec.started = cur.started /\ rec.calls = cur.calls
      /\ rec.action = cur.action /\ rec.detached = cur.detached /\ rec.timer = cur.timer
      /\ rec.epoch = cur.epoch /\ rec.acceptDue = cur.acceptDue
      /\ rec.reportDue = report /\ rec.finalDue = final /\ rec.enqueued = holds
      /\ rec.missed = lost
  BY <1>6 DEF Recs
<1> HIDE DEF rec, cur
<1>10. Sound(rec)
  BY <1>6, <1>8, <1>9 DEF Sound, Told, Staged, report, final
<1>11. cur.epoch = fanEpoch /\ ~cur.detached
  BY <1>4, <1>6 DEF Held
<1>12. Line(fanCache') /\ Range(fanCache') = Range(fanCache)
  <2> DEFINE rest == Without(fanCache, r)
  <2>1. Line(rest) /\ Range(rest) = Range(fanCache) \ {r} /\ fanCache' = Append(rest, r)
    BY <1>2, <1>5, LineWithout
  <2> HIDE DEF rest
  <2>2. Line(Append(rest, r)) /\ Range(Append(rest, r)) = Range(rest) \cup {r}
    BY <1>6, <2>1, LineAppend
  <2> QED
    BY <1>4, <2>1, <2>2
<1>13. /\ Line(fanQueue')
       /\ Range(fanQueue') = IF queues THEN Range(fanQueue) \cup {r} ELSE Range(fanQueue)
  <2>1. CASE queues
    <3>1. r \notin Range(fanQueue)
      BY <1>6, <1>11, <2>1 DEF Held
    <3> QED
      BY <1>2, <1>5, <1>6, <2>1, <3>1, LineAppend
  <2>2. CASE ~queues
    BY <1>2, <1>5, <2>2
  <2> QED
    BY <2>1, <2>2
<1>14. holds <=> r \in Range(fanQueue')
  BY <1>6, <1>11, <1>13 DEF Held, holds
<1>15. lost \/ r \in Range(fanQueue')
  BY <1>6, <1>11, <1>13 DEF Held, lost
<1>16. fanWorker.r = r => Awaited(r, rec, Range(fanQueue'), Range(fanCache'), fanWorker)
  <2> SUFFICES ASSUME fanWorker.r = r
               PROVE  Awaited(r, rec, Range(fanQueue'), Range(fanCache'), fanWorker)
    OBVIOUS
  <2>1. Awaited(r, cur, Range(fanQueue), Range(fanCache), fanWorker)
    BY <1>6 DEF Held
  <2>2. fanWorker.at = "report" => rec.stage = "terminal" /\ rec.reportDue
    BY <1>6, <1>9, <2>1 DEF Awaited, Sound, Staged, report
  <2>3. fanWorker.at = "final" => rec.finalDue
    BY <1>9, <2>1 DEF Awaited, final
  <2> QED
    BY <1>4, <1>9, <1>12, <1>15, <2>1, <2>2, <2>3 DEF Awaited
<1>17. Held(r, rec, Range(fanQueue'), Range(fanCache'), fanWorker', fanEpoch)
  <2>1. /\ rec.epoch = fanEpoch /\ ~rec.detached /\ (rec.missed \/ r \in Range(fanQueue'))
        /\ (r \in Range(fanQueue') <=> rec.enqueued) /\ fanWorker' = fanWorker
        /\ (rec.stage = "accepted" => fanWorker.at = "call" /\ fanWorker.r = r)
    BY <1>3, <1>6, <1>9, <1>11, <1>14, <1>15 DEF Held
  <2> QED
    BY <1>5, <1>16, <2>1 DEF Held
<1>18. AtWork'
  BY <1>2, <1>3, <1>5 DEF AtWork
<1>19. /\ Range(fanCache') \subseteq Range(fanCache)
       /\ Range(fanQueue') \subseteq Range(fanQueue) \cup {r}
       /\ Range(fanQueue) \subseteq Range(fanQueue') \cup {r}
  BY <1>12, <1>13
<1> QED
  BY <1>2, <1>3, <1>5, <1>10, <1>12, <1>13, <1>17, <1>18, <1>19, OneRecord

LEMMA RecordSound ==
    ASSUME NEW id \in FanId, NEW action \in {"status", "mode"}, fanEpoch \in Nat,
           fanLogin \in Nat
    PROVE  LET rec == FanRecord(id, action) IN
           /\ Sound(rec) /\ rec.epoch = fanEpoch /\ rec.enqueued /\ ~rec.timer
           /\ rec.stage = "queued" /\ ~rec.detached /\ ~rec.started /\ ~rec.acceptDue
           /\ ~rec.reportDue /\ ~rec.finalDue /\ rec.calls = 0 /\ rec.got = <<>>
<1> DEFINE rec == FanRecord(id, action)
<1>1. <<>> \in Seq(Calls)
  OBVIOUS
<1>2. rec \in Recs
  BY <1>1 DEF FanRecord, Recs
<1>3. /\ rec.epoch = fanEpoch /\ rec.enqueued /\ ~rec.timer /\ rec.outcome = "none"
      /\ rec.stage = "queued" /\ ~rec.detached /\ ~rec.started /\ ~rec.acceptDue
      /\ ~rec.reportDue /\ ~rec.finalDue /\ rec.calls = 0 /\ rec.got = <<>>
  BY DEF FanRecord
<1> HIDE DEF rec
<1>4. Sound(rec)
  BY <1>2, <1>3 DEF Sound, Told, Staged
<1> QED
  BY <1>3, <1>4 DEF rec

\* Records are forgotten, and nothing else changes.
LEMMA FewerCached ==
    ASSUME FbInv, UNCHANGED <<fan, fanQueue, fanWorker, fanEpoch>>,
           Line(fanCache'), Range(fanCache') \subseteq Range(fanCache)
    PROVE  FbInv'
<1>1. Lines' /\ AtWork'
  BY DEF FbInv, Lines, AtWork
<1>2. ASSUME NEW r \in DOMAIN fan
      PROVE  Held(r, fan[r], Range(fanQueue), Range(fanCache'), fanWorker, fanEpoch)
  <2>1. Held(r, fan[r], Range(fanQueue), Range(fanCache), fanWorker, fanEpoch)
    BY DEF FbInv
  <2> QED
    BY <2>1 DEF Held, Awaited
<1> QED
  BY <1>1, <1>2 DEF FbInv

LEMMA NewKeeps ==
    ASSUME FbInv, fanLogin \in Nat, NEW id \in FanId, NEW action \in {"status", "mode"}, FanSubmitNew(id, action)
    PROVE  FbInv'
<1> DEFINE rec == FanRecord(id, action)
           n == Len(fan) + 1
<1>1. /\ UNCHANGED <<fanWorker, fanEpoch>>
      /\ IF Len(fanCache) >= FanCacheSize /\ Evictable = {}
           THEN UNCHANGED <<fan, fanCache, fanQueue>>
           ELSE IF FanQueueFull
           THEN fanCache' = RoomMade /\ UNCHANGED <<fan, fanQueue>>
           ELSE /\ fan' = Append(fan, rec) /\ fanCache' = Append(RoomMade, n)
                /\ fanQueue' = Append(fanQueue, n)
  BY DEF FanSubmitNew
<1>2. /\ fan \in Seq(Recs) /\ fanEpoch \in Nat /\ Line(fanCache) /\ Line(fanQueue)
      /\ Range(fanCache) \subseteq DOMAIN fan /\ Range(fanQueue) \subseteq DOMAIN fan
  BY DEF FbInv, Lines
<1>3. Len(fanCache) \in Nat /\ FanCacheSize \in Nat
  BY <1>2, FanAssumption, LenProperties DEF Line
<1>4. CASE Len(fanCache) >= FanCacheSize /\ Evictable = {}
  <2>1. UNCHANGED fanCache
    BY <1>1, <1>4
  <2> QED
    BY <1>1, <1>2, <1>4, <2>1, FewerCached
<1>5. CASE ~(Len(fanCache) >= FanCacheSize /\ Evictable = {})
  <2>1. Line(RoomMade) /\ Range(RoomMade) \subseteq Range(fanCache)
    BY <1>3, <1>5, RoomIs
  <2>2. CASE FanQueueFull
    <3>1. fanCache' = RoomMade /\ UNCHANGED <<fan, fanQueue>>
      BY <1>1, <1>5, <2>2
    <3> QED
      BY <1>1, <2>1, <3>1, FewerCached
  <2>3. CASE ~FanQueueFull
    <3>1. /\ fan' = Append(fan, rec) /\ fanCache' = Append(RoomMade, n)
          /\ fanQueue' = Append(fanQueue, n)
      BY <1>1, <1>5, <2>3
    <3>2. n \in Nat /\ n \notin DOMAIN fan
      BY <1>2, LenProperties
    <3>3. /\ Line(fanCache') /\ Range(fanCache') = Range(RoomMade) \cup {n}
          /\ Line(fanQueue') /\ Range(fanQueue') = Range(fanQueue) \cup {n}
      BY <1>2, <2>1, <3>1, <3>2, LineAppend
    <3>4. /\ Sound(rec) /\ rec.epoch = fanEpoch /\ rec.enqueued /\ ~rec.timer
          /\ rec.stage # "accepted" /\ ~rec.detached
      BY <1>2, RecordSound
    <3>5. Range(fanCache') \subseteq Range(fanCache) \cup {n}
      BY <2>1, <3>3
    <3> HIDE DEF rec
    <3> QED
      BY <1>1, <3>1, <3>3, <3>4, <3>5, NewRecord
  <2> QED
    BY <2>2, <2>3
<1> QED
  BY <1>4, <1>5

LEMMA MalformedKeeps ==
    ASSUME FbInv, fanLogin \in Nat, NEW id \in FanId, FanSubmitMalformed(id)
    PROVE  FbInv'
<1> DEFINE base == FanRecord(id, "status")
           rec == [base EXCEPT !.stage = "terminal", !.outcome = "failed", !.finalDue = TRUE,
                               !.enqueued = FALSE, !.detached = TRUE]
           n == Len(fan) + 1
<1>1. /\ fan' = Append(fan, rec) /\ fanQueue' = Append(fanQueue, n)
      /\ UNCHANGED <<fanCache, fanWorker, fanEpoch>>
  BY DEF FanSubmitMalformed
<1>2. /\ fan \in Seq(Recs) /\ fanEpoch \in Nat /\ Line(fanCache) /\ Line(fanQueue)
      /\ Range(fanCache) \subseteq DOMAIN fan /\ Range(fanQueue) \subseteq DOMAIN fan
  BY DEF FbInv, Lines
<1>3. /\ Sound(base) /\ base.epoch = fanEpoch /\ ~base.timer /\ ~base.started /\ ~base.acceptDue
      /\ ~base.reportDue /\ base.calls = 0 /\ base.got = <<>>
  BY <1>2, RecordSound
<1> HIDE DEF base
<1>4. /\ rec \in Recs /\ rec.epoch = fanEpoch /\ ~rec.timer /\ ~rec.started /\ ~rec.acceptDue
      /\ ~rec.reportDue /\ rec.calls = 0 /\ rec.got = <<>> /\ rec.stage = "terminal"
      /\ rec.outcome = "failed" /\ rec.detached
  BY <1>3 DEF Sound, Recs
<1>5. Sound(rec)
  <2> HIDE DEF rec
  <2> QED
    BY <1>4 DEF Sound, Told, Staged
<1>6. n \in Nat /\ n \notin DOMAIN fan
  BY <1>2, LenProperties
<1>7. /\ Line(fanCache') /\ Range(fanCache') \subseteq Range(fanCache) \cup {n}
      /\ n \notin Range(fanCache')
      /\ Line(fanQueue') /\ Range(fanQueue') = Range(fanQueue) \cup {n}
  BY <1>1, <1>2, <1>6, LineAppend
<1> HIDE DEF rec
<1> QED
  BY <1>1, <1>4, <1>5, <1>7, NewRecord

-----------------------------------------------------------------------------
LEMMA ResetKeeps ==
    ASSUME FbInv, FanLinkReset
    PROVE  FbInv'
<1>1. /\ fanCache' = <<>> /\ fanQueue' = <<>> /\ fanWorker' = FanIdle
      /\ fanEpoch' = fanEpoch + 1
      /\ fan' = [r \in DOMAIN fan |-> [fan[r] EXCEPT !.timer = FALSE]]
  BY DEF FanLinkReset
<1>2. fan \in Seq(Recs) /\ fanEpoch \in Nat
  BY DEF FbInv
<1>3. Line(<<>>) /\ Range(<<>>) = {}
  <2>1. <<>> \in Seq(Nat) /\ DOMAIN <<>> = {}
    OBVIOUS
  <2> QED
    BY <2>1 DEF Line, IsInjective, Range
<1>4. Lines' /\ AtWork'
  BY <1>1, <1>3, IdleIs DEF Lines, AtWork
<1>5. ASSUME NEW r \in DOMAIN fan
      PROVE  fan'[r] \in Recs /\ Sound(fan'[r]) /\ Held(r, fan'[r], {}, {}, FanIdle, fanEpoch + 1)
  <2> DEFINE cur == fan[r]
             rec == [cur EXCEPT !.timer = FALSE]
  <2>1. /\ Sound(cur) /\ cur \in Recs /\ r \in Nat \ {0}
        /\ Held(r, cur, Range(fanQueue), Range(fanCache), fanWorker, fanEpoch)
    BY RecordAt DEF Sound
  <2>2. rec \in Recs /\ ~rec.timer
    BY <2>1 DEF Recs
  <2>3. /\ rec.got = cur.got /\ rec.stage = cur.stage
        /\ rec.outcome = cur.outcome /\ rec.started = cur.started /\ rec.calls = cur.calls
        /\ rec.action = cur.action /\ rec.detached = cur.detached
        /\ rec.enqueued = cur.enqueued /\ rec.epoch = cur.epoch
        /\ rec.acceptDue = cur.acceptDue /\ rec.reportDue = cur.reportDue
        /\ rec.finalDue = cur.finalDue
    BY <2>1 DEF Recs
  <2>4. fan'[r] = rec
    BY <1>1
  <2> HIDE DEF rec, cur
  <2>5. Sound(rec)
    BY <2>1, <2>2, <2>3 DEF Sound, Told, Staged
  <2>6. cur.epoch \in Nat /\ cur.epoch <= fanEpoch
    BY <2>1 DEF Held, Recs
  <2>7. rec.epoch <= fanEpoch + 1 /\ rec.epoch # fanEpoch + 1
    BY <1>2, <2>3, <2>6
  <2>8. Held(r, rec, {}, {}, FanIdle, fanEpoch + 1)
    BY <2>1, <2>2, <2>7, IdleIs DEF Held
  <2> QED
    BY <2>2, <2>4, <2>5, <2>8
<1>6. fan' \in Seq(Recs) /\ DOMAIN fan' = DOMAIN fan
  <2>1. DOMAIN fan = 1 .. Len(fan) /\ Len(fan) \in Nat
    BY <1>2, LenProperties
  <2>2. fan' \in [1 .. Len(fan) -> Recs]
    BY <1>1, <1>5, <2>1
  <2> QED
    BY <1>1, <2>1, <2>2, SeqDef
<1>7. fanEpoch' \in Nat
  BY <1>1, <1>2
<1>8. Range(fanCache') = {} /\ Range(fanQueue') = {}
  BY <1>1, <1>3
<1> QED
  BY <1>1, <1>4, <1>5, <1>6, <1>7, <1>8 DEF FbInv

LEMMA FbInit == FanInit => FbInv
<1> SUFFICES ASSUME FanInit PROVE FbInv
  OBVIOUS
<1>1. Line(<<>>) /\ Range(<<>>) = {}
  <2>1. <<>> \in Seq(Nat) /\ DOMAIN <<>> = {}
    OBVIOUS
  <2> QED
    BY <2>1 DEF Line, IsInjective, Range
<1>2. fan = <<>> /\ fan \in Seq(Recs) /\ DOMAIN fan = {} /\ fanEpoch \in Nat
  BY DEF FanInit
<1>3. Lines /\ AtWork
  BY <1>1, <1>2, IdleIs DEF FanInit, Lines, AtWork
<1> QED
  BY <1>2, <1>3 DEF FbInv

LEMMA ReloginKeeps == ASSUME FbInv, FanRelogin PROVE FbInv'
<1>1. UNCHANGED <<fan, fanCache, fanQueue, fanWorker, fanEpoch>>
  BY DEF FanRelogin
<1> QED
  BY <1>1 DEF FbInv, Lines, AtWork, Line

\* Logins are counted.
LoginInv == fanLogin \in Nat
LEMMA LoginsCounted == FanSpec => []LoginInv
<1>1. FanInit => LoginInv
  BY DEF FanInit, LoginInv
<1>2. LoginInv /\ [FanNext]_fanVars => LoginInv'
  <2> SUFFICES ASSUME fanLogin \in Nat, [FanNext]_fanVars PROVE fanLogin' \in Nat
    BY DEF LoginInv
  <2>1. CASE UNCHANGED fanVars
    BY <2>1 DEF fanVars
  <2>2. CASE \E ev \in FanPayloads : \/ FanSubmitNew(ev.id, ev.action)
                                    \/ FanSubmitKnown(ev.id) \/ FanSubmitMalformed(ev.id)
    BY <2>2 DEF FanSubmitNew, FanSubmitKnown, FanSubmitMalformed
  <2>3. CASE FanTake \/ FanServed \/ FanRefused \/ FanUnavailable
    BY <2>3 DEF FanTake, FanServed, FanRefused, FanUnavailable
  <2>4. CASE FanConfirmed \/ FanUnconfirmed
    BY <2>4 DEF FanConfirmed, FanUnconfirmed
  <2>5. ASSUME NEW r \in 1 .. MaxFanEvents, FanTimer(r) PROVE fanLogin' \in Nat
    BY <2>5 DEF FanTimer
  <2>6. CASE FanLinkReset \/ FanRelogin
    BY <2>6 DEF FanLinkReset, FanRelogin
  <2> QED
    BY <2>1, <2>2, <2>3, <2>4, <2>5, <2>6 DEF FanNext, FanStep
<1> QED
  BY <1>1, <1>2, PTL DEF FanSpec

LEMMA FbStep == FbInv /\ LoginInv /\ [FanNext]_fanVars => FbInv'
<1> SUFFICES ASSUME FbInv, fanLogin \in Nat, [FanNext]_fanVars PROVE FbInv'
  BY DEF LoginInv
<1>1. CASE UNCHANGED fanVars
  BY <1>1 DEF fanVars, FbInv, Lines, AtWork, Line
<1>2. ASSUME NEW ev \in FanPayloads,
             FanSubmitNew(ev.id, ev.action) \/ FanSubmitKnown(ev.id) \/ FanSubmitMalformed(ev.id)
      PROVE  FbInv'
  <2>1. ev.id \in FanId /\ ev.action \in {"status", "mode"}
    BY DEF FanPayloads
  <2> QED
    BY <1>2, <2>1, NewKeeps, KnownKeeps, MalformedKeeps
<1>3. CASE FanStep
  BY <1>3, TakeKeeps, CalledKeeps, ConfirmedKeeps, UnconfirmedKeeps DEF FanStep
<1>4. ASSUME NEW r \in 1 .. MaxFanEvents, FanTimer(r) PROVE FbInv'
  BY <1>4, TimerKeeps
<1>5. CASE FanLinkReset \/ FanRelogin
  BY <1>5, ResetKeeps, ReloginKeeps
<1> QED
  BY <1>1, <1>2, <1>3, <1>4, <1>5 DEF FanNext

-----------------------------------------------------------------------------
LEMMA FbSafe == FbInv => FanSafe
<1> SUFFICES ASSUME FbInv PROVE FanSafe
  OBVIOUS
<1>1. ASSUME NEW r \in DOMAIN fan
      PROVE  LET got == fan[r].got IN
             /\ ~({"applied", "failed"} \subseteq Range(got))
             /\ \A i \in DOMAIN got :
                  /\ got[i] = "applied" => "report" \in {got[j] : j \in 1..(i - 1)}
                  /\ got[i] = "accept" => i = 1
  <2> DEFINE got == fan[r].got
  <2>1. \/ got = <<>> \/ got = <<"accept">> \/ got = <<"failed">> \/ got = <<"accept", "failed">>
        \/ got = <<"accept", "report">> \/ got = <<"accept", "report", "applied">>
    BY RecordAt DEF Sound, Told, Staged, Recs
  <2> HIDE DEF got
  <2>2. CASE got = <<>>
    <3>1. DOMAIN got = {}
      BY <2>2
    <3> QED
      BY <3>1 DEF Range, got
  <2>3. CASE got = <<"accept">> \/ got = <<"failed">>
    <3>1. DOMAIN got = {1} /\ got[1] # "applied"
      BY <2>3
    <3>2. Range(got) = {got[1]}
      BY <3>1 DEF Range
    <3> QED
      BY <3>1, <3>2 DEF got
  <2>4. CASE got = <<"accept", "failed">> \/ got = <<"accept", "report">>
    <3>1. DOMAIN got = {1, 2} /\ got[1] = "accept" /\ got[2] # "applied" /\ got[2] # "accept"
      BY <2>4
    <3>2. Range(got) = {got[1], got[2]}
      BY <3>1 DEF Range
    <3> QED
      BY <3>1, <3>2 DEF got
  <2>5. CASE got = <<"accept", "report", "applied">>
    <3>1. /\ DOMAIN got = {1, 2, 3} /\ got[1] = "accept" /\ got[2] = "report"
          /\ got[3] = "applied" /\ 2 \in 1 .. 3 - 1
      BY <2>5
    <3>2. Range(got) = {got[1], got[2], got[3]}
      BY <3>1 DEF Range
    <3> QED
      BY <3>1, <3>2 DEF got
  <2> QED
    BY <2>1, <2>2, <2>3, <2>4, <2>5
<1>2. FanOrder
  BY <1>1 DEF FanOrder
<1>3. FanEpochs
  <2>1. fanWorker.at # "idle" => fan[fanWorker.r].epoch = fanEpoch
    BY WorkerRecord
  <2>2. ASSUME NEW r \in DOMAIN fan, r \in Range(fanQueue) \/ fan[r].timer
        PROVE  fan[r].epoch = fanEpoch
    BY <2>2, RecordAt DEF Held
  <2> QED
    BY <2>1, <2>2 DEF FanEpochs
<1>4. FanOneRound
  BY RecordAt DEF FanOneRound, Sound, Staged
<1>5. FanOneSlot
  <2>1. IsInjective(fanQueue) /\ Range(fanQueue) \subseteq DOMAIN fan
    BY DEF FbInv, Lines, Line
  <2> QED
    BY <2>1, RecordAt DEF FanOneSlot, Held
<1>6. FanServable
  <2>1. Range(fanCache) \subseteq DOMAIN fan
    BY DEF FbInv, Lines
  <2> QED
    BY <2>1, RecordAt DEF FanServable, Held
<1> QED
  BY <1>2, <1>3, <1>4, <1>5, <1>6 DEF FanSafe

\* A fan request is answered in order, by one round at the controller and over the
\* link it came by, and none with work left is forgotten, whatever the event
\* thread, the worker, the timers and new logins do in between.
THEOREM FanAnswered == FanSpec => []FanSafe
<1>1. FanSpec => []FbInv
  BY FbInit, FbStep, LoginsCounted, PTL DEF FanSpec
<1> QED
  BY <1>1, FbSafe, PTL
=============================================================================
