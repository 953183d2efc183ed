--------------------------- MODULE PresenceProofs ---------------------------
(* What Presence guarantees for every set of holders, every number of       *)
(* faults and jobs, and every corrupt-heartbeat limit.                      *)
EXTENDS Presence, TLAPS

Revoking == {"revoking", "rerevoking"}

\* Places of the daemon coroutine at which the mode is still STARTING.
Unstarted == {"down", "loading", "failed", "startup"} \cup Revoking \cup Quiet

\* A heartbeat is under way, from its write to the reading of its reply.
UnderWay == beat.at \in OnWire \cup Replies \cup {"nag", "relogin"}

\* Every damaged heartbeat used up one fault.
StreakBound == streak + (IF beat.at = "corrupt" THEN 1 ELSE 0) <= faults

\* A heartbeat of the current generation has the current mode.
ModeOfGeneration == UnderWay /\ beat.gen = generation => beat.mode = desired

\* Before probation is over the mode is STARTING, and the voice job waits.
StartingPlaces == main \in Unstarted => desired = "starting" /\ Voice \notin holds

\* Who revokes the lease waits for the STARTING of the current generation, ...
RevokingWaits ==
    main \in Revoking => suspected /\ awaits[Daemon] = generation

\* ... and it is published only after the firmware handled a STARTING.
StartingReplied ==
    beat.at \in {"ok", "unknown"} /\ beat.gen = generation /\ desired = "starting"
        => ~owed
StartingPublished ==
    main \in Revoking /\ (acked >= generation \/ supported = "no") => ~owed

\* So the hint is never dropped while a STARTING is still owed.
OwedIsSuspected == owed => suspected

HintInv ==
    /\ ModeOfGeneration /\ StartingPlaces /\ RevokingWaits
    /\ StartingReplied /\ StartingPublished /\ OwedIsSuspected

\* A legacy peer holds no lease, and nothing is under way while it is parked.
LegacyUnleased ==
    /\ legacy \/ beat.at = "unknown" \/ supported = "no" => lease = "none"
    /\ supported = "no" => beat.at = "parked"

\* While the task group is down no heartbeat actor runs.
DownIsOff == main = "down" => beat.at = "off"

\* A published generation is the lease, as far as the login still holds one.
PublishedIsLease ==
    /\ acked >= generation => /\ lease \in {"none", desired}
                              /\ UnderWay => beat.gen = generation
    /\ beat.at = "ok" /\ beat.gen = generation => lease \in {"none", desired}

\* Neither the firmware nor a heartbeat under way says READY.
Unready == lease # "ready" /\ (UnderWay => beat.mode # "ready")

Waiting(h) == h \in holds /\ user[h] = "acquiring"
Covered(h) == h \in holds /\ user[h] = "covered"

HolderShape(h) ==
    /\ Waiting(h) \/ Covered(h) => desired \in {"busy", "degraded"}
    /\ Covered(h) => Unready
    /\ Waiting(h) =>
        /\ UnderWay /\ beat.gen >= awaits[h] => beat.mode # "ready"
        /\ beat.at = "ok" /\ beat.gen >= awaits[h] => lease # "ready"
        /\ acked >= awaits[h] => Unready

LeaseInv ==
    /\ LegacyUnleased /\ DownIsOff /\ PublishedIsLease
    /\ \A h \in Holder : HolderShape(h)

TypeInv == TypeOK /\ StreakBound

Inv == TypeInv /\ HintInv /\ LeaseInv

---------------------------------------------------------------------------
(* Type correctness, with the bound on the corrupt streak it needs.         *)

\* The initial state is well typed, whichever way the hint and the peer stand.
LEMMA InitTypes == Init => TypeInv
<1> SUFFICES ASSUME Init  PROVE  TypeInv
  OBVIOUS
<1>1. /\ suspected \in BOOLEAN /\ owed \in BOOLEAN /\ legacy \in BOOLEAN
      /\ attached \in BOOLEAN /\ alarm \in BOOLEAN /\ auth \in BOOLEAN
  BY FlagAssumption DEF Init
<1>2. QED
  <2>1. Looping \in [at : {"loop"}, gen : {0}, mode : {"starting"}]
    BY DEF Looping, Off
  <2>2. /\ desired = "starting" /\ generation = 1 /\ acked = 0
        /\ supported = "unknown" /\ streak = 0 /\ holds = {}
        /\ beat = Looping /\ user = [h \in Holder |-> "idle"]
        /\ main = "loading" /\ awaits = [w \in Holder \cup {Daemon} |-> 0]
        /\ model = "unloaded" /\ lease = "none" /\ faults = 0 /\ jobs = 0
    BY DEF Init
  <2>3. QED
    BY <1>1, <2>1, <2>2, HolderAssumption, CountAssumption
       DEF TypeInv, TypeOK, StreakBound, Modes, OnWire, Replies, Quiet, Daemon

\* What a reboot hint does to the types of presence.
LEMMA SuspectTypes ==
    ASSUME TypeOK, Suspect
    PROVE  /\ desired' \in Modes /\ generation' \in Nat \ {0} /\ generation' >= generation
           /\ acked' \in 0..generation' /\ supported' \in {"unknown", "yes", "no"}
           /\ holds' \subseteq Holder
           /\ suspected' \in BOOLEAN /\ owed' \in BOOLEAN
<1>1. CASE suspected
  BY <1>1 DEF TypeOK, Suspect, presenceVars
<1>2. CASE ~suspected
  BY <1>2 DEF TypeOK, Suspect, LinkReset, Modes
<1>3. QED  BY <1>1, <1>2 DEF TypeOK

\* Every step of the host, the wire and the firmware keeps the types.
LEMMA NextKeepsTypes == TypeInv /\ [Next]_vars => TypeInv'
<1> SUFFICES ASSUME TypeInv, [Next]_vars  PROVE  TypeInv'
  OBVIOUS
<1> USE CountAssumption
        DEF TypeInv, TypeOK, StreakBound, Modes, OnWire, Replies, Quiet, Daemon,
            presenceVars, pipelineVars, hintVars, fwVars, boundVars
<1>1. CASE Write
  BY <1>1 DEF Write, Fences, Looping, Off
<1>2. CASE FwHears
  BY <1>2 DEF FwHears, Looping, Off
<1>3. CASE LineDamaged
  BY <1>3 DEF LineDamaged, Fault, Looping, Off
<1>4. CASE HeartbeatFails
  BY <1>4 DEF HeartbeatFails, Fault, Looping, Off
<1>5. CASE ReadOutdated
  BY <1>5 DEF ReadOutdated, Looping, Off
<1>6. CASE ReadOk
  BY <1>6 DEF ReadOk, Looping, Off
<1>7. CASE ReadUnknown
  BY <1>7 DEF ReadUnknown, Looping, Off
<1>8. CASE ReadCorrupt
  BY <1>8 DEF ReadCorrupt, Looping, Off
<1>9. CASE ReadRefused
  BY <1>9 DEF ReadRefused, Looping, Off
<1>10. CASE ReadNag
  <2>1. Suspect
    BY <1>10 DEF ReadNag
  <2>2. alarm' \in BOOLEAN
    BY <1>10 DEF ReadNag
  <2>3. beat'.at \in {"raised", "loop", "relogin"} /\ beat' = [beat EXCEPT !.at = beat'.at]
    BY <1>10 DEF ReadNag
  <2>4. QED
    BY <1>10, <2>1, <2>2, <2>3, SuspectTypes DEF ReadNag
<1>11. CASE Relogin
  BY <1>11 DEF Relogin, Looping, Off
<1>12. CASE Unpark
  BY <1>12 DEF Unpark, Looping, Off
<1>13. CASE OtherNagged
  <2>1. Suspect /\ alarm' \in BOOLEAN
    BY <1>13 DEF OtherNagged
  <2>2. QED
    BY <1>13, <2>1, SuspectTypes DEF OtherNagged
<1>14. CASE OtherTimedOut
  BY <1>14 DEF OtherTimedOut, Fault, Looping, Off
<1>15. CASE LoginLost
  <2>1. legacy' \in BOOLEAN /\ auth' \in BOOLEAN
    BY <1>15 DEF LoginLost
  <2>2. /\ lease' = "none" /\ faults' \in 0..MaxFaults /\ faults' >= faults
        /\ UNCHANGED <<presenceVars, streak, beat, user, pipelineVars, hintVars, jobs>>
    BY <1>15 DEF LoginLost, Fault
  <2>3. QED  BY <2>1, <2>2
<1>16. CASE Garbage
  BY <1>16 DEF Garbage, Suspect, LinkReset, Fault, Looping, Off
<1>17. CASE AttachLlm
  BY <1>17 DEF AttachLlm, Looping, Off
<1>18. CASE LoadDone
  BY <1>18 DEF LoadDone, Looping, Off
<1>19. CASE LoadFails
  BY <1>19 DEF LoadFails, Looping, Off
<1>20. CASE ControlOnly
  BY <1>20 DEF ControlOnly, SetMode, Looping, Off
<1>21. CASE Startup
  BY <1>21 DEF Startup, SetMode, LinkReset, Awaiting, Looping, Off
<1>22. CASE Revoked
  <2>1. main' \in Quiet /\ suspected' \in BOOLEAN
    BY <1>22 DEF Revoked
  <2>2. /\ UNCHANGED <<presenceVars, streak, beat, user, awaits, model, attached, alarm,
                       owed, fwVars, boundVars>>
    BY <1>22 DEF Revoked
  <2>3. QED  BY <2>1, <2>2
<1>23. CASE Probated
  BY <1>23 DEF Probated, SetMode, Awaiting, Looping, Off
<1>24. CASE Armed
  BY <1>24 DEF Armed, Looping, Off
<1>25. CASE DispatchSuspected
  BY <1>25 DEF DispatchSuspected, LinkReset, Awaiting, Looping, Off
<1>26. CASE DispatchStale
  BY <1>26 DEF DispatchStale, SetMode, Looping, Off
<1>27. CASE ReleaseDegraded
  <2>1. CASE Voice \in holds
    BY <1>27, <2>1 DEF ReleaseDegraded, SetMode, Fault
  <2>2. CASE Voice \notin holds
    <3>1. /\ user' = [user EXCEPT ![Voice] = "idle"] /\ holds' = holds \ {Voice}
      BY <1>27 DEF ReleaseDegraded
    <3>2. /\ user' \in [Holder -> {"idle", "acquiring", "covered", "uncovered"}]
          /\ holds' \subseteq Holder
      BY <3>1
    <3>3. /\ UNCHANGED <<desired, generation, acked, supported>>
          /\ faults' \in 0..MaxFaults /\ faults' >= faults
          /\ UNCHANGED <<streak, beat, pipelineVars, hintVars, fwVars, jobs>>
      BY <1>27, <2>2 DEF ReleaseDegraded, Fault
    <3>4. QED  BY <3>2, <3>3
  <2>3. QED  BY <2>1, <2>2
<1>28. ASSUME NEW h \in Holder, AcquireBusy(h)  PROVE TypeInv'
  BY <1>28 DEF AcquireBusy, SetMode
<1>29. ASSUME NEW h \in Holder, BusyPublished(h)  PROVE TypeInv'
  BY <1>29 DEF BusyPublished
<1>30. ASSUME NEW h \in Holder, ReleaseBusy(h)  PROVE TypeInv'
  BY <1>30 DEF ReleaseBusy, SetMode
<1>31. CASE Collapse
  BY <1>31 DEF Collapse, GroupEnds, Looping, Off
<1>32. CASE LinkDies
  BY <1>32 DEF LinkDies, GroupEnds, Fault, Looping, Off
<1>33. CASE Reconnect
  <2>1. /\ desired' \in Modes /\ generation' \in Nat \ {0} /\ generation' >= generation
        /\ acked' \in 0..generation' /\ supported' \in {"unknown", "yes", "no"}
        /\ holds' \subseteq Holder
        /\ suspected' \in BOOLEAN /\ owed' \in BOOLEAN
    BY <1>33, SuspectTypes DEF Reconnect
  <2>2. beat' = Looping /\ main' \in {"loading", "startup", "failed"}
    BY <1>33 DEF Reconnect
  <2>3. /\ alarm' \in BOOLEAN /\ auth' \in BOOLEAN /\ lease' = "none"
        /\ UNCHANGED <<streak, user, awaits, model, attached, legacy, boundVars>>
    BY <1>33 DEF Reconnect
  <2>4. Looping \in [at : {"loop"}, gen : {0}, mode : {"starting"}]
    BY DEF Looping, Off
  <2>5. QED  BY <2>1, <2>2, <2>3, <2>4
<1>34. CASE UNCHANGED vars
  BY <1>34 DEF vars
<1>35. QED
  BY <1>1, <1>2, <1>3, <1>4, <1>5, <1>6, <1>7, <1>8, <1>9, <1>10, <1>11, <1>12, <1>13, <1>14, <1>15, <1>16, <1>17, <1>18, <1>19, <1>20, <1>21, <1>22, <1>23, <1>24, <1>25, <1>26, <1>27, <1>28, <1>29, <1>30, <1>31, <1>32, <1>33, <1>34
     DEF Next, Actor, Pipeline, Wire, Jobs

---------------------------------------------------------------------------
(* A hint is dropped only after the firmware handled STARTING.              *)

\* At the start no STARTING is owed unless a hint is pending.
LEMMA InitHint == Init => HintInv
BY DEF Init, HintInv, ModeOfGeneration, StartingPlaces, RevokingWaits, StartingReplied,
       StartingPublished, OwedIsSuspected, UnderWay, Unstarted, Revoking, Looping, Off,
       OnWire, Replies, Quiet

\* No step drops a hint whose STARTING the firmware has not handled.
LEMMA NextKeepsHint ==
    TypeInv /\ HintInv /\ [Next]_vars => HintInv'
<1> SUFFICES ASSUME TypeInv, HintInv, [Next]_vars  PROVE  HintInv'
  OBVIOUS
<1> USE HolderAssumption, CountAssumption
        DEF TypeInv, TypeOK, HintInv, ModeOfGeneration, StartingPlaces, RevokingWaits,
            StartingReplied, StartingPublished, OwedIsSuspected, UnderWay, Unstarted,
            Revoking, Modes, OnWire, Replies, Quiet, Daemon, Outdated, Fences,
            presenceVars, pipelineVars, hintVars, fwVars, boundVars
<1>1. CASE Write
  BY <1>1 DEF Write, Looping, Off
<1>2. CASE FwHears
  BY <1>2 DEF FwHears, Looping, Off
<1>3. CASE LineDamaged
  BY <1>3 DEF LineDamaged, Fault, Looping, Off
<1>4. CASE HeartbeatFails
  BY <1>4 DEF HeartbeatFails, Fault, Looping, Off
<1>5. CASE ReadOutdated
  BY <1>5 DEF ReadOutdated, Looping, Off
<1>6. CASE ReadOk
  BY <1>6 DEF ReadOk, Looping, Off
<1>7. CASE ReadUnknown
  BY <1>7 DEF ReadUnknown, Looping, Off
<1>8. CASE ReadCorrupt
  BY <1>8 DEF ReadCorrupt, Looping, Off
<1>9. CASE ReadRefused
  BY <1>9 DEF ReadRefused, Looping, Off
<1>10. CASE ReadNag
  BY <1>10 DEF ReadNag, Suspect, LinkReset, Looping, Off
<1>11. CASE Relogin
  BY <1>11 DEF Relogin, Looping, Off
<1>12. CASE Unpark
  BY <1>12 DEF Unpark, Looping, Off
<1>13. CASE OtherNagged
  BY <1>13 DEF OtherNagged, Suspect, LinkReset, Looping, Off
<1>14. CASE OtherTimedOut
  BY <1>14 DEF OtherTimedOut, Fault, Looping, Off
<1>15. CASE LoginLost
  BY <1>15 DEF LoginLost, Fault, Looping, Off
<1>16. CASE Garbage
  BY <1>16 DEF Garbage, Suspect, LinkReset, Fault, Looping, Off
<1>17. CASE AttachLlm
  BY <1>17 DEF AttachLlm, Looping, Off
<1>18. CASE LoadDone
  BY <1>18 DEF LoadDone, Looping, Off
<1>19. CASE LoadFails
  BY <1>19 DEF LoadFails, Looping, Off
<1>20. CASE ControlOnly
  BY <1>20 DEF ControlOnly, SetMode, Looping, Off
<1>21. CASE Startup
  BY <1>21 DEF Startup, SetMode, LinkReset, Awaiting, Looping, Off
<1>22. CASE Revoked
  BY <1>22 DEF Revoked, Published, Looping, Off
<1>23. CASE Probated
  BY <1>23 DEF Probated, SetMode, Awaiting, Looping, Off
<1>24. CASE Armed
  BY <1>24 DEF Armed, Looping, Off
<1>25. CASE DispatchSuspected
  BY <1>25 DEF DispatchSuspected, LinkReset, Awaiting, Looping, Off
<1>26. CASE DispatchStale
  BY <1>26 DEF DispatchStale, SetMode, Looping, Off
<1>27. CASE ReleaseDegraded
  BY <1>27 DEF ReleaseDegraded, SetMode, Fault, Looping, Off
<1>28. ASSUME NEW h \in Holder, AcquireBusy(h)  PROVE HintInv'
  BY <1>28 DEF AcquireBusy, MayAcquire, SetMode
<1>29. ASSUME NEW h \in Holder, BusyPublished(h)  PROVE HintInv'
  BY <1>29 DEF BusyPublished
<1>30. ASSUME NEW h \in Holder, ReleaseBusy(h)  PROVE HintInv'
  BY <1>30 DEF ReleaseBusy, SetMode
<1>31. CASE Collapse
  BY <1>31 DEF Collapse, GroupEnds, Looping, Off
<1>32. CASE LinkDies
  BY <1>32 DEF LinkDies, GroupEnds, Fault, Looping, Off
<1>33. CASE Reconnect
  BY <1>33 DEF Reconnect, Suspect, LinkReset, Looping, Off
<1>34. CASE UNCHANGED vars
  BY <1>34 DEF vars
<1>35. QED
  BY <1>1, <1>2, <1>3, <1>4, <1>5, <1>6, <1>7, <1>8, <1>9, <1>10, <1>11, <1>12, <1>13, <1>14, <1>15, <1>16, <1>17, <1>18, <1>19, <1>20, <1>21, <1>22, <1>23, <1>24, <1>25, <1>26, <1>27, <1>28, <1>29, <1>30, <1>31, <1>32, <1>33, <1>34
     DEF Next, Actor, Pipeline, Wire, Jobs

---------------------------------------------------------------------------
(* A holder that waited for BUSY is never under READY.                      *)

\* At the start nobody holds a share and the firmware has no lease.
LEMMA InitLease == Init => LeaseInv
BY DEF Init, LeaseInv, LegacyUnleased, DownIsOff, PublishedIsLease, HolderShape, Waiting, Covered,
       UnderWay, Looping, Off, OnWire, Replies

\* No step puts a holder that waited for BUSY under READY.
LEMMA NextKeepsLease ==
    TypeInv /\ HintInv /\ LeaseInv /\ [Next]_vars => LeaseInv'
<1> SUFFICES ASSUME TypeInv, HintInv, LeaseInv, [Next]_vars  PROVE  LeaseInv'
  OBVIOUS
<1> USE HolderAssumption, CountAssumption
        DEF TypeInv, TypeOK, HintInv, ModeOfGeneration, StartingPlaces,
            LeaseInv, LegacyUnleased, DownIsOff, PublishedIsLease, HolderShape, Waiting, Covered, Unready,
            UnderWay, Unstarted, Revoking, Modes, OnWire, Replies, Quiet, Daemon,
            Outdated, Fences,
            presenceVars, pipelineVars, hintVars, fwVars, boundVars
<1>1. CASE Write
  BY <1>1 DEF Write, Looping, Off
<1>2. CASE FwHears
  BY <1>2 DEF FwHears, Looping, Off
<1>3. CASE LineDamaged
  BY <1>3 DEF LineDamaged, Fault, Looping, Off
<1>4. CASE HeartbeatFails
  BY <1>4 DEF HeartbeatFails, Fault, Looping, Off
<1>5. CASE ReadOutdated
  BY <1>5 DEF ReadOutdated, Looping, Off
<1>6. CASE ReadOk
  BY <1>6 DEF ReadOk, Looping, Off
<1>7. CASE ReadUnknown
  BY <1>7 DEF ReadUnknown, Looping, Off
<1>8. CASE ReadCorrupt
  BY <1>8 DEF ReadCorrupt, Looping, Off
<1>9. CASE ReadRefused
  BY <1>9 DEF ReadRefused, Looping, Off
<1>10. CASE ReadNag
  BY <1>10 DEF ReadNag, Suspect, LinkReset, Looping, Off
<1>11. CASE Relogin
  BY <1>11 DEF Relogin, Looping, Off
<1>12. CASE Unpark
  BY <1>12 DEF Unpark, Looping, Off
<1>13. CASE OtherNagged
  BY <1>13 DEF OtherNagged, Suspect, LinkReset, Looping, Off
<1>14. CASE OtherTimedOut
  BY <1>14 DEF OtherTimedOut, Fault, Looping, Off
<1>15. CASE LoginLost
  BY <1>15 DEF LoginLost, Fault, Looping, Off
<1>16. CASE Garbage
  BY <1>16 DEF Garbage, Suspect, LinkReset, Fault, Looping, Off
<1>17. CASE AttachLlm
  BY <1>17 DEF AttachLlm, Looping, Off
<1>18. CASE LoadDone
  BY <1>18 DEF LoadDone, Looping, Off
<1>19. CASE LoadFails
  BY <1>19 DEF LoadFails, Looping, Off
<1>20. CASE ControlOnly
  BY <1>20 DEF ControlOnly, SetMode, Looping, Off
<1>21. CASE Startup
  BY <1>21 DEF Startup, SetMode, LinkReset, Awaiting, Looping, Off
<1>22. CASE Revoked
  BY <1>22 DEF Revoked, Looping, Off
<1>23. CASE Probated
  BY <1>23 DEF Probated, SetMode, Awaiting, Looping, Off
<1>24. CASE Armed
  BY <1>24 DEF Armed, Looping, Off
<1>25. CASE DispatchSuspected
  BY <1>25 DEF DispatchSuspected, LinkReset, Awaiting, Looping, Off
<1>26. CASE DispatchStale
  BY <1>26 DEF DispatchStale, SetMode, Looping, Off
<1>27. CASE ReleaseDegraded
  BY <1>27 DEF ReleaseDegraded, SetMode, Fault, Looping, Off
<1>28. ASSUME NEW h \in Holder, AcquireBusy(h)  PROVE LeaseInv'
  BY <1>28 DEF AcquireBusy, MayAcquire, SetMode
<1>29. ASSUME NEW h \in Holder, BusyPublished(h)  PROVE LeaseInv'
  BY <1>29 DEF BusyPublished, Published
<1>30. ASSUME NEW h \in Holder, ReleaseBusy(h)  PROVE LeaseInv'
  BY <1>30 DEF ReleaseBusy, SetMode
<1>31. CASE Collapse
  BY <1>31 DEF Collapse, GroupEnds, Looping, Off
<1>32. CASE LinkDies
  BY <1>32 DEF LinkDies, GroupEnds, Fault, Looping, Off
<1>33. CASE Reconnect
  <2>1. /\ main = "down" /\ lease' = "none" /\ user' = user /\ awaits' = awaits
        /\ main' \in {"loading", "startup", "failed"}
    BY <1>33 DEF Reconnect
  <2>2. beat'.at = "loop"
    BY <1>33 DEF Reconnect, Looping, Off
  <2>3. \/ holds' = {} /\ acked' = 0 /\ generation' >= 1 /\ supported' = "unknown"
        \/ UNCHANGED <<desired, generation, acked, supported, holds>>
    BY <1>33 DEF Reconnect, Suspect, LinkReset
  <2>4. LegacyUnleased' /\ DownIsOff'
    BY <2>1, <2>2, <2>3
  <2>5. PublishedIsLease'
    BY <2>1, <2>2
  <2>6. \A h \in Holder : HolderShape(h)'
    BY <2>1, <2>2, <2>3
  <2>7. QED  BY <2>4, <2>5, <2>6
<1>34. CASE UNCHANGED vars
  BY <1>34 DEF vars
<1>35. QED
  BY <1>1, <1>2, <1>3, <1>4, <1>5, <1>6, <1>7, <1>8, <1>9, <1>10, <1>11, <1>12, <1>13, <1>14, <1>15, <1>16, <1>17, <1>18, <1>19, <1>20, <1>21, <1>22, <1>23, <1>24, <1>25, <1>26, <1>27, <1>28, <1>29, <1>30, <1>31, <1>32, <1>33, <1>34
     DEF Next, Actor, Pipeline, Wire, Jobs

---------------------------------------------------------------------------
(* The theorems.                                                            *)

\* The strengthening is inductive: the types, the argument that a hint outlives
\* the STARTING owed, and the shape of a share of the lease.
THEOREM Invariance == Spec => []Inv
<1>1. Init => Inv
  BY InitTypes, InitHint, InitLease DEF Inv
<1>2. Inv /\ [Next]_vars => Inv'
  BY NextKeepsTypes, NextKeepsHint, NextKeepsLease DEF Inv
<1>3. QED  BY <1>1, <1>2, PTL DEF Spec

\* Every variable keeps the range the code gives it: the acknowledged and awaited
\* generations of cm5_presence.py never pass the desired one.
THEOREM TypeCorrect == Spec => []TypeOK
<1>1. Inv => TypeOK
  BY DEF Inv, TypeInv
<1>2. QED  BY <1>1, Invariance, PTL

\* acquire_busy and release_busy of cm5_presence.py: a holder that waited for
\* BUSY and still has its share is never under a READY lease in the firmware.
THEOREM LeaseShared == Spec => []SharedLease
<1>1. Inv => SharedLease
  BY DEF Inv, LeaseInv, HolderShape, Covered, Unready, SharedLease
<1>2. QED  BY <1>1, Invariance, PTL

\* _reboot_fences and the replay of session.py: between a reboot hint and the
\* STARTING the firmware handles after it, no READY or BUSY goes on the wire.
THEOREM RebootIsFenced == Spec => NoReadyAcrossReboot
<1> DEFINE Fenced ==
      beat.at \notin OnWire /\ beat'.at \in OnWire /\ beat'.mode \in {"ready", "busy"}
        => ~owed'
<1>1. Inv /\ [Next]_vars => [Fenced]_vars
  <2> SUFFICES ASSUME Inv, [Next]_vars  PROVE  Fenced
    OBVIOUS
  <2> USE DEF OnWire
  <2>1. TypeOK /\ OwedIsSuspected
    BY DEF Inv, TypeInv, HintInv
  <2>2. CASE Write
    BY <2>1, <2>2 DEF Write, Fences, OwedIsSuspected, hintVars, Off
  <2>3. CASE Relogin
    BY <2>1, <2>3 DEF Relogin, Fences, Outdated, OwedIsSuspected, hintVars, TypeOK
  <2>4. CASE beat'.at \notin OnWire \/ beat.at \in OnWire
    BY <2>4
  <2>5. ASSUME ~Write, ~Relogin
        PROVE  beat'.at \notin OnWire \/ beat.at \in OnWire
    <3> USE DEF Looping, Off, pipelineVars
    <3>0. beat = [at |-> beat.at, gen |-> beat.gen, mode |-> beat.mode]
      BY <2>1 DEF TypeOK
    <3>1. CASE FwHears \/ LineDamaged
      BY <3>1 DEF FwHears, LineDamaged
    <3>2. CASE ReadOutdated \/ ReadOk \/ ReadUnknown \/ ReadCorrupt \/ ReadRefused
      BY <3>0, <3>2 DEF ReadOutdated, ReadOk, ReadUnknown, ReadCorrupt, ReadRefused
    <3>3. CASE ReadNag \/ Unpark \/ HeartbeatFails
      BY <3>0, <3>3 DEF ReadNag, Unpark, HeartbeatFails
    <3>4. CASE Collapse \/ LinkDies \/ Reconnect
      BY <3>4 DEF Collapse, LinkDies, GroupEnds, Reconnect
    <3>5. CASE UNCHANGED beat
      BY <3>5
    <3>6. Pipeline \/ Jobs \/ OtherNagged \/ OtherTimedOut \/ LoginLost \/ Garbage
            => UNCHANGED beat
      BY DEF Pipeline, AttachLlm, LoadDone, LoadFails, ControlOnly, Startup, Revoked,
             Probated, Armed, Jobs, DispatchSuspected, DispatchStale, ReleaseDegraded,
             AcquireBusy, BusyPublished, ReleaseBusy, OtherNagged, OtherTimedOut,
             LoginLost, Garbage
    <3>7. QED
      BY <2>5, <3>1, <3>2, <3>3, <3>4, <3>5, <3>6 DEF Next, Actor, Wire, vars
  <2>6. QED  BY <2>2, <2>3, <2>4, <2>5
<1>2. QED  BY <1>1, Invariance, PTL DEF Spec, NoReadyAcrossReboot

=============================================================================
