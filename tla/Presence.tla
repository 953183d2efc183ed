------------------------------ MODULE Presence ------------------------------
(* The readiness lease the CM5 publishes to the firmware: the heartbeat     *)
(* actor and refcounted BUSY mode of cm5_presence.py, the reboot hint and   *)
(* re-login of link/session.py, the probation and dispatch of pipeline.py,  *)
(* and the supervised task group of __main__.py that ties them together.    *)
(*                                                                          *)
(* One heartbeat at a time is between Session.command's write and its       *)
(* reply; every other UART command is OtherNagged or OtherTimedOut.         *)
EXTENDS Naturals, FiniteSets

CONSTANTS
    Holder,         \* jobs that may hold a share of the BUSY lease
    Voice,          \* the holder that is a dispatched pipeline job
    MaxCorrupt,     \* MAX_CORRUPT_HEARTBEATS
    LegacyPeer,     \* the firmware first met does not know cm5-presence-v1
    InitMayFail,    \* the model plane may fail to initialize
    MaxFaults,      \* bound: reboots, lost logins, damaged lines, timeouts, faults
    MaxJobs         \* bound: shares of the lease taken

ASSUME HolderAssumption == Voice \in Holder /\ "daemon" \notin Holder
ASSUME CountAssumption ==
    MaxCorrupt \in Nat \ {0} /\ MaxFaults \in Nat /\ MaxJobs \in Nat
ASSUME FlagAssumption == LegacyPeer \in BOOLEAN /\ InitMayFail \in BOOLEAN

VARIABLES
    desired,    \* _desired
    generation, \* _desired_generation
    acked,      \* _acknowledged_generation
    supported,  \* _supported: "unknown", "yes" or "no"
    streak,     \* _corrupt_streak
    holds,      \* owners of _busy_holds
    beat,       \* where run() is, with the generation and mode of its heartbeat
    user,       \* what every holder is doing
    main,       \* where _LazyDaemonPipeline.daemon, or the supervisor, is
    awaits,     \* generation a set_mode caller waits for
    model,      \* "unloaded", "loaded" or "failed"
    attached,   \* Cm5LlmService.attach was called
    suspected,  \* Session._reboot_suspected
    alarm,      \* a reboot generation newer than the task group's
    auth,       \* the firmware holds our login
    lease,      \* mode of the lease in the firmware's login epoch
    legacy,     \* the firmware does not know the heartbeat
    owed,       \* a hint was taken, and no STARTING handled since
    faults, jobs

presenceVars == <<desired, generation, acked, supported, holds>>
pipelineVars == <<main, awaits, model, attached>>
fwVars == <<auth, lease, legacy>>
hintVars == <<suspected, alarm, owed>>
boundVars == <<faults, jobs>>
vars == <<presenceVars, streak, beat, user, pipelineVars, hintVars, fwVars, boundVars>>

Modes == {"starting", "ready", "busy", "degraded"}
Daemon == "daemon"
Off == [at |-> "off", gen |-> 0, mode |-> "starting"]
Looping == [Off EXCEPT !.at = "loop"]
Replies == {"ok", "unknown", "corrupt", "refused"}
OnWire == {"sent", "resent"}
Quiet == {"quiet", "requiet"}       \* Session.settle is holding the wire idle

Fault == faults < MaxFaults /\ faults' = faults + 1

---------------------------------------------------------------------------
(* Cm5Presence: modes and waiting for them.                                *)

SetMode(mode) ==
    /\ desired' = mode
    /\ generation' = IF mode = desired THEN generation ELSE generation + 1
    /\ UNCHANGED <<acked, supported>>

LinkReset ==
    /\ desired' = "starting" /\ generation' = generation + 1
    /\ acked' = 0 /\ supported' = "unknown" /\ holds' = {}

\* When set_mode stops waiting for a generation.
Published(gen) == acked >= gen \/ supported = "no"

Fences(mode) == mode # "starting" /\ suspected

\* _mark_reboot_suspected: only the first hint of an episode resets presence.
Suspect ==
    IF suspected THEN UNCHANGED <<presenceVars, suspected, owed>>
    ELSE suspected' = TRUE /\ owed' = TRUE /\ LinkReset

---------------------------------------------------------------------------
(* The heartbeat actor.                                                    *)

Write ==
    /\ beat.at = "loop" /\ main \notin Quiet
    /\ beat' = IF Fences(desired) THEN [Off EXCEPT !.at = "raised"]
               ELSE [at |-> "sent", gen |-> generation, mode |-> desired]
    /\ UNCHANGED <<presenceVars, streak, user, pipelineVars, hintVars, fwVars, boundVars>>

\* The firmware handles the line (external): the lease follows the mode, a
\* legacy peer does not know the verb, and without a login it only nags, which
\* for a line that was already replayed is a plain refusal.
FwHears ==
    /\ beat.at \in OnWire
    /\ beat' = [beat EXCEPT !.at =
                    CASE ~auth /\ beat.at = "sent"   -> "nag"
                      [] ~auth /\ beat.at = "resent" -> "refused"
                      [] auth -> IF legacy THEN "unknown" ELSE "ok"]
    /\ lease' = IF auth /\ ~legacy THEN beat.mode ELSE lease
    /\ owed' = (owed /\ ~(auth /\ beat.mode = "starting"))
    /\ UNCHANGED <<presenceVars, streak, user, pipelineVars, suspected, alarm, auth,
                   legacy, boundVars>>

\* The line arrives damaged: the firmware echoes a verb nobody wrote.
LineDamaged ==
    /\ beat.at \in OnWire /\ auth /\ Fault
    /\ beat' = [beat EXCEPT !.at = "corrupt"]
    /\ UNCHANGED <<presenceVars, streak, user, pipelineVars, hintVars, fwVars, jobs>>

\* No reply in time, or an unusable one: LinkClosed, and nothing is replayed.
HeartbeatFails ==
    /\ beat.at \in {"nag", "relogin"} \cup OnWire \cup Replies /\ Fault
    /\ beat' = [beat EXCEPT !.at = "raised"]
    /\ UNCHANGED <<presenceVars, streak, user, pipelineVars, hintVars, fwVars, jobs>>

\* The cancel guard, checked once the reply was drained.
Outdated == generation # beat.gen \/ Fences(beat.mode)

ReadOutdated ==
    /\ beat.at \in Replies /\ Outdated
    /\ beat' = [beat EXCEPT !.at = IF Fences(beat.mode) THEN "raised" ELSE "loop"]
    /\ UNCHANGED <<presenceVars, streak, user, pipelineVars, hintVars, fwVars, boundVars>>

ReadOk ==
    /\ beat.at = "ok" /\ ~Outdated
    /\ beat' = Looping /\ supported' = "yes" /\ streak' = 0
    /\ acked' = IF beat.gen > acked THEN beat.gen ELSE acked
    /\ UNCHANGED <<desired, generation, holds, user, pipelineVars, hintVars, fwVars,
                   boundVars>>

\* Mutant: a legacy peer is reprobed without telling whoever waits.
ReadUnknownSilently ==
    /\ beat.at = "unknown" /\ ~Outdated
    /\ beat' = [beat EXCEPT !.at = "parked"]
    /\ UNCHANGED <<presenceVars, streak, user, pipelineVars, hintVars, fwVars, boundVars>>

ReadUnknown ==
    /\ beat.at = "unknown" /\ ~Outdated
    /\ beat' = [beat EXCEPT !.at = "parked"]
    /\ supported' = "no" /\ acked' = generation
    /\ UNCHANGED <<desired, generation, holds, streak, user, pipelineVars, hintVars,
                   fwVars, boundVars>>

ReadCorrupt ==
    /\ beat.at = "corrupt" /\ ~Outdated
    /\ streak' = streak + 1
    /\ beat' = [beat EXCEPT !.at = IF streak + 1 >= MaxCorrupt THEN "raised" ELSE "loop"]
    /\ UNCHANGED <<presenceVars, user, pipelineVars, hintVars, fwVars, boundVars>>

ReadRefused ==
    /\ beat.at = "refused" /\ ~Outdated
    /\ beat' = [beat EXCEPT !.at = "raised"]
    /\ UNCHANGED <<presenceVars, streak, user, pipelineVars, hintVars, fwVars, boundVars>>

\* Mutant: a lost login is only repaired, never taken as a reboot hint.
ReadNagUnmarked ==
    /\ beat.at = "nag" /\ owed' = TRUE
    /\ beat' = [beat EXCEPT !.at = IF Outdated THEN "loop" ELSE "relogin"]
    /\ UNCHANGED <<presenceVars, streak, user, pipelineVars, suspected, alarm, fwVars,
                   boundVars>>

\* Authentication required: a reboot hint, then the guard, and only a heartbeat
\* that survives both goes on to a new login.
ReadNag ==
    /\ beat.at = "nag"
    /\ Suspect /\ alarm' = (alarm \/ ~suspected)
    /\ beat' = [beat EXCEPT !.at = IF beat.mode # "starting" THEN "raised"
                                   ELSE IF generation' # beat.gen THEN "loop"
                                   ELSE "relogin"]
    /\ UNCHANGED <<streak, user, pipelineVars, fwVars, boundVars>>

\* The login opens a new epoch; the guard is asked again before the replay.
Relogin ==
    /\ beat.at = "relogin"
    /\ auth' = TRUE /\ lease' = "none"
    /\ beat' = [beat EXCEPT !.at = IF Fences(beat.mode) THEN "raised"
                                   ELSE IF Outdated THEN "loop" ELSE "resent"]
    /\ UNCHANGED <<presenceVars, streak, user, pipelineVars, hintVars, legacy, boundVars>>

\* The reprobe of a legacy peer.
Unpark ==
    /\ beat.at = "parked"
    /\ beat' = Looping /\ supported' = "unknown"
    /\ UNCHANGED <<desired, generation, acked, holds, streak, user, pipelineVars,
                   hintVars, fwVars, boundVars>>

---------------------------------------------------------------------------
(* Everybody else's commands, and what happens to the wire.                *)

\* Session's lock is free for a command that is not a heartbeat.
WireFree == beat.at \in {"loop", "parked"} /\ main \notin Quiet

\* A command is told it is not logged in: a hint, a login, and a replay.
OtherNagged ==
    /\ WireFree /\ ~auth
    /\ Suspect /\ alarm' = (alarm \/ ~suspected)
    /\ auth' = TRUE /\ lease' = "none"
    /\ UNCHANGED <<streak, beat, user, pipelineVars, legacy, boundVars>>

\* A command times out: a login and a replay, and no hint.
OtherTimedOut ==
    /\ WireFree /\ Fault
    /\ auth' = TRUE /\ lease' = "none"
    /\ UNCHANGED <<presenceVars, streak, beat, user, pipelineVars, hintVars, legacy, jobs>>

\* The firmware reboots, perhaps into a newer build, or drops the login.
LoginLost ==
    /\ Fault
    /\ auth' = FALSE /\ lease' = "none" /\ legacy' \in {legacy, FALSE}
    /\ UNCHANGED <<presenceVars, streak, beat, user, pipelineVars, hintVars, jobs>>

\* ROM garbage, or noise, reaches a reader of the running group.
Garbage ==
    /\ main # "down" /\ ~suspected /\ Fault
    /\ Suspect /\ alarm' = TRUE
    /\ UNCHANGED <<streak, beat, user, pipelineVars, fwVars, jobs>>

---------------------------------------------------------------------------
(* The pipeline's daemon coroutine.                                        *)

\* Mutant: the caller waits for the mode edge after its own.
AwaitingNext(place) ==
    main' = place /\ awaits' = [awaits EXCEPT ![Daemon] = generation' + 1]

Awaiting(place) ==
    main' = place /\ awaits' = [awaits EXCEPT ![Daemon] = generation']

AttachLlm ==
    /\ main = "loading" /\ ~attached /\ attached' = TRUE
    /\ UNCHANGED <<presenceVars, streak, beat, user, main, awaits, model, hintVars,
                   fwVars, boundVars>>

LoadDone ==
    /\ main = "loading" /\ attached
    /\ model' = "loaded" /\ main' = "startup"
    /\ UNCHANGED <<presenceVars, streak, beat, user, awaits, attached, hintVars, fwVars,
                   boundVars>>

LoadFails ==
    /\ main = "loading" /\ ~attached /\ InitMayFail
    /\ model' = "failed" /\ main' = "failed"
    /\ UNCHANGED <<presenceVars, streak, beat, user, awaits, attached, hintVars, fwVars,
                   boundVars>>

ControlOnly ==
    /\ main = "failed" /\ main' = "controlOnly"
    /\ SetMode("degraded")
    /\ UNCHANGED <<holds, streak, beat, user, awaits, model, attached, hintVars, fwVars,
                   boundVars>>

\* A pending hint: revoke the lease before the wire goes quiet.
Startup ==
    /\ main = "startup"
    /\ IF suspected THEN LinkReset /\ Awaiting("revoking")
       ELSE SetMode("ready") /\ Awaiting("arming") /\ UNCHANGED holds
    /\ UNCHANGED <<streak, beat, user, model, attached, hintVars, fwVars, boundVars>>

\* Mutant: the hint outlives its probation.
RevokedStillSuspected ==
    /\ main \in {"revoking", "rerevoking"} /\ Published(awaits[Daemon])
    /\ main' = IF main = "revoking" THEN "quiet" ELSE "requiet"
    /\ UNCHANGED <<presenceVars, streak, beat, user, awaits, model, attached, hintVars,
                   fwVars, boundVars>>

Revoked ==
    /\ main \in {"revoking", "rerevoking"} /\ Published(awaits[Daemon])
    /\ main' = IF main = "revoking" THEN "quiet" ELSE "requiet"
    /\ suspected' = FALSE
    /\ UNCHANGED <<presenceVars, streak, beat, user, awaits, model, attached, alarm,
                   owed, fwVars, boundVars>>

Probated ==
    /\ main = "quiet"
    /\ SetMode("ready") /\ Awaiting("arming")
    /\ UNCHANGED <<holds, streak, beat, user, model, attached, hintVars, fwVars, boundVars>>

Armed ==
    /\ main = "arming" /\ Published(awaits[Daemon]) /\ main' = "serving"
    /\ UNCHANGED <<presenceVars, streak, beat, user, awaits, model, attached, hintVars,
                   fwVars, boundVars>>

\* A job dispatched under a hint waits for probation of its own, ...
DispatchSuspected ==
    /\ main = "serving" /\ suspected /\ user[Voice] = "idle"
    /\ LinkReset /\ Awaiting("rerevoking")
    /\ UNCHANGED <<streak, beat, user, model, attached, hintVars, fwVars, boundVars>>

\* ... and, dropped as stale after it, leaves READY behind.
DispatchStale ==
    /\ main = "requiet" /\ main' = "serving"
    /\ SetMode("ready")
    /\ UNCHANGED <<holds, streak, beat, user, awaits, model, attached, hintVars, fwVars,
                   boundVars>>

---------------------------------------------------------------------------
(* Shares of the BUSY lease.                                               *)

MayAcquire(h) ==
    IF h = Voice THEN main = "requiet" \/ (main = "serving" /\ ~suspected)
    ELSE attached /\ main # "down"

\* STARTING and DEGRADED are left alone, and nothing is waited for.
AcquireBusy(h) ==
    /\ user[h] = "idle" /\ MayAcquire(h) /\ jobs < MaxJobs
    /\ holds' = holds \cup {h}
    /\ IF desired \in {"ready", "busy"}
       THEN /\ SetMode("busy")
            /\ user' = [user EXCEPT ![h] = "acquiring"]
            /\ awaits' = [awaits EXCEPT ![h] = generation']
       ELSE /\ user' = [user EXCEPT ![h] = "uncovered"]
            /\ UNCHANGED <<desired, generation, acked, supported, awaits>>
    /\ main' = IF h = Voice THEN "serving" ELSE main
    /\ jobs' = jobs + 1
    /\ UNCHANGED <<streak, beat, model, attached, hintVars, fwVars, faults>>

BusyPublished(h) ==
    /\ user[h] = "acquiring" /\ Published(awaits[h])
    /\ user' = [user EXCEPT ![h] = "covered"]
    /\ UNCHANGED <<presenceVars, streak, beat, pipelineVars, hintVars, fwVars, boundVars>>

\* Mutant: whoever finishes first gives the lease back.
ReleaseShared(h) ==
    /\ user[h] \in {"covered", "uncovered"}
    /\ user' = [user EXCEPT ![h] = "idle"]
    /\ holds' = holds \ {h}
    /\ IF h \in holds /\ desired = "busy" THEN SetMode("ready")
       ELSE UNCHANGED <<desired, generation, acked, supported>>
    /\ UNCHANGED <<streak, beat, pipelineVars, hintVars, fwVars, boundVars>>

\* A token already cleared is ignored; the last share of BUSY gives READY back.
ReleaseBusy(h) ==
    /\ user[h] \in {"covered", "uncovered"}
    /\ user' = [user EXCEPT ![h] = "idle"]
    /\ holds' = holds \ {h}
    /\ IF h \in holds /\ holds' = {} /\ desired = "busy" THEN SetMode("ready")
       ELSE UNCHANGED <<desired, generation, acked, supported>>
    /\ UNCHANGED <<streak, beat, pipelineVars, hintVars, fwVars, boundVars>>

\* A dispatched job whose cleanup failed outranks the refcount.
ReleaseDegraded ==
    /\ user[Voice] \in {"covered", "uncovered"} /\ Fault
    /\ user' = [user EXCEPT ![Voice] = "idle"]
    /\ holds' = holds \ {Voice}
    /\ IF Voice \in holds THEN SetMode("degraded")
       ELSE UNCHANGED <<desired, generation, acked, supported>>
    /\ UNCHANGED <<streak, beat, pipelineVars, hintVars, fwVars, jobs>>

---------------------------------------------------------------------------
(* The supervisor: a LinkClosed in any task cancels them all.              *)

\* The generation counts on in the code; here it restarts, because whoever
\* compared it with an older one is gone.
GroupEnds ==
    /\ main # "down" /\ main' = "down"
    /\ beat' = Off
    /\ user' = [h \in Holder |-> "idle"]
    /\ desired' = "starting" /\ generation' = 1
    /\ acked' = 0 /\ supported' = "unknown" /\ holds' = {}
    /\ awaits' = [w \in Holder \cup {Daemon} |-> 0]
    /\ UNCHANGED <<streak, model, attached, hintVars, fwVars>>

\* A heartbeat, or the watcher of _fail_link_on_new_reboot, raised LinkClosed.
Collapse == (beat.at = "raised" \/ alarm) /\ GroupEnds /\ UNCHANGED boundVars
LinkDies == GroupEnds /\ Fault /\ UNCHANGED jobs

\* Reopen, log in (garbage of a reboot may be read meanwhile), start the group.
Reconnect ==
    /\ main = "down"
    /\ Suspect \/ UNCHANGED <<presenceVars, suspected, owed>>
    /\ alarm' = FALSE
    /\ auth' = TRUE /\ lease' = "none"
    /\ beat' = Looping
    /\ main' = CASE model = "unloaded" -> "loading"
                 [] model = "loaded"   -> "startup"
                 [] model = "failed"   -> "failed"
    /\ UNCHANGED <<streak, user, awaits, model, attached, legacy, boundVars>>

---------------------------------------------------------------------------

Init ==
    /\ desired = "starting" /\ generation = 1 /\ acked = 0
    /\ supported = "unknown" /\ streak = 0 /\ holds = {}
    /\ beat = Looping /\ user = [h \in Holder |-> "idle"]
    /\ main = "loading" /\ awaits = [w \in Holder \cup {Daemon} |-> 0]
    /\ model = "unloaded" /\ attached = FALSE
    /\ suspected \in BOOLEAN /\ alarm = FALSE /\ owed = suspected
    /\ auth = TRUE /\ lease = "none" /\ legacy = LegacyPeer
    /\ faults = 0 /\ jobs = 0

Actor ==
    \/ Write \/ FwHears \/ ReadOutdated \/ ReadOk \/ ReadUnknown \/ ReadCorrupt
    \/ ReadRefused \/ ReadNag \/ Relogin \/ Unpark

Pipeline ==
    \/ AttachLlm \/ LoadDone \/ LoadFails \/ ControlOnly
    \/ Startup \/ Revoked \/ Probated \/ Armed

Wire ==
    \/ LineDamaged \/ HeartbeatFails \/ OtherNagged \/ OtherTimedOut
    \/ LoginLost \/ Garbage

Jobs ==
    \/ DispatchSuspected \/ DispatchStale \/ ReleaseDegraded
    \/ \E h \in Holder : AcquireBusy(h) \/ BusyPublished(h) \/ ReleaseBusy(h)

Next == Actor \/ Pipeline \/ Wire \/ Jobs \/ Collapse \/ LinkDies \/ Reconnect

Spec == Init /\ [][Next]_vars

\* Every task of the event loop runs when it can, the firmware answers what it
\* hears, and the supervisor never stops trying.
FairSpec ==
    /\ Spec
    /\ WF_vars(Actor) /\ WF_vars(Pipeline) /\ WF_vars(DispatchStale)
    /\ WF_vars(Collapse) /\ WF_vars(Reconnect)
    /\ \A h \in Holder : WF_vars(BusyPublished(h)) /\ WF_vars(ReleaseBusy(h))

---------------------------------------------------------------------------
(* Properties.                                                              *)

TypeOK ==
    /\ desired \in Modes /\ generation \in Nat \ {0} /\ acked \in 0..generation
    /\ supported \in {"unknown", "yes", "no"}
    /\ streak \in 0..MaxFaults /\ holds \subseteq Holder
    /\ beat \in [at : {"off", "loop", "nag", "relogin", "parked", "raised"} \cup OnWire \cup Replies,
                 gen : 0..generation, mode : Modes]
    /\ user \in [Holder -> {"idle", "acquiring", "covered", "uncovered"}]
    /\ main \in {"loading", "failed", "controlOnly", "startup", "revoking", "arming",
                 "serving", "rerevoking", "down"} \cup Quiet
    /\ awaits \in [Holder \cup {Daemon} -> 0..generation]
    /\ model \in {"unloaded", "loaded", "failed"} /\ attached \in BOOLEAN
    /\ suspected \in BOOLEAN /\ alarm \in BOOLEAN /\ owed \in BOOLEAN
    /\ auth \in BOOLEAN /\ lease \in Modes \cup {"none"} /\ legacy \in BOOLEAN
    /\ faults \in 0..MaxFaults /\ jobs \in 0..MaxJobs

\* cm5_presence.py:82: a holder that waited for BUSY keeps the firmware off
\* READY until it lets go, whatever its siblings release meanwhile.
SharedLease ==
    \A h \in Holder : user[h] = "covered" /\ h \in holds => lease # "ready"

\* The same of every holder, also of one that acquired while STARTING and was
\* told to go ahead without waiting.
HoldKeepsBusy ==
    \A h \in Holder : user[h] \in {"covered", "uncovered"} /\ h \in holds
                        => lease # "ready"

\* ARCHITECTURE.md, "Reboot fencing": after a reboot hint no heartbeat but a
\* STARTING one is written before the firmware has handled STARTING; not by the
\* actor, not by Session's replay behind a new login.
NoReadyAcrossReboot ==
    [][beat.at \notin OnWire /\ beat'.at \in OnWire /\ beat'.mode \in {"ready", "busy"}
         => ~owed']_vars

\* Liveness: every set_mode caller returns, or is cancelled with its group.
ModeWaitersReturn ==
    /\ \A h \in Holder : user[h] = "acquiring" ~> user[h] # "acquiring"
    /\ main \in {"arming", "revoking"} ~> main \notin {"arming", "revoking"}

\* Liveness: once the faults are over a host whose models loaded is accepting
\* jobs and stays so, whatever epochs, hints and legacy builds it went through.
ServesAgain == <>[](model = "failed" \/ main = "serving")

\* Liveness: once the faults are over the task group stays up, with or without
\* a model plane ("cannot take down the already-running control plane").
ControlPlaneStaysUp == <>[](main # "down")

=============================================================================
