------------------------------ MODULE MCDaemon ------------------------------
(* The parts of the daemon around power, presence and the language model,    *)
(* and the root controller beside it.  They share no variable: a behaviour   *)
(* takes one of them and leaves the others as they start.  Three parts are   *)
(* taken twice, with other bounds or fewer actors.                           *)
EXTENDS FanBridge, Dictation, LinkSession, VoiceExchange, LiveLease, LiveCapture,
        LiveWorker, Recording, Wire, Upkeep, Transcript, LocalLlm, FanController

CONSTANT MCParts  \* the parts that this run may take

VARIABLE part      \* the one it took

DaemonVars == <<part, fanVars, dictVars, linkVars, exVars, lvVars, lcVars, lwVars, rcVars,
                wireVars, ukVars, txVars, locVars, fcVars>>

MCFcCurve == <<[temp |-> 1, pwm |-> 1]>>

\* Every caller and event with one fault; or logins that go wrong in every
\* combination of the faults, for those who may log in again, with no event.
Mixed == INSTANCE LinkSession WITH MaxLinkFaults <- 1
Login == INSTANCE LinkSession WITH MaxLinkPushes <- 0
LoginNext ==
    Login!LinkNext /\ \A c \in Bound \cup Streams : lkCall'[c] = lkCall[c]

\* Every update over one word; or hypotheses that diverge, with two updates.
OneWord == INSTANCE Transcript WITH TxWord <- {CHOOSE w \in TxWord : TRUE}
Words == INSTANCE Transcript WITH MaxTxUpdates <- 2

\* The tally of link faults without the clock's actor, which shares nothing with it
\* but a device that restarts and a link that is lost.
TallyNext ==
    \/ UkRestart \/ UkLinkLost \/ UkLoopFault \/ UkGarbage \/ UkGarbageNoted \/ UkTeller

MCInit ==
    /\ part \in MCParts
    /\ FanInit /\ DictInit /\ LinkInit /\ ExInit /\ LvInit /\ LcInit /\ LwInit /\ RcInit
    /\ WireInit /\ UkInit /\ TxInit /\ LocInit /\ FcInit
    /\ part \notin {"upkeep", "tally"} => ~ukDevice.legacy   \* one start for each other part

\* A step of part p is one of its own and leaves every other part alone.
Others(p) ==
    /\ part = p /\ UNCHANGED part
    /\ p # "fan" => UNCHANGED fanVars
    /\ p # "dictation" => UNCHANGED dictVars
    /\ p \notin {"link", "login"} => UNCHANGED linkVars
    /\ p # "exchange" => UNCHANGED exVars
    /\ p # "lease" => UNCHANGED lvVars
    /\ p # "capture" => UNCHANGED lcVars
    /\ p # "worker" => UNCHANGED lwVars
    /\ p # "recording" => UNCHANGED rcVars
    /\ p # "wire" => UNCHANGED wireVars
    /\ p \notin {"upkeep", "tally"} => UNCHANGED ukVars
    /\ p \notin {"transcript", "words"} => UNCHANGED txVars
    /\ p # "llama" => UNCHANGED locVars
    /\ p # "controller" => UNCHANGED fcVars

MCNext ==
    \/ Others("fan") /\ FanNext
    \/ Others("dictation") /\ DictNext
    \/ Others("link") /\ Mixed!LinkNext
    \/ Others("login") /\ LoginNext
    \/ Others("exchange") /\ ExNext
    \/ Others("lease") /\ LvNext
    \/ Others("capture") /\ LcNext
    \/ Others("worker") /\ LwNext
    \/ Others("recording") /\ RcNext
    \/ Others("wire") /\ WireNext
    \/ Others("upkeep") /\ UkNext
    \/ Others("tally") /\ TallyNext
    \/ Others("transcript") /\ OneWord!TxNext
    \/ Others("words") /\ Words!TxNext
    \/ Others("llama") /\ LocNext
    \/ Others("controller") /\ FcNext

MCSpec == MCInit /\ [][MCNext]_DaemonVars

\* The tasks and threads of the part that runs go on: each wait of theirs ends by
\* an answer or by its timeout.  The device, the wire and the faults owe nothing.
MCFairSpec ==
    /\ MCSpec
    /\ WF_fanVars(part = "fan" /\ FanStep)
    /\ \A r \in 1 .. MaxFanEvents : WF_fanVars(part = "fan" /\ FanTimer(r))
    /\ WF_dictVars(part = "dictation" /\ DictWorker)
    /\ WF_dictVars(part = "dictation" /\ DictPublishing)
    /\ WF_linkVars(part = "link" /\ LinkLock) /\ WF_linkVars(part = "link" /\ LinkReopen)
    /\ WF_linkVars(part = "link" /\ LinkDevice)
    /\ \A c \in LinkCallers : WF_linkVars(part = "link" /\ Mixed!LinkStep(c))
    /\ WF_exVars(part = "exchange" /\ ExDaemon) /\ WF_exVars(part = "exchange" /\ ExRouter)
    /\ WF_exVars(part = "exchange" /\ ExAsk) /\ WF_exVars(part = "exchange" /\ ExTails)
    /\ WF_lvVars(part = "lease" /\ LvTasks)
    /\ \A x \in LcEx : /\ WF_lcVars(part = "capture" /\ LcThread(x))
                       /\ WF_lcVars(part = "capture" /\ LcReturned(x))
    /\ WF_lwVars(part = "worker" /\ WarmThread)
    /\ \A i \in LwIds : WF_lwVars(part = "worker" /\ LwThread(i))
    /\ \A x \in LwCaptures : WF_lwVars(part = "worker" /\ LwCaptureThread(x))
    /\ WF_ukVars(part = "tally" /\ UkTeller) /\ WF_ukVars(part = "tally" /\ UkGarbageNoted)

-----------------------------------------------------------------------------
(* Properties.                                                               *)

\* The type of the state of every part, and the bounds of its queues and caches.
DaemonTypeOK ==
    /\ FanTypeOK /\ DictTypeOK /\ LinkTypeOK /\ ExTypeOK /\ LvTypeOK /\ LcTypeOK /\ LwTypeOK
    /\ RcTypeOK /\ WireTypeOK /\ UkTypeOK /\ TxTypeOK /\ LocTypeOK /\ FcTypeOK

\* Nobody waits for ever: every command gets the lock and returns, every capture
\* comes to its end, and every worker whose input ended lets its model go
\* (link/session.py _command_locked, stt/live_gate.py, stt/live.py).
WaitsEnd == LinkReturns /\ LcReturns /\ LwFreed
=============================================================================
