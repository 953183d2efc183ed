------------------------------ MODULE Dictation ------------------------------
(* Keyboard dictation (dictation.py): one worker that fetches a recording,  *)
(* transcribes it and writes one terminal command for its request ID, fenced *)
(* by a generation that every login moves on; and the capability the daemon *)
(* declares once per login before it serves anything.                       *)
(*                                                                          *)
(* Transcripts are left out but for being blank; a login the daemon did not *)
(* ask for (DictRelogin) is what Session does when the device signs it out. *)
EXTENDS Naturals, Sequences, Orders

CONSTANTS
    DictId,         \* request IDs the firmware mints, each in one login
    RecentLimit,    \* _RECENT_LIMIT
    MaxDictEvents,  \* bound: request and cancel events
    MaxDictFaults   \* bound: failed stages, new logins, lost links

ASSUME DictAssumption ==
    /\ "none" \notin DictId   \* no request; an ID has sixteen hexadecimal digits
    /\ RecentLimit \in Nat \ {0} /\ MaxDictEvents \in Nat /\ MaxDictFaults \in Nat

VARIABLES
    dictGen,        \* _generation
    dictLatest, dictActive,
    dictRecent,     \* _recent, oldest first
    dictForgot,     \* the IDs it gave up to its limit (history)
    dictQueue,      \* _queue, of size one
    dictWork,       \* what the worker awaits, and the request it handles
    dictHeld,       \* the busy leases taken: "presence", "power"
    dictPipe,       \* attach() was called
    dictCap,        \* _capability_supported
    dictWaiting,    \* publications waiting for _capability_lock
    dictPublisher,  \* the one that holds it
    dictBorn,       \* the generation an ID was first sent in, 0 before (history)
    dictOpen,       \* the request the device now waits for (history)
    dictSent,       \* terminal commands written (history)
    dictEvents, dictFaults

dictVars == <<dictGen, dictLatest, dictActive, dictRecent, dictForgot, dictQueue, dictWork,
              dictHeld, dictPipe, dictCap, dictWaiting, dictPublisher, dictBorn, dictOpen, dictSent,
              dictEvents, dictFaults>>
recentVars == <<dictRecent, dictForgot>>
idVars == <<dictGen, dictLatest, dictActive, recentVars, dictQueue, dictOpen>>
capVars == <<dictPipe, dictCap, dictWaiting, dictPublisher>>
workVars == <<dictWork, dictHeld, dictSent>>

NoDict == "none"
Request(id) == [id |-> id, gen |-> dictGen]
NoRequest == [id |-> NoDict, gen |-> 0]
DictIdle == [at |-> "idle", req |-> NoRequest]
NewDictEvent == dictEvents < MaxDictEvents /\ dictEvents' = dictEvents + 1 /\ UNCHANGED dictFaults
DictFault == dictFaults < MaxDictFaults /\ dictFaults' = dictFaults + 1 /\ UNCHANGED <<dictBorn, dictEvents>>
DictCalm == UNCHANGED <<dictBorn, dictEvents, dictFaults>>

\* _remember: the newest last, and no more than the limit.
Remembering(id) ==
    /\ dictRecent' = Remembered(dictRecent, id, RecentLimit)
    /\ dictForgot' = dictForgot \cup (ToSet(dictRecent) \ ToSet(dictRecent'))

---------------------------------------------------------------------------
(* submit_event.                                                           *)

\* A request the daemon has not seen replaces the one that waits; a duplicate
\* is ignored.  The firmware sends an ID in one login only.
DictRequest(id) ==
    /\ NewDictEvent
    /\ dictBorn[id] \in {0, dictGen} /\ dictBorn' = [dictBorn EXCEPT ![id] = dictGen]
    /\ UNCHANGED <<dictGen, dictActive, capVars, workVars>>
    /\ IF id \in {dictActive, dictLatest} \/ Contains(dictRecent, id)
         THEN UNCHANGED <<dictLatest, recentVars, dictQueue, dictOpen>>
         ELSE /\ dictLatest' = id /\ dictOpen' = id
              /\ dictQueue' = <<Request(id)>>
              /\ IF dictQueue = <<>> THEN UNCHANGED recentVars ELSE Remembering(dictQueue[1].id)

\* The queue without the request a cancel names.
Withdrawn(id) == IF dictQueue # <<>> /\ dictQueue[1].id = id THEN <<>> ELSE dictQueue

\* Mutant: a cancel only takes the request out of the queue.
DictCancelQueued(id) ==
    /\ NewDictEvent
    /\ dictQueue' = Withdrawn(id) /\ Remembering(id)
    /\ dictOpen' = IF dictOpen = id THEN NoDict ELSE dictOpen
    /\ UNCHANGED <<dictGen, dictLatest, dictActive, dictBorn, capVars, workVars>>

\* _cancel_request, also of an ID not seen yet.
DictCancel(id) ==
    /\ NewDictEvent
    /\ dictLatest' = IF dictLatest = id THEN NoDict ELSE dictLatest
    /\ dictQueue' = Withdrawn(id) /\ Remembering(id)
    /\ dictOpen' = IF dictOpen = id THEN NoDict ELSE dictOpen
    /\ UNCHANGED <<dictGen, dictActive, dictBorn, capVars, workVars>>

\* A malformed event is consumed and changes nothing.
DictMalformed ==
    NewDictEvent /\ UNCHANGED <<idVars, dictBorn, capVars, workVars>>

---------------------------------------------------------------------------
(* The capability of a login (_publish_capability).                        *)

\* attach(): the pipeline is up, and its publication follows.
DictAttach ==
    /\ ~dictPipe /\ dictPipe' = TRUE /\ dictWaiting' = dictWaiting \cup {"attach"}
    /\ UNCHANGED <<idVars, workVars, dictCap, dictPublisher>> /\ DictCalm

\* A publication that has nothing to declare, or finds it declared, is over;
\* the worker goes on to its queue either way.
Publishes(who) ==
    /\ who \in dictWaiting /\ dictPublisher = NoDict
    /\ dictWaiting' = dictWaiting \ {who}
    /\ IF ~dictPipe \/ dictCap # "unknown"
         THEN /\ UNCHANGED dictPublisher
              /\ dictWork' = IF who = "worker" THEN DictIdle ELSE dictWork
         ELSE dictPublisher' = who /\ UNCHANGED dictWork
    /\ UNCHANGED <<idVars, dictHeld, dictSent, dictPipe, dictCap>> /\ DictCalm

\* The firmware accepts the capability or, a fault, rejects it.
Published ==
    /\ dictPublisher # NoDict
    /\ dictPublisher' = NoDict
    /\ \/ dictCap' = "yes" /\ DictCalm
       \/ dictCap' = "no" /\ DictFault
    /\ dictWork' = IF dictPublisher = "worker" THEN DictIdle ELSE dictWork
    /\ UNCHANGED <<idVars, dictHeld, dictSent, dictPipe, dictWaiting>>

\* LinkClosed is logged by attach() and by the task of a login; the worker's
\* is a lost link (DictLinkLost).
PublishFails ==
    /\ dictPublisher \in {"attach", "login"} /\ DictFault
    /\ dictPublisher' = NoDict
    /\ UNCHANGED <<idVars, workVars, dictPipe, dictCap, dictWaiting>>

---------------------------------------------------------------------------
(* run() and _handle().                                                    *)

Current(req) == req.gen = dictGen /\ req.id = dictLatest

DictGoes(at) == dictWork' = [dictWork EXCEPT !.at = at]

\* What run() and _handle() do last, however the request ended.
Finishing ==
    LET id == dictWork.req.id IN
    /\ dictWork' = DictIdle /\ dictHeld' = {}
    /\ dictActive' = IF dictActive = id THEN NoDict ELSE dictActive
    /\ dictLatest' = IF dictLatest = id THEN NoDict ELSE dictLatest
    /\ Remembering(id)
    /\ UNCHANGED <<dictGen, dictQueue>>

\* _send_terminal up to its write, of a result or of a failure: nothing for a
\* request that is no longer current.
Terminal ==
    IF Current(dictWork.req) THEN DictGoes("send") /\ UNCHANGED <<idVars, dictHeld>>
    ELSE Finishing /\ UNCHANGED dictOpen

\* run() takes the request; one it may not serve it fails.
DictTake ==
    /\ dictWork.at = "idle" /\ dictQueue # <<>>
    /\ dictQueue' = <<>> /\ dictActive' = dictQueue[1].id
    /\ dictWork' = [at |-> IF dictPipe /\ dictCap = "yes" THEN "busy" ELSE "fail",
                    req |-> dictQueue[1]]
    /\ UNCHANGED <<dictGen, dictLatest, recentVars, dictOpen, dictHeld, dictSent, capVars>>
    /\ DictCalm

\* acquire_busy, then activity_started; both may raise.
DictLease ==
    /\ \/ dictWork.at = "busy" /\ DictGoes("power") /\ dictHeld' = {"presence"}
       \/ dictWork.at = "power" /\ DictGoes("fetch") /\ dictHeld' = {"presence", "power"}
    /\ UNCHANGED <<idVars, dictSent, capVars>> /\ DictCalm

\* Mutant: a failed stage ends the request without a word.
DictStageFailsSilently ==
    /\ dictWork.at \in {"busy", "power", "fetch", "stt"} /\ DictFault
    /\ Finishing
    /\ UNCHANGED <<dictOpen, dictSent, capVars>>

\* A lease, the fetch or the transcription raises: the failure is sent next.
DictStageFails ==
    /\ dictWork.at \in {"busy", "power", "fetch", "stt"} /\ DictFault
    /\ DictGoes("fail")
    /\ UNCHANGED <<idVars, dictHeld, dictSent, capVars>>

\* Nothing printable is left of the transcript.
DictBlank ==
    /\ dictWork.at = "stt" /\ DictFault
    /\ DictGoes("fail")
    /\ UNCHANGED <<idVars, dictHeld, dictSent, capVars>>

DictFailure ==
    /\ dictWork.at = "fail" /\ Terminal
    /\ UNCHANGED <<dictSent, capVars>> /\ DictCalm

\* The recording is here, or the guard stopped the fetch.
DictFetched ==
    /\ dictWork.at = "fetch"
    /\ IF Current(dictWork.req) THEN DictGoes("stt") /\ UNCHANGED <<idVars, dictHeld>>
       ELSE Finishing /\ UNCHANGED dictOpen
    /\ UNCHANGED <<dictSent, capVars>> /\ DictCalm

DictTranscribed ==
    /\ dictWork.at = "stt" /\ Terminal
    /\ UNCHANGED <<dictSent, capVars>> /\ DictCalm

\* Session holds its lock and asks the guard right before it writes.
DictWrite ==
    /\ dictWork.at = "send" /\ dictPublisher = NoDict
    /\ IF Current(dictWork.req)
         THEN /\ dictSent' = Append(dictSent, dictWork.req) /\ DictGoes("sent")
              /\ dictOpen' = IF dictOpen = dictWork.req.id THEN NoDict ELSE dictOpen
              /\ UNCHANGED <<dictGen, dictLatest, dictActive, recentVars, dictQueue, dictHeld>>
         ELSE Finishing /\ UNCHANGED <<dictOpen, dictSent>>
    /\ UNCHANGED capVars /\ DictCalm

\* Accepted or rejected, the request is over; no answer at all is a lost link.
DictAnswered ==
    /\ dictWork.at = "sent"
    /\ Finishing
    /\ UNCHANGED <<dictOpen, dictSent, capVars>> /\ DictCalm

---------------------------------------------------------------------------
(* Logins and lost links.                                                  *)

\* What the login listener and link_reset both clear.
Cleared ==
    /\ dictLatest' = NoDict /\ dictActive' = NoDict /\ dictRecent' = <<>>
    /\ dictQueue' = <<>> /\ dictOpen' = NoDict /\ dictCap' = "unknown"

\* _session_logged_in, between two commands or inside the publication.
DictRelogin ==
    /\ dictWork.at # "sent" /\ DictFault
    /\ Cleared /\ dictGen' = dictGen + 1
    /\ dictWaiting' = IF dictPipe THEN dictWaiting \cup {"login"} ELSE dictWaiting
    /\ UNCHANGED <<dictForgot, dictPipe, dictPublisher, workVars>>

\* The link is lost: the worker is cancelled, link_reset runs, and the worker
\* of the next login publishes first.
DictLinkLost ==
    /\ DictFault
    /\ Cleared /\ dictGen' = dictGen + 2
    /\ dictWork' = [at |-> "publish", req |-> NoRequest] /\ dictHeld' = {}
    /\ dictWaiting' = (dictWaiting \cap {"attach"}) \cup {"worker"}
                      \cup (IF dictPipe THEN {"login"} ELSE {})
    /\ dictPublisher' = NoDict
    /\ UNCHANGED <<dictForgot, dictPipe, dictSent>>

---------------------------------------------------------------------------
DictInit ==
    /\ dictGen = 1 /\ dictLatest = NoDict /\ dictActive = NoDict /\ dictRecent = <<>>
    /\ dictForgot = {}
    /\ dictQueue = <<>> /\ dictWork = [at |-> "publish", req |-> NoRequest] /\ dictHeld = {}
    /\ dictPipe = FALSE /\ dictCap = "unknown" /\ dictWaiting = {"worker"}
    /\ dictPublisher = NoDict /\ dictBorn = [id \in DictId |-> 0] /\ dictOpen = NoDict
    /\ dictSent = <<>> /\ dictEvents = 0 /\ dictFaults = 0

DictWorker ==
    \/ DictTake \/ DictLease \/ DictStageFails \/ DictFailure \/ DictFetched
    \/ DictBlank \/ DictTranscribed \/ DictWrite \/ DictAnswered
Publications == {"worker", "attach", "login"}
DictPublishing == (\E who \in Publications : Publishes(who)) \/ Published \/ PublishFails

DictNext ==
    \/ \E id \in DictId : DictRequest(id) \/ DictCancel(id)
    \/ DictMalformed \/ DictAttach \/ DictPublishing \/ DictWorker \/ DictRelogin \/ DictLinkLost

DictSpec == DictInit /\ [][DictNext]_dictVars

---------------------------------------------------------------------------
(* Properties.                                                             *)

\* The type of the state; leases are held only while a request is handled.
DictTypeOK ==
    LET ids == DictId \cup {NoDict}
        reqs == [id : ids, gen : Nat] IN
    /\ dictGen \in Nat \ {0} /\ dictLatest \in ids /\ dictActive \in ids /\ dictOpen \in ids
    /\ dictBorn \in [DictId -> Nat]
    /\ dictRecent \in Seq(DictId) /\ Len(dictRecent) <= RecentLimit /\ dictForgot \subseteq DictId
    /\ dictQueue \in Seq(reqs) /\ Len(dictQueue) <= 1 /\ dictSent \in Seq(reqs)
    /\ dictWork \in [at : {"publish", "idle", "busy", "power", "fetch", "stt", "fail", "send",
                           "sent"}, req : reqs]
    /\ dictHeld \subseteq {"presence", "power"}
    /\ dictHeld # {} => dictWork.at \notin {"publish", "idle"}
    /\ dictPipe \in BOOLEAN /\ dictCap \in {"unknown", "yes", "no"}
    /\ dictWaiting \subseteq Publications /\ dictPublisher \in Publications \cup {NoDict}
    /\ dictEvents \in 0..MaxDictEvents /\ dictFaults \in 0..MaxDictFaults

\* A terminal command is written only for the request the device waits for at
\* that moment: none for one cancelled, superseded or of an older login, at
\* whichever of the awaits that happened (_current, cancel_guard).
DictFenced ==
    [][dictSent' # dictSent => Last(dictSent').id = dictOpen /\ Last(dictSent').gen = dictGen]_dictVars

\* A request gets one terminal command, whatever is duplicated, cancelled or
\* lost, as long as _recent did not have to give its ID up (submit_event's three
\* checks, _send_terminal).
DictOneTerminal ==
    \A m, n \in DOMAIN dictSent :
        dictSent[m].id = dictSent[n].id /\ m # n => dictSent[m].id \in dictForgot

\* Audio of a request still current is fetched and transcribed only in a login
\* whose capability the firmware accepted (attach, _session_logged_in).
DictDeclared ==
    dictWork.at \in {"busy", "power", "fetch", "stt"} /\ Current(dictWork.req) => dictCap = "yes"

\* The request the device waits for is answered, unless it is withdrawn or its
\* login ends.
DictServed == \A id \in DictId : dictOpen = id ~> dictOpen # id

\* A request gets one terminal command, in its own login, while it is waited for,
\* and its audio is touched in none that did not declare the service.
DictKept == DictFenced /\ []DictOneTerminal /\ []DictDeclared
=============================================================================
