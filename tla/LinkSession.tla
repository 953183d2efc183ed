----------------------------- MODULE LinkSession -----------------------------
(* The authenticated command channel of link/session.py over the serial     *)
(* transport: one command at a time under a fair lock, replies told apart   *)
(* only by their order, re-login and replay, cancel guards, and the device's *)
(* events routed from whichever loop happens to read them.                  *)
(*                                                                          *)
(* A line carries the number of its call as history; Session cannot see it. *)
(* Quiet periods, JSON and multi-line replies are left out: every call here *)
(* expects one status line.                                                 *)
EXTENDS Naturals, Sequences, SequencesExt

CONSTANTS
    Plain,          \* callers that leave replay and auth_replay on
    Single,         \* callers with replay off (micrecord start)
    Bound,          \* callers with replay and auth_replay off (fan callbacks)
    Streams,        \* callers of command_with_frames
    MaxLinkCalls,   \* bound: calls
    MaxLinkPushes,  \* bound: events the device pushes
    MaxLinkFaults   \* bound: lost, late or refused lines, garbage, sign-outs, lost links

ASSUME LinkAssumption ==
    /\ MaxLinkCalls \in Nat /\ MaxLinkPushes \in Nat /\ MaxLinkFaults \in Nat
    /\ Plain \cap Single = {} /\ (Plain \cup Single) \cap Bound = {}
    /\ (Plain \cup Single \cup Bound) \cap Streams = {}
    /\ {"supervisor", "nobody"} \cap (Plain \cup Single \cup Bound \cup Streams) = {}

VARIABLES
    lkRx,           \* rx: what the reader thread queued
    lkAir,          \* lines written and not yet handled by the device
    lkAuth,         \* the device has this UART logged in
    lkOwner, lkWaiting, \* _lock and its queue
    lkCall,         \* what each caller awaits
    lkPushed,       \* events pushed since the port was opened (history)
    lkRouted,       \* those given to on_event (history)
    lkDismissed,    \* callers whose guard was flipped by an event
    lkReboot,       \* _reboot_suspected: "no", "new" (not yet acted on), "seen"
    lkDown,         \* a task raised LinkClosed and the group falls
    lkRan,          \* times the device executed each call (history)
    lkStale,        \* a wait was given up with an answer still to come (history)
    lkCalls,        \* who made each call, in order (history)
    lkFaults

linkVars == <<lkRx, lkAir, lkAuth, lkOwner, lkWaiting, lkCall, lkPushed, lkRouted, lkDismissed,
              lkReboot, lkDown, lkRan, lkStale, lkCalls, lkFaults>>
deviceVars == <<lkAir, lkAuth, lkRan>>

Supervisor == "supervisor"    \* the login of a reopened link
LinkCallers == Plain \cup Single \cup Bound \cup Streams \cup {Supervisor}
Nobody == "nobody"

LinkIdle == [at |-> "idle", n |-> 0, stage |-> 0, tries |-> 0]
LinkFault == lkFaults < MaxLinkFaults /\ lkFaults' = lkFaults + 1 /\ UNCHANGED lkCalls
LinkCalm == UNCHANGED <<lkCalls, lkFaults>>

\* What rx holds: a reply of the device, an event, garbage, or the end.
LinkEvent(kind, n) == [kind |-> kind, n |-> n]
Pushes == {"push", "dismiss"}
IsPush(e) == e.kind \in Pushes
Number(e) == IF IsPush(e) THEN <<e.n>> ELSE <<>>
Numbers(events) == FlattenSeq([i \in DOMAIN events |-> Number(events[i])])

---------------------------------------------------------------------------
(* The device and the wire (external).                                     *)

\* The firmware handles the oldest line: a command runs only when the UART is
\* logged in, and a login logs it in.
LinkDevice ==
    /\ lkAir # <<>> /\ lkAir' = Tail(lkAir)
    /\ LET line == Head(lkAir) IN
       \/ /\ line.kind = "login" /\ lkAuth' = TRUE /\ UNCHANGED lkRan
          /\ lkRx' = Append(lkRx, LinkEvent("login", line.n))
       \/ /\ line.kind = "command" /\ lkAuth /\ UNCHANGED lkAuth
          /\ lkRan' = [lkRan EXCEPT ![line.n] = @ + 1]
          /\ lkRx' = Append(lkRx, LinkEvent("status", line.n))
       \/ /\ line.kind = "command" /\ ~lkAuth /\ UNCHANGED <<lkAuth, lkRan>>
          /\ lkRx' = Append(lkRx, LinkEvent("nag", line.n))
    /\ UNCHANGED <<lkOwner, lkWaiting, lkCall, lkPushed, lkRouted, lkDismissed, lkReboot,
                   lkDown, lkStale>> /\ LinkCalm

\* A login may be answered by a lockout, or refused for good.
LinkRefuse ==
    /\ lkAir # <<>> /\ Head(lkAir).kind = "login" /\ lkAir' = Tail(lkAir) /\ LinkFault
    /\ \E kind \in {"locked", "refused"} : lkRx' = Append(lkRx, LinkEvent(kind, Head(lkAir).n))
    /\ UNCHANGED <<lkAuth, lkRan, lkOwner, lkWaiting, lkCall, lkPushed, lkRouted, lkDismissed,
                   lkReboot, lkDown, lkStale>>

\* A line is lost on its way, or its reply is, though the device ran it.
LinkLose ==
    /\ lkAir # <<>> /\ lkAir' = Tail(lkAir) /\ LinkFault
    /\ \/ UNCHANGED lkRan
       \/ /\ Head(lkAir).kind = "command" /\ lkAuth
          /\ lkRan' = [lkRan EXCEPT ![Head(lkAir).n] = @ + 1]
    /\ UNCHANGED <<lkRx, lkAuth, lkOwner, lkWaiting, lkCall, lkPushed, lkRouted, lkDismissed,
                   lkReboot, lkDown, lkStale>>

\* An event; one kind dismisses the work of a caller.
LinkPush ==
    /\ lkPushed < MaxLinkPushes /\ lkPushed' = lkPushed + 1
    /\ \E kind \in Pushes : lkRx' = Append(lkRx, LinkEvent(kind, lkPushed + 1))
    /\ UNCHANGED <<deviceVars, lkOwner, lkWaiting, lkCall, lkRouted, lkDismissed, lkReboot,
                   lkDown, lkStale>> /\ LinkCalm

\* The device signs the UART out, or restarts with a burst of garbage.
LinkSignOut ==
    /\ LinkFault /\ lkAuth' = FALSE
    /\ \/ UNCHANGED lkRx
       \/ lkRx' = Append(lkRx, LinkEvent("garbage", 0))
    /\ UNCHANGED <<lkAir, lkRan, lkOwner, lkWaiting, lkCall, lkPushed, lkRouted, lkDismissed,
                   lkReboot, lkDown, lkStale>>

\* The port dies; the reader's last event says so.
LinkDies ==
    /\ LinkFault /\ lkRx' = Append(lkRx, LinkEvent("closed", 0))
    /\ UNCHANGED <<deviceVars, lkOwner, lkWaiting, lkCall, lkPushed, lkRouted, lkDismissed,
                   lkReboot, lkDown, lkStale>>

---------------------------------------------------------------------------
(* Reading rx.                                                             *)

\* _route_frame and _mark_reboot_suspected: what the first k events of rx do
\* to everything but the call that reads them.
Consumed(k) ==
    LET seen == SubSeq(lkRx, 1, k) IN
    /\ lkRx' = SubSeq(lkRx, k + 1, Len(lkRx))
    /\ lkRouted' = lkRouted \o Numbers(seen)
    /\ lkDismissed' = IF \E i \in 1..k : seen[i].kind = "dismiss"
                      THEN LinkCallers \ {Supervisor} ELSE lkDismissed
    /\ lkReboot' = IF lkReboot = "no" /\ \E i \in 1..k : seen[i].kind = "garbage"
                   THEN "new" ELSE lkReboot

\* _drain_stale: all of rx, or up to the reader's last event.
Ends == {i \in DOMAIN lkRx : lkRx[i].kind = "closed"}
Ended == Ends # {}

Drained ==
    \E k \in IF Ended THEN Ends ELSE {Len(lkRx)} : (\A i \in Ends : k <= i) /\ Consumed(k)

\* LinkClosed: the group falls at once.
Falls ==
    /\ lkDown' = TRUE /\ lkOwner' = Nobody /\ lkWaiting' = <<>>
    /\ lkCall' = [c \in LinkCallers |-> LinkIdle]

\* A caller leaves command(), and the lock goes to the next.
Leaves(c) == lkOwner' = Nobody /\ lkCall' = [lkCall EXCEPT ![c] = LinkIdle]

LinkGoes(c, at) == lkCall' = [lkCall EXCEPT ![c].at = at]

Guarded(c) == c \in lkDismissed'

Line(kind, n) == lkAir' = Append(lkAir, [kind |-> kind, n |-> n])

---------------------------------------------------------------------------
(* command() and command_with_frames().                                    *)

\* A caller queues for the lock; a cancellation of earlier work is not its.
LinkAsk(c) ==
    /\ ~lkDown /\ c # Supervisor /\ lkCall[c] = LinkIdle
    /\ Len(lkCalls) < MaxLinkCalls /\ lkCalls' = Append(lkCalls, c)
    /\ lkCall' = [lkCall EXCEPT ![c] = [LinkIdle EXCEPT !.at = "lock", !.n = Len(lkCalls) + 1]]
    /\ lkWaiting' = Append(lkWaiting, c)
    /\ lkDismissed' = lkDismissed \ {c}
    /\ UNCHANGED <<lkRx, deviceVars, lkOwner, lkPushed, lkRouted, lkReboot, lkDown, lkStale, lkFaults>>

\* asyncio.Lock serves in order.
LinkLock ==
    /\ ~lkDown /\ lkOwner = Nobody /\ lkWaiting # <<>>
    /\ lkOwner' = Head(lkWaiting) /\ lkWaiting' = Tail(lkWaiting)
    /\ lkCall' = [lkCall EXCEPT ![Head(lkWaiting)].at =
                    IF Head(lkWaiting) = Supervisor THEN "login" ELSE "write",
                  ![Head(lkWaiting)].stage = 1]
    /\ UNCHANGED <<lkRx, deviceVars, lkPushed, lkRouted, lkDismissed, lkReboot, lkDown,
                   lkStale>> /\ LinkCalm

\* Mutant: the guard is asked before the stale events are drained.
LinkWriteEarlyGuard(c) ==
    /\ lkCall[c].at = "write"
    /\ Drained
    /\ IF Ended THEN Falls /\ UNCHANGED lkAir
       ELSE IF c \in lkDismissed THEN Leaves(c) /\ UNCHANGED <<lkAir, lkWaiting, lkDown>>
       ELSE /\ Line("command", lkCall[c].n) /\ LinkGoes(c, "reply")
            /\ UNCHANGED <<lkOwner, lkWaiting, lkDown>>
    /\ UNCHANGED <<lkAuth, lkRan, lkPushed, lkStale>> /\ LinkCalm

\* _drain_stale, the guard, then the line.
LinkWrite(c) ==
    /\ lkCall[c].at = "write"
    /\ Drained
    /\ IF Ended THEN Falls /\ UNCHANGED lkAir
       ELSE IF Guarded(c) THEN Leaves(c) /\ UNCHANGED <<lkAir, lkWaiting, lkDown>>
       ELSE /\ Line("command", lkCall[c].n) /\ LinkGoes(c, "reply")
            /\ UNCHANGED <<lkOwner, lkWaiting, lkDown>>
    /\ UNCHANGED <<lkAuth, lkRan, lkPushed, lkStale>> /\ LinkCalm

\* The port refuses a line: LinkClosed, whoever wrote it.
LinkWriteFails(c) ==
    /\ lkCall[c].at \in {"write", "login"} /\ LinkFault
    /\ Drained /\ ~Ended /\ ~Guarded(c)
    /\ Falls
    /\ UNCHANGED <<deviceVars, lkPushed, lkStale>>

\* A login drained in between two writes; stage 2 and 4 follow a nag, stage 3
\* a timeout.
LogsInFor(c, stage) ==
    lkCall' = [lkCall EXCEPT ![c].at = "login", ![c].stage = stage, ![c].tries = 0]

Replays(c) == c \in Plain
ReplaysAuth(c) == c \in Plain \cup Single

\* _collect of a status reply: any OK or error line ends it, a login's too (a
\* lockout's may be neither, Passing).
LinkReply(c) ==
    /\ lkCall[c].at = "reply"
    /\ lkRx # <<>> /\ lkRx[1].kind \in {"status", "login", "locked", "refused"} /\ Consumed(1)
    /\ Leaves(c)
    /\ UNCHANGED <<deviceVars, lkWaiting, lkPushed, lkDown, lkStale>> /\ LinkCalm

\* An answer that the command did not run for want of a login: it is written
\* again after one, once; a bound command is not, and takes the link down.
LinkNag(c) ==
    /\ lkCall[c].at = "reply"
    /\ lkRx # <<>> /\ lkRx[1].kind = "nag" /\ lkRx' = Tail(lkRx)
    /\ lkReboot' = IF lkReboot = "no" /\ c \notin Streams /\ lkCall[c].stage \in {1, 3}
                   THEN "new" ELSE lkReboot
    /\ IF c \in Streams \/ lkCall[c].stage \in {2, 4}
         THEN Leaves(c) /\ UNCHANGED <<lkWaiting, lkDown>>
         ELSE IF ~ReplaysAuth(c) THEN Falls
         ELSE IF c \in lkDismissed THEN Leaves(c) /\ UNCHANGED <<lkWaiting, lkDown>>
         ELSE LogsInFor(c, lkCall[c].stage + 1) /\ UNCHANGED <<lkOwner, lkWaiting, lkDown>>
    /\ UNCHANGED <<deviceVars, lkPushed, lkRouted, lkDismissed, lkStale>> /\ LinkCalm

\* What a collector reads past: every event, and during a login all lines of
\* other commands.
Passing(c) ==
    \/ lkRx[1].kind \in {"push", "dismiss", "garbage"}
    \/ lkCall[c].at = "reply" /\ lkRx[1].kind = "locked"
    \/ lkCall[c].at = "greeting" /\ lkRx[1].kind \in {"status", "nag"}

\* The collector reads on; a dismissed stream drains to its status line too.
LinkRead(c) ==
    /\ lkCall[c].at \in {"reply", "greeting"} /\ lkRx # <<>> /\ Passing(c)
    /\ Consumed(1)
    /\ UNCHANGED <<deviceVars, lkOwner, lkWaiting, lkCall, lkPushed, lkDown, lkStale>> /\ LinkCalm

\* Mutant: a timeout is replayed whatever the caller asked for.
LinkTimeoutReplays(c) ==
    /\ lkCall[c].at = "reply" /\ lkRx = <<>>
    /\ IF lkAir = <<>> THEN LinkCalm ELSE LinkFault
    /\ lkStale' = (lkStale \/ lkAir # <<>>)
    /\ IF lkCall[c].stage <= 2 /\ c \notin lkDismissed
         THEN LogsInFor(c, 3) /\ UNCHANGED lkOwner
         ELSE Leaves(c)
    /\ UNCHANGED <<lkRx, deviceVars, lkWaiting, lkPushed, lkRouted, lkDismissed, lkReboot,
                   lkDown>>

\* CommandTimeout: no answer, or (a fault) one that is late.
LinkTimeout(c) ==
    /\ lkCall[c].at = "reply" /\ lkRx = <<>>
    /\ IF lkAir = <<>> THEN LinkCalm ELSE LinkFault
    /\ lkStale' = (lkStale \/ lkAir # <<>>)
    /\ IF Replays(c) /\ lkCall[c].stage <= 2 /\ c \notin lkDismissed
         THEN LogsInFor(c, 3) /\ UNCHANGED lkOwner
         ELSE Leaves(c)
    /\ UNCHANGED <<lkRx, deviceVars, lkWaiting, lkPushed, lkRouted, lkDismissed, lkReboot,
                   lkDown>>

---------------------------------------------------------------------------
(* _login_locked.                                                          *)

LinkLogin(c) ==
    /\ lkCall[c].at = "login"
    /\ Drained
    /\ IF Ended THEN Falls /\ UNCHANGED lkAir
       ELSE IF Guarded(c) THEN Leaves(c) /\ UNCHANGED <<lkAir, lkWaiting, lkDown>>
       ELSE /\ Line("login", lkCall[c].n)
            /\ lkCall' = [lkCall EXCEPT ![c].at = "greeting",
                                       ![c].tries = IF @ < 3 THEN @ + 1 ELSE 3]
            /\ UNCHANGED <<lkOwner, lkWaiting, lkDown>>
    /\ UNCHANGED <<lkAuth, lkRan, lkPushed, lkStale>> /\ LinkCalm

\* _collect_login: only a line shaped like a login's ends it; the command is
\* written next, or the supervisor goes on.
LinkGreeted(c) ==
    /\ lkCall[c].at = "greeting"
    /\ lkRx # <<>> /\ lkRx[1].kind = "login" /\ Consumed(1)
    /\ IF c = Supervisor \/ Guarded(c) THEN Leaves(c)
       ELSE LinkGoes(c, "write") /\ UNCHANGED lkOwner
    /\ UNCHANGED <<deviceVars, lkWaiting, lkPushed, lkDown, lkStale>> /\ LinkCalm

\* A lockout: slept through with the lock held and tried again, however often;
\* it counts as an attempt.
LinkLockedOut(c) ==
    /\ lkCall[c].at = "greeting"
    /\ lkRx # <<>> /\ lkRx[1].kind = "locked" /\ Consumed(1)
    /\ IF Guarded(c) THEN Leaves(c) ELSE LinkGoes(c, "login") /\ UNCHANGED lkOwner
    /\ UNCHANGED <<deviceVars, lkWaiting, lkPushed, lkDown, lkStale>> /\ LinkCalm

\* Credentials refused are a LoginFailed at once: the caller's own affair, a
\* lost link for the supervisor.
LinkRefused(c) ==
    /\ lkCall[c].at = "greeting"
    /\ lkRx # <<>> /\ lkRx[1].kind = "refused" /\ Consumed(1)
    /\ IF c = Supervisor THEN Falls ELSE Leaves(c) /\ UNCHANGED <<lkWaiting, lkDown>>
    /\ UNCHANGED <<deviceVars, lkPushed, lkStale>> /\ LinkCalm

\* So are three attempts, the last of them without an answer.
LinkNoGreeting(c) ==
    /\ lkCall[c].at = "greeting" /\ lkRx = <<>>
    /\ IF lkAir = <<>> THEN LinkCalm ELSE LinkFault
    /\ lkStale' = (lkStale \/ lkAir # <<>>)
    /\ IF lkCall[c].tries < 3 /\ c \notin lkDismissed
         THEN LinkGoes(c, "login") /\ UNCHANGED <<lkOwner, lkWaiting, lkDown>>
         ELSE IF c = Supervisor THEN Falls
         ELSE Leaves(c) /\ UNCHANGED <<lkWaiting, lkDown>>
    /\ UNCHANGED <<lkRx, deviceVars, lkPushed, lkRouted, lkDismissed, lkReboot>>

---------------------------------------------------------------------------
(* The other tasks of the daemon.                                          *)

\* A collector reads the reader's last event.
LinkClosedRead(c) ==
    /\ lkCall[c].at \in {"reply", "greeting"}
    /\ lkRx # <<>> /\ lkRx[1].kind = "closed"
    /\ lkRx' = Tail(lkRx) /\ Falls
    /\ UNCHANGED <<deviceVars, lkPushed, lkRouted, lkDismissed, lkReboot, lkStale>>
    /\ LinkCalm

\* pump_events takes one event while nobody has the lock or waits for it.
LinkPump ==
    /\ ~lkDown /\ lkOwner = Nobody /\ lkWaiting = <<>> /\ lkRx # <<>>
    /\ IF lkRx[1].kind = "closed"
         THEN /\ lkRx' = Tail(lkRx) /\ Falls
              /\ UNCHANGED <<lkRouted, lkDismissed, lkReboot>>
         ELSE Consumed(1) /\ UNCHANGED <<lkDown, lkOwner, lkWaiting, lkCall>>
    /\ UNCHANGED <<deviceVars, lkPushed, lkStale>> /\ LinkCalm

\* _fail_link_on_new_reboot; later the pipeline clears the hint.
LinkRebootSeen ==
    /\ ~lkDown /\ lkReboot = "new" /\ lkReboot' = "seen" /\ Falls
    /\ UNCHANGED <<lkRx, deviceVars, lkPushed, lkRouted, lkDismissed, lkStale>>
    /\ LinkCalm
LinkHintCleared ==
    /\ ~lkDown /\ lkReboot = "seen" /\ lkReboot' = "no"
    /\ UNCHANGED <<lkRx, deviceVars, lkOwner, lkWaiting, lkCall, lkPushed, lkRouted,
                   lkDismissed, lkDown, lkStale>> /\ LinkCalm

\* The supervisor closes and reopens the port, whose queue is fresh, and logs
\* in; what the device still answers comes into the new queue.
LinkReopen ==
    /\ lkDown /\ lkDown' = FALSE
    /\ lkRx' = <<>> /\ lkPushed' = 0 /\ lkRouted' = <<>>
    /\ lkCall' = [lkCall EXCEPT ![Supervisor] = [LinkIdle EXCEPT !.at = "lock"]]
    /\ lkWaiting' = <<Supervisor>>
    /\ lkStale' = (lkStale \/ lkAir # <<>>)
    /\ UNCHANGED <<deviceVars, lkOwner, lkDismissed, lkReboot>> /\ LinkCalm

---------------------------------------------------------------------------
LinkInit ==
    /\ lkRx = <<>> /\ lkAir = <<>> /\ lkAuth = TRUE
    /\ lkOwner = Nobody /\ lkWaiting = <<>> /\ lkCall = [c \in LinkCallers |-> LinkIdle]
    /\ lkPushed = 0 /\ lkRouted = <<>> /\ lkDismissed = {} /\ lkReboot = "no"
    /\ lkDown = FALSE /\ lkRan = [n \in 1..MaxLinkCalls |-> 0]
    /\ lkStale = FALSE /\ lkCalls = <<>> /\ lkFaults = 0

LinkStep(c) ==
    \/ LinkWrite(c) \/ LinkReply(c) \/ LinkNag(c) \/ LinkRead(c) \/ LinkTimeout(c)
    \/ LinkLogin(c) \/ LinkGreeted(c) \/ LinkNoGreeting(c) \/ LinkClosedRead(c)
    \/ LinkWriteFails(c) \/ LinkLockedOut(c) \/ LinkRefused(c)

LinkNext ==
    \/ LinkDevice \/ LinkRefuse \/ LinkLose \/ LinkPush \/ LinkSignOut \/ LinkDies
    \/ LinkLock \/ LinkPump \/ LinkRebootSeen \/ LinkHintCleared \/ LinkReopen
    \/ \E c \in LinkCallers : LinkAsk(c) \/ LinkStep(c)

LinkSpec == LinkInit /\ [][LinkNext]_linkVars

---------------------------------------------------------------------------
(* Properties.                                                             *)

\* The type of the state; whoever awaits a line holds the lock.
LinkTypeOK ==
    /\ lkRx \in Seq([kind : {"login", "locked", "refused", "status", "nag", "push", "dismiss",
                              "garbage", "closed"}, n : Nat])
    /\ lkAir \in Seq([kind : {"login", "command"}, n : 0..MaxLinkCalls])
    /\ lkAuth \in BOOLEAN /\ lkDown \in BOOLEAN /\ lkStale \in BOOLEAN
    /\ lkOwner \in LinkCallers \cup {Nobody} /\ lkWaiting \in Seq(LinkCallers)
    /\ lkCall \in [LinkCallers -> [at : {"idle", "lock", "write", "reply", "login", "greeting"},
                                   n : 0..MaxLinkCalls, stage : 0..4, tries : 0..3]]
    /\ \A c \in LinkCallers : lkCall[c].at \notin {"idle", "lock"} <=> lkOwner = c
    /\ lkPushed \in 0..MaxLinkPushes /\ lkRouted \in Seq(Nat) /\ lkDismissed \subseteq LinkCallers
    /\ lkReboot \in {"no", "new", "seen"} /\ lkRan \in [1..MaxLinkCalls -> Nat]
    /\ lkCalls \in Seq(LinkCallers) /\ lkFaults \in 0..MaxLinkFaults

\* No event is lost, doubled or reordered, whichever loop reads it: those
\* routed and those still queued are all the device pushed on this port.
LinkEventsRouted ==
    ~lkDown => lkRouted \o Numbers(lkRx) = [i \in 1..lkPushed |-> i]

\* A call whose dismissal has been routed writes nothing more, neither its
\* line nor a login on its behalf (cancel_guard at every boundary).
LinkDismissedQuiet ==
    [][\A c \in LinkCallers :
         lkOwner = c /\ Len(lkAir') > Len(lkAir) => c \notin lkDismissed']_linkVars

\* A command that must not be repeated runs at most once, across timeouts,
\* nags, logins and lost links (replay=False, auth_replay=False).  One that is
\* written again after a nag does as long as no answer is late: the nag for an
\* earlier line may be taken for its own (_command_once).
LinkRunsOnce ==
    \A n \in DOMAIN lkCalls :
        lkCalls[n] \in Bound \cup Streams \cup (IF lkStale THEN {} ELSE Single)
            => lkRan[n] <= 1

\* The line that ends a call answers it, until a wait is given up with an
\* answer still to come; and while nothing went wrong no call ends without
\* one: neither the pump nor a dismissal nor a login takes it.
LinkOwnReply ==
    [][\A c \in LinkCallers :
         lkCall[c].at = "reply" /\ lkCall'[c].at # "reply" /\ ~lkDown' =>
           /\ lkRx # <<>> /\ ~lkStale => Head(lkRx).n = lkCall[c].n
           /\ lkFaults' = 0 => lkRx # <<>>]_linkVars

\* Every call returns: a lock that is fair and waits that are bounded, lockouts
\* slept through with the lock held, refused logins and dead ports included.
LinkReturns ==
    \A c \in LinkCallers : lkCall[c].at = "lock" ~> lkCall[c].at = "idle"

\* A call ends with its own reply, a dismissed one writes nothing more, and no
\* event is taken for a reply or lost with one (_command_once, _note_stray).
LinkCallsOwn == LinkOwnReply /\ LinkDismissedQuiet /\ []LinkEventsRouted
=============================================================================
