----------------------------- MODULE LinkProofs -----------------------------
(* What the link to the device guarantees for every value of its constants:   *)
(* the commands of the session (LinkSession), the openings of the port (Wire) *)
(* and the clock that rests on both (Upkeep).                                *)
EXTENDS LinkSession, Wire, Upkeep, OrderProofs

-----------------------------------------------------------------------------
(* LinkSession: what must not be repeated runs once.                         *)

Events ==
    [kind : {"login", "command", "locked", "refused", "status", "nag", "push", "dismiss",
             "garbage", "closed"}, n : Nat]
Calls ==
    [at : {"idle", "lock", "write", "reply", "login", "greeting"}, n : Nat, stage : Nat, tries : Nat]

LkTypes ==
    /\ lkRx \in Seq(Events) /\ lkAir \in Seq(Events) /\ lkPushed \in Nat
    /\ lkOwner \in LinkCallers \cup {Nobody} /\ lkWaiting \in Seq(LinkCallers)
    /\ lkCall \in [LinkCallers -> Calls] /\ lkCalls \in Seq(LinkCallers)
    /\ Len(lkCalls) <= MaxLinkCalls /\ lkRan \in [1..MaxLinkCalls -> Nat]

Active(c) == lkCall[c].at \notin {"idle", "lock"}
CommandOf(n) == [kind |-> "command", n |-> n]
IsReply(e) == e.kind \in {"status", "nag", "login", "locked", "refused"}

\* Who awaits a line holds the lock; who waits for it waits once.
LockInv ==
    /\ \A c \in LinkCallers : Active(c) => lkOwner = c
    /\ \A i \in DOMAIN lkWaiting : lkCall[lkWaiting[i]].at = "lock"
    /\ \A i, j \in DOMAIN lkWaiting : lkWaiting[i] = lkWaiting[j] => i = j
    /\ lkDown => lkWaiting = <<>> /\ \A c \in LinkCallers : lkCall[c].at = "idle"

\* A call under way is the last its caller made, and goes where such calls go.
CallInv(c) ==
    /\ c # Supervisor /\ lkCall[c].at # "idle" =>
          lkCall[c].n \in DOMAIN lkCalls /\ lkCalls[lkCall[c].n] = c
    /\ c = Supervisor => lkCall[c].at \notin {"write", "reply"}
    /\ c \in Bound \cup Streams => lkCall[c].at \notin {"login", "greeting"}

\* What was not asked for was neither written nor run.
AskedInv ==
    /\ \A i \in DOMAIN lkAir : lkAir[i].kind = "command" => lkAir[i].n \in DOMAIN lkCalls
    /\ \A n \in 1..MaxLinkCalls : n \notin DOMAIN lkCalls => lkRan[n] = 0

Once == Bound \cup Streams \cup (IF lkStale THEN {} ELSE Single)

\* Not on the wire and not run: what a call is until it is written.
Fresh(n) == lkRan[n] = 0 /\ \A i \in DOMAIN lkAir : lkAir[i] # CommandOf(n)

\* A line that must not be repeated is on the wire, or was run, or neither.
OnceInv(n) ==
    lkCalls[n] \in Once =>
      /\ lkRan[n] <= 1
      /\ \A i, j \in DOMAIN lkAir : lkAir[i] = CommandOf(n) /\ lkAir[j] = CommandOf(n) => i = j
      /\ \A i \in DOMAIN lkAir : lkAir[i] = CommandOf(n) => lkRan[n] = 0
      /\ lkCall[lkCalls[n]].n = n /\ lkCall[lkCalls[n]].at \in {"lock", "write", "login", "greeting"}
            => Fresh(n)

\* The lock's owner awaits the answer to call n.
Awaits(n) ==
    lkOwner # Nobody /\ lkCall[lkOwner].at \in {"reply", "greeting"} /\ lkCall[lkOwner].n = n

\* While no wait was given up too early, one line or its reply is under way at
\* the most, the owner awaits it, and a nag says that its command did not run.
QuietInv ==
    ~lkStale =>
      /\ Len(lkAir) <= 1
      /\ \A i, j \in DOMAIN lkRx : IsReply(lkRx[i]) /\ IsReply(lkRx[j]) => i = j
      /\ lkAir # <<>> => \A i \in DOMAIN lkRx : ~IsReply(lkRx[i])
      /\ ~lkDown => /\ \A i \in DOMAIN lkAir : Awaits(lkAir[i].n)
                    /\ \A i \in DOMAIN lkRx : IsReply(lkRx[i]) => Awaits(lkRx[i].n)
      /\ \A i \in DOMAIN lkRx : lkRx[i].kind = "nag" =>
            lkRx[i].n \in DOMAIN lkCalls /\ (lkCalls[lkRx[i].n] \in Single => lkRan[lkRx[i].n] = 0)

LkInv ==
    /\ LkTypes /\ LockInv /\ AskedInv /\ QuietInv
    /\ \A c \in LinkCallers : CallInv(c)
    /\ \A n \in DOMAIN lkCalls : OnceInv(n)

-----------------------------------------------------------------------------
\* What is left in rx, and not moved on in, was there before.
Shorter ==
    /\ lkRx' \in Seq(Events)
    /\ \E k \in Nat : \A i \in DOMAIN lkRx' : i + k \in DOMAIN lkRx /\ lkRx'[i] = lkRx[i + k]

\* No line and no reply is under way.
Nothing == lkAir = <<>> /\ \A i \in DOMAIN lkRx : ~IsReply(lkRx[i])

\* Nobody is a caller, and the supervisor asks for nothing.
LEMMA CallersAre ==
    /\ Nobody \notin LinkCallers /\ Supervisor \in LinkCallers
    /\ Supervisor \notin Bound \cup Streams \cup Single \cup Plain
    /\ Bound \cup Streams \cup Single \cup Plain \subseteq LinkCallers
    /\ Plain \cap (Bound \cup Streams \cup Single) = {}
    /\ Single \cap (Bound \cup Streams) = {}
  BY LinkAssumption DEF LinkCallers, Nobody, Supervisor

\* What is left of a sequence without its first k.
LEMMA RestOf ==
    ASSUME NEW S, NEW s \in Seq(S), NEW k \in 0 .. Len(s)
    PROVE  /\ SubSeq(s, k + 1, Len(s)) \in Seq(S)
           /\ DOMAIN SubSeq(s, k + 1, Len(s)) = 1 .. Len(s) - k
           /\ \A i \in 1 .. Len(s) - k : SubSeq(s, k + 1, Len(s))[i] = s[i + k]
  OBVIOUS

\* The first k events of rx are read.
LEMMA RestIsShorter ==
    ASSUME LkTypes, NEW k \in 0 .. Len(lkRx), lkRx' = SubSeq(lkRx, k + 1, Len(lkRx))
    PROVE  /\ Shorter
           /\ \A i \in DOMAIN lkRx' : i + k \in DOMAIN lkRx /\ lkRx'[i] = lkRx[i + k]
<1>1. lkRx \in Seq(Events) /\ Len(lkRx) \in Nat /\ DOMAIN lkRx = 1 .. Len(lkRx)
  BY LenProperties DEF LkTypes
<1>2. /\ lkRx' \in Seq(Events) /\ DOMAIN lkRx' = 1 .. Len(lkRx) - k
      /\ \A i \in 1 .. Len(lkRx) - k : lkRx'[i] = lkRx[i + k]
  BY <1>1, RestOf
<1>3. \A i \in DOMAIN lkRx' : i + k \in DOMAIN lkRx /\ lkRx'[i] = lkRx[i + k]
  BY <1>1, <1>2
<1> QED
  BY <1>2, <1>3 DEF Shorter

\* Nothing of rx is read.
LEMMA SameIsShorter ==
    ASSUME LkTypes, lkRx' = lkRx
    PROVE  Shorter
<1>1. lkRx' \in Seq(Events) /\ DOMAIN lkRx = 1 .. Len(lkRx) /\ Len(lkRx) \in Nat
  BY LenProperties DEF LkTypes
<1>2. \A i \in DOMAIN lkRx' : i + 0 \in DOMAIN lkRx /\ lkRx'[i] = lkRx[i + 0]
  BY <1>1
<1> QED
  BY <1>1, <1>2 DEF Shorter

\* The first event is read, whatever is made of it.
LEMMA FirstRead ==
    ASSUME LkTypes, lkRx # <<>>, Consumed(1) \/ lkRx' = Tail(lkRx)
    PROVE  /\ Shorter
           /\ \A i \in DOMAIN lkRx' : i + 1 \in DOMAIN lkRx /\ lkRx'[i] = lkRx[i + 1]
<1>1. lkRx' = SubSeq(lkRx, 1 + 1, Len(lkRx))
  <2>1. CASE Consumed(1)
    BY <2>1 DEF Consumed
  <2>2. CASE lkRx' = Tail(lkRx)
    <3>1. Tail(lkRx) = SubSeq(lkRx, 2, Len(lkRx)) /\ 1 + 1 = 2
      BY TailIsSubSeq DEF LkTypes
    <3> QED
      BY <2>2, <3>1
  <2> QED
    BY <2>1, <2>2
<1>2. 1 \in 0 .. Len(lkRx)
  BY EmptySeq DEF LkTypes
<1> QED
  BY <1>1, <1>2, RestIsShorter

\* What is stale is read up to the end of rx or of the reader.
LEMMA DrainedIsShorter ==
    ASSUME LkTypes, Drained
    PROVE  Shorter
<1>1. PICK k \in IF Ended THEN Ends ELSE {Len(lkRx)} : Consumed(k)
  BY DEF Drained
<1>2. k \in 0 .. Len(lkRx)
  BY <1>1, LenProperties DEF Ends, LkTypes
<1>3. lkRx' = SubSeq(lkRx, k + 1, Len(lkRx))
  BY <1>1 DEF Consumed
<1> QED
  BY <1>2, <1>3, RestIsShorter

\* The one reply under way has been read.
LEMMA ReplyRead ==
    ASSUME LkTypes, QuietInv, ~lkStale, lkRx # <<>>, IsReply(lkRx[1]),
           Consumed(1) \/ lkRx' = Tail(lkRx), lkAir' = lkAir
    PROVE  Nothing'
<1>1. 1 \in DOMAIN lkRx
  BY EmptySeq, LenProperties DEF LkTypes
<1>2. lkAir = <<>>
  BY <1>1 DEF QuietInv
<1>3. \A i \in DOMAIN lkRx' : i \in Nat /\ i >= 1
  BY FirstRead, LenProperties DEF Shorter
<1>4. ASSUME NEW i \in DOMAIN lkRx' PROVE ~IsReply(lkRx'[i])
  <2>1. i + 1 # 1 /\ i + 1 \in DOMAIN lkRx /\ lkRx'[i] = lkRx[i + 1]
    BY <1>3, FirstRead
  <2> QED
    BY <1>1, <2>1 DEF QuietInv
<1> QED
  BY <1>2, <1>4 DEF Nothing, IsReply

\* While the lock's owner awaits nothing, nothing is under way.
LEMMA NobodyAwaits ==
    ASSUME LkInv, ~lkStale, ~lkDown, NEW c \in LinkCallers \cup {Nobody}, lkOwner = c,
           c # Nobody => lkCall[c].at \notin {"reply", "greeting"}
    PROVE  Nothing
<1>1. \A n : ~Awaits(n)
  BY DEF Awaits
<1>2. \A i \in DOMAIN lkAir : FALSE
  BY <1>1 DEF LkInv, QuietInv
<1>3. lkAir = <<>>
  <2>1. lkAir \in Seq(Events)
    BY DEF LkInv, LkTypes
  <2> QED
    BY <1>2, <2>1, EmptySeq, LenProperties
<1> QED
  BY <1>1, <1>3 DEF LkInv, QuietInv, Nothing

\* And reading on leaves nothing under way.
LEMMA NothingStays ==
    ASSUME Nothing, Shorter, lkAir' = lkAir
    PROVE  Nothing'
  BY DEF Nothing, Shorter, IsReply

-----------------------------------------------------------------------------
(* What becomes of a call, and what that leaves of the invariant.            *)

\* Nothing but the calls and rx has changed.
OnlyCalls == UNCHANGED <<lkAir, lkRan, lkPushed, lkCalls>>

\* The lock's owner is at work on a link that is up.
LEMMA OwnerIs ==
    ASSUME LkInv, NEW c \in LinkCallers, Active(c)
    PROVE  /\ ~lkDown /\ lkOwner = c /\ lkOwner # Nobody
           /\ \A d \in LinkCallers : d # c => ~Active(d)
           /\ lkCall[c] \in Calls
  BY CallersAre DEF LkInv, LockInv, LkTypes, Active

\* A call moves on.
Moves(c, at) ==
    /\ lkCall' \in [LinkCallers -> Calls]
    /\ lkCall'[c].at = at /\ lkCall'[c].n = lkCall[c].n
    /\ \A d \in LinkCallers : d # c => lkCall'[d] = lkCall[d]
    /\ UNCHANGED <<lkOwner, lkWaiting, lkDown>>

\* A link on which nothing is left under way is quiet.
LEMMA NothingIsQuiet ==
    ASSUME ~lkStale' => Nothing'
    PROVE  QuietInv'
<1>1. ASSUME ~lkStale'
      PROVE  /\ lkAir' = <<>> /\ Len(lkAir') = 0 /\ DOMAIN lkAir' = {}
             /\ \A i \in DOMAIN lkRx' : lkRx'[i].kind \notin {"status", "nag", "login", "locked", "refused"}
  BY <1>1 DEF Nothing, IsReply
<1> QED
  BY <1>1 DEF QuietInv, IsReply

\* A caller that does nothing.
LEMMA IdleIs == LinkIdle \in Calls /\ LinkIdle.at = "idle" /\ LinkIdle.n = 0
  BY DEF LinkIdle, Calls

\* Reading on keeps the invariant.
LEMMA ReadsKeeps ==
    ASSUME LkInv, Shorter, OnlyCalls,
           UNCHANGED <<lkOwner, lkWaiting, lkCall, lkDown, lkStale>>
    PROVE  LkInv'
<1>1. LkTypes'
  BY DEF LkInv, LkTypes, Shorter, OnlyCalls
<1>5. LockInv' /\ AskedInv'
  BY DEF LkInv, LockInv, AskedInv, OnlyCalls, Active
<1>2. \A c \in LinkCallers : CallInv(c)'
  BY DEF LkInv, CallInv, OnlyCalls
<1>3. \A n \in DOMAIN lkCalls' : OnceInv(n)'
  BY DEF LkInv, OnceInv, OnlyCalls, Once, Fresh
<1>4. QuietInv'
  BY DEF LkInv, QuietInv, Shorter, OnlyCalls, Awaits, IsReply
<1> QED
  BY <1>1, <1>2, <1>3, <1>4, <1>5 DEF LkInv

\* So does a link that falls.
LEMMA FallsKeeps ==
    ASSUME LkInv, Shorter, OnlyCalls, Falls, lkStale => lkStale'
    PROVE  LkInv'
<1>0. \A c \in LinkCallers : lkCall'[c] = LinkIdle
  BY DEF Falls
<1>1. LkTypes'
  <2>1. lkCall' \in [LinkCallers -> Calls] /\ lkWaiting' \in Seq(LinkCallers)
        /\ lkOwner' \in LinkCallers \cup {Nobody}
    BY IdleIs, EmptySeq DEF Falls
  <2> QED
    BY <2>1 DEF LkInv, LkTypes, Shorter, OnlyCalls
<1>2. LockInv'
  <2>1. lkWaiting' = <<>> /\ DOMAIN lkWaiting' = {} /\ lkOwner' = Nobody
    BY DEF Falls
  <2>2. \A c \in LinkCallers : lkCall'[c].at = "idle"
    BY <1>0 DEF LinkIdle
  <2> QED
    BY <2>1, <2>2 DEF LockInv, Active
<1>3. AskedInv'
  BY DEF LkInv, AskedInv, OnlyCalls
<1>4. \A c \in LinkCallers : CallInv(c)'
  BY <1>0 DEF CallInv, LinkIdle
<1>5. ASSUME NEW n \in DOMAIN lkCalls' PROVE OnceInv(n)'
  <2>1. OnceInv(n) /\ lkCalls' = lkCalls /\ lkCalls[n] \in LinkCallers
    BY <1>5, ElementOfSeq, LenProperties DEF LkInv, OnlyCalls, LkTypes
  <2>2. lkCall'[lkCalls[n]].at = "idle"
    BY <1>0, <2>1 DEF LinkIdle
  <2> QED
    BY <2>1, <2>2 DEF OnceInv, OnlyCalls, Once
<1>6. QuietInv'
  <2>1. lkDown'
    BY DEF Falls
  <2> QED
    BY <2>1 DEF LkInv, QuietInv, Shorter, OnlyCalls, IsReply
<1> QED
  BY <1>1, <1>2, <1>3, <1>4, <1>5, <1>6 DEF LkInv

\* A caller that leaves takes nothing with it that is under way.
LEMMA LeavesKeeps ==
    ASSUME LkInv, Shorter, OnlyCalls, NEW c \in LinkCallers, Active(c), Leaves(c),
           UNCHANGED <<lkWaiting, lkDown>>, lkStale => lkStale', ~lkStale' => Nothing'
    PROVE  LkInv'
<1>0. /\ lkCall'[c] = LinkIdle /\ \A d \in LinkCallers : d # c => lkCall'[d] = lkCall[d]
      /\ lkCall' \in [LinkCallers -> Calls]
  BY IdleIs DEF Leaves, LkInv, LkTypes
<1>1. LkTypes'
  <2>1. lkOwner' \in LinkCallers \cup {Nobody}
    BY DEF Leaves
  <2> QED
    BY <1>0, <2>1 DEF LkInv, LkTypes, Shorter, OnlyCalls
<1>2. LockInv'
  <2>1. \A d \in LinkCallers : ~Active(d)'
    BY <1>0, OwnerIs DEF Active, LinkIdle
  <2>2. ASSUME NEW i \in DOMAIN lkWaiting' PROVE lkCall'[lkWaiting'[i]].at = "lock"
    <3>1. lkWaiting' = lkWaiting /\ lkWaiting[i] \in LinkCallers /\ lkCall[lkWaiting[i]].at = "lock"
      BY <2>2, ElementOfSeq, LenProperties DEF LkInv, LkTypes, LockInv
    <3> QED
      BY <1>0, <3>1 DEF Active
  <2>3. ~lkDown'
    BY OwnerIs
  <2> QED
    BY <2>1, <2>2, <2>3 DEF LkInv, LockInv
<1>3. AskedInv'
  BY DEF LkInv, AskedInv, OnlyCalls
<1>4. ASSUME NEW d \in LinkCallers PROVE CallInv(d)'
  <2>1. CASE d = c
    BY <1>0, <2>1 DEF CallInv, LinkIdle
  <2>2. CASE d # c
    BY <1>0, <2>2 DEF LkInv, CallInv, OnlyCalls
  <2> QED
    BY <2>1, <2>2
<1>5. ASSUME NEW n \in DOMAIN lkCalls' PROVE OnceInv(n)'
  <2>1. OnceInv(n) /\ lkCalls' = lkCalls /\ lkCalls[n] \in LinkCallers
    BY <1>5, ElementOfSeq, LenProperties DEF LkInv, OnlyCalls, LkTypes
  <2>2. lkCall'[lkCalls[n]] = lkCall[lkCalls[n]] \/ lkCall'[lkCalls[n]].at = "idle"
    BY <1>0, <2>1 DEF LinkIdle
  <2> QED
    BY <2>1, <2>2 DEF OnceInv, OnlyCalls, Once, Fresh
<1>6. QuietInv'
  BY NothingIsQuiet
<1> QED
  BY <1>1, <1>2, <1>3, <1>4, <1>5, <1>6 DEF LkInv

\* So does a call that goes back to write what has not run.
LEMMA MovesKeeps ==
    ASSUME LkInv, Shorter, OnlyCalls, NEW c \in LinkCallers, Active(c),
           NEW at \in {"login", "write"}, Moves(c, at),
           lkStale => lkStale', ~lkStale' => Nothing',
           c = Supervisor => at # "write", c \in Bound \cup Streams => at # "login",
           c \in Bound \cup Streams \cup (IF lkStale' THEN {} ELSE Single) => Fresh(lkCall[c].n)
    PROVE  LkInv'
<1>1. LkTypes'
  BY DEF LkInv, LkTypes, Shorter, OnlyCalls, Moves
<1>2. LockInv'
  <2>1. \A d \in LinkCallers : Active(d)' => lkOwner' = d
    BY OwnerIs DEF Active, Moves
  <2>2. ASSUME NEW i \in DOMAIN lkWaiting' PROVE lkCall'[lkWaiting'[i]].at = "lock"
    <3>1. lkWaiting' = lkWaiting /\ lkWaiting[i] \in LinkCallers /\ lkCall[lkWaiting[i]].at = "lock"
      BY <2>2, ElementOfSeq, LenProperties DEF LkInv, LkTypes, LockInv, Moves
    <3> QED
      BY <3>1 DEF Active, Moves
  <2>3. ~lkDown'
    BY OwnerIs DEF Moves
  <2>4. lkWaiting' = lkWaiting
    BY DEF Moves
  <2> QED
    BY <2>1, <2>2, <2>3, <2>4 DEF LkInv, LockInv
<1>3. AskedInv'
  BY DEF LkInv, AskedInv, OnlyCalls
<1>4. ASSUME NEW d \in LinkCallers PROVE CallInv(d)'
  <2>1. CASE d = c
    BY <2>1 DEF LkInv, CallInv, OnlyCalls, Moves, Active
  <2>2. CASE d # c
    BY <2>2 DEF LkInv, CallInv, OnlyCalls, Moves
  <2> QED
    BY <2>1, <2>2
<1>5. ASSUME NEW n \in DOMAIN lkCalls' PROVE OnceInv(n)'
  <2>1. OnceInv(n) /\ lkCalls' = lkCalls /\ lkCalls[n] \in LinkCallers
    BY <1>5, ElementOfSeq, LenProperties DEF LkInv, OnlyCalls, LkTypes
  <2>2. CASE lkCalls[n] # c
    BY <2>1, <2>2 DEF OnceInv, OnlyCalls, Once, Fresh, Moves
  <2>3. CASE lkCalls[n] = c
    BY <2>1, <2>3 DEF OnceInv, OnlyCalls, Once, Fresh, Moves
  <2> QED
    BY <2>2, <2>3
<1>6. QuietInv'
  BY NothingIsQuiet
<1> QED
  BY <1>1, <1>2, <1>3, <1>4, <1>5, <1>6 DEF LkInv

\* An element joins a sequence.
LEMMA Queued ==
    ASSUME NEW S, NEW s \in Seq(S), NEW e \in S
    PROVE  /\ Append(s, e) \in Seq(S) /\ Len(s) \in Nat /\ DOMAIN s = 1 .. Len(s)
           /\ Append(s, e) # <<>> /\ Len(Append(s, e)) = Len(s) + 1
           /\ DOMAIN Append(s, e) = 1 .. Len(s) + 1
           /\ \A i \in 1 .. Len(s) : Append(s, e)[i] = s[i]
           /\ Append(s, e)[Len(s) + 1] = e
  OBVIOUS

\* A line is written by a caller who awaits nothing: the first of a call that
\* must not be repeated.
LEMMA WritesKeeps ==
    ASSUME LkInv, Shorter, NEW c \in LinkCallers, NEW kind \in {"command", "login"},
           lkCall[c].at = IF kind = "command" THEN "write" ELSE "login",
           Line(kind, lkCall[c].n), Moves(c, IF kind = "command" THEN "reply" ELSE "greeting"),
           UNCHANGED <<lkRan, lkPushed, lkCalls, lkStale>>
    PROVE  LkInv'
<1> DEFINE n0 == lkCall[c].n
           line == [kind |-> kind, n |-> n0]
<1>0. /\ Active(c) /\ lkOwner = c /\ ~lkDown /\ n0 \in Nat /\ line \in Events
      /\ lkAir \in Seq(Events) /\ line.kind = kind /\ line.n = n0
  BY OwnerIs DEF Active, LkInv, LkTypes, Calls, Events
<1>a. lkAir' = Append(lkAir, line)
  BY DEF Line
<1> HIDE DEF line, n0
<1>b. /\ lkAir' \in Seq(Events) /\ Len(lkAir) \in Nat /\ DOMAIN lkAir = 1 .. Len(lkAir)
      /\ Len(lkAir') = Len(lkAir) + 1 /\ DOMAIN lkAir' = 1 .. Len(lkAir) + 1
      /\ \A i \in 1 .. Len(lkAir) : lkAir'[i] = lkAir[i]
      /\ lkAir'[Len(lkAir) + 1] = line
  BY <1>0, <1>a, Queued
<1>c. \A i \in DOMAIN lkAir' : (i \in DOMAIN lkAir /\ lkAir'[i] = lkAir[i]) \/ lkAir'[i] = line
  BY <1>b
<1>d. kind = "command" => n0 \in DOMAIN lkCalls /\ lkCalls[n0] = c
  BY DEF LkInv, CallInv, n0
<1>1. LkTypes'
  BY <1>b DEF LkInv, LkTypes, Shorter, Moves
<1>2. LockInv'
  <2>1. \A d \in LinkCallers : Active(d)' => lkOwner' = d
    BY <1>0, OwnerIs DEF Active, Moves
  <2>2. ASSUME NEW i \in DOMAIN lkWaiting' PROVE lkCall'[lkWaiting'[i]].at = "lock"
    <3>1. lkWaiting' = lkWaiting /\ lkWaiting[i] \in LinkCallers /\ lkCall[lkWaiting[i]].at = "lock"
      BY <2>2, ElementOfSeq, LenProperties DEF LkInv, LkTypes, LockInv, Moves
    <3> QED
      BY <1>0, <3>1 DEF Active, Moves
  <2>3. ~lkDown' /\ lkWaiting' = lkWaiting
    BY <1>0 DEF Moves
  <2> QED
    BY <2>1, <2>2, <2>3 DEF LkInv, LockInv
<1>3. AskedInv'
  <2>1. \A i \in DOMAIN lkAir' : lkAir'[i].kind = "command" => lkAir'[i].n \in DOMAIN lkCalls
    BY <1>0, <1>c, <1>d DEF LkInv, AskedInv
  <2> QED
    BY <2>1 DEF LkInv, AskedInv
<1>4. ASSUME NEW d \in LinkCallers PROVE CallInv(d)'
  <2>1. CASE d = c
    <3>1. lkCall'[c].n = lkCall[c].n
          /\ lkCall'[c].at = IF kind = "command" THEN "reply" ELSE "greeting"
      BY DEF Moves
    <3> QED
      BY <2>1, <3>1 DEF LkInv, CallInv
  <2>2. CASE d # c
    BY <2>2 DEF LkInv, CallInv, Moves
  <2> QED
    BY <2>1, <2>2
<1>5. ASSUME NEW n \in DOMAIN lkCalls' PROVE OnceInv(n)'
  <2>1. OnceInv(n) /\ lkCalls' = lkCalls /\ lkCalls[n] \in LinkCallers
    BY <1>5, ElementOfSeq, LenProperties DEF LkInv, LkTypes
  <2>2. CASE line # CommandOf(n)
    <3>1. \A i \in DOMAIN lkAir' :
             lkAir'[i] = CommandOf(n) => i \in DOMAIN lkAir /\ lkAir[i] = CommandOf(n)
      BY <1>c, <2>2
    <3>2. lkCall'[lkCalls[n]].n = lkCall[lkCalls[n]].n
      BY <2>1 DEF Moves
    <3>3. lkCall'[lkCalls[n]].at \in {"lock", "write", "login", "greeting"}
             => lkCall[lkCalls[n]].at \in {"lock", "write", "login", "greeting"}
      BY <2>1 DEF Moves
    <3> QED
      BY <2>1, <3>1, <3>2, <3>3 DEF OnceInv, Once, Fresh
  <2>3. CASE line = CommandOf(n)
    <3>1. n0 = n /\ kind = "command" /\ lkCalls[n] = c
      BY <1>0, <1>d, <2>3 DEF CommandOf
    <3>2. lkCalls[n] \in Once => Fresh(n)
      BY <2>1, <3>1 DEF OnceInv, n0
    <3>3. lkCalls[n] \in Once => \A i \in DOMAIN lkAir' : lkAir'[i] = CommandOf(n)
             => i = Len(lkAir) + 1
      BY <3>2, <1>b DEF Fresh
    <3>4. lkCall'[c].at = "reply"
      BY <3>1 DEF Moves
    <3> QED
      BY <2>1, <3>1, <3>2, <3>3, <3>4 DEF OnceInv, Once, Fresh
  <2> QED
    BY <2>2, <2>3
<1>6. QuietInv'
  <2> SUFFICES ASSUME ~lkStale' PROVE QuietInv'
    BY DEF QuietInv
  <2>1. Nothing
    BY <1>0, NobodyAwaits DEF LkInv
  <2>2. lkAir = <<>> /\ Len(lkAir) = 0 /\ \A i \in DOMAIN lkRx' : ~IsReply(lkRx'[i])
    BY <2>1 DEF Nothing, Shorter, IsReply
  <2>3. Len(lkAir') = 1 /\ \A i \in DOMAIN lkAir' : lkAir'[i] = line
    BY <1>b, <2>2
  <2>4. (\A i \in DOMAIN lkAir : Awaits(lkAir[i].n))'
    <3>1. lkOwner' = c /\ c # Nobody /\ lkCall'[c].at \in {"reply", "greeting"} /\ lkCall'[c].n = n0
      BY <1>0, OwnerIs DEF Moves, n0
    <3> QED
      BY <1>0, <2>3, <3>1 DEF Awaits
  <2>5. \A i \in DOMAIN lkRx' : lkRx'[i].kind # "nag"
    BY <2>2 DEF IsReply
  <2> QED
    BY <2>2, <2>3, <2>4, <2>5 DEF QuietInv, IsReply
<1> QED
  BY <1>1, <1>2, <1>3, <1>4, <1>5, <1>6 DEF LkInv

-----------------------------------------------------------------------------
(* One action after another: the steps of a call.                            *)

\* The places a call moves to.
LEMMA GoesIs ==
    ASSUME LkInv, NEW c \in LinkCallers, NEW at,
           at \in {"idle", "lock", "write", "reply", "login", "greeting"},
           UNCHANGED <<lkOwner, lkWaiting, lkDown>>,
           \/ LinkGoes(c, at)
           \/ at = "login" /\ \E stage \in Nat : LogsInFor(c, stage)
           \/ lkCall' = [lkCall EXCEPT ![c].at = at, ![c].tries = IF @ < 3 THEN @ + 1 ELSE 3]
    PROVE  Moves(c, at)
<1>0. lkCall \in [LinkCallers -> Calls] /\ lkCall[c] \in Calls
  BY DEF LkInv, LkTypes
<1>1. PICK r \in Calls : r.at = at /\ r.n = lkCall[c].n /\ lkCall' = [lkCall EXCEPT ![c] = r]
  <2>1. CASE LinkGoes(c, at)
    <3> DEFINE r == [lkCall[c] EXCEPT !.at = at]
    <3>1. r \in Calls /\ r.at = at /\ r.n = lkCall[c].n
      BY <1>0 DEF Calls
    <3>2. lkCall' = [lkCall EXCEPT ![c] = r]
      BY <1>0, <2>1 DEF LinkGoes
    <3> QED
      BY <3>1, <3>2
  <2>2. ASSUME at = "login", NEW stage \in Nat, LogsInFor(c, stage)
        PROVE  \E r \in Calls :
                  r.at = at /\ r.n = lkCall[c].n /\ lkCall' = [lkCall EXCEPT ![c] = r]
    <3> DEFINE r == [lkCall[c] EXCEPT !.at = at, !.stage = stage, !.tries = 0]
    <3>1. r \in Calls /\ r.at = at /\ r.n = lkCall[c].n
      BY <1>0 DEF Calls
    <3>2. lkCall' = [lkCall EXCEPT ![c] = r]
      BY <1>0, <2>2 DEF LogsInFor
    <3> QED
      BY <3>1, <3>2
  <2>3. CASE lkCall' = [lkCall EXCEPT ![c].at = at, ![c].tries = IF @ < 3 THEN @ + 1 ELSE 3]
    <3> DEFINE t == IF lkCall[c].tries < 3 THEN lkCall[c].tries + 1 ELSE 3
               r == [lkCall[c] EXCEPT !.at = at, !.tries = t]
    <3>1. t \in Nat
      BY <1>0 DEF Calls
    <3>2. lkCall' = [lkCall EXCEPT ![c] = r]
      BY <1>0, <2>3 DEF Calls
    <3> HIDE DEF t
    <3>3. r \in Calls /\ r.at = at /\ r.n = lkCall[c].n
      BY <1>0, <3>1 DEF Calls
    <3> QED
      BY <3>2, <3>3
  <2> QED
    BY <2>1, <2>2, <2>3
<1> QED
  BY <1>0, <1>1 DEF Moves

\* After a write or a login has drained rx.
LEMMA DrainedStep ==
    ASSUME LkInv, NEW c \in LinkCallers, NEW kind \in {"command", "login"},
           lkCall[c].at = IF kind = "command" THEN "write" ELSE "login", Drained,
           \/ Falls /\ UNCHANGED lkAir
           \/ Leaves(c) /\ UNCHANGED <<lkAir, lkWaiting, lkDown>>
           \/ /\ Line(kind, lkCall[c].n)
              /\ Moves(c, IF kind = "command" THEN "reply" ELSE "greeting"),
           UNCHANGED <<lkRan, lkPushed, lkStale, lkCalls>>
    PROVE  LkInv'
<1>1. Shorter /\ Active(c)
  BY DrainedIsShorter DEF LkInv, Active
<1>2. CASE Falls /\ UNCHANGED lkAir
  BY <1>1, <1>2, FallsKeeps DEF OnlyCalls
<1>3. CASE Leaves(c) /\ UNCHANGED <<lkAir, lkWaiting, lkDown>>
  <2>1. ~lkStale => Nothing
    BY <1>1, OwnerIs, NobodyAwaits
  <2>2. ~lkStale' => Nothing'
    BY <1>1, <1>3, <2>1, NothingStays
  <2> QED
    BY <1>1, <1>3, <2>2, LeavesKeeps DEF OnlyCalls
<1>4. CASE Line(kind, lkCall[c].n) /\ Moves(c, IF kind = "command" THEN "reply" ELSE "greeting")
  BY <1>1, <1>4, WritesKeeps
<1> QED
  BY <1>2, <1>3, <1>4

LEMMA WriteKeeps ==
    ASSUME LkInv, NEW c \in LinkCallers, LinkWrite(c)
    PROVE  LkInv'
<1>1. /\ lkCall[c].at = "write" /\ Drained
      /\ UNCHANGED <<lkRan, lkPushed, lkStale, lkCalls>>
  BY DEF LinkWrite, LinkCalm
<1>2. \/ Falls /\ UNCHANGED lkAir
      \/ Leaves(c) /\ UNCHANGED <<lkAir, lkWaiting, lkDown>>
      \/ Line("command", lkCall[c].n) /\ Moves(c, "reply")
  <2>1. \/ Falls /\ UNCHANGED lkAir
        \/ Leaves(c) /\ UNCHANGED <<lkAir, lkWaiting, lkDown>>
        \/ /\ Line("command", lkCall[c].n) /\ LinkGoes(c, "reply")
           /\ UNCHANGED <<lkOwner, lkWaiting, lkDown>>
    BY DEF LinkWrite
  <2> QED
    BY <2>1, GoesIs
<1> QED
  BY <1>1, <1>2, DrainedStep

LEMMA LoginKeeps ==
    ASSUME LkInv, NEW c \in LinkCallers, LinkLogin(c)
    PROVE  LkInv'
<1>1. /\ lkCall[c].at = "login" /\ Drained
      /\ UNCHANGED <<lkRan, lkPushed, lkStale, lkCalls>>
  BY DEF LinkLogin, LinkCalm
<1>2. \/ Falls /\ UNCHANGED lkAir
      \/ Leaves(c) /\ UNCHANGED <<lkAir, lkWaiting, lkDown>>
      \/ Line("login", lkCall[c].n) /\ Moves(c, "greeting")
  <2>1. \/ Falls /\ UNCHANGED lkAir
        \/ Leaves(c) /\ UNCHANGED <<lkAir, lkWaiting, lkDown>>
        \/ /\ Line("login", lkCall[c].n)
           /\ lkCall' = [lkCall EXCEPT ![c].at = "greeting",
                                      ![c].tries = IF @ < 3 THEN @ + 1 ELSE 3]
           /\ UNCHANGED <<lkOwner, lkWaiting, lkDown>>
    BY DEF LinkLogin
  <2> QED
    BY <2>1, GoesIs
<1> QED
  BY <1>1, <1>2, DrainedStep

LEMMA WriteFailsKeeps ==
    ASSUME LkInv, NEW c \in LinkCallers, LinkWriteFails(c)
    PROVE  LkInv'
<1>1. /\ Drained /\ Falls /\ OnlyCalls /\ UNCHANGED lkStale
  BY DEF LinkWriteFails, LinkFault, deviceVars, OnlyCalls
<1>2. Shorter
  BY <1>1, DrainedIsShorter DEF LkInv
<1> QED
  BY <1>1, <1>2, FallsKeeps

LEMMA ReplyKeeps ==
    ASSUME LkInv, NEW c \in LinkCallers, LinkReply(c)
    PROVE  LkInv'
<1>1. /\ Active(c) /\ lkRx # <<>> /\ IsReply(lkRx[1]) /\ Consumed(1) /\ Leaves(c)
      /\ OnlyCalls /\ UNCHANGED <<lkWaiting, lkDown, lkStale>>
  BY DEF LinkReply, LinkCalm, deviceVars, OnlyCalls, Active, IsReply
<1>2. Shorter
  BY <1>1, FirstRead DEF LkInv
<1>3. ~lkStale' => Nothing'
  BY <1>1, ReplyRead DEF LkInv, OnlyCalls
<1> QED
  BY <1>1, <1>2, <1>3, LeavesKeeps

LEMMA ReadKeeps ==
    ASSUME LkInv, NEW c \in LinkCallers, LinkRead(c)
    PROVE  LkInv'
<1>1. /\ lkRx # <<>> /\ Consumed(1)
      /\ OnlyCalls /\ UNCHANGED <<lkOwner, lkWaiting, lkCall, lkDown, lkStale>>
  BY DEF LinkRead, LinkCalm, deviceVars, OnlyCalls
<1>2. Shorter
  BY <1>1, FirstRead DEF LkInv
<1> QED
  BY <1>1, <1>2, ReadsKeeps

LEMMA NagKeeps ==
    ASSUME LkInv, NEW c \in LinkCallers, LinkNag(c)
    PROVE  LkInv'
<1>1. /\ lkCall[c].at = "reply" /\ Active(c) /\ lkRx # <<>> /\ lkRx[1].kind = "nag"
      /\ IsReply(lkRx[1]) /\ lkRx' = Tail(lkRx) /\ OnlyCalls /\ UNCHANGED lkStale
  BY DEF LinkNag, LinkCalm, deviceVars, OnlyCalls, Active, IsReply
<1>2. \/ Leaves(c) /\ UNCHANGED <<lkWaiting, lkDown>>
      \/ Falls
      \/ /\ c \in Plain \cup Single /\ LogsInFor(c, lkCall[c].stage + 1)
         /\ UNCHANGED <<lkOwner, lkWaiting, lkDown>>
  BY DEF LinkNag, ReplaysAuth
<1>3. Shorter
  BY <1>1, FirstRead DEF LkInv
<1>4. ~lkStale' => Nothing'
  BY <1>1, ReplyRead DEF LkInv, OnlyCalls
<1>5. CASE Leaves(c) /\ UNCHANGED <<lkWaiting, lkDown>>
  BY <1>1, <1>3, <1>4, <1>5, LeavesKeeps
<1>6. CASE Falls
  BY <1>1, <1>3, <1>6, FallsKeeps
<1>7. CASE /\ c \in Plain \cup Single /\ LogsInFor(c, lkCall[c].stage + 1)
           /\ UNCHANGED <<lkOwner, lkWaiting, lkDown>>
  <2>1. lkCall[c].stage + 1 \in Nat
    BY DEF LkInv, LkTypes, Calls
  <2>2. Moves(c, "login")
    BY <1>7, <2>1, GoesIs
  <2>3. ASSUME c \in Single, ~lkStale PROVE Fresh(lkCall[c].n)
    <3>1. 1 \in DOMAIN lkRx /\ ~lkDown /\ lkOwner = c
      BY <1>1, OwnerIs, EmptySeq, LenProperties DEF LkInv, LkTypes
    <3>2. lkRx[1].n = lkCall[c].n /\ lkAir = <<>>
          /\ (lkCalls[lkRx[1].n] \in Single => lkRan[lkRx[1].n] = 0)
      BY <1>1, <2>3, <3>1 DEF LkInv, QuietInv, Awaits
    <3>3. lkCalls[lkCall[c].n] = c
      BY <1>1, CallersAre DEF LkInv, CallInv
    <3> QED
      BY <2>3, <3>2, <3>3 DEF Fresh
  <2>4. c \notin Bound \cup Streams /\ c # Supervisor
    BY <1>7, CallersAre
  <2> QED
    BY <1>1, <1>3, <1>4, <2>2, <2>3, <2>4, MovesKeeps
<1> QED
  BY <1>2, <1>5, <1>6, <1>7

LEMMA TimeoutKeeps ==
    ASSUME LkInv, NEW c \in LinkCallers, LinkTimeout(c)
    PROVE  LkInv'
<1>1. /\ Active(c) /\ lkRx = <<>> /\ lkRx' = lkRx /\ OnlyCalls
      /\ UNCHANGED <<lkWaiting, lkDown>> /\ lkStale' = (lkStale \/ lkAir # <<>>)
  BY DEF LinkTimeout, LinkCalm, LinkFault, deviceVars, OnlyCalls, Active
<1>2. \/ Leaves(c)
      \/ c \in Plain /\ LogsInFor(c, 3) /\ UNCHANGED lkOwner
  BY DEF LinkTimeout, Replays
<1>3. Shorter
  BY <1>1, SameIsShorter DEF LkInv
<1>4. (~lkStale' => Nothing') /\ (lkStale => lkStale')
  <2>1. lkRx' = <<>> /\ DOMAIN lkRx' = {} /\ lkAir' = lkAir
    BY <1>1 DEF OnlyCalls
  <2> QED
    BY <1>1, <2>1 DEF Nothing
<1>5. CASE Leaves(c)
  BY <1>1, <1>3, <1>4, <1>5, LeavesKeeps
<1>6. CASE c \in Plain /\ LogsInFor(c, 3) /\ UNCHANGED lkOwner
  <2>1. Moves(c, "login")
    BY <1>1, <1>6, GoesIs
  <2>2. c \notin Bound \cup Streams \cup Single /\ c # Supervisor
    BY <1>6, CallersAre
  <2> QED
    BY <1>1, <1>3, <1>4, <2>1, <2>2, MovesKeeps
<1> QED
  BY <1>2, <1>5, <1>6

\* The call that logs in again is as fresh as before.
LEMMA GreetingFresh ==
    ASSUME LkInv, NEW c \in LinkCallers, lkCall[c].at = "greeting",
           c \in Bound \cup Streams \cup (IF lkStale THEN {} ELSE Single)
    PROVE  Fresh(lkCall[c].n)
<1>1. lkCall[c].n \in DOMAIN lkCalls /\ lkCalls[lkCall[c].n] = c
  BY CallersAre DEF LkInv, CallInv
<1> QED
  BY <1>1 DEF LkInv, OnceInv, Once

LEMMA GreetedKeeps ==
    ASSUME LkInv, NEW c \in LinkCallers, LinkGreeted(c)
    PROVE  LkInv'
<1>1. /\ lkCall[c].at = "greeting" /\ Active(c) /\ lkRx # <<>> /\ IsReply(lkRx[1])
      /\ Consumed(1) /\ OnlyCalls /\ UNCHANGED <<lkWaiting, lkDown, lkStale>>
  BY DEF LinkGreeted, LinkCalm, deviceVars, OnlyCalls, Active, IsReply
<1>2. \/ Leaves(c)
      \/ c # Supervisor /\ LinkGoes(c, "write") /\ UNCHANGED lkOwner
  BY DEF LinkGreeted
<1>3. Shorter
  BY <1>1, FirstRead DEF LkInv
<1>4. ~lkStale' => Nothing'
  BY <1>1, ReplyRead DEF LkInv, OnlyCalls
<1>5. CASE Leaves(c)
  BY <1>1, <1>3, <1>4, <1>5, LeavesKeeps
<1>6. CASE c # Supervisor /\ LinkGoes(c, "write") /\ UNCHANGED lkOwner
  <2>1. Moves(c, "write")
    BY <1>1, <1>6, GoesIs
  <2>2. c \in Bound \cup Streams \cup (IF lkStale' THEN {} ELSE Single) => Fresh(lkCall[c].n)
    BY <1>1, GreetingFresh
  <2> QED
    BY <1>1, <1>3, <1>4, <1>6, <2>1, <2>2, MovesKeeps
<1> QED
  BY <1>2, <1>5, <1>6

\* A lockout sends the caller back to log in.
LEMMA LockedOutKeeps ==
    ASSUME LkInv, NEW c \in LinkCallers, LinkLockedOut(c)
    PROVE  LkInv'
<1>1. /\ lkCall[c].at = "greeting" /\ Active(c) /\ lkRx # <<>> /\ IsReply(lkRx[1])
      /\ Consumed(1) /\ OnlyCalls /\ UNCHANGED <<lkWaiting, lkDown, lkStale>>
  BY DEF LinkLockedOut, LinkCalm, deviceVars, OnlyCalls, Active, IsReply
<1>2. \/ Leaves(c)
      \/ LinkGoes(c, "login") /\ UNCHANGED lkOwner
  BY DEF LinkLockedOut
<1>3. Shorter
  BY <1>1, FirstRead DEF LkInv
<1>4. ~lkStale' => Nothing'
  BY <1>1, ReplyRead DEF LkInv, OnlyCalls
<1>5. CASE Leaves(c)
  BY <1>1, <1>3, <1>4, <1>5, LeavesKeeps
<1>6. CASE LinkGoes(c, "login") /\ UNCHANGED lkOwner
  <2>1. Moves(c, "login")
    BY <1>1, <1>6, GoesIs
  <2>2. c \in Bound \cup Streams \cup (IF lkStale' THEN {} ELSE Single) => Fresh(lkCall[c].n)
    BY <1>1, GreetingFresh
  <2>3. c \notin Bound \cup Streams
    BY <1>1 DEF LkInv, CallInv
  <2> QED
    BY <1>1, <1>3, <1>4, <2>1, <2>2, <2>3, MovesKeeps
<1> QED
  BY <1>2, <1>5, <1>6

\* Refused credentials end the call, or the link.
LEMMA RefusedKeeps ==
    ASSUME LkInv, NEW c \in LinkCallers, LinkRefused(c)
    PROVE  LkInv'
<1>1. /\ Active(c) /\ lkRx # <<>> /\ IsReply(lkRx[1]) /\ Consumed(1) /\ OnlyCalls
      /\ UNCHANGED lkStale
  BY DEF LinkRefused, LinkCalm, deviceVars, OnlyCalls, Active, IsReply
<1>2. \/ Falls
      \/ Leaves(c) /\ UNCHANGED <<lkWaiting, lkDown>>
  BY DEF LinkRefused
<1>3. Shorter
  BY <1>1, FirstRead DEF LkInv
<1>4. ~lkStale' => Nothing'
  BY <1>1, ReplyRead DEF LkInv, OnlyCalls
<1> QED
  BY <1>1, <1>2, <1>3, <1>4, LeavesKeeps, FallsKeeps

LEMMA NoGreetingKeeps ==
    ASSUME LkInv, NEW c \in LinkCallers, LinkNoGreeting(c)
    PROVE  LkInv'
<1>1. /\ lkCall[c].at = "greeting" /\ Active(c) /\ lkRx = <<>> /\ lkRx' = lkRx /\ OnlyCalls
      /\ lkStale' = (lkStale \/ lkAir # <<>>)
  BY DEF LinkNoGreeting, LinkCalm, LinkFault, deviceVars, OnlyCalls, Active
<1>2. \/ LinkGoes(c, "login") /\ UNCHANGED <<lkOwner, lkWaiting, lkDown>>
      \/ Falls
      \/ Leaves(c) /\ UNCHANGED <<lkWaiting, lkDown>>
  BY DEF LinkNoGreeting
<1>3. Shorter
  BY <1>1, SameIsShorter DEF LkInv
<1>4. (~lkStale' => Nothing') /\ (lkStale => lkStale')
  <2>1. lkRx' = <<>> /\ DOMAIN lkRx' = {} /\ lkAir' = lkAir
    BY <1>1 DEF OnlyCalls
  <2> QED
    BY <1>1, <2>1 DEF Nothing
<1>5. CASE Leaves(c) /\ UNCHANGED <<lkWaiting, lkDown>>
  BY <1>1, <1>3, <1>4, <1>5, LeavesKeeps
<1>6. CASE LinkGoes(c, "login") /\ UNCHANGED <<lkOwner, lkWaiting, lkDown>>
  <2>1. Moves(c, "login")
    BY <1>1, <1>6, GoesIs
  <2>2. c \in Bound \cup Streams \cup (IF lkStale' THEN {} ELSE Single) => Fresh(lkCall[c].n)
    BY <1>1, <1>4, GreetingFresh
  <2>3. c \notin Bound \cup Streams
    BY <1>1 DEF LkInv, CallInv
  <2> QED
    BY <1>1, <1>3, <1>4, <2>1, <2>2, <2>3, MovesKeeps
<1>7. CASE Falls
  BY <1>1, <1>3, <1>4, <1>7, FallsKeeps
<1> QED
  BY <1>2, <1>5, <1>6, <1>7

-----------------------------------------------------------------------------
(* The rest of the session.                                                  *)

\* The reader's last event, the pump and a suspected reboot.
LEMMA ClosedKeeps ==
    ASSUME LkInv,
           (\E c \in LinkCallers : LinkClosedRead(c)) \/ LinkPump \/ LinkRebootSeen
           \/ LinkHintCleared
    PROVE  LkInv'
<1>1. ASSUME NEW c \in LinkCallers, LinkClosedRead(c) PROVE LkInv'
  <2>1. lkRx # <<>> /\ lkRx' = Tail(lkRx) /\ Falls /\ OnlyCalls /\ UNCHANGED lkStale
    BY <1>1 DEF LinkClosedRead, LinkCalm, deviceVars, OnlyCalls
  <2>2. Shorter
    BY <2>1, FirstRead DEF LkInv
  <2> QED
    BY <2>1, <2>2, FallsKeeps
<1>2. CASE LinkPump
  <2>1. lkRx # <<>> /\ OnlyCalls /\ UNCHANGED lkStale
    BY <1>2 DEF LinkPump, LinkCalm, deviceVars, OnlyCalls
  <2>2. \/ lkRx' = Tail(lkRx) /\ Falls
        \/ Consumed(1) /\ UNCHANGED <<lkDown, lkOwner, lkWaiting, lkCall>>
    BY <1>2 DEF LinkPump
  <2>3. Shorter
    BY <2>1, <2>2, FirstRead DEF LkInv
  <2> QED
    BY <2>1, <2>2, <2>3, FallsKeeps, ReadsKeeps
<1>3. CASE LinkRebootSeen
  <2>1. lkRx' = lkRx /\ Falls /\ OnlyCalls /\ UNCHANGED lkStale
    BY <1>3 DEF LinkRebootSeen, LinkCalm, deviceVars, OnlyCalls
  <2>2. Shorter
    BY <2>1, SameIsShorter DEF LkInv
  <2> QED
    BY <2>1, <2>2, FallsKeeps
<1>4. CASE LinkHintCleared
  <2>1. lkRx' = lkRx /\ OnlyCalls /\ UNCHANGED <<lkOwner, lkWaiting, lkCall, lkDown, lkStale>>
    BY <1>4 DEF LinkHintCleared, LinkCalm, deviceVars, OnlyCalls
  <2>2. Shorter
    BY <2>1, SameIsShorter DEF LkInv
  <2> QED
    BY <2>1, <2>2, ReadsKeeps
<1> QED
  BY <1>1, <1>2, <1>3, <1>4

\* Something joins rx that is no reply.
LEMMA ArrivesKeeps ==
    ASSUME LkInv, NEW e \in Events, ~IsReply(e), lkRx' = Append(lkRx, e),
           lkPushed' \in Nat,
           UNCHANGED <<lkAir, lkRan, lkCalls, lkOwner, lkWaiting, lkCall, lkDown, lkStale>>
    PROVE  LkInv'
<1>1. /\ lkRx' \in Seq(Events) /\ \A i \in DOMAIN lkRx' :
            (i \in DOMAIN lkRx /\ lkRx'[i] = lkRx[i]) \/ lkRx'[i] = e
  <2>1. lkRx \in Seq(Events)
    BY DEF LkInv, LkTypes
  <2> QED
    BY <2>1, Queued
<1>2. \A i \in DOMAIN lkRx' : IsReply(lkRx'[i]) => i \in DOMAIN lkRx /\ lkRx'[i] = lkRx[i]
  BY <1>1 DEF IsReply
<1>3. LkTypes'
  BY <1>1 DEF LkInv, LkTypes
<1>4. LockInv' /\ AskedInv'
  BY DEF LkInv, LockInv, AskedInv, Active
<1>5. \A c \in LinkCallers : CallInv(c)'
  BY DEF LkInv, CallInv
<1>6. \A n \in DOMAIN lkCalls' : OnceInv(n)'
  BY DEF LkInv, OnceInv, Once, Fresh
<1>7. QuietInv'
  BY <1>2 DEF LkInv, QuietInv, Awaits, IsReply
<1> QED
  BY <1>3, <1>4, <1>5, <1>6, <1>7 DEF LkInv

LEMMA PushKeeps ==
    ASSUME LkInv, LinkPush \/ LinkSignOut \/ LinkDies
    PROVE  LkInv'
<1>1. /\ lkPushed \in Nat /\ lkPushed + 1 \in Nat
      /\ UNCHANGED <<lkAir, lkRan, lkCalls, lkOwner, lkWaiting, lkCall, lkDown, lkStale>>
  BY DEF LkInv, LkTypes, LinkPush, LinkSignOut, LinkDies, LinkFault, LinkCalm, deviceVars
<1>2. \/ lkPushed' \in Nat /\ \E kind \in Pushes : lkRx' = Append(lkRx, LinkEvent(kind, lkPushed + 1))
      \/ lkPushed' = lkPushed /\ lkRx' = lkRx
      \/ lkPushed' = lkPushed /\ lkRx' = Append(lkRx, LinkEvent("garbage", 0))
      \/ lkPushed' = lkPushed /\ lkRx' = Append(lkRx, LinkEvent("closed", 0))
  BY <1>1 DEF LinkPush, LinkSignOut, LinkDies
<1>3. \A kind \in {"push", "dismiss", "garbage", "closed"}, n \in Nat :
         LinkEvent(kind, n) \in Events /\ ~IsReply(LinkEvent(kind, n))
  BY DEF LinkEvent, Events, IsReply
<1>4. CASE lkPushed' = lkPushed /\ lkRx' = lkRx
  BY <1>1, <1>4, SameIsShorter, ReadsKeeps DEF OnlyCalls, LkInv
<1>5. CASE lkPushed' \in Nat
           /\ \E kind \in Pushes : lkRx' = Append(lkRx, LinkEvent(kind, lkPushed + 1))
  BY <1>1, <1>3, <1>5, ArrivesKeeps DEF Pushes
<1>6. CASE lkPushed' = lkPushed /\ \E kind \in {"garbage", "closed"} :
              lkRx' = Append(lkRx, LinkEvent(kind, 0))
  BY <1>1, <1>3, <1>6, ArrivesKeeps
<1> QED
  BY <1>2, <1>4, <1>5, <1>6

\* The head of the air is gone.
LEMMA LineGone ==
    ASSUME LkTypes, lkAir # <<>>, lkAir' = Tail(lkAir)
    PROVE  /\ lkAir' \in Seq(Events) /\ Len(lkAir) \in Nat \ {0} /\ Len(lkAir') = Len(lkAir) - 1
           /\ 1 \in DOMAIN lkAir /\ Head(lkAir) = lkAir[1] /\ lkAir[1] \in Events
           /\ \A i \in DOMAIN lkAir' : i + 1 \in DOMAIN lkAir /\ lkAir'[i] = lkAir[i + 1]
                                       /\ i + 1 # 1 /\ i \in Nat
  BY DEF LkTypes

\* The device runs the line or does not.
LEMMA HeadKeeps ==
    ASSUME LkInv, lkAir # <<>>, lkAir' = Tail(lkAir),
           \/ UNCHANGED lkRan
           \/ lkAir[1].kind = "command" /\ lkRan' = [lkRan EXCEPT ![lkAir[1].n] = @ + 1],
           UNCHANGED <<lkPushed, lkCalls, lkOwner, lkWaiting, lkCall, lkDown, lkStale>>
    PROVE  /\ lkAir' \in Seq(Events) /\ lkRan' \in [1..MaxLinkCalls -> Nat]
           /\ LockInv' /\ AskedInv' /\ \A c \in LinkCallers : CallInv(c)'
           /\ \A n \in DOMAIN lkCalls' : OnceInv(n)'
           /\ \A n \in DOMAIN lkCalls : lkRan'[n] = lkRan[n] \/ (lkAir[1] = CommandOf(n))
<1>1. LkTypes /\ AskedInv /\ lkRan \in [1..MaxLinkCalls -> Nat]
      /\ DOMAIN lkCalls \subseteq 1..MaxLinkCalls
  BY LinkAssumption, LenProperties DEF LkInv, LkTypes
<1>2. lkAir[1].kind = "command" => lkAir[1].n \in DOMAIN lkCalls /\ lkAir[1] = CommandOf(lkAir[1].n)
  BY <1>1, LineGone DEF AskedInv, Events, CommandOf
<1>3. /\ lkRan' \in [1..MaxLinkCalls -> Nat]
      /\ \A n \in 1..MaxLinkCalls : \/ lkRan'[n] = lkRan[n]
                                    \/ /\ n \in DOMAIN lkCalls /\ lkAir[1] = CommandOf(n)
                                       /\ lkRan'[n] = lkRan[n] + 1
  <2>1. CASE UNCHANGED lkRan
    BY <1>1, <2>1
  <2>2. CASE lkAir[1].kind = "command" /\ lkRan' = [lkRan EXCEPT ![lkAir[1].n] = @ + 1]
    <3> DEFINE m == lkAir[1].n
               t == lkRan[m] + 1
    <3>1. m \in DOMAIN lkCalls /\ m \in 1..MaxLinkCalls /\ lkAir[1] = CommandOf(m)
      BY <1>1, <1>2, <2>2
    <3>2. t \in Nat /\ lkRan' = [lkRan EXCEPT ![m] = t]
      BY <1>1, <2>2, <3>1
    <3>3. t = lkRan[m] + 1
      OBVIOUS
    <3> HIDE DEF m, t
    <3> QED
      BY <1>1, <3>1, <3>2, <3>3
  <2> QED
    BY <2>1, <2>2
<1>4. LockInv' /\ (\A c \in LinkCallers : CallInv(c)')
  BY DEF LkInv, LockInv, CallInv, Active
<1>5. AskedInv'
  BY <1>1, <1>3, LineGone DEF AskedInv
<1>6. ASSUME NEW n \in DOMAIN lkCalls' PROVE OnceInv(n)'
  <2>1. /\ OnceInv(n) /\ n \in 1..MaxLinkCalls /\ lkRan[n] \in Nat
        /\ lkRan'[n] = lkRan[n] \/ (lkAir[1] = CommandOf(n) /\ lkRan'[n] = lkRan[n] + 1)
    BY <1>1, <1>3 DEF LkInv
  <2>2. \A i \in DOMAIN lkAir' : i + 1 \in DOMAIN lkAir /\ lkAir'[i] = lkAir[i + 1]
                                 /\ i + 1 # 1 /\ i \in Nat
    BY <1>1, LineGone
  <2>3. 1 \in DOMAIN lkAir
    BY <1>1, LineGone
  <2>4. CASE lkCalls[n] \notin Once
    BY <2>4 DEF OnceInv, Once
  <2>5. CASE lkCalls[n] \in Once /\ lkAir[1] = CommandOf(n)
    <3>1. lkRan[n] = 0 /\ \A i \in DOMAIN lkAir' : lkAir'[i] # CommandOf(n)
      BY <2>1, <2>2, <2>3, <2>5 DEF OnceInv
    <3>2. ~(lkCall[lkCalls[n]].n = n /\ lkCall[lkCalls[n]].at \in {"lock", "write", "login", "greeting"})
      BY <2>1, <2>3, <2>5 DEF OnceInv, Fresh
    <3>3. lkRan'[n] <= 1
      BY <2>1, <3>1
    <3> QED
      BY <3>1, <3>2, <3>3 DEF OnceInv
  <2>6. CASE lkCalls[n] \in Once /\ lkAir[1] # CommandOf(n)
    <3>1. lkRan'[n] = lkRan[n]
      BY <2>1, <2>6
    <3>2. \A i, j \in DOMAIN lkAir' : lkAir'[i] = CommandOf(n) /\ lkAir'[j] = CommandOf(n) => i = j
      <4> SUFFICES ASSUME NEW i \in DOMAIN lkAir', NEW j \in DOMAIN lkAir',
                          lkAir'[i] = CommandOf(n), lkAir'[j] = CommandOf(n)
                   PROVE  i = j
        OBVIOUS
      <4>1. i + 1 = j + 1
        BY <2>1, <2>2, <2>6 DEF OnceInv
      <4> QED
        BY <2>2, <4>1
    <3> QED
      BY <2>1, <2>2, <2>6, <3>1, <3>2 DEF OnceInv, Fresh
  <2> QED
    BY <2>4, <2>5, <2>6
<1> QED
  BY <1>1, <1>3, <1>4, <1>5, <1>6, LineGone

LEMMA LoseKeeps ==
    ASSUME LkInv, LinkLose
    PROVE  LkInv'
<1>1. /\ lkAir # <<>> /\ lkAir' = Tail(lkAir)
      /\ UNCHANGED <<lkRx, lkPushed, lkCalls, lkOwner, lkWaiting, lkCall, lkDown, lkStale>>
      /\ Head(lkAir) = lkAir[1]
  BY LineGone DEF LinkLose, LinkFault, LkInv
<1>2. \/ UNCHANGED lkRan
      \/ lkAir[1].kind = "command" /\ lkRan' = [lkRan EXCEPT ![lkAir[1].n] = @ + 1]
  BY <1>1 DEF LinkLose
<1>3. /\ lkAir' \in Seq(Events) /\ lkRan' \in [1..MaxLinkCalls -> Nat]
      /\ LockInv' /\ AskedInv' /\ \A c \in LinkCallers : CallInv(c)'
      /\ \A n \in DOMAIN lkCalls' : OnceInv(n)'
      /\ \A n \in DOMAIN lkCalls : lkRan'[n] = lkRan[n] \/ (lkAir[1] = CommandOf(n))
  BY <1>1, <1>2, HeadKeeps
<1>4. LkTypes'
  BY <1>1, <1>3 DEF LkInv, LkTypes
<1>5. QuietInv'
  <2> SUFFICES ASSUME ~lkStale PROVE QuietInv'
    BY <1>1 DEF QuietInv
  <2>1. lkAir' = <<>> /\ DOMAIN lkAir' = {} /\ Len(lkAir') = 0
    <3>1. Len(lkAir) <= 1
      BY DEF LkInv, QuietInv
    <3>2. Len(lkAir') = 0
      BY <1>1, <3>1, LineGone DEF LkInv
    <3> QED
      BY <1>3, <3>2, EmptySeq, LenProperties
  <2>2. \A i \in DOMAIN lkRx : lkRx[i].kind # "nag"
    BY <1>1 DEF LkInv, QuietInv, IsReply
  <2> QED
    BY <1>1, <2>1, <2>2 DEF LkInv, QuietInv, Awaits, IsReply
<1> QED
  BY <1>3, <1>4, <1>5 DEF LkInv

LEMMA DeviceKeeps ==
    ASSUME LkInv, LinkDevice \/ LinkRefuse
    PROVE  LkInv'
<1>1. /\ lkAir # <<>> /\ lkAir' = Tail(lkAir)
      /\ UNCHANGED <<lkPushed, lkCalls, lkOwner, lkWaiting, lkCall, lkDown, lkStale>>
      /\ Head(lkAir) = lkAir[1] /\ lkAir[1].n \in Nat /\ 1 \in DOMAIN lkAir
  BY LineGone DEF LinkDevice, LinkRefuse, LinkCalm, LinkFault, LkInv, Events
<1>2. PICK kind \in {"login", "status", "nag", "locked", "refused"} :
         /\ lkRx' = Append(lkRx, LinkEvent(kind, lkAir[1].n))
         /\ kind = "nag" => lkAir[1].kind = "command" /\ UNCHANGED lkRan
         /\ \/ UNCHANGED lkRan
            \/ lkAir[1].kind = "command" /\ lkRan' = [lkRan EXCEPT ![lkAir[1].n] = @ + 1]
  BY <1>1 DEF LinkDevice, LinkRefuse
<1>3. /\ lkAir' \in Seq(Events) /\ lkRan' \in [1..MaxLinkCalls -> Nat]
      /\ LockInv' /\ AskedInv' /\ \A c \in LinkCallers : CallInv(c)'
      /\ \A n \in DOMAIN lkCalls' : OnceInv(n)'
      /\ \A n \in DOMAIN lkCalls : lkRan'[n] = lkRan[n] \/ (lkAir[1] = CommandOf(n))
  BY <1>1, <1>2, HeadKeeps
<1> DEFINE e == LinkEvent(kind, lkAir[1].n)
<1>e. e \in Events /\ e.kind = kind /\ e.n = lkAir[1].n
  BY <1>1 DEF LinkEvent, Events
<1> HIDE DEF e
<1>x. /\ lkRx' \in Seq(Events) /\ Len(lkRx) \in Nat /\ DOMAIN lkRx = 1 .. Len(lkRx)
      /\ DOMAIN lkRx' = 1 .. Len(lkRx) + 1 /\ lkRx'[Len(lkRx) + 1] = e
      /\ \A i \in 1 .. Len(lkRx) : lkRx'[i] = lkRx[i]
  <2>1. lkRx \in Seq(Events) /\ lkRx' = Append(lkRx, e)
    BY <1>2 DEF LkInv, LkTypes, e
  <2> QED
    BY <1>e, <2>1, Queued
<1>4. LkTypes'
  BY <1>1, <1>3, <1>x DEF LkInv, LkTypes
<1>5. QuietInv'
  <2> SUFFICES ASSUME ~lkStale PROVE QuietInv'
    BY <1>1 DEF QuietInv
  <2>1. lkAir' = <<>> /\ DOMAIN lkAir' = {} /\ Len(lkAir') = 0
    <3>1. Len(lkAir) <= 1
      BY DEF LkInv, QuietInv
    <3>2. Len(lkAir') = 0
      BY <1>1, <3>1, LineGone DEF LkInv
    <3> QED
      BY <1>3, <3>2, EmptySeq, LenProperties
  <2>2. \A i \in DOMAIN lkRx : ~IsReply(lkRx[i])
    BY <1>1 DEF LkInv, QuietInv
  <2>3. \A i \in DOMAIN lkRx' : IsReply(lkRx'[i]) => i = Len(lkRx) + 1 /\ lkRx'[i] = e
    BY <1>x, <2>2
  <2>4. ~lkDown => Awaits(lkAir[1].n)
    BY <1>1 DEF LkInv, QuietInv
  <2>5. kind = "nag" => lkAir[1].n \in DOMAIN lkCalls
                        /\ (lkCalls[lkAir[1].n] \in Single => lkRan'[lkAir[1].n] = 0)
    <3> SUFFICES ASSUME kind = "nag" PROVE lkAir[1].n \in DOMAIN lkCalls
                        /\ (lkCalls[lkAir[1].n] \in Single => lkRan[lkAir[1].n] = 0)
      BY <1>2
    <3>1. lkAir[1].kind = "command" /\ lkAir[1].n \in DOMAIN lkCalls
          /\ lkAir[1] = CommandOf(lkAir[1].n)
      BY <1>1, <1>2, LineGone DEF LkInv, AskedInv, Events, CommandOf
    <3> QED
      BY <1>1, <3>1 DEF LkInv, OnceInv, Once
  <2>6. /\ \A i, j \in DOMAIN lkRx' : IsReply(lkRx'[i]) /\ IsReply(lkRx'[j]) => i = j
        /\ ~lkDown => \A i \in DOMAIN lkRx' : IsReply(lkRx'[i]) => Awaits(lkRx'[i].n)
        /\ \A i \in DOMAIN lkRx' : lkRx'[i].kind = "nag" =>
              lkRx'[i].n \in DOMAIN lkCalls
              /\ (lkCalls[lkRx'[i].n] \in Single => lkRan'[lkRx'[i].n] = 0)
    BY <1>e, <2>3, <2>4, <2>5 DEF IsReply
  <2>7. ~lkDown' => \A i \in DOMAIN lkRx' : IsReply(lkRx'[i]) => Awaits(lkRx[i].n)'
    BY <1>1, <2>6 DEF Awaits
  <2>8. \A i \in DOMAIN lkAir' : FALSE
    BY <2>1
  <2> QED
    <3>1. ~lkDown' => /\ \A i \in DOMAIN lkAir' : Awaits(lkAir[i].n)'
                      /\ \A i \in DOMAIN lkRx' : IsReply(lkRx[i])' => Awaits(lkRx[i].n)'
      BY <2>7, <2>8 DEF IsReply
    <3>2. /\ \A i, j \in DOMAIN lkRx' : IsReply(lkRx[i])' /\ IsReply(lkRx[j])' => i = j
          /\ \A i \in DOMAIN lkRx' : lkRx'[i].kind = "nag" =>
                lkRx'[i].n \in DOMAIN lkCalls'
                /\ (lkCalls'[lkRx'[i].n] \in Single => lkRan'[lkRx'[i].n] = 0)
      BY <1>1, <2>6 DEF IsReply
    <3>3. Len(lkAir') <= 1 /\ lkAir' = <<>>
      BY <2>1
    <3> QED
      BY <3>1, <3>2, <3>3 DEF QuietInv
<1> QED
  BY <1>3, <1>4, <1>5 DEF LkInv

\* A caller that is served, or that the supervisor, goes from the lock to its
\* first line.
LEMMA LockKeeps ==
    ASSUME LkInv, LinkLock
    PROVE  LkInv'
<1> DEFINE c == Head(lkWaiting)
           at == IF c = Supervisor THEN "login" ELSE "write"
           r == [lkCall[c] EXCEPT !.at = at, !.stage = 1]
<1>1. /\ ~lkDown /\ lkOwner = Nobody /\ lkWaiting # <<>>
      /\ lkOwner' = c /\ lkWaiting' = Tail(lkWaiting)
      /\ lkCall' = [lkCall EXCEPT ![c].at = at, ![c].stage = 1]
      /\ UNCHANGED <<lkRx, lkAir, lkRan, lkPushed, lkDown, lkStale, lkCalls>>
  BY DEF LinkLock, deviceVars, LinkCalm
<1>2. /\ lkWaiting \in Seq(LinkCallers) /\ lkCall \in [LinkCallers -> Calls]
  BY DEF LkInv, LkTypes
<1>3. /\ c \in LinkCallers /\ lkWaiting' \in Seq(LinkCallers)
      /\ 1 \in DOMAIN lkWaiting /\ lkWaiting[1] = c
      /\ \A i \in DOMAIN lkWaiting' :
            i + 1 \in DOMAIN lkWaiting /\ i + 1 # 1 /\ i \in Nat /\ lkWaiting'[i] = lkWaiting[i + 1]
  BY <1>1, <1>2
<1>4. /\ lkCall[c].at = "lock" /\ \A d \in LinkCallers : ~Active(d)
      /\ \A i \in DOMAIN lkWaiting' : lkWaiting'[i] # c /\ lkCall[lkWaiting'[i]].at = "lock"
                                      /\ lkWaiting'[i] \in LinkCallers
  <2>1. lkCall[c].at = "lock" /\ \A d \in LinkCallers : ~Active(d)
    BY <1>1, <1>3, CallersAre DEF LkInv, LockInv
  <2>2. ASSUME NEW i \in DOMAIN lkWaiting'
        PROVE  lkWaiting'[i] # c /\ lkCall[lkWaiting'[i]].at = "lock"
    <3>1. i + 1 \in DOMAIN lkWaiting /\ i + 1 # 1 /\ lkWaiting'[i] = lkWaiting[i + 1]
      BY <1>3, <2>2
    <3> QED
      BY <1>3, <3>1 DEF LkInv, LockInv
  <2>3. \A i \in DOMAIN lkWaiting' : lkWaiting'[i] \in LinkCallers
    BY <1>3, LenProperties
  <2> QED
    BY <2>1, <2>2, <2>3
<1> HIDE DEF c
<1>5. /\ at \in {"login", "write"} /\ r \in Calls /\ r.at = at /\ r.n = lkCall[c].n
      /\ lkCall' = [lkCall EXCEPT ![c] = r]
      /\ c = Supervisor => at = "login"
      /\ c # Supervisor => at = "write"
  <2>1. at \in {"login", "write"} /\ lkCall[c] \in Calls
    BY <1>2, <1>3
  <2> HIDE DEF at
  <2>2. r \in Calls /\ r.at = at /\ r.n = lkCall[c].n
    BY <2>1 DEF Calls
  <2>3. lkCall' = [lkCall EXCEPT ![c] = r]
    BY <1>1, <1>2, <1>3
  <2> QED
    BY <2>1, <2>2, <2>3 DEF at
<1> HIDE DEF at, r
<1>6. /\ lkCall' \in [LinkCallers -> Calls] /\ lkCall'[c].at = at /\ lkCall'[c].n = lkCall[c].n
      /\ \A d \in LinkCallers : d # c => lkCall'[d] = lkCall[d]
  BY <1>2, <1>3, <1>5
<1>7. LkTypes'
  BY <1>1, <1>3, <1>6 DEF LkInv, LkTypes
<1>8. LockInv'
  <2>1. \A d \in LinkCallers : Active(d)' => lkOwner' = d
    BY <1>1, <1>4, <1>6 DEF Active
  <2>2. \A i \in DOMAIN lkWaiting' : lkCall'[lkWaiting'[i]].at = "lock"
    BY <1>4, <1>6
  <2>3. ASSUME NEW i \in DOMAIN lkWaiting', NEW j \in DOMAIN lkWaiting',
               lkWaiting'[i] = lkWaiting'[j]
        PROVE  i = j
    <3>1. /\ i + 1 \in DOMAIN lkWaiting /\ i \in Nat /\ lkWaiting'[i] = lkWaiting[i + 1]
          /\ j + 1 \in DOMAIN lkWaiting /\ j \in Nat /\ lkWaiting'[j] = lkWaiting[j + 1]
      BY <1>3, <2>3
    <3>2. i + 1 = j + 1
      BY <2>3, <3>1 DEF LkInv, LockInv
    <3> QED
      BY <3>1, <3>2
  <2> QED
    BY <1>1, <2>1, <2>2, <2>3 DEF LockInv
<1>9. AskedInv'
  BY <1>1 DEF LkInv, AskedInv
<1>10. ASSUME NEW d \in LinkCallers PROVE CallInv(d)'
  <2>1. CASE d = c
    BY <1>1, <1>4, <1>5, <1>6, <2>1, CallersAre DEF LkInv, CallInv
  <2>2. CASE d # c
    BY <1>1, <1>6, <2>2 DEF LkInv, CallInv
  <2> QED
    BY <2>1, <2>2
<1>11. ASSUME NEW n \in DOMAIN lkCalls' PROVE OnceInv(n)'
  <2>1. OnceInv(n) /\ lkCalls' = lkCalls /\ lkCalls[n] \in LinkCallers
    BY <1>1, <1>11, ElementOfSeq, LenProperties DEF LkInv, LkTypes
  <2>2. CASE lkCalls[n] = c
    BY <1>1, <1>4, <1>5, <1>6, <2>1, <2>2 DEF OnceInv, Once, Fresh
  <2>3. CASE lkCalls[n] # c
    BY <1>1, <1>6, <2>1, <2>3 DEF OnceInv, Once, Fresh
  <2> QED
    BY <2>2, <2>3
<1>12. QuietInv'
  <2>1. Nobody \in LinkCallers \cup {Nobody}
    OBVIOUS
  <2>2. ~lkStale => Nothing
    BY <1>1, <2>1, NobodyAwaits
  <2>3. ~lkStale' => Nothing'
    BY <1>1, <2>2 DEF Nothing, IsReply
  <2> QED
    BY <2>3, NothingIsQuiet
<1> QED
  BY <1>7, <1>8, <1>9, <1>10, <1>11, <1>12 DEF LkInv

\* The reopened port has the supervisor alone in the queue for its lock.
LEMMA ReopenKeeps ==
    ASSUME LkInv, LinkReopen
    PROVE  LkInv'
<1> DEFINE r == [LinkIdle EXCEPT !.at = "lock"]
<1>1. /\ lkDown /\ lkRx' = <<>> /\ lkPushed' = 0 /\ lkWaiting' = <<Supervisor>>
      /\ lkCall' = [lkCall EXCEPT ![Supervisor] = r]
      /\ lkStale' = (lkStale \/ lkAir # <<>>)
      /\ UNCHANGED <<lkAir, lkRan, lkOwner, lkCalls>>
  BY DEF LinkReopen, deviceVars, LinkCalm
<1>2. r \in Calls /\ r.at = "lock"
  BY DEF LinkIdle, Calls
<1> HIDE DEF r
<1>3. /\ lkCall' \in [LinkCallers -> Calls] /\ lkCall'[Supervisor].at = "lock"
      /\ \A c \in LinkCallers : c # Supervisor =>
            lkCall'[c] = lkCall[c] /\ lkCall'[c].at = "idle"
  <2>1. \A c \in LinkCallers : lkCall[c].at = "idle"
    BY <1>1 DEF LkInv, LockInv
  <2> QED
    BY <1>1, <1>2, <2>1, CallersAre DEF LkInv, LkTypes
<1>4. /\ lkWaiting' \in Seq(LinkCallers) /\ DOMAIN lkWaiting' = {1}
      /\ lkWaiting'[1] = Supervisor
  BY <1>1, CallersAre
<1>5. LkTypes'
  BY <1>1, <1>3, <1>4, EmptySeq DEF LkInv, LkTypes
<1>6. LockInv'
  <2>1. ~lkDown'
    BY DEF LinkReopen
  <2>2. \A c \in LinkCallers : ~Active(c)'
    BY <1>3 DEF Active
  <2> QED
    BY <1>3, <1>4, <2>1, <2>2 DEF LockInv
<1>7. AskedInv'
  BY <1>1 DEF LkInv, AskedInv
<1>8. \A c \in LinkCallers : CallInv(c)'
  BY <1>3, CallersAre DEF CallInv
<1>9. ASSUME NEW n \in DOMAIN lkCalls' PROVE OnceInv(n)'
  <2>1. OnceInv(n) /\ lkCalls' = lkCalls /\ lkCalls[n] \in LinkCallers
    BY <1>1, <1>9, ElementOfSeq, LenProperties DEF LkInv, LkTypes
  <2>2. CASE lkCalls[n] = Supervisor
    BY <1>1, <2>2, CallersAre DEF OnceInv, Once
  <2>3. CASE lkCalls[n] # Supervisor
    BY <1>1, <1>3, <2>1, <2>3 DEF OnceInv, Once, Fresh
  <2> QED
    BY <2>2, <2>3
<1>10. QuietInv'
  <2>0. lkRx' = <<>> /\ (~lkStale' => lkAir' = <<>>)
    BY <1>1
  <2>1. DOMAIN lkRx' = {}
    BY <2>0
  <2>2. ~lkStale' => Nothing'
    BY <2>0, <2>1 DEF Nothing
  <2> QED
    BY <2>2, NothingIsQuiet
<1> QED
  BY <1>5, <1>6, <1>7, <1>8, <1>9, <1>10 DEF LkInv

\* A new call has a number that nothing on the wire bears.
LEMMA AskKeeps ==
    ASSUME LkInv, NEW c \in LinkCallers, LinkAsk(c)
    PROVE  LkInv'
<1> DEFINE m == Len(lkCalls) + 1
           r == [LinkIdle EXCEPT !.at = "lock", !.n = m]
<1>1. /\ ~lkDown /\ c # Supervisor /\ lkCall[c] = LinkIdle /\ Len(lkCalls) < MaxLinkCalls
      /\ lkCalls' = Append(lkCalls, c) /\ lkWaiting' = Append(lkWaiting, c)
      /\ lkCall' = [lkCall EXCEPT ![c] = r]
      /\ UNCHANGED <<lkRx, lkAir, lkRan, lkOwner, lkPushed, lkDown, lkStale>>
  BY DEF LinkAsk, deviceVars
<1>2. /\ lkCalls \in Seq(LinkCallers) /\ lkWaiting \in Seq(LinkCallers)
      /\ lkCall \in [LinkCallers -> Calls] /\ Len(lkCalls) \in Nat
  BY LenProperties DEF LkInv, LkTypes
<1>3. m \in Nat /\ m \in 1..MaxLinkCalls /\ m \notin DOMAIN lkCalls
  BY <1>1, <1>2, LinkAssumption, LenProperties
<1>4. /\ lkCalls' \in Seq(LinkCallers) /\ DOMAIN lkCalls' = DOMAIN lkCalls \cup {m}
      /\ lkCalls'[m] = c /\ Len(lkCalls') = m
      /\ \A n \in DOMAIN lkCalls : lkCalls'[n] = lkCalls[n] /\ lkCalls[n] \in LinkCallers
  <2>1. /\ DOMAIN lkCalls = 1 .. Len(lkCalls)
        /\ \A n \in DOMAIN lkCalls : lkCalls[n] \in LinkCallers
    BY <1>2, LenProperties, ElementOfSeq
  <2> QED
    BY <1>1, <1>2, <2>1, Queued
<1>5. /\ lkWaiting' \in Seq(LinkCallers)
      /\ \A i \in DOMAIN lkWaiting : lkCall[lkWaiting[i]].at = "lock" /\ lkWaiting[i] \in LinkCallers
      /\ \A i \in DOMAIN lkWaiting' :
            \/ i \in DOMAIN lkWaiting /\ lkWaiting'[i] = lkWaiting[i]
            \/ i = Len(lkWaiting) + 1 /\ lkWaiting'[i] = c
  <2>1. \A i \in DOMAIN lkWaiting : lkCall[lkWaiting[i]].at = "lock" /\ lkWaiting[i] \in LinkCallers
    BY <1>2, LenProperties, ElementOfSeq DEF LkInv, LockInv
  <2> QED
    BY <1>1, <1>2, <2>1, Queued
<1> HIDE DEF m
<1>6. r \in Calls /\ r.at = "lock" /\ r.n = m
  BY <1>3 DEF LinkIdle, Calls
<1> HIDE DEF r
<1>7. /\ lkCall' \in [LinkCallers -> Calls] /\ lkCall'[c].at = "lock" /\ lkCall'[c].n = m
      /\ lkCall[c].at = "idle" /\ \A d \in LinkCallers : d # c => lkCall'[d] = lkCall[d]
  BY <1>1, <1>2, <1>6, IdleIs
<1>8. LkTypes'
  BY <1>1, <1>3, <1>4, <1>5, <1>7, LinkAssumption DEF LkInv, LkTypes
<1>9. LockInv'
  <2>1. \A d \in LinkCallers : Active(d)' => lkOwner' = d
    BY <1>1, <1>7 DEF LkInv, LockInv, Active
  <2>2. \A i \in DOMAIN lkWaiting' : lkCall'[lkWaiting'[i]].at = "lock"
    BY <1>5, <1>7
  <2>3. \A i \in DOMAIN lkWaiting : lkWaiting[i] # c
    BY <1>5, <1>7
  <2>4. \A i, j \in DOMAIN lkWaiting' : lkWaiting'[i] = lkWaiting'[j] => i = j
    BY <1>5, <2>3 DEF LkInv, LockInv
  <2> QED
    BY <1>1, <2>1, <2>2, <2>4 DEF LockInv
<1>10. AskedInv'
  BY <1>1, <1>4 DEF LkInv, AskedInv
<1>11. ASSUME NEW d \in LinkCallers PROVE CallInv(d)'
  <2>1. CASE d = c
    BY <1>1, <1>4, <1>7, <2>1 DEF CallInv
  <2>2. CASE d # c
    BY <1>4, <1>7, <2>2 DEF LkInv, CallInv
  <2> QED
    BY <2>1, <2>2
<1>12. ASSUME NEW n \in DOMAIN lkCalls' PROVE OnceInv(n)'
  <2>1. CASE n = m
    <3>1. lkRan[m] = 0
      BY <1>3 DEF LkInv, AskedInv
    <3>2. \A i \in DOMAIN lkAir : lkAir[i] # CommandOf(m)
      BY <1>3 DEF LkInv, AskedInv, CommandOf
    <3> QED
      BY <1>1, <2>1, <3>1, <3>2 DEF OnceInv, Fresh
  <2>2. CASE n # m
    <3>1. n \in DOMAIN lkCalls /\ lkCalls'[n] = lkCalls[n] /\ OnceInv(n) /\ lkCalls[n] \in LinkCallers
      BY <1>4, <1>12, <2>2 DEF LkInv
    <3>2. CASE lkCalls[n] = c
      BY <1>1, <1>7, <2>2, <3>1, <3>2 DEF OnceInv, Once
    <3>3. CASE lkCalls[n] # c
      BY <1>1, <1>7, <3>1, <3>3 DEF OnceInv, Once, Fresh
    <3> QED
      BY <3>2, <3>3
  <2> QED
    BY <2>1, <2>2
<1>13. QuietInv'
  <2> SUFFICES ASSUME ~lkStale PROVE QuietInv'
    BY <1>1 DEF QuietInv
  <2>1. \A n : Awaits(n) => lkOwner' = lkOwner /\ lkCall'[lkOwner] = lkCall[lkOwner]
    <3> SUFFICES ASSUME NEW n, Awaits(n) PROVE lkCall'[lkOwner] = lkCall[lkOwner]
      BY <1>1
    <3>1. lkOwner \in LinkCallers /\ lkOwner # c
      BY <1>7 DEF LkInv, LkTypes, Awaits
    <3> QED
      BY <1>7, <3>1
  <2>2. /\ ~lkDown => /\ \A i \in DOMAIN lkAir : Awaits(lkAir[i].n)
                      /\ \A i \in DOMAIN lkRx : IsReply(lkRx[i]) => Awaits(lkRx[i].n)
        /\ \A n : Awaits(n) => (Awaits(n))'
    BY <1>1, <2>1 DEF LkInv, QuietInv, Awaits
  <2>3. \A i \in DOMAIN lkRx : lkRx[i].kind = "nag" =>
            lkRx[i].n \in DOMAIN lkCalls /\ lkCalls'[lkRx[i].n] = lkCalls[lkRx[i].n]
    BY <1>4 DEF LkInv, QuietInv
  <2> QED
    BY <1>1, <1>4, <2>2, <2>3 DEF LkInv, QuietInv, IsReply
<1> QED
  BY <1>8, <1>9, <1>10, <1>11, <1>12, <1>13 DEF LkInv

-----------------------------------------------------------------------------
\* Nothing is under way and nothing was asked at the start.
LEMMA LkInitInv == LinkInit => LkInv
<1> SUFFICES ASSUME LinkInit PROVE LkInv
  OBVIOUS
<1>1. /\ lkRx = <<>> /\ lkAir = <<>> /\ lkWaiting = <<>> /\ lkCalls = <<>>
      /\ DOMAIN lkRx = {} /\ DOMAIN lkAir = {} /\ DOMAIN lkWaiting = {} /\ DOMAIN lkCalls = {}
      /\ Len(lkCalls) = 0 /\ Len(lkAir) = 0 /\ lkPushed = 0 /\ ~lkDown
      /\ lkRan = [n \in 1..MaxLinkCalls |-> 0] /\ lkOwner = Nobody
      /\ lkRx \in Seq(Events) /\ lkAir \in Seq(Events)
      /\ lkWaiting \in Seq(LinkCallers) /\ lkCalls \in Seq(LinkCallers)
  BY EmptySeq DEF LinkInit
<1>2. /\ lkCall \in [LinkCallers -> Calls]
      /\ \A c \in LinkCallers : lkCall[c].at = "idle"
  BY IdleIs DEF LinkInit
<1>3. LkTypes
  BY <1>1, <1>2, LinkAssumption DEF LkTypes
<1>4. LockInv /\ AskedInv
  BY <1>1, <1>2 DEF LockInv, AskedInv, Active
<1>5. QuietInv
  BY <1>1 DEF QuietInv
<1>6. \A c \in LinkCallers : CallInv(c)
  BY <1>2 DEF CallInv
<1> QED
  BY <1>1, <1>3, <1>4, <1>5, <1>6 DEF LkInv

LEMMA LkStepInv == LkInv /\ [LinkNext]_linkVars => LkInv'
<1> SUFFICES ASSUME LkInv, [LinkNext]_linkVars PROVE LkInv'
  OBVIOUS
<1>1. CASE LinkDevice \/ LinkRefuse \/ LinkLose \/ LinkPush \/ LinkSignOut \/ LinkDies
  BY <1>1, DeviceKeeps, LoseKeeps, PushKeeps
<1>2. CASE LinkLock \/ LinkPump \/ LinkRebootSeen \/ LinkHintCleared \/ LinkReopen
  BY <1>2, LockKeeps, ClosedKeeps, ReopenKeeps
<1>3. ASSUME NEW c \in LinkCallers, LinkAsk(c) \/ LinkStep(c) PROVE LkInv'
  <2>1. CASE LinkAsk(c)
    BY <2>1, AskKeeps
  <2>2. CASE LinkWrite(c) \/ LinkReply(c) \/ LinkNag(c) \/ LinkRead(c)
    BY <2>2, WriteKeeps, ReplyKeeps, NagKeeps, ReadKeeps
  <2>3. CASE LinkTimeout(c) \/ LinkLogin(c) \/ LinkGreeted(c)
    BY <2>3, TimeoutKeeps, LoginKeeps, GreetedKeeps
  <2>4. CASE LinkNoGreeting(c) \/ LinkClosedRead(c)
    BY <2>4, NoGreetingKeeps, ClosedKeeps
  <2>5. CASE LinkWriteFails(c) \/ LinkLockedOut(c) \/ LinkRefused(c)
    BY <2>5, WriteFailsKeeps, LockedOutKeeps, RefusedKeeps
  <2> QED
    BY <1>3, <2>1, <2>2, <2>3, <2>4, <2>5 DEF LinkStep
<1>4. CASE UNCHANGED linkVars
  <2>1. UNCHANGED <<lkRx, lkAir, lkRan, lkPushed, lkCalls, lkOwner, lkWaiting, lkCall, lkDown, lkStale>>
    BY <1>4 DEF linkVars
  <2>2. Shorter
    BY <2>1, SameIsShorter DEF LkInv
  <2> QED
    BY <2>1, <2>2, ReadsKeeps DEF OnlyCalls
<1> QED
  BY <1>1, <1>2, <1>3, <1>4 DEF LinkNext

\* A command that must not be repeated runs at most once, however many lines
\* are lost, late or answered by a nag, and however often the link falls
\* (command, _command_once and _login_locked of link/session.py).
THEOREM RunsOnce == LinkSpec => []LinkRunsOnce
<1>1. LkInv => LinkRunsOnce
  BY DEF LkInv, LinkRunsOnce, OnceInv, Once
<1> QED
  BY <1>1, LkInitInv, LkStepInv, PTL DEF LinkSpec

-----------------------------------------------------------------------------
(* LinkSession: no event is lost with a reply, doubled or reordered.         *)

NumbersOf(s) == [i \in DOMAIN s |-> Number(s[i])]

\* What the numbers of events do when one comes, and when some are read.
LEMMA NumbersAre ==
    ASSUME NEW s \in Seq(Events)
    PROVE  NumbersOf(s) \in Seq(Seq(Nat)) /\ Numbers(s) \in Seq(Nat) /\ Numbers(<<>>) = <<>>
<1>1. /\ Len(s) \in Nat /\ DOMAIN s = 1 .. Len(s) /\ \A i \in 1 .. Len(s) : s[i] \in Events
  BY LenProperties, ElementOfSeq
<1>2. \A e \in Events : Number(e) \in Seq(Nat)
  BY DEF Number, Events
<1>3. NumbersOf(s) \in Seq(Seq(Nat))
  BY <1>1, <1>2 DEF NumbersOf
<1>4. [i \in DOMAIN <<>> |-> Number(<<>>[i])] = <<>>
  OBVIOUS
<1>5. <<>> \in Seq(Nat)
  OBVIOUS
<1> QED
  BY <1>3, <1>4, <1>5, FlatConcat, FlatOne DEF Numbers, NumbersOf

LEMMA NumberComes ==
    ASSUME NEW s \in Seq(Events), NEW e \in Events
    PROVE  Numbers(Append(s, e)) = Numbers(s) \o Number(e)
<1>1. Number(e) \in Seq(Nat) /\ NumbersOf(s) \in Seq(Seq(Nat))
  BY NumbersAre DEF Number, Events
<1>2. NumbersOf(Append(s, e)) = Append(NumbersOf(s), Number(e))
  BY DEF NumbersOf
<1>3. FlattenSeq(Append(NumbersOf(s), Number(e))) = FlattenSeq(NumbersOf(s)) \o Number(e)
  BY <1>1, FlatQueue
<1> QED
  BY <1>2, <1>3 DEF Numbers, NumbersOf

LEMMA NumbersSplit ==
    ASSUME NEW s \in Seq(Events), NEW k \in 0 .. Len(s)
    PROVE  /\ SubSeq(s, 1, k) \in Seq(Events) /\ SubSeq(s, k + 1, Len(s)) \in Seq(Events)
           /\ Numbers(s) = Numbers(SubSeq(s, 1, k)) \o Numbers(SubSeq(s, k + 1, Len(s)))
<1> DEFINE a == SubSeq(s, 1, k)
           b == SubSeq(s, k + 1, Len(s))
<1>1. /\ Len(s) \in Nat /\ DOMAIN s = 1 .. Len(s) /\ k \in Nat /\ k <= Len(s)
      /\ a \in Seq(Events) /\ Len(a) = k /\ \A i \in 1 .. k : a[i] = s[i]
  OBVIOUS
<1>2. /\ b \in Seq(Events) /\ DOMAIN b = 1 .. Len(s) - k
      /\ \A i \in 1 .. Len(s) - k : b[i] = s[i + k]
  BY RestOf
<1> HIDE DEF a, b
<1>3. /\ NumbersOf(a) \in Seq(Seq(Nat)) /\ NumbersOf(b) \in Seq(Seq(Nat))
      /\ NumbersOf(s) \in Seq(Seq(Nat))
  BY <1>1, <1>2, NumbersAre
<1>4. DOMAIN a = 1 .. k
  BY <1>1, LenProperties
<1>5. /\ Len(NumbersOf(a)) = k /\ Len(NumbersOf(b)) = Len(s) - k /\ Len(NumbersOf(s)) = Len(s)
      /\ \A i \in 1 .. k : NumbersOf(a)[i] = Number(s[i])
      /\ \A i \in 1 .. Len(s) - k : NumbersOf(b)[i] = Number(s[i + k])
      /\ \A i \in 1 .. Len(s) : NumbersOf(s)[i] = Number(s[i])
  <2>1. /\ DOMAIN NumbersOf(a) = 1 .. k /\ DOMAIN NumbersOf(b) = 1 .. Len(s) - k
        /\ DOMAIN NumbersOf(s) = 1 .. Len(s)
    BY <1>1, <1>2, <1>4 DEF NumbersOf
  <2>2. /\ \A i \in 1 .. k : NumbersOf(a)[i] = Number(s[i])
        /\ \A i \in 1 .. Len(s) - k : NumbersOf(b)[i] = Number(s[i + k])
        /\ \A i \in 1 .. Len(s) : NumbersOf(s)[i] = Number(s[i])
    BY <1>1, <1>2, <1>4 DEF NumbersOf
  <2>3. Len(s) - k \in Nat
    BY <1>1
  <2>4. ASSUME NEW t \in Seq(Seq(Nat)), NEW n \in Nat, DOMAIN t = 1 .. n PROVE Len(t) = n
    BY <2>4
  <2> QED
    BY <1>1, <1>3, <2>1, <2>2, <2>3, <2>4
<1>6. NumbersOf(s) = NumbersOf(a) \o NumbersOf(b)
  <2> DEFINE x == NumbersOf(a)
             y == NumbersOf(b)
             z == NumbersOf(s)
  <2> HIDE DEF x, y, z
  <2>1. /\ x \in Seq(Seq(Nat)) /\ y \in Seq(Seq(Nat)) /\ z \in Seq(Seq(Nat))
        /\ Len(x) = k /\ Len(y) = Len(s) - k /\ Len(z) = Len(s)
        /\ \A i \in 1 .. k : x[i] = z[i]
        /\ \A i \in 1 .. Len(s) - k : y[i] = z[i + k]
    <3>1. \A i \in 1 .. Len(s) - k : i + k \in 1 .. Len(s)
      BY <1>1
    <3>2. \A i \in 1 .. k : i \in 1 .. Len(s)
      BY <1>1
    <3> QED
      BY <1>3, <1>5, <3>1, <3>2 DEF x, y, z
  <2>c. /\ x \o y \in Seq(Seq(Nat)) /\ Len(x \o y) = Len(x) + Len(y)
        /\ \A i \in 1 .. Len(x) + Len(y) :
              (x \o y)[i] = IF i <= Len(x) THEN x[i] ELSE y[i - Len(x)]
    <3>1. x \in Seq(Seq(Nat)) /\ y \in Seq(Seq(Nat))
      BY <2>1
    <3> QED
      BY ONLY <3>1, ConcatProperties
  <2>l. Len(x) + Len(y) = Len(z)
    BY <1>1, <2>1
  <2>2. x \o y \in Seq(Seq(Nat)) /\ Len(x \o y) = Len(z)
    BY <2>c, <2>l
  <2>3. ASSUME NEW i \in 1 .. Len(z) PROVE (x \o y)[i] = z[i]
    <3>1. (x \o y)[i] = IF i <= k THEN x[i] ELSE y[i - k]
      BY <2>1, <2>c, <2>l
    <3>2. i \in Nat /\ (i <= k => i \in 1 .. k) /\ (i > k => i - k \in 1 .. Len(s) - k /\ (i - k) + k = i)
      BY <1>1, <2>1, <2>3
    <3> QED
      BY <1>1, <2>1, <3>1, <3>2
  <2> QED
    BY <2>1, <2>2, <2>3, SeqEqual DEF x, y, z
<1>7. FlattenSeq(NumbersOf(a) \o NumbersOf(b)) = FlattenSeq(NumbersOf(a)) \o FlattenSeq(NumbersOf(b))
  BY <1>3, FlatConcat
<1> QED
  BY <1>1, <1>2, <1>6, <1>7 DEF Numbers, NumbersOf, a, b

\* Joining sequences of numbers associates.
LEMMA Joined ==
    ASSUME NEW a \in Seq(Nat), NEW b \in Seq(Nat), NEW c \in Seq(Nat)
    PROVE  /\ a \o (b \o c) = (a \o b) \o c /\ a \o b \in Seq(Nat) /\ a \o <<>> = a /\ <<>> \o a = a
<1>1. a \o b \in Seq(Nat) /\ a \o <<>> = a /\ <<>> \o a = a
  BY ConcatProperties, ConcatEmptySeq
<1>2. a \o (b \o c) = (a \o b) \o c
  BY ONLY a \in Seq(Nat), b \in Seq(Nat), c \in Seq(Nat), ConcatProperties, SeqEqual, SMTT(30)
<1> QED
  BY <1>1, <1>2

RoutedInv == lkRouted \in Seq(Nat) /\ LinkEventsRouted

LEMMA ReadRouted ==
    ASSUME LkTypes, RoutedInv, NEW k \in 0 .. Len(lkRx), Consumed(k), lkPushed' = lkPushed,
           lkDown => lkDown'
    PROVE  RoutedInv'
<1> DEFINE seen == SubSeq(lkRx, 1, k)
           rest == SubSeq(lkRx, k + 1, Len(lkRx))
<1>1. lkRx' = rest /\ lkRouted' = lkRouted \o Numbers(seen)
  BY DEF Consumed
<1>2. /\ seen \in Seq(Events) /\ rest \in Seq(Events)
      /\ Numbers(lkRx) = Numbers(seen) \o Numbers(rest)
  BY NumbersSplit DEF LkTypes
<1> HIDE DEF seen, rest
<1>3. Numbers(seen) \in Seq(Nat) /\ Numbers(rest) \in Seq(Nat) /\ lkRouted \in Seq(Nat)
  BY <1>2, NumbersAre DEF RoutedInv
<1>4. lkRouted' \o Numbers(rest) = lkRouted \o Numbers(lkRx) /\ lkRouted' \in Seq(Nat)
  <2> DEFINE x == Numbers(seen)
             y == Numbers(rest)
  <2>1. x \in Seq(Nat) /\ y \in Seq(Nat) /\ lkRouted \in Seq(Nat)
    BY <1>3
  <2> HIDE DEF x, y
  <2>2. lkRouted \o (x \o y) = (lkRouted \o x) \o y /\ lkRouted \o x \in Seq(Nat)
    BY ONLY <2>1, Joined, SMTT(30)
  <2> QED
    BY <1>1, <1>2, <2>2 DEF x, y
<1>5. Numbers(lkRx)' = Numbers(rest)
  BY <1>1 DEF Numbers, Number, IsPush
<1> QED
  BY <1>1, <1>4, <1>5 DEF RoutedInv, LinkEventsRouted

LEMMA FirstRouted ==
    ASSUME LkTypes, RoutedInv, lkRx # <<>>, Consumed(1), lkPushed' = lkPushed, lkDown => lkDown'
    PROVE  RoutedInv'
<1>1. 1 \in 0 .. Len(lkRx)
  BY EmptySeq, LenProperties DEF LkTypes
<1> QED
  BY <1>1, ReadRouted

LEMMA DrainedRouted ==
    ASSUME LkTypes, RoutedInv, Drained, lkPushed' = lkPushed, lkDown => lkDown'
    PROVE  RoutedInv'
<1>1. PICK k \in IF Ended THEN Ends ELSE {Len(lkRx)} : Consumed(k)
  BY DEF Drained
<1>2. k \in 0 .. Len(lkRx)
  BY <1>1, LenProperties DEF Ends, LkTypes
<1> QED
  BY <1>1, <1>2, ReadRouted

LEMMA SameRouted ==
    ASSUME RoutedInv, UNCHANGED <<lkRouted, lkPushed>>, lkDown' \/ lkRx' = lkRx, lkDown => lkDown'
    PROVE  RoutedInv'
  BY DEF RoutedInv, LinkEventsRouted, Numbers, Number, IsPush

LEMMA ComesRouted ==
    ASSUME LkTypes, RoutedInv, NEW e \in Events, ~IsPush(e), lkRx' = Append(lkRx, e),
           UNCHANGED <<lkRouted, lkPushed, lkDown>>
    PROVE  RoutedInv'
<1>1. Numbers(lkRx) \in Seq(Nat) /\ Numbers(Append(lkRx, e)) = Numbers(lkRx) \o <<>>
  BY NumberComes, NumbersAre DEF LkTypes, Number
<1>2. Numbers(Append(lkRx, e)) = Numbers(lkRx)
  BY <1>1, Joined DEF RoutedInv
<1>3. Numbers(lkRx)' = Numbers(Append(lkRx, e))
  BY DEF Numbers, Number, IsPush
<1> QED
  BY <1>2, <1>3 DEF RoutedInv, LinkEventsRouted

LEMMA PushRouted ==
    ASSUME LkTypes, RoutedInv, LinkPush
    PROVE  RoutedInv'
<1>1. PICK kind \in Pushes : lkRx' = Append(lkRx, LinkEvent(kind, lkPushed + 1))
  BY DEF LinkPush
<1> DEFINE e == LinkEvent(kind, lkPushed + 1)
           n == lkPushed + 1
<1>2. e \in Events /\ Number(e) = <<n>> /\ n \in Nat
  BY DEF Events, LinkEvent, Number, IsPush, Pushes, LkTypes
<1>3. lkPushed' = n /\ UNCHANGED <<lkRouted, lkDown>>
  BY DEF LinkPush
<1> HIDE DEF e
<1>a. lkRx \in Seq(Events) /\ lkRouted \in Seq(Nat) /\ <<n>> \in Seq(Nat)
  BY <1>2 DEF LkTypes, RoutedInv
<1>4. Numbers(lkRx) \in Seq(Nat) /\ Numbers(Append(lkRx, e)) = Numbers(lkRx) \o <<n>>
  <2>1. Numbers(Append(lkRx, e)) = Numbers(lkRx) \o Number(e)
    BY <1>2, <1>a, NumberComes
  <2> QED
    BY <1>2, <1>a, <2>1, NumbersAre
<1>5. Numbers(lkRx)' = Numbers(Append(lkRx, e))
  BY <1>1 DEF Numbers, Number, IsPush, e
<1>6. lkRouted \o Numbers(Append(lkRx, e)) = (lkRouted \o Numbers(lkRx)) \o <<n>>
  <2>1. lkRouted \o (Numbers(lkRx) \o <<n>>) = (lkRouted \o Numbers(lkRx)) \o <<n>>
    BY ONLY <1>4, <1>a, Joined
  <2> QED
    BY <1>4, <2>1
<1>7. [i \in 1 .. lkPushed |-> i] \o <<n>> = [i \in 1 .. n |-> i]
  BY DEF LkTypes
<1> QED
  BY <1>3, <1>5, <1>6, <1>7 DEF RoutedInv, LinkEventsRouted

\* A nag is no event.
LEMMA NagRouted ==
    ASSUME LkTypes, RoutedInv, lkRx # <<>>, lkRx[1].kind = "nag", lkRx' = Tail(lkRx),
           UNCHANGED <<lkRouted, lkPushed>>, lkDown => lkDown'
    PROVE  RoutedInv'
<1>1. 1 \in 0 .. Len(lkRx) /\ lkRx \in Seq(Events)
  BY EmptySeq, LenProperties DEF LkTypes
<1>2. /\ Numbers(lkRx) = Numbers(SubSeq(lkRx, 1, 1)) \o Numbers(SubSeq(lkRx, 1 + 1, Len(lkRx)))
      /\ SubSeq(lkRx, 1 + 1, Len(lkRx)) \in Seq(Events)
  BY <1>1, NumbersSplit
<1>3. SubSeq(lkRx, 1 + 1, Len(lkRx)) = Tail(lkRx)
  BY <1>1, TailIsSubSeq
<1>4. Numbers(SubSeq(lkRx, 1, 1)) = <<>>
  <2>1. SubSeq(lkRx, 1, 1) = <<lkRx[1]>>
    <3>1. lkRx # <<>> /\ Len(lkRx) \in Nat /\ Len(lkRx) >= 1 /\ DOMAIN lkRx = 1 .. Len(lkRx)
      BY <1>1, EmptySeq, LenProperties
    <3>2. lkRx[1] \in Events
      BY <1>1, <3>1, ElementOfSeq
    <3>3. /\ SubSeq(lkRx, 1, 1) \in Seq(Events) /\ Len(SubSeq(lkRx, 1, 1)) = 1
          /\ SubSeq(lkRx, 1, 1)[1] = lkRx[1]
      BY <1>1, <3>1
    <3>4. /\ <<lkRx[1]>> \in Seq(Events) /\ Len(<<lkRx[1]>>) = 1 /\ <<lkRx[1]>>[1] = lkRx[1]
      BY <3>2
    <3>5. \A i \in 1 .. 1 : i = 1
      OBVIOUS
    <3> QED
      BY <3>3, <3>4, <3>5, SeqEqual
  <2>2. Number(lkRx[1]) = <<>> /\ <<>> \in Seq(Nat)
    BY DEF Number, IsPush, Pushes
  <2>3. [i \in DOMAIN <<lkRx[1]>> |-> Number(<<lkRx[1]>>[i])] = <<Number(lkRx[1])>>
    OBVIOUS
  <2> QED
    BY <2>1, <2>2, <2>3, FlatOne DEF Numbers
<1>5. Numbers(Tail(lkRx)) = Numbers(lkRx)
  BY <1>2, <1>3, <1>4, NumbersAre, Joined
<1>6. Numbers(lkRx)' = Numbers(Tail(lkRx))
  BY DEF Numbers, Number, IsPush
<1> QED
  BY <1>5, <1>6 DEF RoutedInv, LinkEventsRouted

LEMMA RoutedInit == LinkInit => RoutedInv
<1> SUFFICES ASSUME LinkInit PROVE RoutedInv
  OBVIOUS
<1>1. lkRx = <<>> /\ lkRouted = <<>> /\ lkPushed = 0 /\ <<>> \in Seq(Nat) /\ <<>> \in Seq(Events)
  BY DEF LinkInit
<1>2. Numbers(<<>>) = <<>> /\ <<>> \o <<>> = <<>>
  BY <1>1, NumbersAre, Joined
<1>3. [i \in 1 .. 0 |-> i] = <<>>
  OBVIOUS
<1> QED
  BY <1>1, <1>2, <1>3 DEF RoutedInv, LinkEventsRouted

LEMMA RoutedStep ==
    ASSUME LkTypes, RoutedInv, [LinkNext]_linkVars
    PROVE  RoutedInv'
<1>1. CASE LinkDevice \/ LinkRefuse
  <2>1. lkAir # <<>> /\ Head(lkAir) \in Events
    BY <1>1, EmptySeq, HeadTailProperties DEF LinkDevice, LinkRefuse, LkTypes
  <2>2. PICK e \in Events : ~IsPush(e) /\ lkRx' = Append(lkRx, e)
    BY <1>1, <2>1 DEF LinkDevice, LinkRefuse, LinkEvent, IsPush, Pushes, Events
  <2> QED
    BY <1>1, <2>2, ComesRouted DEF LinkDevice, LinkRefuse
<1>2. CASE LinkSignOut \/ LinkDies
  <2>1. /\ \A kind \in {"garbage", "closed"} :
               LinkEvent(kind, 0) \in Events /\ ~IsPush(LinkEvent(kind, 0))
        /\ UNCHANGED <<lkRouted, lkPushed, lkDown>>
    BY <1>2 DEF Events, LinkEvent, IsPush, Pushes, LinkSignOut, LinkDies
  <2> QED
    BY <1>2, <2>1, ComesRouted, SameRouted DEF LinkSignOut, LinkDies
<1>3. CASE LinkPush
  BY <1>3, PushRouted
<1>4. CASE LinkLose \/ LinkLock \/ LinkRebootSeen \/ LinkHintCleared \/ UNCHANGED linkVars
  BY <1>4, SameRouted DEF LinkLose, LinkLock, LinkRebootSeen, LinkHintCleared, linkVars, Falls
<1>5. CASE LinkPump
  <2>1. CASE lkRx[1].kind = "closed"
    BY <1>5, <2>1, SameRouted DEF LinkPump, Falls
  <2>2. CASE lkRx[1].kind # "closed"
    BY <1>5, <2>2, FirstRouted DEF LinkPump
  <2> QED
    BY <2>1, <2>2
<1>6. CASE LinkReopen
  <2>1. lkRx' = <<>> /\ lkRouted' = <<>> /\ lkPushed' = 0 /\ <<>> \in Seq(Nat) /\ <<>> \in Seq(Events)
    BY <1>6 DEF LinkReopen
  <2>2. Numbers(<<>>) = <<>> /\ <<>> \o <<>> = <<>>
    BY <2>1, NumbersAre, Joined
  <2>3. [i \in 1 .. 0 |-> i] = <<>>
    OBVIOUS
  <2>4. Numbers(lkRx)' = Numbers(<<>>)
    BY <2>1 DEF Numbers, Number, IsPush
  <2> QED
    BY <2>1, <2>2, <2>3, <2>4 DEF RoutedInv, LinkEventsRouted
<1>7. ASSUME NEW c \in LinkCallers, LinkAsk(c) \/ LinkTimeout(c) \/ LinkNoGreeting(c)
      PROVE  RoutedInv'
  BY <1>7, SameRouted DEF LinkAsk, LinkTimeout, LinkNoGreeting, Falls
<1>8. ASSUME NEW c \in LinkCallers, LinkWrite(c) \/ LinkLogin(c) \/ LinkWriteFails(c)
      PROVE  RoutedInv'
  <2>1. Drained /\ lkPushed' = lkPushed /\ (lkDown => lkDown')
    BY <1>8 DEF LinkWrite, LinkLogin, LinkWriteFails, Falls
  <2> QED
    BY <2>1, DrainedRouted
<1>9. ASSUME NEW c \in LinkCallers, \/ LinkReply(c) \/ LinkRead(c) \/ LinkGreeted(c)
                                   \/ LinkLockedOut(c) \/ LinkRefused(c)
      PROVE  RoutedInv'
  BY <1>9, FirstRouted DEF LinkReply, LinkRead, LinkGreeted, LinkLockedOut, LinkRefused, Falls
<1>10. ASSUME NEW c \in LinkCallers, LinkNag(c) PROVE RoutedInv'
  BY <1>10, NagRouted DEF LinkNag, Falls
<1>11. ASSUME NEW c \in LinkCallers, LinkClosedRead(c) PROVE RoutedInv'
  BY <1>11, SameRouted DEF LinkClosedRead, Falls
<1> QED
  BY <1>1, <1>2, <1>3, <1>4, <1>5, <1>6, <1>7, <1>8, <1>9, <1>10, <1>11 DEF LinkNext, LinkStep

-----------------------------------------------------------------------------
(* LinkSession: a call ends with its own reply.                              *)

Plainly == {"idle", "lock", "write", "reply"}

\* While nothing went wrong, the device answers every line, and whoever awaits a
\* reply will have it.
CalmNow ==
    /\ lkAuth /\ ~lkDown /\ lkReboot = "no"
    /\ \A i \in DOMAIN lkRx : lkRx[i].kind \in {"status"} \cup Pushes
    /\ \A i \in DOMAIN lkAir : lkAir[i].kind = "command"
    /\ \A c \in LinkCallers : lkCall[c].at \in Plainly
    /\ lkCall[Supervisor].at = "idle"
    /\ (\E c \in LinkCallers : lkCall[c].at = "reply")
          => lkAir # <<>> \/ \E i \in DOMAIN lkRx : lkRx[i].kind = "status"
CalmInv == lkFaults \in Nat /\ (lkFaults = 0 => CalmNow)

\* Nothing went wrong before a step after which nothing went wrong.
LEMMA FaultsGrow ==
    ASSUME lkFaults \in Nat, [LinkNext]_linkVars
    PROVE  lkFaults' \in Nat /\ (LinkFault => lkFaults' # 0) /\ (lkFaults' = 0 => lkFaults = 0)
<1>1. LinkFault => lkFaults' = lkFaults + 1
  BY DEF LinkFault
<1>2. lkFaults' = lkFaults \/ LinkFault
  <2>1. CASE \/ LinkDevice \/ LinkRefuse \/ LinkLose \/ LinkPush \/ LinkSignOut
             \/ LinkDies \/ LinkLock \/ LinkPump \/ LinkRebootSeen \/ LinkHintCleared \/ LinkReopen \/ UNCHANGED linkVars
    BY <2>1 DEF LinkDevice, LinkRefuse, LinkLose, LinkPush, LinkSignOut, LinkDies, LinkLock,
       LinkPump, LinkRebootSeen, LinkHintCleared, LinkReopen, linkVars, LinkCalm
  <2>2. ASSUME NEW c \in LinkCallers, LinkAsk(c) \/ LinkStep(c)
        PROVE  lkFaults' = lkFaults \/ LinkFault
    BY <2>2 DEF LinkAsk, LinkStep, LinkWrite, LinkReply, LinkNag, LinkRead, LinkTimeout, LinkLogin,
       LinkGreeted, LinkNoGreeting, LinkClosedRead, LinkWriteFails, LinkLockedOut, LinkRefused,
       LinkCalm
  <2> QED
    BY <2>1, <2>2 DEF LinkNext
<1> QED
  BY <1>1, <1>2

\* Reading on changes nothing of the calm but what was read.
LEMMA CalmRead ==
    ASSUME LkTypes, CalmNow, NEW k \in 0 .. Len(lkRx), Consumed(k)
    PROVE  /\ \A i \in DOMAIN lkRx' : lkRx'[i].kind \in {"status"} \cup Pushes
           /\ lkReboot' = "no"
<1>1. Shorter
  BY RestIsShorter DEF Consumed
<1>2. ~\E i \in 1 .. k : SubSeq(lkRx, 1, k)[i].kind = "garbage"
  <2> SUFFICES ASSUME NEW i \in 1 .. k PROVE SubSeq(lkRx, 1, k)[i].kind # "garbage"
    OBVIOUS
  <2>1. i \in DOMAIN lkRx /\ SubSeq(lkRx, 1, k)[i] = lkRx[i]
    <3>1. lkRx \in Seq(Events) /\ Len(lkRx) \in Nat /\ DOMAIN lkRx = 1 .. Len(lkRx) /\ k \in Nat
      BY LenProperties DEF LkTypes
    <3> QED
      BY <3>1
  <2> QED
    BY <2>1 DEF CalmNow, Pushes
<1> QED
  BY <1>1, <1>2 DEF Shorter, Consumed, CalmNow

LEMMA CalmDrained ==
    ASSUME LkTypes, CalmNow, Drained
    PROVE  /\ \A i \in DOMAIN lkRx' : lkRx'[i].kind \in {"status"} \cup Pushes
           /\ lkReboot' = "no" /\ ~Ended
<1>1. ~Ended
  BY DEF Ended, Ends, CalmNow, Pushes
<1>2. Consumed(Len(lkRx)) /\ Len(lkRx) \in 0 .. Len(lkRx)
  BY <1>1, LenProperties DEF Drained, LkTypes
<1> QED
  BY <1>1, <1>2, CalmRead

\* Nothing but the call of c is moved, and it awaits no reply.
LEMMA CalmMoves ==
    ASSUME LkInv, CalmNow, NEW c \in LinkCallers, lkCall[c].at \in {"idle", "lock", "write", "reply"},
           lkOwner = c \/ lkOwner = Nobody, UNCHANGED <<lkAir, lkAuth, lkDown>>, lkReboot' = "no",
           \A i \in DOMAIN lkRx' : lkRx'[i].kind \in {"status"} \cup Pushes,
           NEW call, lkCall' = [lkCall EXCEPT ![c] = call], call.at \in Plainly \ {"reply"},
           c = Supervisor => call.at = "idle"
    PROVE  CalmNow'
<1>1. /\ lkCall'[c] = call /\ \A b \in LinkCallers : b # c => lkCall'[b] = lkCall[b]
      /\ lkCall \in [LinkCallers -> Calls]
  BY DEF LkInv, LkTypes
<1>2. \A b \in LinkCallers : b # c => lkCall[b].at # "reply"
  <2> SUFFICES ASSUME NEW b \in LinkCallers, b # c, lkCall[b].at = "reply" PROVE FALSE
    OBVIOUS
  <2>1. Active(b)
    BY DEF Active
  <2>2. lkOwner = b
    BY <2>1 DEF LkInv, LockInv
  <2> QED
    BY <2>2, CallersAre
<1>3. \A b \in LinkCallers : lkCall'[b].at \in Plainly /\ lkCall'[b].at # "reply"
  BY <1>1, <1>2 DEF CalmNow
<1>4. lkCall'[Supervisor].at = "idle"
  BY <1>1, CallersAre DEF CalmNow
<1> QED
  BY <1>3, <1>4 DEF CalmNow

LEMMA CalmStep ==
    ASSUME LkInv, CalmInv, [LinkNext]_linkVars
    PROVE  CalmInv'
<1>1. lkFaults' \in Nat /\ (LinkFault => lkFaults' # 0) /\ (lkFaults' = 0 => lkFaults = 0)
  BY FaultsGrow DEF CalmInv
<1> SUFFICES ASSUME lkFaults' = 0 PROVE CalmNow'
  BY <1>1 DEF CalmInv
<1>2. CalmNow /\ ~LinkFault
  BY <1>1 DEF CalmInv
<1>0. /\ LkTypes /\ lkRx \in Seq(Events) /\ lkAir \in Seq(Events)
      /\ Len(lkRx) \in Nat /\ DOMAIN lkRx = 1 .. Len(lkRx)
  BY LenProperties DEF LkInv, LkTypes
<1>3. CASE LinkDevice
  <2>1. lkAir # <<>> /\ lkAir[1] \in Events /\ Head(lkAir) = lkAir[1] /\ lkAir[1].kind = "command"
    <3>1. 1 \in DOMAIN lkAir /\ lkAir # <<>>
      BY <1>0, <1>3, EmptySeq, LenProperties DEF LinkDevice
    <3> QED
      BY <1>0, <1>2, <3>1, ElementOfSeq, LenProperties DEF CalmNow
  <2>2. /\ lkRx' = Append(lkRx, LinkEvent("status", lkAir[1].n)) /\ lkAir' = Tail(lkAir)
        /\ UNCHANGED <<lkAuth, lkDown, lkReboot, lkCall>>
    BY <1>2, <1>3, <2>1 DEF LinkDevice, CalmNow
  <2>3. PICK e \in Events : e = LinkEvent("status", lkAir[1].n)
    BY <2>1 DEF LinkEvent, Events
  <2>4. /\ DOMAIN lkRx' = 1 .. Len(lkRx) + 1 /\ lkRx'[Len(lkRx) + 1] = e
        /\ \A i \in 1 .. Len(lkRx) : lkRx'[i] = lkRx[i]
    BY <1>0, <2>2, <2>3, AppendProperties, LenProperties
  <2>5. e.kind = "status"
    BY <2>3 DEF LinkEvent
  <2>6. \A i \in DOMAIN lkRx' : lkRx'[i].kind \in {"status"} \cup Pushes
    BY <1>0, <1>2, <2>4, <2>5 DEF CalmNow
  <2>7. \E i \in DOMAIN lkRx' : lkRx'[i].kind = "status"
    BY <1>0, <2>4, <2>5
  <2>8. \A i \in DOMAIN lkAir' : lkAir'[i].kind = "command"
    BY <1>0, <1>2, <2>1, <2>2 DEF CalmNow
  <2> QED
    BY <1>2, <2>2, <2>6, <2>7, <2>8 DEF CalmNow
<1>4. CASE LinkLose \/ LinkRefuse \/ LinkSignOut \/ LinkDies
  BY <1>2, <1>4 DEF LinkLose, LinkRefuse, LinkSignOut, LinkDies
<1>5. CASE LinkPush
  <2>1. PICK kind \in Pushes : lkRx' = Append(lkRx, LinkEvent(kind, lkPushed + 1))
    BY <1>5 DEF LinkPush
  <2>2. PICK e \in Events : e = LinkEvent(kind, lkPushed + 1) /\ e.kind = kind
    <3>1. lkPushed + 1 \in Nat
      BY <1>0 DEF LkTypes
    <3>2. kind \in {"login", "command", "status", "nag", "push", "dismiss", "garbage", "closed"}
      BY DEF Pushes
    <3>3. LinkEvent(kind, lkPushed + 1) \in Events /\ LinkEvent(kind, lkPushed + 1).kind = kind
      BY <3>1, <3>2 DEF LinkEvent, Events
    <3> QED
      BY <3>3
  <2>4. /\ DOMAIN lkRx' = 1 .. Len(lkRx) + 1 /\ lkRx'[Len(lkRx) + 1] = e
        /\ \A i \in 1 .. Len(lkRx) : lkRx'[i] = lkRx[i]
    BY <1>0, <2>1, <2>2, AppendProperties, LenProperties
  <2>5. UNCHANGED <<lkAir, lkAuth, lkCall, lkDown, lkReboot>>
    BY <1>5 DEF LinkPush, deviceVars
  <2>6. \A i \in DOMAIN lkRx' : lkRx'[i].kind \in {"status"} \cup Pushes
    BY <1>0, <1>2, <2>2, <2>4 DEF CalmNow
  <2>7. (\E i \in DOMAIN lkRx : lkRx[i].kind = "status")
           => \E i \in DOMAIN lkRx' : lkRx'[i].kind = "status"
    <3>1. \A i \in 1 .. Len(lkRx) : i \in 1 .. Len(lkRx) + 1
      BY <1>0
    <3> QED
      BY <1>0, <2>4, <3>1
  <2> QED
    BY <1>2, <2>5, <2>6, <2>7 DEF CalmNow
<1>6. CASE LinkLock
  <2> DEFINE c == Head(lkWaiting)
  <2>1. c \in LinkCallers /\ lkCall[c].at = "lock" /\ lkOwner = Nobody
    <3>1. lkWaiting \in Seq(LinkCallers) /\ lkWaiting # <<>> /\ lkOwner = Nobody
      BY <1>0, <1>6 DEF LinkLock, LkTypes
    <3>2. 1 \in DOMAIN lkWaiting /\ c = lkWaiting[1] /\ c \in LinkCallers
      BY <3>1, EmptySeq, LenProperties, HeadTailProperties
    <3> QED
      BY <3>1, <3>2 DEF LkInv, LockInv
  <2>2. c # Supervisor
    BY <1>2, <2>1 DEF CalmNow
  <2>3. lkCall' = [lkCall EXCEPT ![c].at = "write", ![c].stage = 1]
    BY <1>6, <2>2 DEF LinkLock
  <2>4. UNCHANGED <<lkRx, lkAir, lkAuth, lkDown, lkReboot>>
    BY <1>6 DEF LinkLock, deviceVars
  <2> HIDE DEF c
  <2>5. PICK call \in Calls : call = [[lkCall[c] EXCEPT !.at = "write"] EXCEPT !.stage = 1]
    BY <1>0, <2>1 DEF LkTypes, Calls
  <2>6. call.at = "write" /\ lkCall' = [lkCall EXCEPT ![c] = call]
    BY <1>0, <2>1, <2>3, <2>5 DEF LkTypes, Calls
  <2> QED
    BY <1>2, <2>1, <2>2, <2>4, <2>6, CalmMoves DEF CalmNow, Plainly
<1>7. CASE LinkPump
  <2>1. lkRx # <<>> /\ 1 \in DOMAIN lkRx /\ lkRx[1].kind # "closed" /\ 1 \in 0 .. Len(lkRx)
    <3>1. lkRx # <<>>
      BY <1>7 DEF LinkPump
    <3>2. 1 \in DOMAIN lkRx /\ 1 \in 0 .. Len(lkRx)
      BY <1>0, <3>1, EmptySeq
    <3> QED
      BY <1>2, <3>1, <3>2 DEF CalmNow, Pushes
  <2>2. Consumed(1) /\ lkOwner = Nobody /\ UNCHANGED <<lkDown, lkCall, lkAir, lkAuth>>
    BY <1>7, <2>1 DEF LinkPump, deviceVars
  <2>3. /\ \A i \in DOMAIN lkRx' : lkRx'[i].kind \in {"status"} \cup Pushes
        /\ lkReboot' = "no"
    BY <1>0, <1>2, <2>1, <2>2, CalmRead
  <2>4. \A c \in LinkCallers : lkCall[c].at # "reply"
    BY <2>2, CallersAre DEF LkInv, LockInv, Active
  <2> QED
    BY <1>2, <2>2, <2>3, <2>4 DEF CalmNow
<1>8. CASE LinkRebootSeen \/ LinkHintCleared \/ LinkReopen
  BY <1>2, <1>8 DEF LinkRebootSeen, LinkHintCleared, LinkReopen, CalmNow
<1>9. ASSUME NEW c \in LinkCallers, LinkAsk(c) PROVE CalmNow'
  <2>1. /\ c # Supervisor /\ lkCall[c].at = "idle"
        /\ UNCHANGED <<lkRx, lkAir, lkAuth, lkDown, lkReboot>>
        /\ lkCall' = [lkCall EXCEPT ![c] = [LinkIdle EXCEPT !.at = "lock", !.n = Len(lkCalls) + 1]]
    BY <1>9, IdleIs DEF LinkAsk, deviceVars
  <2>2. \A b \in LinkCallers : b # c => lkCall'[b] = lkCall[b]
    BY <1>0, <2>1 DEF LkTypes
  <2>3. lkCall'[c].at = "lock"
    BY <1>0, <2>1 DEF LkTypes, LinkIdle
  <2>4. lkCall'[Supervisor].at = "idle" /\ \A b \in LinkCallers : lkCall'[b].at \in Plainly
    BY <1>2, <2>1, <2>2, <2>3, CallersAre DEF CalmNow, Plainly
  <2>5. \A b \in LinkCallers : lkCall'[b].at = "reply" => lkCall[b].at = "reply"
    BY <2>2, <2>3
  <2> QED
    BY <1>2, <2>1, <2>4, <2>5 DEF CalmNow
<1>10. ASSUME NEW c \in LinkCallers, LinkWrite(c) PROVE CalmNow'
  <2>1. /\ \A i \in DOMAIN lkRx' : lkRx'[i].kind \in {"status"} \cup Pushes
        /\ lkReboot' = "no" /\ ~Ended
    BY <1>0, <1>2, <1>10, CalmDrained DEF LinkWrite
  <2>2. lkCall[c].at = "write" /\ lkOwner = c /\ lkAuth' = lkAuth /\ c # Supervisor
    BY <1>10 DEF LinkWrite, LkInv, LockInv, Active, CallInv
  <2>3. CASE Guarded(c)
    <3>1. lkCall' = [lkCall EXCEPT ![c] = LinkIdle] /\ UNCHANGED <<lkAir, lkDown>>
      BY <1>10, <2>1, <2>3 DEF LinkWrite, Leaves
    <3> QED
      BY <1>2, <2>1, <2>2, <3>1, CalmMoves, IdleIs DEF Plainly
  <2>4. CASE ~Guarded(c)
    <3>1. /\ lkCall' = [lkCall EXCEPT ![c].at = "reply"] /\ UNCHANGED lkDown
          /\ lkAir' = Append(lkAir, CommandOf(lkCall[c].n))
      BY <1>10, <2>1, <2>4 DEF LinkWrite, LinkGoes, Line, CommandOf
    <3>2. PICK line \in Events : line = CommandOf(lkCall[c].n)
      BY <1>0 DEF CommandOf, LkTypes, Calls, Events
    <3>3. /\ DOMAIN lkAir' = 1 .. Len(lkAir) + 1 /\ lkAir'[Len(lkAir) + 1] = line
          /\ \A i \in 1 .. Len(lkAir) : lkAir'[i] = lkAir[i] /\ lkAir' # <<>>
          /\ DOMAIN lkAir = 1 .. Len(lkAir) /\ Len(lkAir) \in Nat
      BY <1>0, <3>1, <3>2, AppendProperties, LenProperties
    <3>4. lkAir' # <<>>
      BY <1>0, <3>1, <3>2, AppendProperties
    <3>5. \A i \in DOMAIN lkAir' : lkAir'[i].kind = "command"
      <4>1. line.kind = "command"
        BY <3>2 DEF CommandOf
      <4> QED
        BY <1>2, <3>3, <4>1 DEF CalmNow
    <3>6. /\ lkCall'[c].at = "reply" /\ \A b \in LinkCallers : b # c => lkCall'[b] = lkCall[b]
      BY <1>0, <3>1 DEF LkTypes, Calls
    <3>7. lkCall'[Supervisor].at = "idle" /\ \A b \in LinkCallers : lkCall'[b].at \in Plainly
      BY <1>2, <2>2, <3>6, CallersAre DEF CalmNow, Plainly
    <3> QED
      BY <1>2, <2>1, <2>2, <3>1, <3>4, <3>5, <3>7 DEF CalmNow
  <2> QED
    BY <2>3, <2>4
<1>11. ASSUME NEW c \in LinkCallers, LinkReply(c) PROVE CalmNow'
  <2>1. /\ lkCall[c].at = "reply" /\ lkOwner = c /\ lkRx # <<>> /\ Consumed(1)
        /\ lkCall' = [lkCall EXCEPT ![c] = LinkIdle] /\ UNCHANGED <<lkAir, lkAuth, lkDown>>
    BY <1>11 DEF LinkReply, Leaves, deviceVars, LkInv, LockInv, Active
  <2>2. 1 \in 0 .. Len(lkRx)
    BY <1>0, <2>1, EmptySeq
  <2>3. /\ \A i \in DOMAIN lkRx' : lkRx'[i].kind \in {"status"} \cup Pushes
        /\ lkReboot' = "no"
    BY <1>0, <1>2, <2>1, <2>2, CalmRead
  <2> QED
    BY <1>2, <2>1, <2>3, CalmMoves, IdleIs DEF Plainly
<1>12. ASSUME NEW c \in LinkCallers, LinkRead(c) PROVE CalmNow'
  <2>1. /\ lkRx # <<>> /\ Consumed(1) /\ Passing(c) /\ lkCall[c].at \in {"reply", "greeting"}
        /\ UNCHANGED <<lkAir, lkAuth, lkDown, lkCall>>
    BY <1>12 DEF LinkRead, deviceVars
  <2>2. 1 \in 0 .. Len(lkRx) /\ 1 \in DOMAIN lkRx
    BY <1>0, <2>1, EmptySeq
  <2>3. /\ \A i \in DOMAIN lkRx' : lkRx'[i].kind \in {"status"} \cup Pushes
        /\ lkReboot' = "no"
    BY <1>0, <1>2, <2>1, <2>2, CalmRead
  <2>4. lkRx[1].kind # "status"
    BY <1>2, <2>1 DEF CalmNow, Plainly, Passing
  <2>5. lkRx' = SubSeq(lkRx, 1 + 1, Len(lkRx))
    BY <2>1 DEF Consumed
  <2>6. /\ DOMAIN lkRx' = 1 .. Len(lkRx) - 1
        /\ \A i \in 1 .. Len(lkRx) - 1 : lkRx'[i] = lkRx[i + 1]
    BY <1>0, <2>2, <2>5, RestOf
  <2>7. ASSUME NEW i \in DOMAIN lkRx, lkRx[i].kind = "status"
        PROVE  \E j \in DOMAIN lkRx' : lkRx'[j].kind = "status"
    <3>1. i - 1 \in 1 .. Len(lkRx) - 1 /\ (i - 1) + 1 = i
      BY <1>0, <2>4, <2>7
    <3> QED
      BY <2>6, <2>7, <3>1
  <2> QED
    BY <1>2, <2>1, <2>3, <2>7 DEF CalmNow
<1>13. ASSUME NEW c \in LinkCallers, LinkTimeout(c) PROVE FALSE
  <2>1. lkCall[c].at = "reply" /\ lkRx = <<>> /\ lkAir = <<>>
    BY <1>2, <1>13 DEF LinkTimeout
  <2>2. DOMAIN lkRx = {}
    BY <2>1
  <2> QED
    BY <1>2, <2>1, <2>2 DEF CalmNow
<1>14. ASSUME NEW c \in LinkCallers, LinkNag(c) \/ LinkClosedRead(c) PROVE FALSE
  <2>1. lkRx # <<>> /\ lkRx[1].kind \in {"nag", "closed"}
    BY <1>14 DEF LinkNag, LinkClosedRead
  <2>2. 1 \in DOMAIN lkRx
    BY <1>0, <2>1, EmptySeq
  <2> QED
    BY <1>2, <2>1, <2>2 DEF CalmNow, Pushes
<1>15. ASSUME NEW c \in LinkCallers, \/ LinkLogin(c) \/ LinkGreeted(c) \/ LinkNoGreeting(c)
                                    \/ LinkLockedOut(c) \/ LinkRefused(c) \/ LinkWriteFails(c)
       PROVE  FALSE
  BY <1>2, <1>15 DEF LinkLogin, LinkGreeted, LinkNoGreeting, LinkLockedOut, LinkRefused,
     LinkWriteFails, CalmNow, Plainly
<1>16. CASE UNCHANGED linkVars
  BY <1>2, <1>16 DEF linkVars, CalmNow
<1> QED
  BY <1>3, <1>4, <1>5, <1>6, <1>7, <1>8, <1>9, <1>10, <1>11, <1>12, <1>13, <1>14, <1>15, <1>16
  DEF LinkNext, LinkStep

LEMMA CalmInit == LinkInit => CalmInv
<1> SUFFICES ASSUME LinkInit PROVE CalmInv
  OBVIOUS
<1>1. lkRx = <<>> /\ lkAir = <<>> /\ DOMAIN <<>> = {}
  BY DEF LinkInit
<1>2. \A c \in LinkCallers : lkCall[c].at = "idle"
  BY IdleIs DEF LinkInit
<1> QED
  BY <1>1, <1>2, CallersAre DEF LinkInit, CalmInv, CalmNow, Plainly

\* A call that ends, and what ended it.
LEMMA OwnStep ==
    ASSUME LkInv, CalmInv, [LinkNext]_linkVars, NEW c \in LinkCallers,
           lkCall[c].at = "reply", lkCall'[c].at # "reply", ~lkDown'
    PROVE  /\ lkRx # <<>> /\ ~lkStale => Head(lkRx).n = lkCall[c].n
           /\ lkFaults' = 0 => lkRx # <<>>
<1>0. lkOwner = c /\ lkCall \in [LinkCallers -> Calls] /\ ~lkDown /\ lkRx \in Seq(Events)
  BY DEF LkInv, LockInv, Active, LkTypes
<1>1. \E b \in LinkCallers : LinkAsk(b) \/ LinkStep(b)
  <2>1. CASE \/ LinkDevice \/ LinkRefuse \/ LinkLose \/ LinkPush \/ LinkSignOut \/ LinkDies
             \/ LinkRebootSeen \/ LinkHintCleared \/ LinkReopen \/ UNCHANGED linkVars
    BY <1>0, <2>1 DEF LinkDevice, LinkRefuse, LinkLose, LinkPush, LinkSignOut, LinkDies, LinkRebootSeen,
       LinkHintCleared, LinkReopen, Falls, linkVars
  <2>2. CASE LinkLock \/ LinkPump
    BY <1>0, <2>2, CallersAre DEF LinkLock, LinkPump
  <2> QED
    BY <2>1, <2>2 DEF LinkNext
<1>2. PICK b \in LinkCallers : LinkAsk(b) \/ LinkStep(b)
  BY <1>1
<1>3. b = c
  <2>1. CASE LinkAsk(b)
    <3>1. lkCall[b].at = "idle" /\ \A x \in LinkCallers : x # b => lkCall'[x] = lkCall[x]
      BY <1>0, <2>1, IdleIs DEF LinkAsk
    <3> QED
      BY <3>1
  <2>2. CASE LinkStep(b)
    <3>1. Active(b)
      BY <2>2 DEF LinkStep, LinkWrite, LinkReply, LinkNag, LinkRead, LinkTimeout, LinkLogin,
         LinkGreeted, LinkNoGreeting, LinkClosedRead, LinkWriteFails, LinkLockedOut, LinkRefused,
         Active
    <3> QED
      BY <1>0, <3>1 DEF LkInv, LockInv
  <2> QED
    BY <1>2, <2>1, <2>2
<1>4. LinkReply(c) \/ LinkNag(c) \/ LinkTimeout(c)
  <2>1. ~LinkAsk(c)
    BY IdleIs DEF LinkAsk
  <2>2. ~LinkRead(c) /\ ~LinkClosedRead(c)
    BY <1>0 DEF LinkRead, LinkClosedRead, Falls
  <2>3. ~LinkWriteFails(c)
    BY DEF LinkWriteFails
  <2> QED
    BY <1>2, <1>3, <2>1, <2>2, <2>3 DEF LinkStep, LinkWrite, LinkLogin, LinkGreeted, LinkNoGreeting,
       LinkLockedOut, LinkRefused
<1>5. CASE LinkReply(c) \/ LinkNag(c)
  <2>1. lkRx # <<>> /\ IsReply(lkRx[1]) /\ 1 \in DOMAIN lkRx /\ Head(lkRx) = lkRx[1]
    <3>1. lkRx # <<>> /\ IsReply(lkRx[1])
      BY <1>5 DEF LinkReply, LinkNag, IsReply
    <3> QED
      BY <1>0, <3>1, EmptySeq, LenProperties, HeadTailProperties
  <2>2. ~lkStale => Awaits(lkRx[1].n)
    BY <1>0, <2>1 DEF LkInv, QuietInv
  <2> QED
    BY <1>0, <2>1, <2>2 DEF Awaits
<1>6. CASE LinkTimeout(c)
  <2>1. lkRx = <<>> /\ DOMAIN lkRx = {} /\ (lkAir # <<>> => LinkFault)
    BY <1>6 DEF LinkTimeout
  <2>2. ASSUME lkFaults' = 0 PROVE FALSE
    <3>1. lkFaults = 0 /\ lkAir = <<>>
      BY <2>1, <2>2, FaultsGrow DEF CalmInv
    <3> QED
      BY <2>1, <3>1 DEF CalmInv, CalmNow
  <2> QED
    BY <2>1, <2>2
<1> QED
  BY <1>4, <1>5, <1>6

\* A dismissed call writes nothing.
LEMMA QuietStep ==
    ASSUME LkInv, [LinkNext]_linkVars, NEW c \in LinkCallers, lkOwner = c, Len(lkAir') > Len(lkAir)
    PROVE  c \notin lkDismissed'
<1>0. lkAir \in Seq(Events) /\ Len(lkAir) \in Nat
  BY LenProperties DEF LkInv, LkTypes
<1>2. \E b \in LinkCallers : LinkWrite(b) \/ LinkLogin(b)
  <2>1. ~(LinkDevice \/ LinkRefuse \/ LinkLose)
    BY <1>0 DEF LinkDevice, LinkRefuse, LinkLose
  <2>2. ~( LinkPush \/ LinkSignOut \/ LinkDies \/ LinkLock \/ LinkPump \/ LinkRebootSeen
           \/ LinkHintCleared \/ LinkReopen \/ UNCHANGED linkVars)
    BY <1>0 DEF LinkPush, LinkSignOut, LinkDies, LinkLock, LinkPump, LinkRebootSeen,
       LinkHintCleared, LinkReopen, linkVars, deviceVars
  <2>3. \A b \in LinkCallers : ~( LinkAsk(b) \/ LinkReply(b) \/ LinkNag(b) \/ LinkRead(b)
           \/ LinkTimeout(b) \/ LinkGreeted(b) \/ LinkNoGreeting(b) \/ LinkClosedRead(b)
           \/ LinkWriteFails(b) \/ LinkLockedOut(b) \/ LinkRefused(b))
    BY <1>0 DEF LinkAsk, LinkReply, LinkNag, LinkRead, LinkTimeout, LinkGreeted, LinkNoGreeting,
       LinkClosedRead, LinkWriteFails, LinkLockedOut, LinkRefused, deviceVars
  <2> QED
    BY <2>1, <2>2, <2>3 DEF LinkNext, LinkStep
<1>3. PICK b \in LinkCallers : LinkWrite(b) \/ LinkLogin(b)
  BY <1>2
<1>4. b = c
  BY <1>3 DEF LinkWrite, LinkLogin, LkInv, LockInv, Active
<1> QED
  BY <1>0, <1>3, <1>4 DEF LinkWrite, LinkLogin, Guarded

\* A call ends with its own reply while no wait was given up too early, and with
\* some line of the device while nothing went wrong; a dismissed call writes
\* nothing more; every event the device pushes is routed once and in order: for
\* any callers, calls, events and faults (_command_once, _collect, _drain_stale
\* and _note_stray of link/session.py).
THEOREM CallsOwn == LinkSpec => LinkCallsOwn
<1> DEFINE Inv == LkInv /\ RoutedInv /\ CalmInv
<1>1. LinkInit => Inv
  BY LkInitInv, RoutedInit, CalmInit
<1>2. Inv /\ [LinkNext]_linkVars => Inv'
  BY LkStepInv, RoutedStep, CalmStep DEF LkInv
<1>3. Inv /\ [LinkNext]_linkVars =>
        /\ [\A c \in LinkCallers :
              lkCall[c].at = "reply" /\ lkCall'[c].at # "reply" /\ ~lkDown' =>
                /\ lkRx # <<>> /\ ~lkStale => Head(lkRx).n = lkCall[c].n
                /\ lkFaults' = 0 => lkRx # <<>>]_linkVars
        /\ [\A c \in LinkCallers :
              lkOwner = c /\ Len(lkAir') > Len(lkAir) => c \notin lkDismissed']_linkVars
  BY OwnStep, QuietStep
<1>4. Inv => LinkEventsRouted
  BY DEF RoutedInv
<1> HIDE DEF Inv
<1> QED
  BY <1>1, <1>2, <1>3, <1>4, PTL DEF LinkSpec, LinkCallsOwn, LinkOwnReply, LinkDismissedQuiet

-----------------------------------------------------------------------------
(* Wire: an opening of the port hears nothing of an earlier one.             *)

\* A scheduled call brings its queue an event of the same opening, or of a reader
\* that outlived its join.
Timely(call) == call.event.from = call.to \/ call.event.from \in wireOutlived

\* Such a reader's opening is known for it.
StrayInv == /\ \E T : wireStray \in [from : T, left : T]
            /\ wireStray # NoStray => wireStray.from \in wireOutlived

WireInv ==
    /\ StrayInv
    /\ \E S : wireCalls \in Seq(S)
    /\ \E S : wireQueue \in Seq(S)
    /\ \A i \in DOMAIN wireCalls : Timely(wireCalls[i])
    /\ WireRetired

\* Whatever joins a sequence, the others stay.
LEMMA JoinsAny ==
    ASSUME NEW S, NEW s \in Seq(S), NEW e
    PROVE  /\ \E T : Append(s, e) \in Seq(T)
           /\ \A i \in DOMAIN Append(s, e) : (i \in DOMAIN s /\ Append(s, e)[i] = s[i])
                                             \/ Append(s, e)[i] = e
           /\ Append(s, e) = s \o <<e>>
<1> DEFINE T == S \cup {e}
<1>1. s \in Seq(T) /\ e \in T
  BY SeqMonotonic
<1> HIDE DEF T
<1>2. /\ Append(s, e) \in Seq(T) /\ Append(s, e) = s \o <<e>>
      /\ \A i \in DOMAIN Append(s, e) : (i \in DOMAIN s /\ Append(s, e)[i] = s[i])
                                        \/ Append(s, e)[i] = e
  BY <1>1, Queued, AppendIsConcat
<1> QED
  BY <1>2

\* Its head goes: the others move up.
LEMMA HeadGoes ==
    ASSUME NEW S, NEW s \in Seq(S), s # <<>>
    PROVE  /\ Tail(s) \in Seq(S) /\ 1 \in DOMAIN s
           /\ \A i \in DOMAIN Tail(s) : i + 1 \in DOMAIN s /\ Tail(s)[i] = s[i + 1]
  OBVIOUS

\* A call is scheduled, and the session's queue is left alone.
LEMMA ScheduleKeeps ==
    ASSUME WireInv, NEW call, Timely(call), wireCalls' = Append(wireCalls, call),
           UNCHANGED <<wireQueue, wireOpened>>,
           StrayInv', wireOutlived \subseteq wireOutlived'
    PROVE  WireInv'
<1>1. PICK S : wireCalls \in Seq(S)
  BY DEF WireInv
<1>2. /\ \E T : wireCalls' \in Seq(T)
      /\ \A i \in DOMAIN wireCalls' : (i \in DOMAIN wireCalls /\ wireCalls'[i] = wireCalls[i])
                                      \/ wireCalls'[i] = call
  BY <1>1, JoinsAny
<1>3. \A i \in DOMAIN wireCalls' : wireCalls'[i].event.from = wireCalls'[i].to
                                   \/ wireCalls'[i].event.from \in wireOutlived'
  BY <1>2 DEF WireInv, Timely
<1> QED
  BY <1>2, <1>3 DEF WireInv, WireRetired, Timely

\* Nothing is scheduled.
LEMMA SilenceKeeps ==
    ASSUME WireInv, UNCHANGED <<wireCalls, wireQueue, wireOpened>>,
           StrayInv', wireOutlived \subseteq wireOutlived'
    PROVE  WireInv'
  BY DEF WireInv, WireRetired, Timely

\* What the reader finds in its bytes is of the opening it is found in.
LEMMA FoundIsOurs ==
    ASSUME NEW found,
           \/ \E line : found \in Dispatched(line)
           \/ \E frame : found \in Finished(frame)
           \/ found \in Garbage \/ found = <<>>
    PROVE  found = <<>> \/ \E kind, what : found = Event(kind, what)
  BY DEF Dispatched, Finished, Garbage

\* The reader reports what it finds.
LEMMA EmitsKeeps ==
    ASSUME WireInv, NEW found, Emits(found), UNCHANGED wireLoop,
           found = <<>> \/ \E kind, what : found = Event(kind, what)
    PROVE  WireInv'
<1>0. StrayInv' /\ wireOutlived' = wireOutlived /\ UNCHANGED <<wireQueue, wireOpened>>
  BY DEF wireLoop, wireStrays, WireInv, StrayInv
<1>1. PICK S : wireCalls \in Seq(S)
  BY DEF WireInv
<1>2. CASE wireCalls' = wireCalls \o <<>>
  <2>1. wireCalls' = wireCalls
    BY <1>1, <1>2, ConcatEmptySeq
  <2> QED
    BY <1>0, <2>1, SilenceKeeps
<1>3. CASE found # <<>> /\ wireCalls' = wireCalls \o <<Call(found[1])>>
  <2>1. PICK kind, what : found = Event(kind, what)
    BY <1>3
  <2>2. Call(found[1]).event.from = wireOpened /\ Call(found[1]).to = wireOpened
    BY <2>1 DEF Call, Event
  <2>3. wireCalls' = Append(wireCalls, Call(found[1]))
    BY <1>1, <1>3, JoinsAny
  <2> QED
    BY <1>0, <2>2, <2>3, ScheduleKeeps DEF Timely
<1> QED
  BY <1>2, <1>3 DEF Emits

LEMMA WireReaderKeeps ==
    ASSUME WireInv,
           WireFrameOpens \/ WireFrameCloses \/ WireFrameByte \/ WireLineEnds \/ WireLineByte
           \/ WireIdle
    PROVE  WireInv'
<1>1. CASE WireFrameOpens \/ WireLineEnds
  <2>1. PICK found \in Dispatched(wireReader.line) : Emits(found)
    BY <1>1 DEF WireFrameOpens, WireLineEnds, WireRead
  <2>2. UNCHANGED wireLoop
    BY <1>1 DEF WireFrameOpens, WireLineEnds, WireRead
  <2> QED
    BY <2>1, <2>2, EmitsKeeps, FoundIsOurs
<1>2. CASE WireFrameCloses
  <2>1. PICK found \in Finished(wireReader.frame) : Emits(found)
    BY <1>2 DEF WireFrameCloses, WireRead
  <2>2. UNCHANGED wireLoop
    BY <1>2 DEF WireFrameCloses, WireRead
  <2> QED
    BY <2>1, <2>2, EmitsKeeps, FoundIsOurs
<1>3. CASE WireFrameByte \/ WireLineByte \/ WireIdle
  <2>1. \E found : (found \in Garbage \/ found = <<>>) /\ Emits(found)
    BY <1>3 DEF WireFrameByte, WireLineByte, WireIdle, WireRead
  <2>2. UNCHANGED wireLoop
    BY <1>3 DEF WireFrameByte, WireLineByte, WireIdle, WireRead
  <2> QED
    BY <2>1, <2>2, EmitsKeeps, FoundIsOurs
<1> QED
  BY <1>1, <1>2, <1>3

\* A reader's last word may come late.
LEMMA WireEndsKeeps ==
    ASSUME WireInv, WireDies \/ WireStrayEmits \/ WireStrayEnds \/ WireClose
    PROVE  WireInv'
<1>1. UNCHANGED <<wireQueue, wireOpened>> /\ wireOutlived \subseteq wireOutlived'
  BY DEF WireDies, WireStrayEmits, WireStrayEnds, WireClose, wireLoop, wireStrays
<1>2. StrayInv'
  <2>1. CASE UNCHANGED wireStrays
    BY <2>1 DEF wireStrays, WireInv, StrayInv
  <2>2. CASE wireStray' = [wireStray EXCEPT !.left = @ - 1] /\ wireOutlived' = wireOutlived
             /\ wireStray.left > 0
    <3>1. PICK T : wireStray \in [from : T, left : T]
      BY DEF WireInv, StrayInv
    <3>2. wireStray # NoStray
      BY <2>2 DEF NoStray
    <3> DEFINE U == T \cup {wireStray.left - 1}
    <3>3. wireStray' \in [from : U, left : U] /\ wireStray'.from = wireStray.from
      BY <2>2, <3>1
    <3> QED
      BY <2>2, <3>2, <3>3 DEF WireInv, StrayInv
  <2>3. CASE wireStray' = NoStray
    <3>1. wireStray' \in [from : {0}, left : {0}]
      BY <2>3 DEF NoStray
    <3> QED
      BY <2>3, <3>1 DEF StrayInv
  <2>4. CASE /\ wireStray' = [from |-> wireOpened, left |-> Len(wireBytes)]
             /\ wireOutlived' = wireOutlived \cup {wireOpened}
    <3> DEFINE T == {wireOpened, Len(wireBytes)}
    <3>1. wireStray' \in [from : T, left : T] /\ wireStray'.from = wireOpened
      BY <2>4
    <3> QED
      BY <2>4, <3>1 DEF StrayInv
  <2> QED
    BY <2>1, <2>2, <2>3, <2>4
       DEF WireDies, WireStrayEmits, WireStrayEnds, WireClose, wireLoop, wireStrays
<1>3. \/ wireCalls' = wireCalls
      \/ wireCalls' = Append(wireCalls, Call(Event("closed", <<>>)[1]))
      \/ \E kind : wireCalls' = Append(wireCalls, StrayCall(kind)) /\ wireStray # NoStray
  BY DEF WireDies, WireStrayEmits, WireStrayEnds, WireClose, NoStray
<1>4. Timely(Call(Event("closed", <<>>)[1]))
  BY DEF Timely, Call, Event
<1>5. \A kind : wireStray # NoStray => Timely(StrayCall(kind))
  BY DEF Timely, Call, StrayCall, WireInv, StrayInv
<1> QED
  BY <1>1, <1>2, <1>3, <1>4, <1>5, ScheduleKeeps, SilenceKeeps

\* A call finds its queue, or a later one that it leaves alone.
LEMMA WireCallKeeps ==
    ASSUME WireInv, WireCall
    PROVE  WireInv'
<1>0. StrayInv' /\ wireOutlived' = wireOutlived
  BY DEF WireCall, wireStrays, WireInv, StrayInv
<1>1. PICK S : wireCalls \in Seq(S)
  BY DEF WireInv
<1>2. PICK Q : wireQueue \in Seq(Q)
  BY DEF WireInv
<1>3. /\ wireCalls # <<>> /\ wireCalls' = Tail(wireCalls) /\ wireOpened' = wireOpened
      /\ wireQueue' = IF wireCalls[1].to # wireOpened THEN wireQueue
                      ELSE Enqueued(wireQueue, wireCalls[1].event)
  BY DEF WireCall
<1>4. /\ \E T : wireCalls' \in Seq(T)
      /\ 1 \in DOMAIN wireCalls
      /\ \A i \in DOMAIN wireCalls' : i + 1 \in DOMAIN wireCalls /\ wireCalls'[i] = wireCalls[i + 1]
  BY <1>1, <1>3, HeadGoes
<1>5. \A i \in DOMAIN wireCalls' : wireCalls'[i].event.from = wireCalls'[i].to
                                   \/ wireCalls'[i].event.from \in wireOutlived
  BY <1>4 DEF WireInv, Timely
<1>6. (\E T : wireQueue' \in Seq(T)) /\ WireRetired'
  <2>1. CASE wireCalls[1].to # wireOpened
    BY <1>0, <1>2, <1>3, <2>1 DEF WireInv, WireRetired
  <2>2. CASE wireCalls[1].to = wireOpened
    <3> DEFINE event == wireCalls[1].event
               room == IF Len(wireQueue) >= WireQueueMax THEN Tail(wireQueue) ELSE wireQueue
    <3>1. event.from = wireOpened \/ event.from \in wireOutlived
      BY <1>4, <2>2 DEF WireInv, Timely
    <3>2. /\ room \in Seq(Q)
          /\ \A i \in DOMAIN room : room[i].from # wireOpened => room[i].from \in wireOutlived
      <4>1. CASE Len(wireQueue) >= WireQueueMax
        <5>1. wireQueue # <<>>
          BY <4>1, WireAssumption
        <5>2. room = Tail(wireQueue)
          BY <4>1
        <5> QED
          BY <1>2, <5>1, <5>2, HeadGoes DEF WireInv, WireRetired
      <4>2. CASE ~(Len(wireQueue) >= WireQueueMax)
        BY <1>2, <4>2 DEF WireInv, WireRetired
      <4> QED
        BY <4>1, <4>2
    <3>3. wireQueue' = Append(room, event)
      BY <1>3, <2>2 DEF Enqueued
    <3> HIDE DEF event, room
    <3>4. /\ \E T : wireQueue' \in Seq(T)
          /\ \A i \in DOMAIN wireQueue' : (i \in DOMAIN room /\ wireQueue'[i] = room[i])
                                          \/ wireQueue'[i] = event
      BY <3>2, <3>3, JoinsAny
    <3> QED
      BY <1>0, <1>3, <3>1, <3>2, <3>4 DEF WireRetired
  <2> QED
    BY <2>1, <2>2
<1> QED
  BY <1>0, <1>4, <1>5, <1>6 DEF WireInv, Timely

LEMMA WireSessionKeeps ==
    ASSUME WireInv, WireTake \/ WireOpen
    PROVE  WireInv'
<1>0. StrayInv' /\ wireOutlived' = wireOutlived
  BY DEF WireTake, WireOpen, wireStrays, WireInv, StrayInv
<1>1. CASE WireTake
  <2>1. PICK Q : wireQueue \in Seq(Q)
    BY DEF WireInv
  <2>2. /\ wireQueue # <<>> /\ wireQueue' = Tail(wireQueue)
        /\ UNCHANGED <<wireCalls, wireOpened>>
    BY <1>1 DEF WireTake
  <2>3. /\ \E T : wireQueue' \in Seq(T)
        /\ \A i \in DOMAIN wireQueue' : i + 1 \in DOMAIN wireQueue
                                        /\ wireQueue'[i] = wireQueue[i + 1]
    BY <2>1, <2>2, HeadGoes
  <2>4. WireRetired'
    BY <1>0, <2>2, <2>3 DEF WireInv, WireRetired
  <2> QED
    BY <1>0, <2>2, <2>3, <2>4 DEF WireInv, Timely
<1>2. CASE WireOpen
  <2>1. wireQueue' = <<>> /\ wireCalls' = wireCalls
    BY <1>2 DEF WireOpen
  <2>2. (\E T : wireQueue' \in Seq(T)) /\ DOMAIN wireQueue' = {}
    BY <2>1, EmptySeq
  <2> QED
    BY <1>0, <2>1, <2>2 DEF WireInv, WireRetired, Timely
<1> QED
  BY <1>1, <1>2

\* The session of an opening gets no event of an earlier one, unless that one's
\* reader outlived its join, for every bound and number of openings and faults
\* (_emit and _enqueue_into of link/transport.py).
THEOREM RetiredUnheard == WireSpec => []WireRetired
<1>1. WireInit => WireInv
  <2> SUFFICES ASSUME WireInit PROVE WireInv
    OBVIOUS
  <2>1. wireCalls = <<>> /\ wireQueue = <<>>
    BY DEF WireInit
  <2>2. /\ (\E S : wireCalls \in Seq(S)) /\ (\E S : wireQueue \in Seq(S))
        /\ DOMAIN wireCalls = {} /\ DOMAIN wireQueue = {}
    BY <2>1, EmptySeq
  <2>3. StrayInv
    <3>1. wireStray = NoStray /\ wireStray \in [from : {0}, left : {0}]
      BY DEF WireInit, NoStray
    <3> QED
      BY <3>1 DEF StrayInv
  <2> QED
    BY <2>2, <2>3 DEF WireInv, WireRetired
<1>2. WireInv /\ [WireNext]_wireVars => WireInv'
  <2> SUFFICES ASSUME WireInv, [WireNext]_wireVars PROVE WireInv'
    OBVIOUS
  <2>1. CASE \E kind \in {"text", "body"} : WireSend(kind)
    <3>1. UNCHANGED <<wireCalls, wireQueue, wireOpened, wireStray, wireOutlived>>
      BY <2>1 DEF WireSend, wireLoop, wireStrays
    <3> QED
      BY <3>1, SilenceKeeps DEF WireInv, StrayInv
  <2>2. CASE WireFrameOpens \/ WireFrameCloses \/ WireFrameByte \/ WireLineEnds \/ WireLineByte
             \/ WireIdle
    BY <2>2, WireReaderKeeps
  <2>3. CASE WireDies \/ WireStrayEmits \/ WireStrayEnds \/ WireClose
    BY <2>3, WireEndsKeeps
  <2>4. CASE WireCall \/ WireTake \/ WireOpen
    BY <2>4, WireCallKeeps, WireSessionKeeps
  <2>5. CASE UNCHANGED wireVars
    <3>1. UNCHANGED <<wireCalls, wireQueue, wireOpened, wireStray, wireOutlived>>
      BY <2>5 DEF wireVars
    <3> QED
      BY <3>1, SilenceKeeps DEF WireInv, StrayInv
  <2> QED
    BY <2>1, <2>2, <2>3, <2>4, <2>5 DEF WireNext
<1>3. WireInv => WireRetired
  BY DEF WireInv
<1> QED
  BY <1>1, <1>2, <1>3, PTL DEF WireSpec

\* n bytes b in a row; the bytes of the first n messages.
Rep(b, n) == [i \in 1 .. n |-> b]
Bytes(n) == {"delimiter", "newline", "noise", "text", "body"} \X (0 .. n)
Messages(n) == {Whole(kind, m) : kind \in {"text", "body"}, m \in 1 .. n}

\* A message as it is put on the line, and one after another.
EncOf(d) == IF d[1][1] = "text" THEN Append(d, LineFeed)
            ELSE <<FrameDelim>> \o d \o <<FrameDelim>>
Later(ds) == FlattenSeq([i \in DOMAIN ds |-> EncOf(ds[i])])

\* What n bytes in a row are.
LEMMA RepSeq ==
    ASSUME NEW S, NEW b \in S, NEW n \in Nat
    PROVE  /\ Rep(b, n) \in Seq(S) /\ Len(Rep(b, n)) = n /\ Rep(b, 0) = <<>>
           /\ Append(Rep(b, n), b) = Rep(b, n + 1)
<1>1. \A k \in Nat : Rep(b, k) \in Seq(S) /\ Len(Rep(b, k)) = k
  BY DEF Rep
<1>2. Rep(b, 0) = <<>>
  BY DEF Rep
<1>3. Append(Rep(b, n), b) = Rep(b, n + 1)
  <2>1. Append(Rep(b, n), b) \in Seq(S) /\ Len(Append(Rep(b, n), b)) = n + 1
    BY <1>1
  <2>2. \A i \in 1 .. n + 1 : Append(Rep(b, n), b)[i] = Rep(b, n + 1)[i]
    BY <1>1 DEF Rep
  <2> QED
    BY <1>1, <2>1, <2>2, SeqEqual
<1> QED
  BY <1>1, <1>2, <1>3

\* A byte and what follows it.
LEMMA Follows ==
    ASSUME NEW S, NEW b \in S, NEW y \in Seq(S)
    PROVE  /\ <<b>> \o y \in Seq(S) /\ <<b>> \o y # <<>>
           /\ (<<b>> \o y)[1] = b /\ Tail(<<b>> \o y) = y
<1>1. <<b>> \in Seq(S) /\ Len(<<b>>) = 1 /\ <<b>>[1] = b
  OBVIOUS
<1> DEFINE z == <<b>> \o y
<1>2. /\ z \in Seq(S) /\ Len(z) = 1 + Len(y) /\ Len(y) \in Nat
      /\ \A i \in 1 .. Len(z) : z[i] = IF i <= 1 THEN b ELSE y[i - 1]
  BY <1>1, ConcatProperties, LenProperties
<1> HIDE DEF z
<1>3. z # <<>> /\ z[1] = b
  BY <1>2, EmptySeq
<1>4. Tail(z) \in Seq(S) /\ Len(Tail(z)) = Len(y) /\ \A i \in 1 .. Len(y) : Tail(z)[i] = z[i + 1]
  BY <1>2, <1>3, HeadTailProperties
<1>5. \A i \in 1 .. Len(y) : Tail(z)[i] = y[i]
  BY <1>2, <1>4
<1>6. Tail(z) = y
  BY <1>4, <1>5, SeqEqual
<1> QED
  BY <1>2, <1>3, <1>6 DEF z

\* A run of one byte and what follows it.
LEMMA RunStep ==
    \A S : \A b \in S, y \in Seq(S), n \in Nat :
        n # 0 => Rep(b, n) \o y = <<b>> \o (Rep(b, n - 1) \o y)
<1> TAKE S
<1> TAKE b \in S, y \in Seq(S), n \in Nat
<1>0. n \in Nat /\ b \in S /\ y \in Seq(S)
  OBVIOUS
<1>3. HAVE n # 0
<1>1. Rep(b, n) \in Seq(S)
  BY RepSeq
<1> DEFINE r == Rep(b, n - 1)
<1>4. r \in Seq(S) /\ <<b>> \in Seq(S) /\ y \in Seq(S)
  BY <1>3, RepSeq
<1>5. Rep(b, n) = <<b>> \o r
  <2>1. <<b>> \o r \in Seq(S) /\ Len(<<b>> \o r) = n
    <3>1. n - 1 \in Nat
      BY <1>3
    <3>2. Len(r) = n - 1
      BY <3>1, RepSeq
    <3>3. Len(<<b>>) = 1
      OBVIOUS
    <3> HIDE DEF r
    <3>4. <<b>> \o r \in Seq(S) /\ Len(<<b>> \o r) = Len(<<b>>) + Len(r)
      BY <1>4, ConcatProperties
    <3> QED
      BY <1>3, <3>1, <3>2, <3>3, <3>4
  <2>2. \A i \in 1 .. n : (<<b>> \o r)[i] = b
    <3>1. Len(r) = n - 1 /\ \A i \in 1 .. n - 1 : r[i] = b
      BY <1>3, RepSeq DEF Rep
    <3> HIDE DEF r
    <3>2. \A i \in 1 .. Len(<<b>>) + Len(r) :
             (<<b>> \o r)[i] = IF i <= Len(<<b>>) THEN <<b>>[i] ELSE r[i - Len(<<b>>)]
      BY <1>4, ConcatProperties
    <3>3. Len(<<b>>) = 1 /\ <<b>>[1] = b
      OBVIOUS
    <3>4. \A i \in 1 .. n : (<<b>> \o r)[i] = IF i <= 1 THEN <<b>>[i] ELSE r[i - 1]
      BY <1>3, <3>1, <3>2, <3>3
    <3> QED
      BY <1>3, <3>1, <3>3, <3>4
  <2> HIDE DEF r
  <2>3. \A i \in 1 .. n : Rep(b, n)[i] = b
    BY DEF Rep
  <2>4. Len(Rep(b, n)) = n
    BY RepSeq
  <2> QED
    BY <1>1, <2>1, <2>2, <2>3, <2>4, SeqEqual
<1> HIDE DEF r
<1>6. (<<b>> \o r) \o y = <<b>> \o (r \o y)
  BY ONLY <1>4, ConcatAssociative
<1> QED
  BY <1>5, <1>6 DEF r

\* What it begins with.
LEMMA Runs ==
    \A S : \A b \in S, y \in Seq(S), n \in Nat :
        /\ Rep(b, n) \o y \in Seq(S)
        /\ n = 0 => Rep(b, n) \o y = y
        /\ n # 0 => Rep(b, n) \o y # <<>> /\ (Rep(b, n) \o y)[1] = b
<1> TAKE S
<1> TAKE b \in S, y \in Seq(S), n \in Nat
<1>1. Rep(b, n) \o y \in Seq(S)
  BY RepSeq, ConcatProperties
<1>2. ASSUME n = 0 PROVE Rep(b, n) \o y = y
  BY <1>2, RepSeq, ConcatEmptySeq
<1>3. ASSUME n # 0 PROVE Rep(b, n) \o y # <<>> /\ (Rep(b, n) \o y)[1] = b
  <2> DEFINE r == Rep(b, n - 1) \o y
  <2>1. Rep(b, n) \o y = <<b>> \o r
    BY <1>3, RunStep
  <2>2. b \in S /\ r \in Seq(S)
    BY <1>3, RepSeq, ConcatProperties
  <2> HIDE DEF r
  <2>3. <<b>> \o r # <<>> /\ (<<b>> \o r)[1] = b
    BY ONLY <2>2, Follows
  <2> QED
    BY <2>1, <2>3
<1> QED
  BY <1>1, <1>2, <1>3

\* What its first byte leaves.
LEMMA RunTail ==
    \A S : \A b \in S, y \in Seq(S), n \in Nat :
        n # 0 => Tail(Rep(b, n) \o y) = Rep(b, n - 1) \o y
<1> TAKE S
<1> TAKE b \in S, y \in Seq(S), n \in Nat
<1> DEFINE r == Rep(b, n - 1) \o y
<1>1. HAVE n # 0
<1>2. Rep(b, n) \o y = <<b>> \o r
  BY <1>1, RunStep
<1>3. b \in S /\ r \in Seq(S)
  BY <1>1, RepSeq, ConcatProperties
<1> HIDE DEF r
<1>4. Tail(<<b>> \o r) = r
  BY ONLY <1>3, Follows
<1> QED
  BY <1>2, <1>4 DEF r

\* The bytes of the line, told apart.
LEMMA ByteIs ==
    ASSUME NEW n \in Nat
    PROVE  /\ FrameDelim \in Bytes(n) /\ LineFeed \in Bytes(n) /\ Noise \in Bytes(n)
           /\ \A kind \in {"text", "body"}, m \in 0 .. n :
                 <<kind, m>> \in Bytes(n) /\ <<kind, m>> \notin {FrameDelim, LineFeed}
           /\ FrameDelim # LineFeed
           /\ Seq(Bytes(n)) \subseteq Seq(Bytes(n + 1))
<1>1. FrameDelim \in Bytes(n) /\ LineFeed \in Bytes(n) /\ Noise \in Bytes(n)
      /\ FrameDelim # LineFeed
  BY DEF FrameDelim, LineFeed, Noise, Bytes
<1>2. \A kind \in {"text", "body"}, m \in 0 .. n :
         <<kind, m>> \in Bytes(n) /\ <<kind, m>> \notin {FrameDelim, LineFeed}
  BY DEF FrameDelim, LineFeed, Bytes
<1>3. Bytes(n) \subseteq Bytes(n + 1)
  <2>1. 0 .. n \subseteq 0 .. n + 1
    OBVIOUS
  <2> QED
    BY <2>1 DEF Bytes
<1>4. Seq(Bytes(n)) \subseteq Seq(Bytes(n + 1))
  BY <1>3, SeqMonotonic
<1> QED
  BY <1>1, <1>2, <1>4

\* A message on the line.
LEMMA Message ==
    ASSUME NEW n \in Nat, NEW m \in 1 .. n, NEW kind \in {"text", "body"}
    PROVE  /\ Whole(kind, m) = Rep(<<kind, m>>, WireLength) /\ Whole(kind, m)[1] = <<kind, m>>
           /\ Whole(kind, m) # <<>> /\ Whole(kind, m) \in Seq(Bytes(n))
           /\ Encoded(kind, m) = EncOf(Whole(kind, m)) /\ EncOf(Whole(kind, m)) \in Seq(Bytes(n))
<1> DEFINE b == <<kind, m>>
           d == Whole(kind, m)
<1>1. WireLength \in Nat \ {0} /\ b \in Bytes(n)
  BY WireAssumption, ByteIs
<1>2. d = Rep(b, WireLength)
  BY DEF Whole, Rep
<1>3. d[1] = b /\ d[1][1] = kind /\ d # <<>> /\ d \in Seq(Bytes(n))
  <2>1. d \in Seq(Bytes(n)) /\ Len(d) = WireLength
    BY <1>1, <1>2, RepSeq
  <2>2. d[1] = b
    BY <1>1 DEF Whole
  <2> QED
    BY <1>1, <2>1, <2>2, EmptySeq
<1>4. Encoded(kind, m) = EncOf(d)
  BY <1>3 DEF Encoded, EncOf
<1>5. FrameDelim \in Bytes(n) /\ LineFeed \in Bytes(n)
  BY ByteIs
<1>6. <<FrameDelim>> \in Seq(Bytes(n)) /\ <<LineFeed>> \in Seq(Bytes(n))
  BY <1>5
<1> HIDE DEF b, d
<1>7. Append(d, LineFeed) \in Seq(Bytes(n))
  BY <1>3, <1>5, AppendProperties
<1>8. <<FrameDelim>> \o d \in Seq(Bytes(n)) /\ (<<FrameDelim>> \o d) \o <<FrameDelim>> \in Seq(Bytes(n))
  BY <1>3, <1>6, ConcatProperties
<1>9. EncOf(d) \in Seq(Bytes(n))
  BY <1>7, <1>8 DEF EncOf
<1> QED
  BY <1>2, <1>3, <1>4, <1>9 DEF b, d

\* What follows a message on the line.
LEMMA MessageThen ==
    ASSUME NEW n \in Nat, NEW m \in 1 .. n, NEW kind \in {"text", "body"}, NEW z \in Seq(Bytes(n))
    PROVE  EncOf(Whole(kind, m)) \o z =
             IF kind = "text" THEN Rep(<<kind, m>>, WireLength) \o (<<LineFeed>> \o z)
             ELSE <<FrameDelim>> \o (Rep(<<kind, m>>, WireLength) \o (<<FrameDelim>> \o z))
<1> DEFINE d == Whole(kind, m)
<1>1. /\ d = Rep(<<kind, m>>, WireLength) /\ d[1] = <<kind, m>> /\ d \in Seq(Bytes(n))
  BY Message
<1>10. FrameDelim \in Bytes(n) /\ LineFeed \in Bytes(n)
  BY ByteIs
<1>2. d[1][1] = kind
  BY <1>1
<1> HIDE DEF d
<1>3. /\ <<FrameDelim>> \in Seq(Bytes(n)) /\ <<LineFeed>> \in Seq(Bytes(n))
      /\ d \in Seq(Bytes(n)) /\ z \in Seq(Bytes(n))
  BY <1>1, <1>10
<1>4. EncOf(d) = IF kind = "text" THEN d \o <<LineFeed>> ELSE (<<FrameDelim>> \o d) \o <<FrameDelim>>
  <2>1. Append(d, LineFeed) = d \o <<LineFeed>>
    BY <1>1, <1>10, AppendIsConcat
  <2> QED
    BY <1>2, <2>1 DEF EncOf
<1>5. (d \o <<LineFeed>>) \o z = d \o (<<LineFeed>> \o z)
  BY ONLY <1>3, ConcatAssociative
<1>6. <<FrameDelim>> \o d \in Seq(Bytes(n)) /\ <<FrameDelim>> \o z \in Seq(Bytes(n))
  BY ONLY <1>3, ConcatProperties
<1>7. ((<<FrameDelim>> \o d) \o <<FrameDelim>>) \o z
        = (<<FrameDelim>> \o d) \o (<<FrameDelim>> \o z)
  BY ONLY <1>3, <1>6, ConcatAssociative
<1>8. (<<FrameDelim>> \o d) \o (<<FrameDelim>> \o z)
        = <<FrameDelim>> \o (d \o (<<FrameDelim>> \o z))
  BY ONLY <1>3, <1>6, ConcatAssociative
<1>9. EncOf(d) \o z = IF kind = "text" THEN d \o (<<LineFeed>> \o z)
                      ELSE <<FrameDelim>> \o (d \o (<<FrameDelim>> \o z))
  BY <1>4, <1>5, <1>7, <1>8
<1> QED
  BY <1>1, <1>9, Zenon DEF d

\* What follows on the line, message by message.
LEMMA LaterIs ==
    ASSUME NEW n \in Nat, NEW ds \in Seq(Messages(n))
    PROVE  /\ Later(ds) \in Seq(Bytes(n)) /\ Later(<<>>) = <<>>
           /\ \A d \in Messages(n) : Later(Append(ds, d)) = Later(ds) \o EncOf(d)
           /\ ds # <<>> => /\ ds[1] \in Messages(n) /\ Tail(ds) \in Seq(Messages(n))
                           /\ Later(Tail(ds)) \in Seq(Bytes(n))
                           /\ Later(ds) = EncOf(ds[1]) \o Later(Tail(ds))
<1> DEFINE S == Seq(Bytes(n))
           M == Messages(n)
           enc(es) == [i \in DOMAIN es |-> EncOf(es[i])]
<1>1. ASSUME NEW d \in M PROVE EncOf(d) \in S
  <2>1. PICK kind \in {"text", "body"}, m \in 1 .. n : d = Whole(kind, m)
    BY DEF Messages
  <2> QED
    BY <2>1, Message
<1> HIDE DEF S, M
<1>2. ASSUME NEW es \in Seq(M)
      PROVE  enc(es) \in Seq(S) /\ Len(enc(es)) = Len(es) /\ \A i \in 1 .. Len(es) : enc(es)[i] = EncOf(es[i])
  <2>1. Len(es) \in Nat /\ DOMAIN es = 1 .. Len(es) /\ \A i \in 1 .. Len(es) : EncOf(es[i]) \in S
    BY <1>1, ElementOfSeq, LenProperties
  <2> QED
    BY <2>1
<1>3. ASSUME NEW es \in Seq(M) PROVE Later(es) \in S
  <2>1. enc(es) \in Seq(S)
    BY <1>2
  <2> HIDE DEF enc
  <2>2. FlattenSeq(enc(es)) \in S
    BY <2>1, FlatConcat DEF S
  <2> QED
    BY <2>2 DEF Later, enc
<1>4. Later(<<>>) = <<>>
  <2>1. [i \in DOMAIN <<>> |-> EncOf(<<>>[i])] = <<>>
    OBVIOUS
  <2> QED
    BY <2>1, FlatOne DEF Later
<1>5. ASSUME NEW d \in M PROVE Later(Append(ds, d)) = Later(ds) \o EncOf(d)
  <2>1. /\ Append(ds, d) \in Seq(M) /\ Len(Append(ds, d)) = Len(ds) + 1 /\ Len(ds) \in Nat
        /\ \A i \in 1 .. Len(ds) : Append(ds, d)[i] = ds[i]
        /\ Append(ds, d)[Len(ds) + 1] = d
    BY AppendProperties, LenProperties DEF M
  <2>2. /\ enc(ds) \in Seq(S) /\ Len(enc(ds)) = Len(ds)
        /\ \A i \in 1 .. Len(ds) : enc(ds)[i] = EncOf(ds[i])
    BY <1>2 DEF M
  <2>3. /\ enc(Append(ds, d)) \in Seq(S) /\ Len(enc(Append(ds, d))) = Len(ds) + 1
        /\ \A i \in 1 .. Len(ds) + 1 : enc(Append(ds, d))[i] = EncOf(Append(ds, d)[i])
    BY <1>2, <2>1
  <2>4. /\ Append(enc(ds), EncOf(d)) \in Seq(S) /\ Len(Append(enc(ds), EncOf(d))) = Len(ds) + 1
        /\ \A i \in 1 .. Len(ds) : Append(enc(ds), EncOf(d))[i] = enc(ds)[i]
        /\ Append(enc(ds), EncOf(d))[Len(ds) + 1] = EncOf(d)
    BY <1>1, <2>2, AppendProperties
  <2> HIDE DEF enc
  <2>5. \A i \in 1 .. Len(ds) + 1 : enc(Append(ds, d))[i] = Append(enc(ds), EncOf(d))[i]
    <3> SUFFICES ASSUME NEW i \in 1 .. Len(ds) + 1
                 PROVE  enc(Append(ds, d))[i] = Append(enc(ds), EncOf(d))[i]
      OBVIOUS
    <3>1. i \in 1 .. Len(ds) \/ i = Len(ds) + 1
      BY <2>1
    <3> QED
      BY <3>1, <2>1, <2>2, <2>3, <2>4
  <2>6. enc(Append(ds, d)) = Append(enc(ds), EncOf(d))
    BY <2>3, <2>4, <2>5, SeqEqual
  <2>7. FlattenSeq(Append(enc(ds), EncOf(d))) = FlattenSeq(enc(ds)) \o EncOf(d)
    BY <1>1, <2>2, FlatQueue DEF S
  <2> QED
    BY <2>6, <2>7 DEF Later, enc
<1>6. ASSUME ds # <<>>
      PROVE  /\ ds[1] \in M /\ Tail(ds) \in Seq(M)
             /\ Later(ds) = EncOf(ds[1]) \o Later(Tail(ds))
  <2>1. /\ Tail(ds) \in Seq(M) /\ Len(Tail(ds)) = Len(ds) - 1 /\ Len(ds) \in Nat \ {0}
        /\ \A i \in 1 .. Len(Tail(ds)) : Tail(ds)[i] = ds[i + 1]
    BY <1>6, HeadTailProperties, EmptySeq DEF M
  <2>2. ds[1] \in M
    BY <2>1, ElementOfSeq DEF M
  <2>3. /\ enc(ds) \in Seq(S) /\ Len(enc(ds)) = Len(ds)
        /\ \A i \in 1 .. Len(ds) : enc(ds)[i] = EncOf(ds[i])
    BY <1>2 DEF M
  <2>4. /\ enc(Tail(ds)) \in Seq(S) /\ Len(enc(Tail(ds))) = Len(ds) - 1
        /\ \A i \in 1 .. Len(ds) - 1 : enc(Tail(ds))[i] = EncOf(Tail(ds)[i])
    BY <1>2, <2>1
  <2> HIDE DEF enc
  <2>5. enc(ds) # <<>>
    BY <2>1, <2>3, EmptySeq
  <2>6. /\ Tail(enc(ds)) \in Seq(S) /\ Len(Tail(enc(ds))) = Len(ds) - 1
        /\ \A i \in 1 .. Len(ds) - 1 : Tail(enc(ds))[i] = enc(ds)[i + 1]
    BY <2>3, <2>5, HeadTailProperties
  <2>7. \A i \in 1 .. Len(ds) - 1 : i + 1 \in 1 .. Len(ds)
    BY <2>1
  <2>8. \A i \in 1 .. Len(ds) - 1 : Tail(enc(ds))[i] = enc(Tail(ds))[i]
    BY <2>1, <2>3, <2>4, <2>6, <2>7
  <2>9. Tail(enc(ds)) = enc(Tail(ds))
    BY <2>4, <2>6, <2>8, SeqEqual
  <2>10. Head(enc(ds)) = EncOf(ds[1])
    BY <2>1, <2>3
  <2>11. FlattenSeq(enc(ds)) = Head(enc(ds)) \o FlattenSeq(Tail(enc(ds)))
    BY <2>3, <2>5, FlatQueue DEF S
  <2>12. FlattenSeq(enc(ds)) = EncOf(ds[1]) \o FlattenSeq(enc(Tail(ds)))
    BY <2>9, <2>10, <2>11
  <2> QED
    BY <2>1, <2>2, <2>12 DEF Later, enc
<1> QED
  BY <1>3, <1>4, <1>5, <1>6 DEF S, M

\* What damage makes of a message are bytes still.
LEMMA DamagedIs ==
    ASSUME NEW n \in Nat, NEW x \in Seq(Bytes(n)), NEW y \in Damaged(x)
    PROVE  y \in Seq(Bytes(n))
<1> DEFINE S == Bytes(n)
<1>1. FrameDelim \in S /\ Noise \in S
  BY ByteIs
<1> HIDE DEF S
<1>2. x \in Seq(S) /\ Len(x) \in Nat /\ DOMAIN x = 1 .. Len(x) /\ \A i \in 1 .. Len(x) : x[i] \in S
  BY ElementOfSeq, LenProperties DEF S
<1>3. ASSUME NEW i \in 1 .. Len(x)
      PROVE  /\ SubSeq(x, 1, i - 1) \in Seq(S) /\ SubSeq(x, i + 1, Len(x)) \in Seq(S)
             /\ SubSeq(x, i, Len(x)) \in Seq(S)
  <2>1. \A a \in Nat \ {0}, b \in Nat : b <= Len(x) => \A j \in a .. b : x[j] \in S
    BY <1>2
  <2>2. \A a \in Nat \ {0}, b \in Nat : b <= Len(x) => SubSeq(x, a, b) \in Seq(S)
    BY <2>1, SubSeqProperties
  <2> QED
    BY <1>2, <2>2
<1>4. ASSUME NEW i \in 1 .. Len(x), y = RemoveAt(x, i) PROVE y \in Seq(S)
  BY <1>3, <1>4, ConcatProperties DEF RemoveAt
<1>5. ASSUME NEW i \in 1 .. Len(x), NEW byte \in {Noise, FrameDelim}, y = ReplaceAt(x, i, byte)
      PROVE  y \in Seq(S)
  BY <1>1, <1>2, <1>5, ExceptSeq DEF ReplaceAt
<1>6. ASSUME NEW i \in 1 .. Len(x), y = InsertAt(x, i, FrameDelim) PROVE y \in Seq(S)
  <2>1. <<FrameDelim>> \in Seq(S)
    BY <1>1
  <2>2. SubSeq(x, 1, i - 1) \o <<FrameDelim>> \in Seq(S)
    BY <1>3, <2>1, ConcatProperties
  <2> QED
    BY <1>3, <1>6, <2>2, ConcatProperties DEF InsertAt
<1> QED
  BY <1>2, <1>4, <1>5, <1>6 DEF Damaged, S

\* No message of ds is as old as what line holds.
Older(line, ds) == \A i \in DOMAIN line, j \in DOMAIN ds : line[i][2] < ds[j][1][2]

\* Where a reader in step is, before the junk that damage left: between two
\* messages, perhaps with a rest of damage in its line; in a line whose beginning
\* was damaged before the pause; in a line or a frame that is due.
Between(junk) ==
    /\ wireReader.in # TRUE /\ wireBytes = Later(wireDue) \o junk
    /\ Older(wireReader.line, wireDue)
    /\ wireReader.line # <<>> => wireDue # <<>> /\ wireDue[1][1][1] = "body"
InLeftover(junk) ==
    \E m \in 1 .. wireSends, p \in 0 .. WireLength :
        /\ wireReader.in # TRUE
        /\ wireBytes = Rep(<<"text", m>>, p) \o (<<LineFeed>> \o (Later(wireDue) \o junk))
        /\ Older(wireReader.line, wireDue)
        /\ \A j \in DOMAIN wireDue : m < wireDue[j][1][2]
InLine(junk) ==
    \E m \in 1 .. wireSends, q \in 1 .. WireLength :
        /\ wireReader.in # TRUE /\ wireDue # <<>> /\ wireDue[1] = Whole("text", m)
        /\ wireReader.line = Rep(<<"text", m>>, q)
        /\ wireBytes = Rep(<<"text", m>>, WireLength - q)
                           \o (<<LineFeed>> \o (Later(Tail(wireDue)) \o junk))
InFrame(junk) ==
    \E m \in 1 .. wireSends, q \in 0 .. WireLength :
        /\ wireReader.in = TRUE /\ wireDue # <<>> /\ wireDue[1] = Whole("body", m)
        /\ wireReader.line = <<>> /\ wireReader.frame = Rep(<<"body", m>>, q)
        /\ wireBytes = Rep(<<"body", m>>, WireLength - q)
                           \o (<<FrameDelim>> \o (Later(Tail(wireDue)) \o junk))
InStep(junk) == Between(junk) \/ InLeftover(junk) \/ InLine(junk) \/ InFrame(junk)

WireShape ==
    /\ wireSends \in Nat /\ wireSync \in {"lost", "quiet", "step"}
    /\ wireReader \in [at : {"reading", "dead", "closed"}, line : Seq(Bytes(wireSends)),
                       frame : Seq(Bytes(wireSends)), in : BOOLEAN]
    /\ wireReader.in # TRUE => wireReader.frame = <<>>
    /\ wireBytes \in Seq(Bytes(wireSends)) /\ wireDue \in Seq(Messages(wireSends))

HeardInv ==
    /\ WireShape
    /\ ~WireReading => wireSync = "lost" /\ wireDue = <<>>
    /\ \/ wireSync = "lost" /\ wireDue = <<>>
       \/ wireSync = "quiet" /\ wireDue = <<>> /\ wireBytes = <<>> /\ wireReader.in # TRUE
       \/ /\ wireSync # "quiet"
          /\ \E junk \in Seq(Bytes(wireSends)) : (wireSync = "step" => junk = <<>>) /\ InStep(junk)

Reads == WireFrameOpens \/ WireFrameCloses \/ WireFrameByte \/ WireLineEnds \/ WireLineByte

\* What is due after the reader has told the loop.
LEMMA DueIs ==
    ASSUME WireShape, NEW events, Emits(events)
    PROVE  /\ wireDue' = wireDue \/ (wireDue # <<>> /\ wireDue' = Tail(wireDue))
           /\ events \in Garbage \cup {<<>>} => wireDue' = wireDue
           /\ \A line : events \in Dispatched(line) /\ (wireDue # <<>> => wireDue[1] # line)
                           => wireDue' = wireDue
           /\ \A m \in 1 .. wireSends :
                 wireDue # <<>> /\ (\/ wireDue[1] = Whole("text", m) /\ events \in Dispatched(wireDue[1])
                                    \/ wireDue[1] = Whole("body", m) /\ events \in Finished(wireDue[1]))
                           => wireDue' = Tail(wireDue)
<1>1. wireDue' = IF wireDue # <<>> /\ events # <<>> /\ events[1].what = wireDue[1]
                 THEN Tail(wireDue) ELSE wireDue
  BY DEF Emits
<1>2. \A kind, what : Event(kind, what) # <<>> /\ Event(kind, what)[1].what = what
  BY DEF Event
<1>3. ASSUME wireDue # <<>> PROVE wireDue[1] # <<>>
  <2>1. wireSends \in Nat /\ wireDue \in Seq(Messages(wireSends))
    BY DEF WireShape
  <2>2. PICK kind \in {"text", "body"}, m \in 1 .. wireSends : wireDue[1] = Whole(kind, m)
    <3>1. wireDue[1] \in Messages(wireSends)
      BY <1>3, <2>1, LaterIs
    <3> QED
      BY <3>1 DEF Messages
  <2> QED
    BY <2>1, <2>2, Message
<1>4. events \in Garbage \cup {<<>>} => wireDue' = wireDue
  BY <1>1, <1>2, <1>3 DEF Garbage
<1>5. ASSUME NEW line, events \in Dispatched(line), wireDue # <<>> => wireDue[1] # line
      PROVE  wireDue' = wireDue
  <2>1. events = <<>> \/ events = Event("line", line) \/ events \in Garbage
    BY <1>5 DEF Dispatched
  <2>2. CASE events = Event("line", line)
    BY <1>1, <1>2, <1>5, <2>2
  <2> QED
    BY <2>1, <2>2, <1>4
<1>6. ASSUME NEW m \in 1 .. wireSends, wireDue # <<>>, wireDue[1] = Whole("text", m),
             events \in Dispatched(wireDue[1])
      PROVE  wireDue' = Tail(wireDue)
  <2>1. \A i \in DOMAIN wireDue[1] : wireDue[1][i][1] = "text"
    BY <1>6 DEF Whole
  <2>2. events = Event("line", wireDue[1])
    BY <1>3, <1>6, <2>1 DEF Dispatched
  <2> QED
    BY <1>1, <1>2, <1>6, <2>2
<1>7. ASSUME NEW m \in 1 .. wireSends, wireDue # <<>>, wireDue[1] = Whole("body", m),
             events \in Finished(wireDue[1])
      PROVE  wireDue' = Tail(wireDue)
  <2>1. Sound(wireDue[1])
    BY <1>7 DEF Sound
  <2>2. \E kind : events = Event(kind, wireDue[1])
    BY <1>3, <1>7, <2>1 DEF Finished
  <2> QED
    BY <1>1, <1>2, <1>7, <2>2
<1>8. wireDue' = wireDue \/ (wireDue # <<>> /\ wireDue' = Tail(wireDue))
  BY <1>1
<1>9. ASSUME NEW m \in 1 .. wireSends, wireDue # <<>>,
             \/ wireDue[1] = Whole("text", m) /\ events \in Dispatched(wireDue[1])
             \/ wireDue[1] = Whole("body", m) /\ events \in Finished(wireDue[1])
      PROVE  wireDue' = Tail(wireDue)
  <2>1. CASE wireDue[1] = Whole("text", m) /\ events \in Dispatched(wireDue[1])
    BY <1>6, <1>9, <2>1
  <2>2. CASE wireDue[1] = Whole("body", m) /\ events \in Finished(wireDue[1])
    BY <1>7, <1>9, <2>2
  <2> QED
    BY <1>9, <2>1, <2>2
<1>10. \A line : events \in Dispatched(line) /\ (wireDue # <<>> => wireDue[1] # line)
                    => wireDue' = wireDue
  BY <1>5
<1>11. \A m \in 1 .. wireSends :
          wireDue # <<>> /\ (\/ wireDue[1] = Whole("text", m) /\ events \in Dispatched(wireDue[1])
                             \/ wireDue[1] = Whole("body", m) /\ events \in Finished(wireDue[1]))
                    => wireDue' = Tail(wireDue)
  BY <1>9
<1> QED
  BY <1>4, <1>8, <1>10, <1>11

\* What the reader does, by the byte it finds.
LEMMA ReadIs ==
    ASSUME WireShape, Reads
    PROVE  /\ WireReading /\ wireBytes # <<>> /\ wireBytes' = Tail(wireBytes)
           /\ UNCHANGED <<wireSync, wireSends>>
           /\ wireReader.in # TRUE /\ wireBytes[1] = FrameDelim =>
                \E events \in Dispatched(wireReader.line) :
                    Emits(events) /\ wireReader' = [wireReader EXCEPT !.line = <<>>, !.in = TRUE]
           /\ wireReader.in # TRUE /\ wireBytes[1] = LineFeed =>
                \E events \in Dispatched(wireReader.line) :
                    Emits(events) /\ wireReader' = [wireReader EXCEPT !.line = <<>>]
           /\ wireReader.in # TRUE /\ wireBytes[1] \notin {FrameDelim, LineFeed} =>
                LET line == Append(wireReader.line, wireBytes[1]) IN
                \/ /\ Len(line) > WireLineMax /\ wireReader' = [wireReader EXCEPT !.line = <<>>]
                   /\ \E events \in Garbage : Emits(events)
                \/ Emits(<<>>) /\ wireReader' = [wireReader EXCEPT !.line = line]
           /\ wireReader.in = TRUE /\ wireBytes[1] = FrameDelim =>
                \E events \in Finished(wireReader.frame) :
                    /\ Emits(events)
                    /\ wireReader' = [wireReader EXCEPT !.frame = <<>>, !.in = FALSE]
           /\ wireReader.in = TRUE /\ wireBytes[1] # FrameDelim =>
                LET frame == Append(wireReader.frame, wireBytes[1]) IN
                \/ /\ Len(frame) > WireFrameMax
                   /\ wireReader' = [wireReader EXCEPT !.frame = <<>>, !.in = FALSE]
                   /\ \E events \in Garbage : Emits(events)
                \/ Emits(<<>>) /\ wireReader' = [wireReader EXCEPT !.frame = frame]
<1>1. wireReader.in \in BOOLEAN
  BY DEF WireShape
<1>2. FrameDelim # LineFeed
  BY DEF FrameDelim, LineFeed
<1>3. CASE WireFrameOpens
  BY <1>1, <1>2, <1>3, Zenon DEF WireFrameOpens, WireRead
<1>4. CASE WireFrameCloses
  BY <1>1, <1>2, <1>4, Zenon DEF WireFrameCloses, WireRead
<1>5. CASE WireFrameByte
  BY <1>1, <1>2, <1>5 DEF WireFrameByte, WireRead
<1>6. CASE WireLineEnds
  BY <1>1, <1>2, <1>6, Zenon DEF WireLineEnds, WireRead
<1>7. CASE WireLineByte
  BY <1>1, <1>2, <1>7 DEF WireLineByte, WireRead
<1> QED
  BY <1>3, <1>4, <1>5, <1>6, <1>7 DEF Reads

\* The first message due, and the line behind it.
LEMMA HeadDue ==
    ASSUME WireShape, wireDue # <<>>, NEW junk \in Seq(Bytes(wireSends))
    PROVE  \E kind \in {"text", "body"}, m \in 1 .. wireSends :
             /\ wireDue[1] = Whole(kind, m) /\ wireDue[1][1] = <<kind, m>>
             /\ Tail(wireDue) \in Seq(Messages(wireSends))
             /\ Later(Tail(wireDue)) \o junk \in Seq(Bytes(wireSends))
             /\ Later(wireDue) \o junk =
                  IF kind = "text"
                  THEN Rep(<<kind, m>>, WireLength)
                         \o (<<LineFeed>> \o (Later(Tail(wireDue)) \o junk))
                  ELSE <<FrameDelim>> \o (Rep(<<kind, m>>, WireLength)
                         \o (<<FrameDelim>> \o (Later(Tail(wireDue)) \o junk)))
<1>1. wireSends \in Nat /\ wireDue \in Seq(Messages(wireSends))
  BY DEF WireShape
<1>2. /\ wireDue[1] \in Messages(wireSends) /\ Tail(wireDue) \in Seq(Messages(wireSends))
      /\ Later(Tail(wireDue)) \in Seq(Bytes(wireSends))
      /\ Later(wireDue) = EncOf(wireDue[1]) \o Later(Tail(wireDue))
  BY <1>1, LaterIs
<1>3. PICK kind \in {"text", "body"}, m \in 1 .. wireSends : wireDue[1] = Whole(kind, m)
  BY <1>2 DEF Messages
<1> DEFINE d == Whole(kind, m)
           z == Later(Tail(wireDue)) \o junk
<1>4. z \in Seq(Bytes(wireSends))
  BY <1>2, ConcatProperties
<1> HIDE DEF z
<1>5. /\ d[1] = <<kind, m>> /\ EncOf(d) \in Seq(Bytes(wireSends))
      /\ EncOf(d) \o z =
           IF kind = "text" THEN Rep(<<kind, m>>, WireLength) \o (<<LineFeed>> \o z)
           ELSE <<FrameDelim>> \o (Rep(<<kind, m>>, WireLength) \o (<<FrameDelim>> \o z))
  BY <1>1, <1>4, Message, MessageThen
<1>6. Later(wireDue) \o junk = EncOf(d) \o z
  <2>1. /\ EncOf(d) \in Seq(Bytes(wireSends)) /\ Later(Tail(wireDue)) \in Seq(Bytes(wireSends))
        /\ junk \in Seq(Bytes(wireSends))
    BY <1>2, <1>5
  <2>2. (EncOf(d) \o Later(Tail(wireDue))) \o junk = EncOf(d) \o (Later(Tail(wireDue)) \o junk)
    BY ONLY <2>1, ConcatAssociative
  <2>3. Later(wireDue) = EncOf(d) \o Later(Tail(wireDue))
    BY <1>2, <1>3, Zenon
  <2> QED
    BY <2>2, <2>3, Zenon DEF z
<1> HIDE DEF d
<1> QED
  BY <1>2, <1>3, <1>4, <1>5, <1>6, Zenon DEF d, z

\* The first byte of a run, and the byte that ends it.
LEMMA NextByte ==
    ASSUME WireShape, NEW b \in Bytes(wireSends), NEW c \in Bytes(wireSends),
           NEW z \in Seq(Bytes(wireSends)), NEW p \in Nat,
           wireBytes = Rep(b, p) \o (<<c>> \o z)
    PROVE  /\ wireBytes # <<>>
           /\ p # 0 => wireBytes[1] = b /\ Tail(wireBytes) = Rep(b, p - 1) \o (<<c>> \o z)
           /\ p = 0 => wireBytes[1] = c /\ Tail(wireBytes) = z
<1>0. c \in Bytes(wireSends) /\ z \in Seq(Bytes(wireSends))
      /\ b \in Bytes(wireSends) /\ p \in Nat
  OBVIOUS
<1> DEFINE v == <<c>> \o z
<1>1. v \in Seq(Bytes(wireSends)) /\ v # <<>> /\ v[1] = c /\ Tail(v) = z
  BY ONLY <1>0, Follows
<1>2. wireBytes = Rep(b, p) \o v
  OBVIOUS
<1> HIDE DEF v
<1>3. CASE p = 0
  <2>1. Rep(b, p) \o v = v
    BY ONLY <1>0, <1>1, <1>3, Runs
  <2> QED
    BY <1>1, <1>2, <1>3, <2>1
<1>4. CASE p # 0
  <2>1. /\ Rep(b, p) \o v # <<>> /\ (Rep(b, p) \o v)[1] = b
        /\ Tail(Rep(b, p) \o v) = Rep(b, p - 1) \o v
    <3>1. b \in Bytes(wireSends) /\ v \in Seq(Bytes(wireSends)) /\ p \in Nat /\ p # 0
      BY <1>1, <1>4
    <3>2. Rep(b, p) \o v # <<>> /\ (Rep(b, p) \o v)[1] = b
      BY ONLY <3>1, Runs
    <3>3. Tail(Rep(b, p) \o v) = Rep(b, p - 1) \o v
      BY ONLY <3>1, RunTail
    <3> QED
      BY ONLY <3>2, <3>3
  <2> QED
    BY <1>2, <1>4, <2>1 DEF v
<1> QED
  BY <1>3, <1>4

\* A reader between two messages takes a byte of the next.
LEMMA FromBetween ==
    ASSUME WireShape, NEW junk \in Seq(Bytes(wireSends)), Between(junk), wireDue # <<>>, Reads
    PROVE  InLine(junk)' \/ InFrame(junk)'
<1>1. PICK kind \in {"text", "body"}, m \in 1 .. wireSends :
         /\ wireDue[1] = Whole(kind, m) /\ wireDue[1][1] = <<kind, m>>
         /\ Tail(wireDue) \in Seq(Messages(wireSends))
         /\ Later(Tail(wireDue)) \o junk \in Seq(Bytes(wireSends))
         /\ Later(wireDue) \o junk =
              IF kind = "text"
              THEN Rep(<<kind, m>>, WireLength)
                     \o (<<LineFeed>> \o (Later(Tail(wireDue)) \o junk))
              ELSE <<FrameDelim>> \o (Rep(<<kind, m>>, WireLength)
                     \o (<<FrameDelim>> \o (Later(Tail(wireDue)) \o junk)))
  BY HeadDue
<1>0. wireSends \in Nat
  BY DEF WireShape
<1>2. /\ wireSends \in Nat /\ m \in 0 .. wireSends
      /\ wireReader \in [at : {"reading", "dead", "closed"}, line : Seq(Bytes(wireSends)),
                         frame : Seq(Bytes(wireSends)), in : BOOLEAN]
      /\ wireReader.in # TRUE => wireReader.frame = <<>>
  <2>1. m \in 0 .. wireSends
    BY <1>0
  <2> QED
    BY <1>0, <2>1 DEF WireShape
<1>7. wireReader.in # TRUE /\ wireBytes = Later(wireDue) \o junk /\ Older(wireReader.line, wireDue)
  BY DEF Between
<1>3. /\ <<kind, m>> \in Bytes(wireSends) /\ <<kind, m>> \notin {FrameDelim, LineFeed}
      /\ FrameDelim \in Bytes(wireSends) /\ LineFeed \in Bytes(wireSends)
  BY <1>2, ByteIs
<1>4. /\ WireLength \in Nat \ {0} /\ WireLineMax \in Nat /\ WireLength <= WireLineMax
      /\ 1 \in 1 .. WireLength /\ 0 \in 0 .. WireLength
      /\ WireLength - 0 = WireLength /\ ~(1 > WireLineMax)
  BY WireAssumption
<1>5. CASE kind = "text"
  <2>1. /\ wireBytes[1] = <<kind, m>>
        /\ Tail(wireBytes) = Rep(<<kind, m>>, WireLength - 1)
                               \o (<<LineFeed>> \o (Later(Tail(wireDue)) \o junk))
    <3>1. wireBytes = Rep(<<kind, m>>, WireLength)
                        \o (<<LineFeed>> \o (Later(Tail(wireDue)) \o junk))
      BY <1>1, <1>5, <1>7, Zenon
    <3>2. WireLength # 0 /\ WireLength \in Nat
      BY <1>4
    <3>3. /\ <<kind, m>> \in Bytes(wireSends) /\ LineFeed \in Bytes(wireSends)
          /\ Later(Tail(wireDue)) \o junk \in Seq(Bytes(wireSends))
      BY <1>1, <1>3
    <3> QED
      BY ONLY WireShape, <3>1, <3>2, <3>3, NextByte
  <2>2. wireReader.line = <<>>
    BY <1>1, <1>5 DEF Between
  <2>3. Append(wireReader.line, wireBytes[1]) = Rep(<<kind, m>>, 1)
        /\ Len(Append(wireReader.line, wireBytes[1])) = 1
    <3>1. Rep(<<kind, m>>, 0) = <<>> /\ Append(Rep(<<kind, m>>, 0), <<kind, m>>) = Rep(<<kind, m>>, 0 + 1)
      BY <1>3, RepSeq
    <3>2. Len(Rep(<<kind, m>>, 1)) = 1
      BY <1>3, RepSeq
    <3>3. 0 + 1 = 1
      OBVIOUS
    <3>4. Append(<<>>, <<kind, m>>) = Rep(<<kind, m>>, 1)
      BY <3>1, <3>3, Zenon
    <3>5. Append(wireReader.line, wireBytes[1]) = Append(<<>>, <<kind, m>>)
      BY <2>1, <2>2, Zenon
    <3> QED
      BY <3>2, <3>4, <3>5, Zenon
  <2>4. /\ wireBytes' = Tail(wireBytes) /\ wireSends' = wireSends /\ Emits(<<>>)
        /\ wireReader' = [wireReader EXCEPT !.line = Rep(<<kind, m>>, 1)]
    BY <1>3, <1>4, <1>7, <2>1, <2>3, ReadIs
  <2>5. wireDue' = wireDue
    BY <2>4, DueIs
  <2>6. wireReader'.in # TRUE /\ wireReader'.line = Rep(<<kind, m>>, 1)
    BY <1>2, <1>7, <2>4
  <2>7. InLine(junk)'
    BY <1>1, <1>4, <1>5, <2>1, <2>4, <2>5, <2>6 DEF InLine
  <2> QED
    BY <2>7
<1>6. CASE kind = "body"
  <2> DEFINE z == Rep(<<kind, m>>, WireLength)
                    \o (<<FrameDelim>> \o (Later(Tail(wireDue)) \o junk))
  <2>1. z \in Seq(Bytes(wireSends))
    <3>1. <<FrameDelim>> \o (Later(Tail(wireDue)) \o junk) \in Seq(Bytes(wireSends))
      BY <1>1, <1>3, Follows
    <3> QED
      BY <1>3, <1>4, <3>1, Runs
  <2>2. wireBytes = <<FrameDelim>> \o z
    BY <1>1, <1>6, <1>7
  <2>3. wireBytes[1] = FrameDelim /\ Tail(wireBytes) = z
    BY <1>3, <2>1, <2>2, Follows
  <2>4. PICK events \in Dispatched(wireReader.line) :
           Emits(events) /\ wireReader' = [wireReader EXCEPT !.line = <<>>, !.in = TRUE]
    BY <1>7, <2>3, ReadIs
  <2>5. wireBytes' = z /\ wireSends' = wireSends
    BY <2>3, ReadIs
  <2>6. wireDue[1] # wireReader.line
    <3> SUFFICES ASSUME wireReader.line = wireDue[1] PROVE FALSE
      OBVIOUS
    <3>1. 1 \in DOMAIN wireReader.line /\ 1 \in DOMAIN wireDue
      <4>1. 1 \in DOMAIN wireDue
        BY DEF WireShape
      <4>2. DOMAIN wireDue[1] = 1 .. WireLength
        BY <1>1 DEF Whole
      <4> QED
        BY <1>4, <4>1, <4>2
    <3>2. wireReader.line[1][2] < wireDue[1][1][2]
      BY <1>7, <3>1 DEF Older
    <3> QED
      BY <1>1, <1>2, <3>2
  <2>7. wireDue' = wireDue
    BY <2>4, <2>6, DueIs
  <2>8. wireReader'.in = TRUE /\ wireReader'.line = <<>> /\ wireReader'.frame = <<>>
    BY <1>2, <1>7, <2>4
  <2>9. Rep(<<kind, m>>, 0) = <<>>
    BY <1>3, RepSeq
  <2>10. InFrame(junk)'
    BY <1>1, <1>4, <1>6, <2>5, <2>7, <2>8, <2>9 DEF InFrame
  <2> QED
    BY <2>10
<1> QED
  BY <1>5, <1>6

\* What is older than the first message due is not that message.
LEMMA OlderIsOther ==
    ASSUME WireShape, NEW line, Older(line, wireDue), wireDue # <<>>
    PROVE  wireDue[1] # line
<1>1. PICK kind \in {"text", "body"}, m \in 1 .. wireSends :
         wireDue[1] = Whole(kind, m) /\ wireDue[1][1] = <<kind, m>>
  <2>1. wireSends \in Nat /\ wireDue \in Seq(Messages(wireSends)) /\ <<>> \in Seq(Bytes(wireSends))
    BY EmptySeq DEF WireShape
  <2> QED
    BY <2>1, HeadDue
<1>2. 1 \in DOMAIN wireDue /\ DOMAIN wireDue[1] = 1 .. WireLength /\ 1 \in 1 .. WireLength
  <2>1. 1 \in DOMAIN wireDue
    BY DEF WireShape
  <2> QED
    BY <1>1, <2>1, WireAssumption DEF Whole
<1> SUFFICES ASSUME wireDue[1] = line PROVE FALSE
  OBVIOUS
<1>3. line[1][2] < wireDue[1][1][2]
  BY <1>2 DEF Older
<1>4. wireSends \in Nat
  BY DEF WireShape
<1> QED
  BY <1>1, <1>3, <1>4

\* A reader in a damaged line takes a byte of it.
LEMMA FromLeftover ==
    ASSUME WireShape, NEW junk \in Seq(Bytes(wireSends)), InLeftover(junk), Reads
    PROVE  Between(junk)' \/ InLeftover(junk)'
<1>1. PICK m \in 1 .. wireSends, p \in 0 .. WireLength :
        /\ wireReader.in # TRUE
        /\ wireBytes = Rep(<<"text", m>>, p) \o (<<LineFeed>> \o (Later(wireDue) \o junk))
        /\ Older(wireReader.line, wireDue)
        /\ \A j \in DOMAIN wireDue : m < wireDue[j][1][2]
  BY DEF InLeftover
<1> DEFINE b == <<"text", m>>
<1>2. /\ wireSends \in Nat /\ wireDue \in Seq(Messages(wireSends))
      /\ wireReader \in [at : {"reading", "dead", "closed"}, line : Seq(Bytes(wireSends)),
                         frame : Seq(Bytes(wireSends)), in : BOOLEAN]
  BY DEF WireShape
<1>3. b \in Bytes(wireSends) /\ b \notin {FrameDelim, LineFeed}
      /\ LineFeed \in Bytes(wireSends) /\ b[2] = m
  <2>1. m \in 0 .. wireSends
    BY <1>2
  <2> QED
    BY <1>2, <2>1, ByteIs
<1>4. Later(wireDue) \o junk \in Seq(Bytes(wireSends))
  BY <1>2, LaterIs, ConcatProperties
<1>5. p \in Nat /\ (p # 0 => p - 1 \in 0 .. WireLength)
  BY WireAssumption
<1>6. /\ wireBytes # <<>>
      /\ p # 0 => wireBytes[1] = b
                  /\ Tail(wireBytes) = Rep(b, p - 1) \o (<<LineFeed>> \o (Later(wireDue) \o junk))
      /\ p = 0 => wireBytes[1] = LineFeed /\ Tail(wireBytes) = Later(wireDue) \o junk
  BY <1>1, <1>3, <1>4, <1>5, NextByte
<1> HIDE DEF b
<1>7. wireBytes' = Tail(wireBytes) /\ wireSends' = wireSends
  BY ReadIs
<1>8. CASE p # 0
  <2>1. /\ wireReader' = [wireReader EXCEPT !.line = <<>>]
           \/ wireReader' = [wireReader EXCEPT !.line = Append(wireReader.line, b)]
        /\ \E events \in Garbage \cup {<<>>} : Emits(events)
    BY <1>1, <1>3, <1>6, <1>8, ReadIs
  <2>2. wireDue' = wireDue
    BY <2>1, DueIs
  <2>3. wireReader'.in # TRUE /\ (wireReader'.line = <<>> \/ wireReader'.line = Append(wireReader.line, b))
    BY <1>1, <1>2, <2>1
  <2>4. Older(wireReader'.line, wireDue)
    <3>1. CASE wireReader'.line = <<>>
      BY <3>1 DEF Older
    <3>2. CASE wireReader'.line = Append(wireReader.line, b)
      <4>1. wireReader.line \in Seq(Bytes(wireSends))
        BY <1>2
      <4>2. \A i \in DOMAIN Append(wireReader.line, b) :
               \/ i \in DOMAIN wireReader.line /\ Append(wireReader.line, b)[i] = wireReader.line[i]
               \/ Append(wireReader.line, b)[i] = b
        BY <1>3, <4>1
      <4> QED
        BY <1>1, <1>3, <3>2, <4>2 DEF Older
    <3> QED
      BY <2>3, <3>1, <3>2
  <2>5. InLeftover(junk)'
    BY <1>1, <1>5, <1>6, <1>7, <1>8, <2>2, <2>3, <2>4 DEF InLeftover, b
  <2> QED
    BY <2>5
<1>9. CASE p = 0
  <2>1. PICK events \in Dispatched(wireReader.line) :
           Emits(events) /\ wireReader' = [wireReader EXCEPT !.line = <<>>]
    BY <1>1, <1>6, <1>9, ReadIs
  <2>2. wireDue' = wireDue
    BY <1>1, <2>1, DueIs, OlderIsOther
  <2>3. wireReader'.in # TRUE /\ wireReader'.line = <<>>
    BY <1>1, <1>2, <2>1
  <2>4. Older(<<>>, wireDue)
    BY DEF Older
  <2>5. Between(junk)'
    BY <1>6, <1>7, <1>9, <2>2, <2>3, <2>4 DEF Between
  <2> QED
    BY <2>5
<1> QED
  BY <1>8, <1>9

\* A reader in a line that is due takes a byte of it.
LEMMA FromInLine ==
    ASSUME WireShape, NEW junk \in Seq(Bytes(wireSends)), InLine(junk), Reads
    PROVE  Between(junk)' \/ InLine(junk)'
<1>1. PICK m \in 1 .. wireSends, q \in 1 .. WireLength :
        /\ wireReader.in # TRUE /\ wireDue # <<>> /\ wireDue[1] = Whole("text", m)
        /\ wireReader.line = Rep(<<"text", m>>, q)
        /\ wireBytes = Rep(<<"text", m>>, WireLength - q)
                           \o (<<LineFeed>> \o (Later(Tail(wireDue)) \o junk))
  BY DEF InLine
<1> DEFINE b == <<"text", m>>
<1>2. /\ wireSends \in Nat /\ wireDue \in Seq(Messages(wireSends))
      /\ wireReader \in [at : {"reading", "dead", "closed"}, line : Seq(Bytes(wireSends)),
                         frame : Seq(Bytes(wireSends)), in : BOOLEAN]
  BY DEF WireShape
<1>3. b \in Bytes(wireSends) /\ b \notin {FrameDelim, LineFeed} /\ LineFeed \in Bytes(wireSends)
  <2>1. m \in 0 .. wireSends
    BY <1>2
  <2> QED
    BY <1>2, <2>1, ByteIs
<1>4. Later(Tail(wireDue)) \o junk \in Seq(Bytes(wireSends))
  BY <1>1, HeadDue
<1>5. /\ WireLength - q \in Nat /\ q \in Nat /\ WireLineMax \in Nat /\ WireLength <= WireLineMax
      /\ (WireLength - q) - 1 = WireLength - (q + 1)
      /\ WireLength - q # 0 => q + 1 \in 1 .. WireLength
      /\ WireLength - q = 0 => q = WireLength
  BY WireAssumption
<1>6. /\ WireLength - q # 0 =>
            wireBytes[1] = b /\ Tail(wireBytes) = Rep(b, (WireLength - q) - 1)
                                    \o (<<LineFeed>> \o (Later(Tail(wireDue)) \o junk))
      /\ WireLength - q = 0 => wireBytes[1] = LineFeed /\ Tail(wireBytes) = Later(Tail(wireDue)) \o junk
  <2> DEFINE z == Later(Tail(wireDue)) \o junk
  <2>1. PICK p \in Nat : p = WireLength - q
    BY <1>5
  <2>2. z \in Seq(Bytes(wireSends)) /\ wireBytes = Rep(b, p) \o (<<LineFeed>> \o z)
    BY <1>1, <1>4, <2>1
  <2> HIDE DEF z, b
  <2>3. /\ p # 0 => wireBytes[1] = b /\ Tail(wireBytes) = Rep(b, p - 1) \o (<<LineFeed>> \o z)
        /\ p = 0 => wireBytes[1] = LineFeed /\ Tail(wireBytes) = z
    BY <1>3, <2>2, NextByte
  <2> QED
    BY <2>1, <2>3 DEF z
<1>7. wireBytes' = Tail(wireBytes) /\ wireSends' = wireSends
  BY ReadIs
<1>8. CASE WireLength - q # 0
  <2>1. Append(wireReader.line, wireBytes[1]) = Rep(b, q + 1)
    BY <1>1, <1>3, <1>5, <1>6, <1>8, RepSeq
  <2>2. Len(Rep(b, q + 1)) = q + 1 /\ ~(q + 1 > WireLineMax)
    <3>1. q + 1 \in Nat
      BY <1>5
    <3>2. Len(Rep(b, q + 1)) = q + 1
      BY <1>3, <3>1, RepSeq
    <3>3. WireLength \in Nat
      BY WireAssumption
    <3> QED
      BY <1>5, <1>8, <3>2, <3>3
  <2>3. Emits(<<>>) /\ wireReader' = [wireReader EXCEPT !.line = Rep(b, q + 1)]
    BY <1>1, <1>3, <1>6, <1>8, <2>1, <2>2, ReadIs
  <2>4. wireDue' = wireDue
    BY <2>3, DueIs
  <2>5. wireReader'.in # TRUE /\ wireReader'.line = Rep(b, q + 1)
    BY <1>1, <1>2, <2>3
  <2>6. wireBytes' = Rep(b, WireLength - (q + 1)) \o (<<LineFeed>> \o (Later(Tail(wireDue)) \o junk))
    BY <1>5, <1>6, <1>7, <1>8
  <2>7. q + 1 \in 1 .. WireLength
    BY <1>5, <1>8
  <2>8. InLine(junk)'
    BY <1>1, <1>7, <2>4, <2>5, <2>6, <2>7 DEF InLine
  <2> QED
    BY <2>8
<1>9. CASE WireLength - q = 0
  <2>1. wireReader.line = wireDue[1]
    BY <1>1, <1>2, <1>5, <1>9, Message
  <2>2. PICK events \in Dispatched(wireReader.line) :
           Emits(events) /\ wireReader' = [wireReader EXCEPT !.line = <<>>]
    BY <1>1, <1>6, <1>9, ReadIs
  <2>3. wireDue' = Tail(wireDue)
    BY <1>1, <2>1, <2>2, DueIs
  <2>4. wireReader'.in # TRUE /\ wireReader'.line = <<>>
    BY <1>1, <1>2, <2>2
  <2>5. Older(<<>>, wireDue')
    BY DEF Older
  <2>6. Between(junk)'
    BY <1>6, <1>7, <1>9, <2>3, <2>4, <2>5 DEF Between
  <2> QED
    BY <2>6
<1> QED
  BY <1>8, <1>9

\* A reader in a frame that is due takes a byte of it.
LEMMA FromInFrame ==
    ASSUME WireShape, NEW junk \in Seq(Bytes(wireSends)), InFrame(junk), Reads
    PROVE  Between(junk)' \/ InFrame(junk)'
<1>1. PICK m \in 1 .. wireSends, q \in 0 .. WireLength :
        /\ wireReader.in = TRUE /\ wireDue # <<>> /\ wireDue[1] = Whole("body", m)
        /\ wireReader.line = <<>> /\ wireReader.frame = Rep(<<"body", m>>, q)
        /\ wireBytes = Rep(<<"body", m>>, WireLength - q)
                           \o (<<FrameDelim>> \o (Later(Tail(wireDue)) \o junk))
  BY DEF InFrame
<1> DEFINE b == <<"body", m>>
<1>2. /\ wireSends \in Nat /\ wireDue \in Seq(Messages(wireSends))
      /\ wireReader \in [at : {"reading", "dead", "closed"}, line : Seq(Bytes(wireSends)),
                         frame : Seq(Bytes(wireSends)), in : BOOLEAN]
  BY DEF WireShape
<1>3. b \in Bytes(wireSends) /\ b # FrameDelim /\ FrameDelim \in Bytes(wireSends)
  <2>1. m \in 0 .. wireSends
    BY <1>2
  <2> QED
    BY <1>2, <2>1, ByteIs
<1>4. Later(Tail(wireDue)) \o junk \in Seq(Bytes(wireSends))
  BY <1>1, HeadDue
<1>5. /\ WireLength - q \in Nat /\ q \in Nat /\ WireFrameMax \in Nat /\ WireLength <= WireFrameMax
      /\ (WireLength - q) - 1 = WireLength - (q + 1)
      /\ WireLength - q # 0 => q + 1 \in 0 .. WireLength
      /\ WireLength - q = 0 => q = WireLength
  BY WireAssumption
<1>6. /\ WireLength - q # 0 =>
            wireBytes[1] = b /\ Tail(wireBytes) = Rep(b, (WireLength - q) - 1)
                                    \o (<<FrameDelim>> \o (Later(Tail(wireDue)) \o junk))
      /\ WireLength - q = 0 => wireBytes[1] = FrameDelim /\ Tail(wireBytes) = Later(Tail(wireDue)) \o junk
  <2> DEFINE z == Later(Tail(wireDue)) \o junk
  <2>1. PICK p \in Nat : p = WireLength - q
    BY <1>5
  <2>2. z \in Seq(Bytes(wireSends)) /\ wireBytes = Rep(b, p) \o (<<FrameDelim>> \o z)
    BY <1>1, <1>4, <2>1
  <2> HIDE DEF z, b
  <2>3. /\ p # 0 => wireBytes[1] = b /\ Tail(wireBytes) = Rep(b, p - 1) \o (<<FrameDelim>> \o z)
        /\ p = 0 => wireBytes[1] = FrameDelim /\ Tail(wireBytes) = z
    BY <1>3, <2>2, NextByte
  <2> QED
    BY <2>1, <2>3 DEF z
<1>7. wireBytes' = Tail(wireBytes) /\ wireSends' = wireSends
  BY ReadIs
<1>8. CASE WireLength - q # 0
  <2>1. Append(wireReader.frame, wireBytes[1]) = Rep(b, q + 1)
    BY <1>1, <1>3, <1>5, <1>6, <1>8, RepSeq
  <2>2. Len(Rep(b, q + 1)) = q + 1 /\ ~(q + 1 > WireFrameMax)
    <3>1. q + 1 \in Nat
      BY <1>5
    <3>2. Len(Rep(b, q + 1)) = q + 1
      BY <1>3, <3>1, RepSeq
    <3>3. WireLength \in Nat
      BY WireAssumption
    <3> QED
      BY <1>5, <1>8, <3>2, <3>3
  <2>3. Emits(<<>>) /\ wireReader' = [wireReader EXCEPT !.frame = Rep(b, q + 1)]
    BY <1>1, <1>3, <1>6, <1>8, <2>1, <2>2, ReadIs
  <2>4. wireDue' = wireDue
    BY <2>3, DueIs
  <2>5. wireReader'.in = TRUE /\ wireReader'.line = <<>> /\ wireReader'.frame = Rep(b, q + 1)
    BY <1>1, <1>2, <2>3
  <2>6. wireBytes' = Rep(b, WireLength - (q + 1)) \o (<<FrameDelim>> \o (Later(Tail(wireDue)) \o junk))
    BY <1>5, <1>6, <1>7, <1>8
  <2>7. q + 1 \in 0 .. WireLength
    BY <1>5, <1>8
  <2>8. InFrame(junk)'
    BY <1>1, <1>7, <2>4, <2>5, <2>6, <2>7 DEF InFrame
  <2> QED
    BY <2>8
<1>9. CASE WireLength - q = 0
  <2>1. wireReader.frame = wireDue[1]
    BY <1>1, <1>2, <1>5, <1>9, Message
  <2>2. PICK events \in Finished(wireReader.frame) :
           Emits(events) /\ wireReader' = [wireReader EXCEPT !.frame = <<>>, !.in = FALSE]
    BY <1>1, <1>6, <1>9, ReadIs
  <2>3. wireDue' = Tail(wireDue)
    BY <1>1, <2>1, <2>2, DueIs
  <2>4. wireReader'.in # TRUE /\ wireReader'.line = <<>>
    BY <1>1, <1>2, <2>2
  <2>5. Older(<<>>, wireDue')
    BY DEF Older
  <2>6. Between(junk)'
    BY <1>6, <1>7, <1>9, <2>3, <2>4, <2>5 DEF Between
  <2> QED
    BY <2>6
<1> QED
  BY <1>8, <1>9

\* A reader in step that has nothing to read owes nothing.
LEMMA NothingOwed ==
    ASSUME WireShape, NEW junk \in Seq(Bytes(wireSends)), InStep(junk), wireBytes = <<>>
    PROVE  wireDue = <<>> /\ wireReader.in # TRUE
<1>1. wireSends \in Nat /\ wireDue \in Seq(Messages(wireSends))
  BY DEF WireShape
<1>2. CASE Between(junk)
  <2>1. wireDue = <<>>
    <3> SUFFICES ASSUME wireDue # <<>> PROVE FALSE
      OBVIOUS
    <3>1. PICK kind \in {"text", "body"}, m \in 1 .. wireSends :
             /\ Later(Tail(wireDue)) \o junk \in Seq(Bytes(wireSends))
             /\ Later(wireDue) \o junk =
                  IF kind = "text"
                  THEN Rep(<<kind, m>>, WireLength)
                         \o (<<LineFeed>> \o (Later(Tail(wireDue)) \o junk))
                  ELSE <<FrameDelim>> \o (Rep(<<kind, m>>, WireLength)
                         \o (<<FrameDelim>> \o (Later(Tail(wireDue)) \o junk)))
      BY HeadDue
    <3>2. /\ <<kind, m>> \in Bytes(wireSends) /\ FrameDelim \in Bytes(wireSends)
          /\ LineFeed \in Bytes(wireSends) /\ WireLength \in Nat
      <4>1. m \in 0 .. wireSends
        BY <1>1
      <4> QED
        BY <1>1, <4>1, ByteIs, WireAssumption
    <3>3. wireBytes = Later(wireDue) \o junk
      BY <1>2 DEF Between
    <3>4. CASE kind = "text"
      <4>1. wireBytes = Rep(<<kind, m>>, WireLength)
                           \o (<<LineFeed>> \o (Later(Tail(wireDue)) \o junk))
        BY <3>1, <3>3, <3>4, Zenon
      <4> QED
        BY <3>1, <3>2, <4>1, NextByte
    <3>5. CASE kind # "text"
      <4> DEFINE z == Rep(<<kind, m>>, WireLength)
                         \o (<<FrameDelim>> \o (Later(Tail(wireDue)) \o junk))
      <4>1. z \in Seq(Bytes(wireSends))
        <5>1. <<FrameDelim>> \o (Later(Tail(wireDue)) \o junk) \in Seq(Bytes(wireSends))
          BY <3>1, <3>2, Follows
        <5> QED
          BY <3>2, <5>1, Runs
      <4>2. wireBytes = <<FrameDelim>> \o z
        BY <3>1, <3>3, <3>5, Zenon
      <4> HIDE DEF z
      <4> QED
        BY <3>2, <4>1, <4>2, Follows
    <3> QED
      BY <3>4, <3>5
  <2> QED
    BY <1>2, <2>1 DEF Between
<1>3. ASSUME NEW b \in Bytes(wireSends), NEW c \in Bytes(wireSends), NEW p \in Nat,
             NEW z \in Seq(Bytes(wireSends)), wireBytes = Rep(b, p) \o (<<c>> \o z)
      PROVE  FALSE
  BY <1>3, NextByte
<1>4. \A kind \in {"text", "body"}, m \in 1 .. wireSends : <<kind, m>> \in Bytes(wireSends)
  <2>1. \A m \in 1 .. wireSends : m \in 0 .. wireSends
    BY <1>1
  <2> QED
    BY <1>1, <2>1, ByteIs
<1>5. FrameDelim \in Bytes(wireSends) /\ LineFeed \in Bytes(wireSends)
  BY <1>1, ByteIs
<1>6. CASE InLeftover(junk)
  <2>1. PICK m \in 1 .. wireSends, p \in 0 .. WireLength :
           wireBytes = Rep(<<"text", m>>, p) \o (<<LineFeed>> \o (Later(wireDue) \o junk))
    BY <1>6 DEF InLeftover
  <2>2. p \in Nat
    BY WireAssumption
  <2>3. Later(wireDue) \o junk \in Seq(Bytes(wireSends))
    BY <1>1, LaterIs, ConcatProperties
  <2> QED
    BY <1>3, <1>4, <1>5, <2>1, <2>2, <2>3
<1>7. CASE InLine(junk)
  <2>1. PICK m \in 1 .. wireSends, q \in 1 .. WireLength :
           /\ wireDue # <<>>
           /\ wireBytes = Rep(<<"text", m>>, WireLength - q)
                              \o (<<LineFeed>> \o (Later(Tail(wireDue)) \o junk))
    BY <1>7 DEF InLine
  <2>2. WireLength - q \in Nat
    BY WireAssumption
  <2>3. Later(Tail(wireDue)) \o junk \in Seq(Bytes(wireSends))
    BY <2>1, HeadDue
  <2> QED
    BY <1>3, <1>4, <1>5, <2>1, <2>2, <2>3
<1>8. CASE InFrame(junk)
  <2>1. PICK m \in 1 .. wireSends, q \in 0 .. WireLength :
           /\ wireDue # <<>>
           /\ wireBytes = Rep(<<"body", m>>, WireLength - q)
                              \o (<<FrameDelim>> \o (Later(Tail(wireDue)) \o junk))
    BY <1>8 DEF InFrame
  <2>2. WireLength - q \in Nat
    BY WireAssumption
  <2>3. Later(Tail(wireDue)) \o junk \in Seq(Bytes(wireSends))
    BY <2>1, HeadDue
  <2> QED
    BY <1>3, <1>4, <1>5, <2>1, <2>2, <2>3
<1> QED
  BY <1>2, <1>6, <1>7, <1>8 DEF InStep

\* What has been read keeps its shape.
LEMMA ReadShape ==
    ASSUME WireShape, Reads
    PROVE  WireShape' /\ WireReading'
<1> DEFINE B == Bytes(wireSends)
<1>1. /\ wireSends \in Nat /\ wireSync \in {"lost", "quiet", "step"}
      /\ wireReader \in [at : {"reading", "dead", "closed"}, line : Seq(B), frame : Seq(B), in : BOOLEAN]
      /\ wireReader.in # TRUE => wireReader.frame = <<>>
      /\ wireBytes \in Seq(B) /\ wireDue \in Seq(Messages(wireSends))
  BY DEF WireShape
<1>2. /\ wireReader.at = "reading" /\ wireBytes # <<>> /\ wireBytes' = Tail(wireBytes)
      /\ UNCHANGED <<wireSync, wireSends>>
  BY ReadIs DEF WireReading
<1>3. wireDue' \in Seq(Messages(wireSends))
  <2>1. \E events : Emits(events)
    BY DEF Reads, WireFrameOpens, WireFrameCloses, WireFrameByte, WireLineEnds, WireLineByte, WireRead
  <2>2. wireDue' = wireDue \/ (wireDue # <<>> /\ wireDue' = Tail(wireDue))
    BY <2>1, DueIs
  <2> QED
    BY <1>1, <2>2, HeadTailProperties
<1> HIDE DEF B
<1>4. wireBytes' \in Seq(B) /\ wireBytes[1] \in B
  BY <1>1, <1>2, HeadTailProperties
<1>5. <<>> \in Seq(B) /\ \A s \in Seq(B) : Append(s, wireBytes[1]) \in Seq(B)
  BY <1>4, EmptySeq, AppendProperties
<1>6. \/ \E line \in Seq(B) : wireReader' = [wireReader EXCEPT !.line = line]
      \/ wireReader' = [wireReader EXCEPT !.line = <<>>, !.in = TRUE]
      \/ wireReader' = [wireReader EXCEPT !.frame = <<>>, !.in = FALSE]
      \/ wireReader.in = TRUE /\ \E frame \in Seq(B) : wireReader' = [wireReader EXCEPT !.frame = frame]
  <2>1. wireReader.line \in Seq(B) /\ wireReader.frame \in Seq(B) /\ wireReader.in \in BOOLEAN
    BY <1>1
  <2>2. CASE wireReader.in # TRUE
    BY <1>5, <2>1, <2>2, ReadIs
  <2>3. CASE wireReader.in = TRUE
    BY <1>5, <2>1, <2>3, ReadIs
  <2> QED
    BY <2>2, <2>3
<1>7. /\ wireReader' \in [at : {"reading", "dead", "closed"}, line : Seq(B), frame : Seq(B), in : BOOLEAN]
      /\ wireReader'.in # TRUE => wireReader'.frame = <<>>
      /\ wireReader'.at = "reading"
  BY <1>1, <1>2, <1>5, <1>6
<1> QED
  BY <1>1, <1>2, <1>3, <1>4, <1>7 DEF WireShape, WireReading, B

\* A byte read keeps the invariant.
LEMMA ReadsKeep ==
    ASSUME HeardInv, Reads
    PROVE  HeardInv'
<1>1. WireShape
  BY DEF HeardInv
<1>2. /\ WireShape' /\ WireReading' /\ wireBytes # <<>> /\ UNCHANGED <<wireSync, wireSends>>
  BY <1>1, ReadShape, ReadIs
<1>3. wireDue = <<>> => wireDue' = <<>>
  <2>1. \E events : Emits(events)
    BY DEF Reads, WireFrameOpens, WireFrameCloses, WireFrameByte, WireLineEnds, WireLineByte, WireRead
  <2> QED
    BY <1>1, <2>1, DueIs
<1>4. CASE wireSync = "lost" /\ wireDue = <<>>
  BY <1>2, <1>3, <1>4 DEF HeardInv
<1>5. ASSUME NEW junk \in Seq(Bytes(wireSends)), wireSync = "step" => junk = <<>>, InStep(junk),
             wireSync # "quiet", ~(wireSync = "lost" /\ wireDue = <<>>)
      PROVE  HeardInv'
  <2>1. InStep(junk)'
    <3>1. CASE Between(junk)
      <4>1. wireDue # <<>>
        <5> SUFFICES ASSUME wireDue = <<>> PROVE FALSE
          OBVIOUS
        <5>1. wireSync = "step" /\ junk = <<>>
          BY <1>1, <1>5 DEF WireShape
        <5>2. <<>> \in Seq(Messages(wireSends)) /\ <<>> \in Seq(Bytes(wireSends)) /\ wireSends \in Nat
          BY <1>1, EmptySeq DEF WireShape
        <5>3. Later(wireDue) = <<>>
          BY <5>2, LaterIs
        <5>4. <<>> \o <<>> = <<>>
          BY <5>2, ConcatEmptySeq
        <5>5. wireBytes = Later(wireDue) \o junk
          BY <3>1 DEF Between
        <5> QED
          BY <1>2, <5>1, <5>3, <5>4, <5>5
      <4> QED
        BY <1>1, <3>1, <4>1, FromBetween DEF InStep
    <3>2. CASE InLeftover(junk)
      BY <1>1, <3>2, FromLeftover DEF InStep
    <3>3. CASE InLine(junk)
      BY <1>1, <3>3, FromInLine DEF InStep
    <3>4. CASE InFrame(junk)
      BY <1>1, <3>4, FromInFrame DEF InStep
    <3> QED
      BY <1>5, <3>1, <3>2, <3>3, <3>4 DEF InStep
  <2> QED
    BY <1>2, <1>5, <2>1 DEF HeardInv
<1> QED
  BY <1>2, <1>4, <1>5 DEF HeardInv

\* A pause: nothing is owed, and the reader is between two messages.
LEMMA PauseKeeps ==
    ASSUME HeardInv, WireIdle
    PROVE  HeardInv'
<1>1. /\ WireShape /\ WireReading /\ wireBytes = <<>> /\ wireBytes' = <<>> /\ wireSends' = wireSends
      /\ wireReader' = [wireReader EXCEPT !.in = FALSE, !.frame = <<>>]
      /\ wireReader.in = TRUE \/ wireSync = "lost"
  BY DEF HeardInv, WireIdle, WireShape
<1>2. wireDue = <<>>
  BY <1>1, NothingOwed DEF HeardInv
<1>3. wireSync = "lost"
  BY <1>1, NothingOwed DEF HeardInv
<1>4. wireSync' = "quiet"
  BY <1>3 DEF WireIdle
<1>5. wireDue' = <<>>
  <2>1. \E events : Emits(events)
    BY DEF WireIdle
  <2> QED
    BY <1>1, <1>2, <2>1, DueIs
<1>6. WireShape' /\ WireReading' /\ wireReader'.in # TRUE
  <2>1. /\ wireReader' \in [at : {"reading", "dead", "closed"}, line : Seq(Bytes(wireSends)),
                            frame : Seq(Bytes(wireSends)), in : BOOLEAN]
        /\ wireReader'.frame = <<>> /\ wireReader'.in = FALSE /\ wireReader'.at = "reading"
    BY <1>1, EmptySeq DEF WireShape, WireReading
  <2>2. wireBytes' \in Seq(Bytes(wireSends)) /\ wireDue' \in Seq(Messages(wireSends))
    BY <1>1, <1>5, EmptySeq
  <2> QED
    BY <1>1, <1>4, <2>1, <2>2 DEF WireShape, WireReading
<1> QED
  BY <1>1, <1>4, <1>5, <1>6 DEF HeardInv

\* The rest of the loop, the port's end and its opening.
LEMMA PortKeeps ==
    ASSUME HeardInv,
           \/ WireDies \/ WireStrayEmits \/ WireStrayEnds \/ WireCall \/ WireTake
           \/ WireClose \/ WireOpen \/ UNCHANGED wireVars
    PROVE  HeardInv'
<1>1. WireShape
  BY DEF HeardInv
<1>2. CASE WireDies \/ WireClose
  <2>1. /\ wireBytes' = <<>> /\ wireSync' = "lost" /\ wireDue' = <<>> /\ wireSends' = wireSends
        /\ \E at \in {"dead", "closed"} : wireReader' = [FreshReader EXCEPT !.at = at]
    BY <1>2 DEF WireDies, WireClose
  <2>2. WireShape'
    BY <1>1, <2>1, EmptySeq DEF WireShape, FreshReader
  <2> QED
    BY <2>1, <2>2 DEF HeardInv
<1>3. CASE WireOpen
  <2>1. /\ wireReader' = FreshReader
        /\ UNCHANGED <<wireBytes, wireSync, wireDue, wireSends>>
    BY <1>3 DEF WireOpen
  <2>2. wireSync = "lost" /\ wireDue = <<>>
    BY <1>3 DEF HeardInv, WireOpen, WireReading
  <2>3. WireShape'
    BY <1>1, <2>1, EmptySeq DEF WireShape, FreshReader
  <2> QED
    BY <2>1, <2>2, <2>3 DEF HeardInv
<1>4. CASE WireStrayEmits \/ WireStrayEnds \/ WireCall \/ WireTake \/ UNCHANGED wireVars
  <2>1. UNCHANGED <<wireBytes, wireReader, wireSync, wireDue, wireSends>>
    BY <1>4 DEF WireStrayEmits, WireStrayEnds, WireCall, WireTake, wireVars
  <2> QED
    BY <2>1 DEF HeardInv, WireShape, WireReading, InStep, Between, InLeftover, InLine, InFrame
<1> QED
  BY <1>2, <1>3, <1>4

\* More messages, as many as n + 1.
LEMMA Wider ==
    ASSUME NEW n \in Nat
    PROVE  /\ Messages(n) \subseteq Messages(n + 1) /\ Bytes(n) \subseteq Bytes(n + 1)
           /\ Seq(Messages(n)) \subseteq Seq(Messages(n + 1))
           /\ Seq(Bytes(n)) \subseteq Seq(Bytes(n + 1))
           /\ \A kind \in {"text", "body"} : Whole(kind, n + 1) \in Messages(n + 1)
<1>1. 1 .. n \subseteq 1 .. n + 1 /\ 0 .. n \subseteq 0 .. n + 1 /\ n + 1 \in 1 .. n + 1
  OBVIOUS
<1>2. Messages(n) \subseteq Messages(n + 1)
  BY <1>1 DEF Messages
<1>3. Bytes(n) \subseteq Bytes(n + 1)
  BY <1>1 DEF Bytes
<1>4. Seq(Messages(n)) \subseteq Seq(Messages(n + 1))
  BY <1>2, SeqMonotonic
<1>5. Seq(Bytes(n)) \subseteq Seq(Bytes(n + 1))
  BY <1>3, SeqMonotonic
<1>6. \A kind \in {"text", "body"} : Whole(kind, n + 1) \in Messages(n + 1)
  BY <1>1 DEF Messages
<1> QED
  BY <1>2, <1>3, <1>4, <1>5, <1>6

\* What is due, when a message joins it.
LEMMA DueGrows ==
    ASSUME WireShape, NEW d \in Messages(wireSends + 1), d[1][2] = wireSends + 1,
           wireDue' = wireDue \/ wireDue' = Append(wireDue, d)
    PROVE  /\ wireDue' \in Seq(Messages(wireSends + 1))
           /\ wireDue # <<>> => /\ wireDue' # <<>> /\ wireDue'[1] = wireDue[1]
                                /\ Tail(wireDue) \in Seq(Messages(wireSends + 1))
                                /\ wireDue' = Append(wireDue, d) => Tail(wireDue') = Append(Tail(wireDue), d)
           /\ \A line \in Seq(Bytes(wireSends)) : Older(line, wireDue) => Older(line, wireDue')
           /\ \A m \in 1 .. wireSends :
                 (\A j \in DOMAIN wireDue : m < wireDue[j][1][2])
                     => \A j \in DOMAIN wireDue' : m < wireDue'[j][1][2]
<1>1. wireSends \in Nat /\ wireDue \in Seq(Messages(wireSends + 1))
  BY Wider DEF WireShape
<1>2. wireDue' \in Seq(Messages(wireSends + 1))
  BY <1>1, AppendProperties
<1>3. ASSUME wireDue # <<>>
      PROVE  /\ wireDue' # <<>> /\ wireDue'[1] = wireDue[1]
             /\ Tail(wireDue) \in Seq(Messages(wireSends + 1))
             /\ wireDue' = Append(wireDue, d) => Tail(wireDue') = Append(Tail(wireDue), d)
  BY <1>1, <1>3, SMTT(30)
<1>4. \A j \in DOMAIN wireDue' :
         \/ j \in DOMAIN wireDue /\ wireDue'[j] = wireDue[j]
         \/ wireDue'[j] = d
  BY <1>1
<1>5. ASSUME NEW line \in Seq(Bytes(wireSends)), Older(line, wireDue) PROVE Older(line, wireDue')
  <2>1. \A i \in DOMAIN line : line[i][2] \in 0 .. wireSends
    <3>1. \A i \in DOMAIN line : line[i] \in Bytes(wireSends)
      BY <1>1
    <3> QED
      BY <3>1 DEF Bytes
  <2>2. \A i \in DOMAIN line : line[i][2] < d[1][2]
    BY <1>1, <2>1
  <2> QED
    BY <1>4, <1>5, <2>2 DEF Older
<1>6. \A m \in 1 .. wireSends : m < d[1][2]
  BY <1>1
<1> QED
  BY <1>2, <1>3, <1>4, <1>5, <1>6

\* A reader in step stays in step when a message or junk joins the line.
LEMMA StepGrows ==
    ASSUME WireShape, NEW n \in Nat, n = wireSends + 1, NEW junk \in Seq(Bytes(wireSends)), InStep(junk),
           NEW y \in Seq(Bytes(n)), NEW junk2 \in Seq(Bytes(n)),
           NEW d \in Messages(n), d[1][2] = n,
           wireBytes' = wireBytes \o y, wireReader' = wireReader, wireSends' = n,
           \/ wireDue' = wireDue /\ junk2 = junk \o y
           \/ wireDue' = Append(wireDue, d) /\ y = EncOf(d) /\ junk = <<>> /\ junk2 = <<>>
    PROVE  InStep(junk2)'
<1>1. /\ wireSends \in Nat /\ n \in Nat /\ junk \in Seq(Bytes(n)) /\ wireDue \in Seq(Messages(n))
      /\ wireReader.line \in Seq(Bytes(wireSends))
      /\ \A m \in 1 .. wireSends : m \in 1 .. n /\ m \in 0 .. n
  BY Wider DEF WireShape
<1>2. /\ wireDue' \in Seq(Messages(n))
      /\ wireDue # <<>> => /\ wireDue' # <<>> /\ wireDue'[1] = wireDue[1]
                           /\ Tail(wireDue) \in Seq(Messages(n))
                           /\ wireDue' = Append(wireDue, d) => Tail(wireDue') = Append(Tail(wireDue), d)
      /\ Older(wireReader.line, wireDue) => Older(wireReader.line, wireDue')
      /\ \A m \in 1 .. wireSends :
            (\A j \in DOMAIN wireDue : m < wireDue[j][1][2])
                => \A j \in DOMAIN wireDue' : m < wireDue'[j][1][2]
  BY <1>1, DueGrows
<1>n. /\ y \in Seq(Bytes(n)) /\ junk2 \in Seq(Bytes(n)) /\ wireSends' = n
      /\ \/ wireDue' = wireDue /\ junk2 = junk \o y
         \/ (/\ junk = <<>> /\ junk2 = <<>>
             /\ \E e \in Messages(n) : wireDue' = Append(wireDue, e) /\ y = EncOf(e))
  OBVIOUS
<1>w. \/ wireDue' = wireDue /\ junk2 = junk \o y
      \/ wireDue' = Append(wireDue, d) /\ d \in Messages(n) /\ y = EncOf(d) /\ junk = <<>> /\ junk2 = <<>>
  OBVIOUS
<1>g. ASSUME NEW R \in Seq(Bytes(n)), NEW c \in Bytes(n), NEW W \in Seq(Bytes(n))
      PROVE  (R \o (<<c>> \o W)) \o y = R \o (<<c>> \o (W \o y))
  <2>1. /\ <<c>> \in Seq(Bytes(n)) /\ R \in Seq(Bytes(n)) /\ W \in Seq(Bytes(n))
        /\ y \in Seq(Bytes(n))
    OBVIOUS
  <2>2. <<c>> \o W \in Seq(Bytes(n))
    BY ONLY <2>1, ConcatProperties
  <2>3. (R \o (<<c>> \o W)) \o y = R \o ((<<c>> \o W) \o y)
    BY ONLY <2>1, <2>2, ConcatAssociative, SMTT(30)
  <2>4. (<<c>> \o W) \o y = <<c>> \o (W \o y)
    BY ONLY <2>1, ConcatAssociative
  <2> QED
    BY <2>3, <2>4
<1>h. ASSUME NEW ds \in Seq(Messages(n)), NEW es \in Seq(Messages(n)),
             \/ es = ds /\ junk2 = junk \o y
             \/ (/\ junk = <<>> /\ junk2 = <<>>
                 /\ \E e \in Messages(n) : es = Append(ds, e) /\ y = EncOf(e))
      PROVE  /\ (Later(ds) \o junk) \o y = Later(es) \o junk2
             /\ Later(ds) \o junk \in Seq(Bytes(n))
  <2>1. /\ Later(ds) \in Seq(Bytes(n)) /\ junk \in Seq(Bytes(n)) /\ y \in Seq(Bytes(n))
        /\ Later(es) \in Seq(Bytes(n))
    BY <1>1, LaterIs
  <2>2. Later(ds) \o junk \in Seq(Bytes(n))
    BY ONLY <2>1, ConcatProperties
  <2>3. CASE es = ds /\ junk2 = junk \o y
    <3>1. (Later(ds) \o junk) \o y = Later(ds) \o (junk \o y)
      <4>1. Later(ds) \in Seq(Bytes(n)) /\ junk \in Seq(Bytes(n)) /\ y \in Seq(Bytes(n))
        BY <2>1
      <4> QED
        BY ONLY <4>1, ConcatAssociative, SMTT(30)
    <3> QED
      BY <2>2, <2>3, <3>1
  <2>4. CASE /\ junk = <<>> /\ junk2 = <<>>
             /\ \E e \in Messages(n) : es = Append(ds, e) /\ y = EncOf(e)
    <3>1. Later(es) = Later(ds) \o y
      BY <1>1, <2>4, LaterIs
    <3>2. Later(ds) \o <<>> = Later(ds) /\ Later(es) \o <<>> = Later(es)
      BY <2>1, ConcatEmptySeq
    <3>3. (Later(ds) \o junk) \o y = Later(ds) \o y
      BY <2>4, <3>2
    <3>4. Later(es) \o junk2 = Later(es)
      BY <2>4, <3>2
    <3> QED
      BY <2>2, <3>1, <3>3, <3>4
  <2> QED
    BY <1>h, <2>3, <2>4
<1>3. /\ (Later(wireDue) \o junk) \o y = Later(wireDue') \o junk2
      /\ Later(wireDue) \o junk \in Seq(Bytes(n))
  BY ONLY <1>1, <1>2, <1>n, <1>h
<1>4. ASSUME wireDue # <<>>
      PROVE  /\ (Later(Tail(wireDue)) \o junk) \o y = Later(Tail(wireDue')) \o junk2
             /\ Later(Tail(wireDue)) \o junk \in Seq(Bytes(n))
  <2>1. Tail(wireDue) \in Seq(Messages(n)) /\ Tail(wireDue') \in Seq(Messages(n))
    BY <1>2, <1>4, HeadTailProperties
  <2>2. \/ Tail(wireDue') = Tail(wireDue) /\ junk2 = junk \o y
        \/ junk = <<>> /\ junk2 = <<>>
           /\ \E e \in Messages(n) : Tail(wireDue') = Append(Tail(wireDue), e) /\ y = EncOf(e)
    BY <1>2, <1>4, <1>w
  <2> QED
    BY ONLY <2>1, <2>2, <1>h
<1>5. FrameDelim \in Bytes(n) /\ LineFeed \in Bytes(n)
  BY <1>1, ByteIs
<1>6. ASSUME NEW kind \in {"text", "body"}, NEW m \in 1 .. wireSends, NEW p \in Nat
      PROVE  Rep(<<kind, m>>, p) \in Seq(Bytes(n))
  <2>1. <<kind, m>> \in Bytes(n)
    BY <1>1, ByteIs
  <2> QED
    BY <2>1, RepSeq
<1>7. CASE Between(junk)
  <2>1. wireBytes' = Later(wireDue') \o junk2
    BY <1>3, <1>7 DEF Between
  <2> QED
    BY <1>2, <1>7, <2>1 DEF Between, InStep
<1>8. CASE InLeftover(junk)
  <2>1. PICK m \in 1 .. wireSends, p \in 0 .. WireLength :
        /\ wireReader.in # TRUE
        /\ wireBytes = Rep(<<"text", m>>, p) \o (<<LineFeed>> \o (Later(wireDue) \o junk))
        /\ Older(wireReader.line, wireDue)
        /\ \A j \in DOMAIN wireDue : m < wireDue[j][1][2]
    BY <1>8 DEF InLeftover
  <2>2. Rep(<<"text", m>>, p) \in Seq(Bytes(n))
    <3>1. p \in Nat
      BY WireAssumption
    <3> QED
      BY <1>6, <3>1
  <2>3. (Rep(<<"text", m>>, p) \o (<<LineFeed>> \o (Later(wireDue) \o junk))) \o y
          = Rep(<<"text", m>>, p) \o (<<LineFeed>> \o ((Later(wireDue) \o junk) \o y))
    <3> DEFINE R == Rep(<<"text", m>>, p)
               W == Later(wireDue) \o junk
    <3>1. R \in Seq(Bytes(n)) /\ LineFeed \in Bytes(n) /\ W \in Seq(Bytes(n)) /\ y \in Seq(Bytes(n))
      BY <1>3, <1>5, <1>n, <2>2
    <3> HIDE DEF R, W
    <3>2. (R \o (<<LineFeed>> \o W)) \o y = R \o (<<LineFeed>> \o (W \o y))
      BY ONLY <3>1, <1>g
    <3> QED
      BY <3>2 DEF R, W
  <2>4. wireBytes' = Rep(<<"text", m>>, p) \o (<<LineFeed>> \o (Later(wireDue') \o junk2))
    BY <1>3, <2>1, <2>3
  <2>5. m \in 1 .. wireSends'
    BY <1>1
  <2> QED
    BY <1>2, <2>1, <2>4, <2>5 DEF InLeftover, InStep
<1>9. CASE InLine(junk)
  <2>1. PICK m \in 1 .. wireSends, q \in 1 .. WireLength :
        /\ wireReader.in # TRUE /\ wireDue # <<>> /\ wireDue[1] = Whole("text", m)
        /\ wireReader.line = Rep(<<"text", m>>, q)
        /\ wireBytes = Rep(<<"text", m>>, WireLength - q)
                           \o (<<LineFeed>> \o (Later(Tail(wireDue)) \o junk))
    BY <1>9 DEF InLine
  <2>2. Rep(<<"text", m>>, WireLength - q) \in Seq(Bytes(n))
    <3>0. WireLength \in Nat /\ q \in 1 .. WireLength
      BY WireAssumption
    <3>1. WireLength - q \in Nat
      BY ONLY <3>0
    <3> QED
      BY <1>6, <3>1
  <2>6. /\ (Later(Tail(wireDue)) \o junk) \o y = Later(Tail(wireDue')) \o junk2
        /\ Later(Tail(wireDue)) \o junk \in Seq(Bytes(n))
    BY <1>4, <2>1
  <2>3. (Rep(<<"text", m>>, WireLength - q) \o (<<LineFeed>> \o (Later(Tail(wireDue)) \o junk))) \o y
          = Rep(<<"text", m>>, WireLength - q) \o (<<LineFeed>> \o ((Later(Tail(wireDue)) \o junk) \o y))
    <3> DEFINE R == Rep(<<"text", m>>, WireLength - q)
               W == Later(Tail(wireDue)) \o junk
    <3>1. R \in Seq(Bytes(n)) /\ LineFeed \in Bytes(n) /\ W \in Seq(Bytes(n)) /\ y \in Seq(Bytes(n))
      BY <1>5, <1>n, <2>2, <2>6
    <3> HIDE DEF R, W
    <3>2. (R \o (<<LineFeed>> \o W)) \o y = R \o (<<LineFeed>> \o (W \o y))
      BY ONLY <3>1, <1>g
    <3> QED
      BY <3>2 DEF R, W
  <2>4. wireBytes' = Rep(<<"text", m>>, WireLength - q)
                        \o (<<LineFeed>> \o (Later(Tail(wireDue')) \o junk2))
    BY <2>1, <2>3, <2>6
  <2>5. m \in 1 .. wireSends'
    BY <1>1
  <2> QED
    BY <1>2, <2>1, <2>4, <2>5 DEF InLine, InStep
<1>10. CASE InFrame(junk)
  <2>1. PICK m \in 1 .. wireSends, q \in 0 .. WireLength :
        /\ wireReader.in = TRUE /\ wireDue # <<>> /\ wireDue[1] = Whole("body", m)
        /\ wireReader.line = <<>> /\ wireReader.frame = Rep(<<"body", m>>, q)
        /\ wireBytes = Rep(<<"body", m>>, WireLength - q)
                           \o (<<FrameDelim>> \o (Later(Tail(wireDue)) \o junk))
    BY <1>10 DEF InFrame
  <2>2. Rep(<<"body", m>>, WireLength - q) \in Seq(Bytes(n))
    <3>0. WireLength \in Nat /\ q \in 0 .. WireLength
      BY WireAssumption
    <3>1. WireLength - q \in Nat
      BY ONLY <3>0
    <3> QED
      BY <1>6, <3>1
  <2>6. /\ (Later(Tail(wireDue)) \o junk) \o y = Later(Tail(wireDue')) \o junk2
        /\ Later(Tail(wireDue)) \o junk \in Seq(Bytes(n))
    BY <1>4, <2>1
  <2>3. (Rep(<<"body", m>>, WireLength - q) \o (<<FrameDelim>> \o (Later(Tail(wireDue)) \o junk))) \o y
          = Rep(<<"body", m>>, WireLength - q) \o (<<FrameDelim>> \o ((Later(Tail(wireDue)) \o junk) \o y))
    <3> DEFINE R == Rep(<<"body", m>>, WireLength - q)
               W == Later(Tail(wireDue)) \o junk
    <3>1. R \in Seq(Bytes(n)) /\ FrameDelim \in Bytes(n) /\ W \in Seq(Bytes(n)) /\ y \in Seq(Bytes(n))
      BY <1>5, <1>n, <2>2, <2>6
    <3> HIDE DEF R, W
    <3>2. (R \o (<<FrameDelim>> \o W)) \o y = R \o (<<FrameDelim>> \o (W \o y))
      BY ONLY <3>1, <1>g
    <3> QED
      BY <3>2 DEF R, W
  <2>4. wireBytes' = Rep(<<"body", m>>, WireLength - q)
                        \o (<<FrameDelim>> \o (Later(Tail(wireDue')) \o junk2))
    BY <2>1, <2>3, <2>6
  <2>5. m \in 1 .. wireSends'
    BY <1>1
  <2> QED
    BY <1>2, <2>1, <2>4, <2>5 DEF InFrame, InStep
<1> QED
  BY <1>7, <1>8, <1>9, <1>10 DEF InStep

\* The device sends, with or without damage.
LEMMA SendKeeps ==
    ASSUME HeardInv, NEW kind \in {"text", "body"}, WireSend(kind)
    PROVE  HeardInv'
<1> DEFINE n == wireSends + 1
           d == Whole(kind, n)
<1>1. /\ WireShape /\ WireReading /\ wireSends \in Nat /\ n \in Nat /\ n \in 1 .. n
      /\ wireSends' = n /\ wireReader' = wireReader
  <2>1. WireShape /\ WireReading /\ wireSends' = n /\ wireReader' = wireReader
    BY DEF HeardInv, WireSend
  <2>2. wireSends \in Nat
    BY <2>1 DEF WireShape
  <2>3. n \in Nat /\ n \in 1 .. n
    BY <2>2
  <2> QED
    BY <2>1, <2>2, <2>3
<1>2. /\ d \in Messages(n) /\ d[1] = <<kind, n>> /\ d[1][2] = n /\ d[1][1] = kind
      /\ Encoded(kind, n) = EncOf(d) /\ EncOf(d) \in Seq(Bytes(n))
      /\ Encoded(kind, wireSends') = EncOf(d) /\ Whole(kind, wireSends') = d
  <2>1. d \in Messages(n)
    BY <1>1, Wider
  <2>2. d[1] = <<kind, n>> /\ Encoded(kind, n) = EncOf(d) /\ EncOf(d) \in Seq(Bytes(n))
    BY <1>1, Message
  <2> QED
    BY <1>1, <2>1, <2>2
<1>3. PICK y \in Seq(Bytes(n)) :
        /\ wireBytes' = wireBytes \o y
        /\ \/ /\ y = EncOf(d)
              /\ wireDue' = IF wireSync = "step" \/ (wireSync = "quiet" /\ kind = "body")
                            THEN Append(wireDue, d) ELSE wireDue
              /\ wireSync' = IF wireSync = "quiet" THEN "step" ELSE wireSync
           \/ wireSync' = "lost" /\ wireDue' = wireDue
  <2> HIDE DEF n, d
  <2>1. \A bytes \in Damaged(EncOf(d)) : bytes \in Seq(Bytes(n))
    BY <1>1, <1>2, DamagedIs
  <2> QED
    BY <1>2, <2>1 DEF WireSend
<1> HIDE DEF d
<1>4. WireShape'
  <2>1. /\ wireReader.line \in Seq(Bytes(n)) /\ wireReader.frame \in Seq(Bytes(n))
        /\ wireBytes \in Seq(Bytes(n)) /\ wireDue \in Seq(Messages(n))
    BY <1>1, Wider DEF WireShape
  <2>2. wireReader \in [at : {"reading", "dead", "closed"}, line : Seq(Bytes(n)),
                        frame : Seq(Bytes(n)), in : BOOLEAN]
    <3>1. wireReader \in [at : {"reading", "dead", "closed"}, line : Seq(Bytes(wireSends)),
                          frame : Seq(Bytes(wireSends)), in : BOOLEAN]
      BY <1>1 DEF WireShape
    <3> QED
      BY ONLY <2>1, <3>1
  <2>3. wireDue' \in Seq(Messages(n))
    <3>1. wireDue' = wireDue \/ wireDue' = Append(wireDue, d)
      BY <1>3
    <3>2. d \in Messages(n) /\ wireDue \in Seq(Messages(n))
      BY <1>2, <2>1
    <3> HIDE DEF n
    <3> QED
      BY ONLY <3>1, <3>2, AppendProperties
  <2>4. wireBytes' \in Seq(Bytes(n))
    BY <1>3, <2>1, ConcatProperties
  <2>5. wireSync' \in {"lost", "quiet", "step"}
    BY <1>1, <1>3 DEF WireShape
  <2> QED
    BY <1>1, <2>2, <2>3, <2>4, <2>5 DEF WireShape
<1>5. WireReading'
  BY <1>1 DEF WireReading
<1>6. CASE wireSync = "lost" /\ wireDue = <<>>
  <2>1. wireSync' = "lost" /\ wireDue' = <<>>
    BY <1>3, <1>6
  <2> QED
    BY <1>4, <2>1 DEF HeardInv
<1>7. CASE wireSync = "quiet" /\ wireDue = <<>> /\ wireBytes = <<>> /\ wireReader.in # TRUE
  <2>1. CASE wireSync' = "lost" /\ wireDue' = wireDue
    BY <1>4, <1>7, <2>1 DEF HeardInv
  <2>2. CASE y = EncOf(d) /\ wireSync' = "step"
             /\ wireDue' = IF kind = "body" THEN Append(wireDue, d) ELSE wireDue
    <3>1. /\ <<>> \in Seq(Bytes(n)) /\ Later(<<>>) = <<>> /\ <<>> \in Seq(Messages(n))
          /\ wireBytes' = EncOf(d) /\ EncOf(d) \o <<>> = EncOf(d) /\ <<>> \o <<>> = <<>>
      <4>1. <<>> \in Seq(Bytes(n)) /\ <<>> \in Seq(Messages(n))
        BY EmptySeq
      <4>2. <<>> \o EncOf(d) = EncOf(d) /\ EncOf(d) \o <<>> = EncOf(d) /\ <<>> \o <<>> = <<>>
        BY <1>2, <4>1, ConcatEmptySeq
      <4> QED
        BY <1>1, <1>3, <1>7, <2>2, <4>1, <4>2, LaterIs
    <3>2. CASE kind = "body"
      <4>1. wireDue' = <<d>> /\ wireDue' # <<>> /\ wireDue'[1] = d
        BY <1>7, <2>2, <3>2
      <4>2. Later(wireDue') = EncOf(d)
        <5>1. Later(Append(<<>>, d)) = Later(<<>>) \o EncOf(d)
          BY <1>1, <1>2, <3>1, LaterIs
        <5>2. <<>> \o EncOf(d) = EncOf(d)
          BY <1>2, ConcatEmptySeq
        <5>3. wireDue' = Append(<<>>, d)
          BY <1>7, <2>2, <3>2
        <5> QED
          BY <3>1, <5>1, <5>2, <5>3
      <4>3. Older(wireReader'.line, wireDue')
        <5>1. \A line \in Seq(Bytes(wireSends)) : Older(line, wireDue) => Older(line, wireDue')
          <6>1. wireDue' = Append(wireDue, d) /\ d \in Messages(wireSends + 1) /\ d[1][2] = wireSends + 1
            BY <1>2, <2>2, <3>2 DEF n
          <6> QED
            BY <1>1, <6>1, DueGrows
        <5>2. Older(wireReader.line, wireDue)
          BY <1>7 DEF Older
        <5>3. wireReader.line \in Seq(Bytes(wireSends))
          BY <1>1 DEF WireShape
        <5> QED
          BY <1>1, <5>1, <5>2, <5>3
      <4>4. Between(<<>>)'
        <5>1. wireBytes' = Later(wireDue') \o <<>>
          BY <3>1, <4>2
        <5>2. wireReader'.in # TRUE
          BY <1>1, <1>7
        <5> QED
          BY <1>1, <1>2, <3>2, <4>1, <4>3, <5>1, <5>2 DEF Between
      <4> QED
        BY <1>1, <1>4, <1>5, <2>2, <3>1, <4>4 DEF HeardInv, InStep
    <3>3. CASE kind = "text"
      <4>1. wireDue' = <<>>
        BY <1>7, <2>2, <3>3
      <4>2. EncOf(d) = Rep(<<"text", n>>, WireLength) \o (<<LineFeed>> \o (<<>> \o <<>>))
        <5>1. EncOf(d) \o <<>> = Rep(<<"text", n>>, WireLength) \o (<<LineFeed>> \o <<>>)
          BY <1>1, <3>1, <3>3, MessageThen DEF d
        <5> QED
          BY <3>1, <5>1
      <4>3. WireLength \in 0 .. WireLength
        BY WireAssumption
      <4>4. Older(wireReader'.line, wireDue') /\ \A j \in DOMAIN wireDue' : n < wireDue'[j][1][2]
        BY <4>1 DEF Older
      <4>5. wireBytes' = Rep(<<"text", n>>, WireLength) \o (<<LineFeed>> \o (Later(wireDue') \o <<>>))
        BY <3>1, <4>1, <4>2
      <4>6. InLeftover(<<>>)'
        BY <1>1, <1>7, <4>3, <4>4, <4>5 DEF InLeftover
      <4> QED
        BY <1>1, <1>4, <1>5, <2>2, <3>1, <4>6 DEF HeardInv, InStep
    <3> QED
      BY <3>2, <3>3
  <2> QED
    BY <1>3, <1>7, <2>1, <2>2
<1>8. ASSUME NEW junk \in Seq(Bytes(wireSends)), wireSync = "step" => junk = <<>>, InStep(junk),
             wireSync # "quiet"
      PROVE  HeardInv'
  <2>1. junk \in Seq(Bytes(n)) /\ junk \o y \in Seq(Bytes(n)) /\ <<>> \in Seq(Bytes(n))
    <3>1. junk \in Seq(Bytes(n))
      BY <1>1, Wider
    <3> QED
      BY <3>1, EmptySeq, ConcatProperties
  <2>2. CASE wireDue' = wireDue /\ (wireSync' = "lost")
    <3>1. InStep(junk \o y)'
      BY <1>1, <1>2, <1>3, <1>8, <2>1, <2>2, StepGrows DEF n
    <3> QED
      BY <1>1, <1>4, <1>5, <2>1, <2>2, <3>1 DEF HeardInv
  <2>3. CASE y = EncOf(d) /\ wireSync = "step" /\ wireSync' = "step" /\ wireDue' = Append(wireDue, d)
    <3>1. InStep(<<>>)'
      BY <1>1, <1>2, <1>3, <1>8, <2>1, <2>3, StepGrows DEF n
    <3> QED
      BY <1>1, <1>4, <1>5, <2>1, <2>3, <3>1 DEF HeardInv
  <2>4. wireSync = "step" \/ wireSync = "lost"
    BY <1>1, <1>8 DEF WireShape
  <2> QED
    BY <1>3, <1>8, <2>2, <2>3, <2>4
<1> QED
  BY <1>6, <1>7, <1>8 DEF HeardInv

\* Nothing is owed at the start.
LEMMA HeardInit == WireInit => HeardInv
<1> SUFFICES ASSUME WireInit PROVE HeardInv
  OBVIOUS
<1>1. /\ wireReader \in [at : {"reading", "dead", "closed"}, line : Seq(Bytes(wireSends)),
                         frame : Seq(Bytes(wireSends)), in : BOOLEAN]
      /\ wireReader.frame = <<>>
  BY EmptySeq DEF WireInit, FreshReader
<1>2. wireBytes \in Seq(Bytes(wireSends)) /\ wireDue \in Seq(Messages(wireSends))
  BY EmptySeq DEF WireInit
<1> QED
  BY <1>1, <1>2 DEF WireInit, HeardInv, WireShape

\* WireHeard: damage does not last (_reader_main).  Whatever of the line is lost,
\* changed or cut in two, a reader that has read all there is owes nothing sent
\* after a pause.
THEOREM DamagePasses == WireSpec => []WireHeard
<1>1. HeardInv /\ [WireNext]_wireVars => HeardInv'
  <2> SUFFICES ASSUME HeardInv, [WireNext]_wireVars PROVE HeardInv'
    OBVIOUS
  <2>1. ASSUME NEW kind \in {"text", "body"}, WireSend(kind) PROVE HeardInv'
    BY <2>1, SendKeeps
  <2>2. CASE Reads
    BY <2>2, ReadsKeep
  <2>3. CASE WireIdle
    BY <2>3, PauseKeeps
  <2>4. CASE \/ WireDies \/ WireStrayEmits \/ WireStrayEnds \/ WireCall \/ WireTake
             \/ WireClose \/ WireOpen \/ UNCHANGED wireVars
    BY <2>4, PortKeeps
  <2> QED
    BY <2>1, <2>2, <2>3, <2>4 DEF WireNext, Reads
<1>2. HeardInv => WireHeard
  BY NothingOwed DEF HeardInv, WireHeard
<1> QED
  BY HeardInit, <1>1, <1>2, PTL DEF WireSpec

-----------------------------------------------------------------------------
(* Upkeep: no restart of the device is slept over by the clock.              *)

Replies == {"accepted", "unsure", "missing", "refused", "noise"}

UkDevices == [anchored : BOOLEAN, command : {"none", "unsure", "sure"},
              legacy : BOOLEAN, out : BOOLEAN]

UkTypes ==
    /\ ukClock \in {"wrong", "unsure", "sure"}
    /\ ukDevice \in UkDevices
    /\ ukLine \in Seq(Replies)
    /\ ukTime \in [at : {"push", "await", "rest"}, settled : BOOLEAN, wake : BOOLEAN]

\* The device that is dark now has told so after the i-th message of the line, or
\* is to say so yet, or was not heard.
Excused(i) ==
    \/ ukDevice.legacy \/ ukDevice.anchored \/ ukDevice.out \/ ukMissed # {}
    \/ \E j \in DOMAIN ukLine : j > i /\ ukLine[j] = "noise"

\* An acceptance on its way is as good as one that arrived, until the noise
\* behind it is read; and only a legacy peer lacks the command.
UkInv ==
    /\ UkTypes
    /\ ukTime.settled => Excused(0)
    /\ \A i \in DOMAIN ukLine :
          /\ ukLine[i] = "accepted" => Excused(i)
          /\ ukLine[i] = "missing" => ukDevice.legacy

-----------------------------------------------------------------------------
\* Nothing is on the line.
LEMMA LineEmpty == <<>> \in Seq(Replies) /\ DOMAIN <<>> = {}
  OBVIOUS

\* The head of the line goes: what was behind it moves up one place.
LEMMA LineTail ==
    ASSUME NEW S, NEW line \in Seq(S), line # <<>>
    PROVE /\ Tail(line) \in Seq(S)
          /\ DOMAIN line = 1 .. Len(line) /\ Len(line) \in Nat \ {0}
          /\ DOMAIN Tail(line) = 1 .. Len(line) - 1
          /\ \A i \in 1 .. Len(line) - 1 : Tail(line)[i] = line[i + 1]
  OBVIOUS

\* A message is queued: those before it keep their places.
LEMMA LineAppend ==
    ASSUME NEW S, NEW line \in Seq(S), NEW e \in S
    PROVE /\ Append(line, e) \in Seq(S)
          /\ DOMAIN line = 1 .. Len(line) /\ Len(line) \in Nat
          /\ DOMAIN Append(line, e) = 1 .. Len(line) + 1
          /\ \A i \in 1 .. Len(line) : Append(line, e)[i] = line[i]
          /\ Append(line, e)[Len(line) + 1] = e
  OBVIOUS

\* The device is born without the time and the clock actor unsettled.
LEMMA UkInitInv == UkInit => UkInv
<1> SUFFICES ASSUME UkInit PROVE UkInv
  OBVIOUS
<1>1. UkTypes
  BY LineEmpty, UkAssumption DEF UkInit, UkTypes, UkDevices
<1>2. DOMAIN ukLine = {} /\ ~ukTime.settled
  BY LineEmpty DEF UkInit
<1> QED
  BY <1>1, <1>2 DEF UkInv

\* What leaves the line, the device, the missed noise and what is settled alone
\* leaves the invariant.
LEMMA UkQuiet ==
    ASSUME UkInv, UNCHANGED <<ukLine, ukDevice, ukMissed>>,
           ukClock' \in {"wrong", "unsure", "sure"},
           ukTime' \in [at : {"push", "await", "rest"}, settled : BOOLEAN, wake : BOOLEAN],
           ukTime'.settled => ukTime.settled
    PROVE UkInv'
  BY DEF UkInv, UkTypes, Excused

\* A message is taken from the line, whatever becomes of the actor's rest: the
\* others keep their excuses, and what it settles needs one behind its place.
LEMMA UkTaken ==
    ASSUME UkInv, ukLine # <<>>, ukLine' = Tail(ukLine),
           UNCHANGED <<ukClock, ukDevice>>, ukMissed # {} => ukMissed' # {},
           ukTime' \in [at : {"push", "await", "rest"}, settled : BOOLEAN, wake : BOOLEAN],
           ukTime'.settled => Excused(1) \/ ukMissed' # {}
    PROVE UkInv'
<1> USE DEF UkInv, UkTypes
<1>1. /\ Tail(ukLine) \in Seq(Replies)
      /\ DOMAIN ukLine = 1 .. Len(ukLine) /\ Len(ukLine) \in Nat \ {0}
      /\ DOMAIN Tail(ukLine) = 1 .. Len(ukLine) - 1
      /\ \A i \in 1 .. Len(ukLine) - 1 : Tail(ukLine)[i] = ukLine[i + 1]
  BY LineTail
<1>2. ASSUME NEW i \in Nat, Excused(i + 1)
      PROVE Excused(i)'
  <2>1. CASE ukDevice.legacy \/ ukDevice.anchored \/ ukDevice.out \/ ukMissed # {}
    BY <2>1 DEF Excused
  <2>2. CASE \E j \in DOMAIN ukLine : j > i + 1 /\ ukLine[j] = "noise"
    <3>1. PICK j \in 1 .. Len(ukLine) : j > i + 1 /\ ukLine[j] = "noise"
      BY <2>2, <1>1
    <3>2. j - 1 \in 1 .. Len(ukLine) - 1 /\ j - 1 > i /\ (j - 1) + 1 = j
      BY <3>1, <1>1
    <3>3. Tail(ukLine)[j - 1] = ukLine[j]
      BY <3>2, <1>1
    <3> QED
      BY <3>1, <3>2, <3>3, <1>1 DEF Excused
  <2> QED
    BY <1>2, <2>1, <2>2 DEF Excused
<1>3. ukTime'.settled => Excused(0)'
  <2>1. CASE Excused(1)
    BY <2>1, <1>2
  <2>2. CASE ukMissed' # {}
    BY <2>2 DEF Excused
  <2> QED
    BY <2>1, <2>2
<1>4. ASSUME NEW i \in DOMAIN ukLine'
      PROVE /\ ukLine'[i] = "accepted" => Excused(i)'
            /\ ukLine'[i] = "missing" => ukDevice'.legacy
  <2>1. i \in 1 .. Len(ukLine) - 1 /\ i \in Nat /\ i + 1 \in DOMAIN ukLine
        /\ ukLine'[i] = ukLine[i + 1]
    BY <1>4, <1>1
  <2> QED
    BY <2>1, <1>2
<1> QED
  BY <1>1, <1>3, <1>4

\* A message joins the line, with an excuse of its own if it is an acceptance,
\* and the device stays as well excused as it was or the message is its boot noise.
LEMMA UkJoined ==
    ASSUME UkInv, NEW e \in Replies, ukLine' = Append(ukLine, e),
           UNCHANGED <<ukClock, ukTime>>,
           ukMissed # {} => ukMissed' # {} \/ ukDevice'.anchored \/ ukDevice'.out,
           ukDevice' \in UkDevices,
           ukDevice'.legacy = ukDevice.legacy,
           ukDevice.anchored => ukDevice'.anchored \/ ukDevice'.out,
           ukDevice.out => ukDevice'.out \/ e = "noise",
           e = "accepted" => ukDevice'.anchored,
           e = "missing" => ukDevice.legacy
    PROVE UkInv'
<1> USE DEF UkInv, UkTypes
<1>1. /\ Append(ukLine, e) \in Seq(Replies)
      /\ DOMAIN ukLine = 1 .. Len(ukLine) /\ Len(ukLine) \in Nat
      /\ DOMAIN Append(ukLine, e) = 1 .. Len(ukLine) + 1
      /\ \A i \in 1 .. Len(ukLine) : Append(ukLine, e)[i] = ukLine[i]
      /\ Append(ukLine, e)[Len(ukLine) + 1] = e
  BY LineAppend
<1>2. ASSUME NEW i \in 0 .. Len(ukLine), Excused(i)
      PROVE Excused(i)'
  <2>1. CASE ukDevice.legacy \/ ukDevice'.anchored \/ ukDevice'.out \/ ukMissed # {}
    BY <2>1 DEF Excused
  <2>2. CASE e = "noise"
    <3>1. Len(ukLine) + 1 \in DOMAIN ukLine' /\ Len(ukLine) + 1 > i
          /\ ukLine'[Len(ukLine) + 1] = "noise"
      BY <1>1, <2>2
    <3> QED
      BY <3>1 DEF Excused
  <2>3. CASE \E j \in DOMAIN ukLine : j > i /\ ukLine[j] = "noise"
    <3>1. PICK j \in 1 .. Len(ukLine) : j > i /\ ukLine[j] = "noise"
      BY <2>3, <1>1
    <3>2. j \in DOMAIN ukLine' /\ ukLine'[j] = "noise"
      BY <3>1, <1>1
    <3> QED
      BY <3>1, <3>2 DEF Excused
  <2> QED
    BY <1>2, <2>1, <2>2, <2>3 DEF Excused
<1>3. ukTime'.settled => Excused(0)'
  BY <1>1, <1>2
<1>4. ASSUME NEW i \in DOMAIN ukLine'
      PROVE /\ ukLine'[i] = "accepted" => Excused(i)'
            /\ ukLine'[i] = "missing" => ukDevice'.legacy
  <2>1. CASE i = Len(ukLine) + 1
    BY <2>1, <1>1 DEF Excused
  <2>2. CASE i \in 1 .. Len(ukLine)
    BY <2>2, <1>1, <1>2
  <2> QED
    BY <1>4, <1>1, <2>1, <2>2
<1> QED
  BY <1>1, <1>3, <1>4

-----------------------------------------------------------------------------
\* Every step of either actor, of the device and of the link keeps it.
LEMMA UkStepInv == UkInv /\ [UkNext]_ukVars => UkInv'
<1> SUFFICES ASSUME UkInv, [UkNext]_ukVars PROVE UkInv'
  OBVIOUS
<1> DEFINE Times == [at : {"push", "await", "rest"}, settled : BOOLEAN, wake : BOOLEAN]
<1>1. CASE UkClockGains
  <2>1. ukClock' \in {"wrong", "unsure", "sure"}
    BY <1>1 DEF UkClockGains
  <2> QED
    BY <2>1, <1>1, UkQuiet DEF UkClockGains, UkInv, UkTypes
<1>2. CASE UkPush
  <2>1. CASE ukClock = "wrong"
    <3>1. ukTime' = Rests(FALSE) /\ UNCHANGED <<ukClock, ukDevice, ukLine, ukMissed>>
      BY <2>1, <1>2 DEF UkPush
    <3>2. ukTime.settled \in BOOLEAN
      BY DEF UkInv, UkTypes
    <3>3. Rests(FALSE) \in Times
      BY <3>2 DEF Rests
    <3>4. Rests(FALSE).settled => ukTime.settled
      BY <3>2 DEF Rests
    <3> QED
      BY <3>1, <3>3, <3>4, UkQuiet DEF UkInv, UkTypes
  <2>2. CASE ukClock # "wrong"
    <3>1. /\ ukDevice' = [ukDevice EXCEPT !.command = ukClock]
          /\ ukTime' = [ukTime EXCEPT !.at = "await"]
          /\ UNCHANGED <<ukClock, ukLine, ukMissed>>
      BY <2>2, <1>2 DEF UkPush, UkTimeTo
    <3>2. /\ ukDevice'.legacy = ukDevice.legacy /\ ukDevice'.anchored = ukDevice.anchored
          /\ ukDevice' \in UkDevices
          /\ ukTime' \in Times /\ ukTime'.settled = ukTime.settled
      BY <3>1, <2>2 DEF UkInv, UkTypes, UkDevices
    <3> QED
      BY <3>1, <3>2 DEF UkInv, UkTypes, Excused
  <2> QED
    BY <2>1, <2>2
<1>3. CASE UkDeviceServes
  <2>1. PICK reply \in {"accepted", "unsure", "missing", "refused"} :
          /\ ukLine' = Append(ukLine, reply)
          /\ ukDevice' = [ukDevice EXCEPT !.anchored = @ \/ reply = "accepted",
                                          !.command = "none"]
          /\ (reply = "missing") = ukDevice.legacy
          /\ ukMissed' = IF reply = "accepted" THEN {} ELSE ukMissed
    BY <1>3 DEF UkDeviceServes
  <2>2. /\ reply \in Replies /\ ukDevice'.legacy = ukDevice.legacy
        /\ ukDevice'.anchored = (ukDevice.anchored \/ reply = "accepted")
        /\ ukDevice'.out = ukDevice.out
        /\ ukDevice' \in UkDevices
    BY <2>1 DEF UkInv, UkTypes, UkDevices, Replies
  <2>3. reply = "missing" => ukDevice.legacy
    BY <2>1
  <2> QED
    BY <1>3, <2>1, <2>2, <2>3, UkJoined DEF UkDeviceServes
<1>4. CASE UkRestart
  <2>1. /\ ukDevice' = [ukDevice EXCEPT !.anchored = FALSE, !.command = "none", !.out = TRUE]
        /\ UNCHANGED <<ukClock, ukTime>>
    BY <1>4 DEF UkRestart
  <2>2. ukDevice'.legacy = ukDevice.legacy /\ ukDevice'.out /\ ukDevice' \in UkDevices
    BY <2>1 DEF UkInv, UkTypes, UkDevices
  <2>3. CASE ukLine' = Append(ukLine, "noise")
    <3>1. "noise" \in Replies
      BY DEF Replies
    <3> QED
      BY <2>1, <2>2, <2>3, <3>1, UkJoined
  <2>4. CASE UNCHANGED ukLine
    BY <2>1, <2>2, <2>4 DEF UkInv, UkTypes, Excused
  <2> QED
    BY <1>4, <2>3, <2>4 DEF UkRestart
<1>11. CASE UkNag
  <2>1. ukDevice' = [ukDevice EXCEPT !.out = FALSE] /\ UNCHANGED <<ukClock, ukTime>>
    BY <1>11 DEF UkNag
  <2>2. /\ ukDevice'.legacy = ukDevice.legacy /\ ukDevice'.anchored = ukDevice.anchored
        /\ ukDevice' \in UkDevices
    BY <2>1 DEF UkInv, UkTypes, UkDevices
  <2>3. CASE ukLine' = Append(ukLine, "noise") /\ UNCHANGED ukMissed
    <3>1. "noise" \in Replies
      BY DEF Replies
    <3> QED
      BY <2>1, <2>2, <2>3, <3>1, UkJoined
  <2>4. CASE ukMissed' = {"lost"} /\ UNCHANGED ukLine
    BY <2>1, <2>2, <2>4 DEF UkInv, UkTypes, Excused
  <2> QED
    BY <1>11, <2>3, <2>4 DEF UkNag
<1>5. CASE UkNoise \/ UkNoiseIgnored
  <2>1. CASE UkNoise
    <3>1. ukTime' \in Times /\ ~ukTime'.settled
      BY <2>1 DEF UkNoise, UkReset, UkInv, UkTypes
    <3> QED
      BY <2>1, <3>1, UkTaken DEF UkNoise, UkNoiseRead
  <2>2. CASE UkNoiseIgnored
    <3>1. /\ ukLine # <<>> /\ ukLine' = Tail(ukLine)
          /\ UNCHANGED <<ukClock, ukDevice, ukTime>>
          /\ ukMissed # {} => ukMissed' # {}
          /\ ukDevice.anchored \/ ukMissed' # {}
      BY <2>2 DEF UkNoiseIgnored, UkNoiseRead
    <3> QED
      BY <3>1, UkTaken DEF UkInv, UkTypes, Excused
  <2> QED
    BY <1>5, <2>1, <2>2
<1>6. CASE UkAnswered
  <2>1. /\ ukLine # <<>> /\ ukLine' = Tail(ukLine) /\ ukLine[1] # "noise"
        /\ UNCHANGED <<ukClock, ukDevice, ukMissed>>
        /\ ukTime' = Rests(ukLine[1] \in {"accepted", "missing"})
    BY <1>6 DEF UkAnswered
  <2>2. /\ ukTime' \in Times
        /\ ukTime'.settled => ukTime.settled \/ ukLine[1] \in {"accepted", "missing"}
    BY <2>1 DEF Rests, UkInv, UkTypes
  <2>3. /\ DOMAIN ukLine = 1 .. Len(ukLine) /\ Len(ukLine) \in Nat \ {0}
    BY <2>1, LineTail DEF UkInv, UkTypes
  <2>4. Excused(0) => Excused(1)
    BY <2>1, <2>3 DEF Excused
  <2>5. ukLine[1] \in {"accepted", "missing"} => Excused(1)
    BY <2>3 DEF UkInv, Excused
  <2> QED
    BY <2>1, <2>2, <2>4, <2>5, UkTaken DEF UkInv
<1>7. CASE UkRested
  <2>1. ukTime' \in Times /\ ukTime'.settled = ukTime.settled
    BY <1>7 DEF UkRested, UkTimeTo, UkInv, UkTypes
  <2> QED
    BY <2>1, <1>7, UkQuiet DEF UkRested, UkInv, UkTypes
<1>8. CASE UkLinkLost \/ UkLinkFailed
  <2>0. Reconnected
    BY <1>8 DEF UkLinkLost, UkLinkFailed
  <2>1. /\ ukDevice' = [ukDevice EXCEPT !.command = "none", !.out = FALSE]
        /\ ukTime' = [at |-> "push", settled |-> FALSE, wake |-> TRUE]
        /\ ukLine' = <<>> /\ ukClock' = ukClock
    BY <2>0 DEF Reconnected
  <2>3. ukDevice' \in UkDevices /\ ukTime' \in Times /\ ~ukTime'.settled
    BY <2>1 DEF UkInv, UkTypes, UkDevices
  <2>2. DOMAIN ukLine' = {} /\ ukLine' \in Seq(Replies)
    BY <2>1, LineEmpty
  <2> QED
    BY <2>1, <2>2, <2>3 DEF UkInv, UkTypes
<1>12. CASE UkProbation
  BY <1>12 DEF UkProbation, UkInv, UkTypes, Excused
<1>9. CASE UNCHANGED ukTimeVars
  BY <1>9 DEF ukTimeVars, UkInv, UkTypes, Excused
<1>10. UkLoopFault \/ UkGarbage \/ UkGarbageNoted \/ UkTeller \/ UNCHANGED ukVars
        => UNCHANGED ukTimeVars
  BY DEF UkLoopFault, UkGarbage, UkGarbageNoted, UkTeller, UkReports, UkStamps,
         UkReported, UkTicks, ukVars
<1> QED
  BY <1>1, <1>2, <1>3, <1>4, <1>5, <1>6, <1>7, <1>8, <1>9, <1>10, <1>11, <1>12
     DEF UkNext, UkTimer

\* While the clock actor rests for a day the device has the time, or a sign of its
\* restart is to come, was lost, or met a hint that is sticky (cm5_time.py run,
\* link_reset; link/session.py _mark_reboot_suspected).
THEOREM UkNotSleptOver == UkSpec => []UkAnchored
<1>1. UkInv => UkAnchored
  BY DEF UkInv, UkAnchored, UkDark, UkSignDue, Excused
<1> QED
  BY <1>1, UkInitInv, UkStepInv, PTL DEF UkSpec
=============================================================================
