--------------------------- MODULE MacModes_proofs ---------------------------
(* What holds of the switches, the coordinator and the helper (MacModes) in every
   reachable state, for any number of faults and inputs and any length of the
   queues. *)
EXTENDS MacModes, SequenceTheorems, TLAPS

-----------------------------------------------------------------------------
(* Queues: what is in one, and what is the last of its kind. *)

In(q, S) == \E i \in 1..Len(q) : q[i] \in S
Last(q, S, T) == \E i \in 1..Len(q) : q[i] \in S /\ \A j \in (i + 1)..Len(q) : q[j] \notin T

\* What a queue holds after something was appended.
LEMMA InAppend ==
  ASSUME NEW X, NEW q \in Seq(X), NEW e \in X, NEW S
  PROVE In(Append(q, e), S) <=> In(q, S) \/ e \in S
<1> DEFINE r == Append(q, e)
<1>1. /\ Len(q) \in Nat /\ Len(r) = Len(q) + 1 /\ r[Len(q) + 1] = e
      /\ \A i \in 1..Len(q) : r[i] = q[i]
  BY AppendProperties
<1>2. 1..Len(r) = 1..Len(q) \cup {Len(q) + 1}
  BY <1>1
<1> HIDE DEF r
<1> QED
  BY <1>1, <1>2 DEF In, r

\* What a queue holds after another was appended to it.
LEMMA InConcat ==
  ASSUME NEW X, NEW p \in Seq(X), NEW q \in Seq(X), NEW S
  PROVE In(p \o q, S) <=> In(p, S) \/ In(q, S)
<1> DEFINE r == p \o q
<1>1. /\ Len(p) \in Nat /\ Len(q) \in Nat /\ Len(r) = Len(p) + Len(q)
      /\ \A i \in 1..Len(r) : r[i] = IF i <= Len(p) THEN p[i] ELSE q[i - Len(p)]
  BY ConcatProperties
<1>2. ASSUME In(p, S) PROVE In(r, S)
  <2>1. PICK i \in 1..Len(p) : p[i] \in S
    BY <1>2 DEF In
  <2>2. i \in 1..Len(r) /\ r[i] = p[i]
    BY <1>1
  <2> QED
    BY <2>1, <2>2 DEF In
<1>3. ASSUME In(q, S) PROVE In(r, S)
  <2>1. PICK i \in 1..Len(q) : q[i] \in S
    BY <1>3 DEF In
  <2>2. i + Len(p) \in 1..Len(r) /\ r[i + Len(p)] = q[i]
    BY <1>1
  <2> QED
    BY <2>1, <2>2 DEF In
<1>4. ASSUME In(r, S) PROVE In(p, S) \/ In(q, S)
  <2>1. PICK i \in 1..Len(r) : r[i] \in S
    BY <1>4 DEF In
  <2>2. CASE i <= Len(p)
    BY <1>1, <2>1, <2>2 DEF In
  <2>3. CASE ~(i <= Len(p))
    <3>1. i - Len(p) \in 1..Len(q) /\ r[i] = q[i - Len(p)]
      BY <1>1, <2>3
    <3> QED
      BY <2>1, <3>1 DEF In
  <2> QED
    BY <2>2, <2>3
<1> QED
  BY <1>2, <1>3, <1>4

\* What a queue holds is its head or behind it.
LEMMA InTail ==
  ASSUME NEW X, NEW q \in Seq(X), q # <<>>, NEW S
  PROVE In(q, S) <=> Head(q) \in S \/ In(Tail(q), S)
<1> DEFINE r == Tail(q)
<1>1. /\ Len(q) \in Nat \ {0} /\ Len(r) = Len(q) - 1 /\ Head(q) = q[1]
      /\ \A i \in 1..Len(r) : r[i] = q[i + 1]
  BY HeadTailProperties, EmptySeq, LenProperties
<1>2. ASSUME In(q, S), Head(q) \notin S PROVE In(r, S)
  <2>1. PICK i \in 1..Len(q) : q[i] \in S
    BY <1>2 DEF In
  <2>2. i - 1 \in 1..Len(r) /\ r[i - 1] = q[i]
    BY <1>1, <1>2, <2>1
  <2> QED
    BY <2>1, <2>2 DEF In
<1>3. ASSUME In(r, S) PROVE In(q, S)
  <2>1. PICK i \in 1..Len(r) : r[i] \in S
    BY <1>3 DEF In
  <2>2. i + 1 \in 1..Len(q) /\ r[i] = q[i + 1]
    BY <1>1
  <2> QED
    BY <2>1, <2>2 DEF In
<1>4. ASSUME Head(q) \in S PROVE In(q, S)
  BY <1>1, <1>4 DEF In
<1> QED
  BY <1>2, <1>3, <1>4

\* The last of a kind after something was appended.
LEMMA LastAppend ==
  ASSUME NEW X, NEW q \in Seq(X), NEW e \in X, NEW T, NEW S \in SUBSET T
  PROVE Last(Append(q, e), S, T) <=> IF e \in T THEN e \in S ELSE Last(q, S, T)
<1> DEFINE r == Append(q, e)  n == Len(q) + 1
<1>1. /\ Len(q) \in Nat /\ Len(r) = n /\ r[n] = e /\ n \in 1..Len(r)
      /\ \A i \in 1..Len(q) : r[i] = q[i]
  BY AppendProperties
<1> HIDE DEF r
<1>2. ASSUME Last(r, S, T) PROVE IF e \in T THEN e \in S ELSE Last(q, S, T)
  <2>1. PICK i \in 1..Len(r) : r[i] \in S /\ \A j \in (i + 1)..Len(r) : r[j] \notin T
    BY <1>2 DEF Last
  <2>2. CASE i = n
    BY <1>1, <2>1, <2>2
  <2>3. CASE i # n
    <3>1. i \in 1..Len(q) /\ n \in (i + 1)..Len(r)
      BY <1>1, <2>3
    <3>2. e \notin T
      BY <1>1, <2>1, <3>1
    <3>3. q[i] \in S /\ \A j \in (i + 1)..Len(q) : q[j] \notin T
      BY <1>1, <2>1, <3>1
    <3> QED
      BY <3>1, <3>2, <3>3 DEF Last
  <2> QED
    BY <2>2, <2>3
<1>3. ASSUME e \in S PROVE Last(r, S, T)
  <2>1. \A j \in (n + 1)..Len(r) : r[j] \notin T
    BY <1>1
  <2> QED
    BY <1>1, <1>3, <2>1 DEF Last
<1>4. ASSUME e \notin T, Last(q, S, T) PROVE Last(r, S, T)
  <2>1. PICK i \in 1..Len(q) : q[i] \in S /\ \A j \in (i + 1)..Len(q) : q[j] \notin T
    BY <1>4 DEF Last
  <2>2. i \in 1..Len(r) /\ r[i] \in S
    BY <1>1, <2>1
  <2>3. \A j \in (i + 1)..Len(r) : r[j] \notin T
    BY <1>1, <1>4, <2>1
  <2> QED
    BY <2>2, <2>3 DEF Last
<1> QED
  BY <1>2, <1>3, <1>4 DEF r

\* The last of a kind is behind the head, or the head with none behind it.
LEMMA LastTail ==
  ASSUME NEW X, NEW q \in Seq(X), q # <<>>, NEW T, NEW S \in SUBSET T
  PROVE Last(q, S, T) <=> Last(Tail(q), S, T) \/ (Head(q) \in S /\ ~In(Tail(q), T))
<1> DEFINE r == Tail(q)
<1>1. /\ Len(q) \in Nat \ {0} /\ Len(r) = Len(q) - 1 /\ Head(q) = q[1]
      /\ \A i \in 1..Len(r) : r[i] = q[i + 1]
  BY HeadTailProperties, EmptySeq, LenProperties
<1> HIDE DEF r
<1>2. ASSUME Last(q, S, T) PROVE Last(r, S, T) \/ (Head(q) \in S /\ ~In(r, T))
  <2>1. PICK i \in 1..Len(q) : q[i] \in S /\ \A j \in (i + 1)..Len(q) : q[j] \notin T
    BY <1>2 DEF Last
  <2>2. CASE i = 1
    <3>1. \A j \in 1..Len(r) : r[j] \notin T
      BY <1>1, <2>1, <2>2
    <3> QED
      BY <1>1, <2>1, <2>2, <3>1 DEF In
  <2>3. CASE i # 1
    <3> DEFINE k == i - 1
    <3>1. k \in 1..Len(r) /\ r[k] \in S
      BY <1>1, <2>1, <2>3
    <3>2. \A j \in (k + 1)..Len(r) : r[j] \notin T
      <4> TAKE j \in (k + 1)..Len(r)
      <4>1. j + 1 \in (i + 1)..Len(q) /\ j \in 1..Len(r)
        BY <1>1
      <4> QED
        BY <1>1, <2>1, <4>1
    <3> HIDE DEF k
    <3> QED
      BY <3>1, <3>2 DEF Last
  <2> QED
    BY <2>2, <2>3
<1>3. ASSUME Last(r, S, T) PROVE Last(q, S, T)
  <2>1. PICK i \in 1..Len(r) : r[i] \in S /\ \A j \in (i + 1)..Len(r) : r[j] \notin T
    BY <1>3 DEF Last
  <2> DEFINE k == i + 1
  <2>2. k \in 1..Len(q) /\ q[k] \in S
    BY <1>1, <2>1
  <2>3. \A j \in (k + 1)..Len(q) : q[j] \notin T
    <3> TAKE j \in (k + 1)..Len(q)
    <3>1. j - 1 \in (i + 1)..Len(r) /\ j - 1 \in 1..Len(r) /\ r[j - 1] = q[j]
      BY <1>1
    <3> QED
      BY <2>1, <3>1
  <2> HIDE DEF k
  <2> QED
    BY <2>2, <2>3 DEF Last
<1>4. ASSUME Head(q) \in S, ~In(r, T) PROVE Last(q, S, T)
  <2>1. \A j \in 2..Len(q) : q[j] \notin T
    <3> TAKE j \in 2..Len(q)
    <3>1. j - 1 \in 1..Len(r) /\ r[j - 1] = q[j]
      BY <1>1
    <3> QED
      BY <1>4, <3>1 DEF In
  <2>2. 1 \in 1..Len(q) /\ q[1] \in S /\ 1 + 1 = 2
    BY <1>1, <1>4
  <2> QED
    BY <2>1, <2>2 DEF Last
<1> QED
  BY <1>2, <1>3, <1>4 DEF r

\* What is not of the kind does not change the last of it.
LEMMA LastConcat ==
  ASSUME NEW X, NEW p \in Seq(X), NEW q \in Seq(X), NEW T, NEW S \in SUBSET T, ~In(q, T)
  PROVE Last(p \o q, S, T) <=> Last(p, S, T)
<1> DEFINE r == p \o q
<1>1. /\ Len(p) \in Nat /\ Len(q) \in Nat /\ Len(r) = Len(p) + Len(q)
      /\ \A i \in 1..Len(p) : r[i] = p[i]
      /\ \A i \in 1..Len(r) : r[i] = IF i <= Len(p) THEN p[i] ELSE q[i - Len(p)]
  BY ConcatProperties
<1>2. \A i \in (Len(p) + 1)..Len(r) : r[i] \notin T
  <2> TAKE i \in (Len(p) + 1)..Len(r)
  <2>1. i - Len(p) \in 1..Len(q) /\ r[i] = q[i - Len(p)]
    BY <1>1
  <2> QED
    BY <2>1 DEF In
<1> HIDE DEF r
<1>3. ASSUME Last(r, S, T) PROVE Last(p, S, T)
  <2>1. PICK i \in 1..Len(r) : r[i] \in S /\ \A j \in (i + 1)..Len(r) : r[j] \notin T
    BY <1>3 DEF Last
  <2>2. i \in 1..Len(p)
    BY <1>1, <1>2, <2>1
  <2>3. p[i] \in S /\ \A j \in (i + 1)..Len(p) : p[j] \notin T
    BY <1>1, <2>1, <2>2
  <2> QED
    BY <2>2, <2>3 DEF Last
<1>4. ASSUME Last(p, S, T) PROVE Last(r, S, T)
  <2>1. PICK i \in 1..Len(p) : p[i] \in S /\ \A j \in (i + 1)..Len(p) : p[j] \notin T
    BY <1>4 DEF Last
  <2>2. i \in 1..Len(r) /\ r[i] \in S
    BY <1>1, <2>1
  <2>3. \A j \in (i + 1)..Len(r) : r[j] \notin T
    <3> TAKE j \in (i + 1)..Len(r)
    <3>1. CASE j <= Len(p)
      BY <1>1, <2>1, <3>1
    <3>2. CASE ~(j <= Len(p))
      BY <1>1, <1>2, <3>2
    <3> QED
      BY <3>1, <3>2
  <2> QED
    BY <2>2, <2>3 DEF Last
<1> QED
  BY <1>3, <1>4 DEF r

\* Appending to the second queue and to both is the same.
LEMMA ConcatAppend ==
  ASSUME NEW X, NEW p \in Seq(X), NEW q \in Seq(X), NEW e \in X
  PROVE /\ p \o q \in Seq(X) /\ Append(p \o q, e) \in Seq(X)
        /\ p \o Append(q, e) = Append(p \o q, e)
<1>1. <<e>> \in Seq(X) /\ p \o q \in Seq(X)
  BY ConcatProperties
<1>2. Append(q, e) = q \o <<e>> /\ Append(p \o q, e) = (p \o q) \o <<e>>
  BY <1>1
<1>3. (p \o q) \o <<e>> = p \o (q \o <<e>>) /\ (p \o q) \o <<e>> \in Seq(X)
  BY <1>1, ConcatAssociative, ConcatProperties
<1> QED
  BY <1>1, <1>2, <1>3

-----------------------------------------------------------------------------
(* What the queues hold. *)

Sent == {c \in Calls : c.op = "tunStart" => c.by # "nobody"}
Queue == Seq(Sent \cup [m : Signals])
Replies == [m : {"reply"}, call : Sent, ok : BOOLEAN, has : SUBSET {"proxy", "vpn", "absent"}]
Notes == [m : {"lost", "ready", "stopped", "started", "startFailed", "stopDone", "stop"}]
Posts == Replies \cup Notes
Events == [m : {"ready", "stopped"}]

\* Calls of a kind in the worker's queue, replies and signals in the queue of the UI.
CallOf(ops) == {c \in Sent : c.op \in ops}
Applies == CallOf({"apply"})
ProxyCalls == CallOf({"apply", "restore"})
Starts == CallOf({"tunStart"})
TunCalls == CallOf({"tunStart", "tunStop"})
NotByUser == {c \in Starts : c.by # "user"}
ReplyOf(op, oks) == {r \in Replies : r.call.op = op /\ r.ok \in oks}
StartReplies == ReplyOf("tunStart", BOOLEAN)
StartFails == ReplyOf("tunStart", {FALSE})
ApplyFails == ReplyOf("apply", {FALSE})
NotForUser == {r \in StartReplies : r.call.by # "user"}
Losses == {[m |-> "lost"]}
Halts == {[m |-> "stopped"]}
Ends == {[m |-> "stopDone"]}
Changes == {[m |-> "started"], [m |-> "stopDone"]}
Failures == {[m |-> "startFailed"]}

\* The state a handler works on: g with the calls it has made so far.
Working ==
  [run : BOOLEAN, starting : BOOLEAN, stopping : BOOLEAN, cancel : BOOLEAN,
   sp : BOOLEAN, tun : BOOLEAN, pid : BOOLEAN, rem : SUBSET Modes,
   saves : BOOLEAN,
   parked : BOOLEAN, paused : BOOLEAN, inFlight : BOOLEAN, waiting : BOOLEAN, timer : BOOLEAN,
   pending : BOOLEAN, auth : BOOLEAN, failed : BOOLEAN, deferred : BOOLEAN,
   work : BOOLEAN,
   probing : BOOLEAN, was : SUBSET Modes, tunTimer : BOOLEAN,
   installing : {"no", "proxy", "vpn", "startup"}, slept : SUBSET Modes,
   slip : {"", "on while stopping", "late failure", "late loss", "helper failed",
           "off while starting up", "off after sleep", "start under way", "stop failed", "late stop", "late start"},
   out : Seq(Sent)]

\* The worker's queue as the handler leaves it, and what the helper will have then.
Ahead(s) == wq \o s.out
ProxyToBe(q) == Last(q, Applies, ProxyCalls) \/ (h.proxy /\ ~In(q, ProxyCalls))
TunToBe(q) == Last(q, Starts, TunCalls) \/ (h.tun # "off" /\ ~In(q, TunCalls))

-----------------------------------------------------------------------------
(* What holds between two handlers; m is what the UI thread has still to handle. *)

Ok(s) == s.slip = ""
\* The connection is lost and the UI thread does not know it yet.
Lost(m) == (sess /\ ~h.conn) \/ In(wq, Losses) \/ In(m, Losses)
Halted(m) == In(wire, Halts) \/ In(wq, Halts) \/ In(m, Halts)
\* A start or a pause is under way that looks at the modes again.
Ending(s, m) == s.starting \/ In(m, Failures) \/ s.timer \/ (s.waiting /\ In(m, Ends))

LinkSound ==
  /\ h.up => h.inst
  /\ h.conn => sess
  /\ ~h.conn => h.tun = "off"
  /\ h.up /\ ~h.conn => ~h.proxy
  /\ wire # <<>> => h.conn
  /\ link /\ ~sess => In(wq, Losses)

\* The proxy: what will be set is what is switched on and not parked.
ProxyKept(s, m) ==
  /\ Ok(s) /\ ~Lost(m) /\ sess => link
  /\ Ok(s) /\ (s.sp \/ In(Ahead(s), Applies)) => sess \/ Lost(m)
  /\ Ok(s) /\ In(m, ApplyFails) => Lost(m)
  /\ Ok(s) /\ ~Lost(m) /\ h.conn => (ProxyToBe(Ahead(s)) <=> (s.sp /\ ~s.parked))
\* What is parked belongs to a profile that stops or stopped, and the rest to one that runs.
ParkingKept(s, m) ==
  /\ s.sp /\ s.parked /\ s.run => s.stopping \/ In(m, Changes)
  /\ Ok(s) /\ s.stopping /\ s.sp => s.parked
  /\ Ok(s) /\ ~s.run /\ s.sp /\ ~s.parked => Ending(s, m)
\* Tun: what will run is what the service believes to run, and nothing runs for a
\* profile that stops.
TunSound(s, m) ==
  /\ s.stopping => s.run
  /\ s.inFlight => s.stopping \/ In(m, Ends)
  /\ s.pid => s.tun
  /\ Ok(s) /\ s.stopping => ~s.pid
  /\ Ok(s) /\ ~Lost(m) /\ TunToBe(Ahead(s)) => s.pid
  /\ Ok(s) /\ ~Lost(m) /\ s.pid => TunToBe(Ahead(s)) \/ In(m, StartFails) \/ Halted(m)
  /\ Ok(s) /\ ~Lost(m) /\ ~In(Ahead(s), Starts) /\ Last(m, StartFails, StartReplies) => h.tun = "off"
  /\ Ok(s) /\ ~Lost(m) /\ s.pid /\ ~s.run /\ h.tun = "up" /\ ~In(Ahead(s), TunCalls) => Ending(s, m)
\* A Tun that is on runs for the profile that runs, or the coordinator will be told.
BackKept(s, m) ==
  Ok(s) /\ s.tun /\ s.run /\ ~s.failed /\ ~s.pid => s.stopping \/ In(m, Changes)
TunKept(s, m) == TunSound(s, m) /\ BackKept(s, m)
\* The startup hold and the block after a failure.
HoldKept(s, m) ==
  /\ s.work \/ s.deferred => s.pending \/ s.failed
  /\ ~(s.pending /\ s.failed)
  /\ Ok(s) /\ s.failed => ~s.starting /\ (s.run => s.stopping)
  /\ Ok(s) /\ (s.pending \/ s.failed) /\ ~s.tun =>
       ~s.run /\ ~s.starting /\ ~In(Ahead(s), Starts) /\ ~In(m, StartReplies) /\ ~(s.pending /\ s.auth)
\* A failure is remembered only for the user's own start.
MemoryKept(s, m) ==
  s.saves => /\ ~Last(Ahead(s), NotByUser, Starts)
             /\ ~In(Ahead(s), Starts) => ~Last(m, NotForUser, StartReplies)
Kept(s, m) ==
  ProxyKept(s, m) /\ ParkingKept(s, m) /\ TunKept(s, m) /\ HoldKept(s, m) /\ MemoryKept(s, m)

LinkTyped ==
  /\ LinkTypeOK
  /\ wire \in Seq(Events) /\ wq \in Queue /\ mq \in Seq(Posts)
ModesInv == /\ LinkTyped /\ acts \in 0..MaxActs /\ g \in Working /\ g.out = <<>>
            /\ LinkSound /\ Kept(g, mq)

-----------------------------------------------------------------------------
(* What a call changes. *)

\* What is the same before and after a part of a handler.
SameRun(s, t) == t.run = s.run /\ t.starting = s.starting /\ t.stopping = s.stopping
SameProxy(s, t) == t.sp = s.sp /\ t.parked = s.parked
SameTun(s, t) == t.tun = s.tun /\ t.pid = s.pid
SameWaits(s, t) == t.inFlight = s.inFlight /\ t.waiting = s.waiting /\ t.timer = s.timer
SameHold(s, t) ==
  /\ t.pending = s.pending /\ t.auth = s.auth /\ t.failed = s.failed
  /\ t.deferred = s.deferred /\ t.work = s.work
SameMemory(s, t) == t.rem = s.rem /\ t.saves = s.saves
SameQueue(s, t) == t.out = s.out /\ t.slip = s.slip
\* What a call adds to the queue; the call "none" adds nothing.
Queued(s, t, op, by) ==
  /\ Ok(t) => Ok(s) /\ ~(s.stopping /\ op \in {"tunStart", "apply"}) /\ (op = "apply" => s.run)
  /\ In(Ahead(t), Applies) <=> In(Ahead(s), Applies) \/ op = "apply"
  /\ In(Ahead(t), Starts) <=> In(Ahead(s), Starts) \/ op = "tunStart"
  /\ In(Ahead(t), TunCalls) <=> In(Ahead(s), TunCalls) \/ op \in {"tunStart", "tunStop"}
  /\ ProxyToBe(Ahead(t)) <=> IF op \in {"apply", "restore"} THEN op = "apply" ELSE ProxyToBe(Ahead(s))
  /\ TunToBe(Ahead(t)) <=> IF op \in {"tunStart", "tunStop"} THEN op = "tunStart" ELSE TunToBe(Ahead(s))
  /\ Last(Ahead(t), NotByUser, Starts) <=>
       IF op = "tunStart" THEN by # "user" ELSE Last(Ahead(s), NotByUser, Starts)
SameState(s, t) ==
  SameRun(s, t) /\ SameProxy(s, t) /\ SameTun(s, t) /\ SameWaits(s, t) /\ SameHold(s, t) /\ SameMemory(s, t)

\* The kinds of calls and replies lie within each other.
LEMMA Kinds ==
  /\ Applies \in SUBSET ProxyCalls /\ Starts \in SUBSET TunCalls /\ NotByUser \in SUBSET Starts
  /\ StartFails \in SUBSET StartReplies /\ NotForUser \in SUBSET StartReplies
  BY DEF Applies, ProxyCalls, Starts, TunCalls, NotByUser, StartFails, StartReplies, NotForUser, CallOf, ReplyOf

\* The queue after a call.
LEMMA CallQueued ==
  ASSUME NEW q \in Queue, NEW c \in Sent
  PROVE LET r == Append(q, c)
        IN /\ r \in Queue
           /\ In(r, Applies) <=> In(q, Applies) \/ c.op = "apply"
           /\ In(r, Starts) <=> In(q, Starts) \/ c.op = "tunStart"
           /\ In(r, TunCalls) <=> In(q, TunCalls) \/ c.op \in {"tunStart", "tunStop"}
           /\ ProxyToBe(r) <=> IF c.op \in {"apply", "restore"} THEN c.op = "apply" ELSE ProxyToBe(q)
           /\ TunToBe(r) <=> IF c.op \in {"tunStart", "tunStop"} THEN c.op = "tunStart" ELSE TunToBe(q)
           /\ Last(r, NotByUser, Starts) <=>
                IF c.op = "tunStart" THEN c.by # "user" ELSE Last(q, NotByUser, Starts)
<1> DEFINE r == Append(q, c)  X == Sent \cup [m : Signals]
<1>1. q \in Seq(X) /\ c \in X
  BY DEF Queue
<1>2. r \in Queue
  BY <1>1, AppendProperties DEF Queue
<1>3. /\ c \in Applies <=> c.op = "apply"
      /\ c \in ProxyCalls <=> c.op \in {"apply", "restore"}
      /\ c \in Starts <=> c.op = "tunStart"
      /\ c \in TunCalls <=> c.op \in {"tunStart", "tunStop"}
      /\ c \in NotByUser <=> c.op = "tunStart" /\ c.by # "user"
  BY DEF Applies, ProxyCalls, Starts, TunCalls, NotByUser, CallOf
<1> HIDE DEF X
<1>4. /\ In(r, Applies) <=> In(q, Applies) \/ c \in Applies
      /\ In(r, ProxyCalls) <=> In(q, ProxyCalls) \/ c \in ProxyCalls
      /\ In(r, Starts) <=> In(q, Starts) \/ c \in Starts
      /\ In(r, TunCalls) <=> In(q, TunCalls) \/ c \in TunCalls
  BY <1>1, InAppend
<1>5. /\ Last(r, Applies, ProxyCalls) <=> IF c \in ProxyCalls THEN c \in Applies ELSE Last(q, Applies, ProxyCalls)
      /\ Last(r, Starts, TunCalls) <=> IF c \in TunCalls THEN c \in Starts ELSE Last(q, Starts, TunCalls)
      /\ Last(r, NotByUser, Starts) <=> IF c \in Starts THEN c \in NotByUser ELSE Last(q, NotByUser, Starts)
  BY <1>1, LastAppend, Kinds
<1> HIDE DEF r
<1> QED
  BY <1>2, <1>3, <1>4, <1>5 DEF r, ProxyToBe, TunToBe

\* A handler's call: what it leaves alone, what the queue becomes, and that a mode
\* turned on for a profile that stops or does not run is noted.
LEMMA CallDoes ==
  ASSUME wq \in Queue, NEW s \in Working, NEW op \in Ops,
         NEW by \in {"user", "modes", "wake", "proxy", "vpn", "restore", "startup", "install", "nobody"},
         NEW save \in BOOLEAN, NEW was \in SUBSET {"proxy", "vpn"}, op = "tunStart" => by # "nobody"
  PROVE LET t == Call(s, op, by, save, was)
        IN t \in Working /\ SameState(s, t) /\ Queued(s, t, op, by)
<1> DEFINE c == [op |-> op, by |-> by, save |-> save, was |-> was]
           slip == IF s.slip # "" THEN s.slip
                   ELSE IF s.stopping /\ op \in {"tunStart", "apply"} THEN "on while stopping"
                   ELSE IF ~s.run /\ op = "apply" THEN "late start" ELSE s.slip
           t == [s EXCEPT !.out = Append(s.out, c), !.slip = slip]
           X == Sent \cup [m : Signals]
<1>1. c \in Sent /\ c.op = op /\ c.by = by
  BY DEF Sent, Calls
<1>2. s.out \in Seq(Sent) /\ Append(s.out, c) \in Seq(Sent)
  BY <1>1, AppendProperties DEF Working
<1>3. t \in Working /\ t.out = Append(s.out, c) /\ t.slip = slip /\ SameState(s, t)
  BY <1>2 DEF Working, SameState, SameRun, SameProxy, SameTun, SameWaits, SameHold, SameMemory
<1>4. Call(s, op, by, save, was) = t
  BY DEF Call
<1>5. s.out \in Seq(X) /\ wq \in Seq(X) /\ c \in X
  BY <1>1, <1>2, SeqMonotonic DEF Queue
<1>6. Ahead(t) = Append(Ahead(s), c) /\ Ahead(s) \in Queue
  <2> HIDE DEF c, t, X
  <2>1. wq \o Append(s.out, c) = Append(wq \o s.out, c) /\ wq \o s.out \in Seq(X)
    BY <1>5, ConcatAppend
  <2> QED
    BY <1>3, <2>1 DEF Ahead, Queue, X
<1>7. Ok(t) => Ok(s) /\ ~(s.stopping /\ op \in {"tunStart", "apply"}) /\ (op = "apply" => s.run)
  <2>1. s.run \in BOOLEAN /\ s.stopping \in BOOLEAN
    BY DEF Working
  <2> HIDE DEF t
  <2>2. ASSUME t.slip = "" PROVE s.slip = "" /\ ~(s.stopping /\ op \in {"tunStart", "apply"}) /\ (op = "apply" => s.run)
    BY <1>3, <2>1, <2>2
  <2> QED
    BY <2>2 DEF Ok
<1> HIDE DEF c, t, slip, X
<1> QED
  BY <1>1, <1>3, <1>4, <1>6, <1>7, CallQueued DEF Queued

\* Only the note of what went wrong is changed, and only to something.
LEMMA SlipDoes ==
  ASSUME NEW s \in Working, NEW cond \in BOOLEAN,
         NEW what \in {"late failure", "late loss", "off while starting up", "off after sleep",
                       "start under way", "stop failed", "late stop", "helper failed"}
  PROVE LET t == Slip(s, cond, what)
        IN t \in Working /\ SameState(s, t) /\ t.out = s.out /\ (Ok(t) => Ok(s) /\ ~cond)
<1> DEFINE t == [s EXCEPT !.slip = what]
<1>1. t \in Working /\ SameState(s, t) /\ t.out = s.out /\ t.slip = what /\ what # ""
  BY DEF Working, SameState, SameRun, SameProxy, SameTun, SameWaits, SameHold, SameMemory
<1>2. SameState(s, s)
  BY DEF SameState, SameRun, SameProxy, SameTun, SameWaits, SameHold, SameMemory
<1>3. Slip(s, cond, what) = IF cond /\ s.slip = "" THEN t ELSE s
  BY DEF Slip
<1> HIDE DEF t
<1> QED
  BY <1>1, <1>2, <1>3 DEF Ok

\* Nothing is called.
LEMMA NothingQueued ==
  ASSUME NEW s, NEW t, t.out = s.out, Ok(t) => Ok(s)
  PROVE Queued(s, t, "none", "user")
<1>1. Ahead(t) = Ahead(s)
  BY DEF Ahead
<1> QED
  BY <1>1 DEF Queued

\* StartVPN calls the helper when the service does not believe Tun to run.
LEMMA StartDoes ==
  ASSUME wq \in Queue, NEW s \in Working, NEW by \in {"user", "modes", "wake"}
  PROVE LET t == StartVPN(s, by)
        IN /\ t \in Working /\ t.pid /\ t.tun = s.tun
           /\ SameRun(s, t) /\ SameProxy(s, t) /\ SameWaits(s, t) /\ SameHold(s, t) /\ SameMemory(s, t)
           /\ IF s.pid THEN Queued(s, t, "none", "user") ELSE Queued(s, t, "tunStart", by)
<1> DEFINE u == [s EXCEPT !.pid = TRUE]
           v == Call(u, "tunStart", by, FALSE, {})
<1>1. /\ u \in Working /\ u.pid /\ u.tun = s.tun /\ SameQueue(s, u)
      /\ SameRun(s, u) /\ SameProxy(s, u) /\ SameWaits(s, u) /\ SameHold(s, u) /\ SameMemory(s, u)
  BY DEF Working, SameQueue, SameRun, SameProxy, SameWaits, SameHold, SameMemory
<1>2. StartVPN(s, by) = IF s.pid THEN s ELSE v
  BY DEF StartVPN
<1> HIDE DEF u
<1>3. v \in Working /\ SameState(u, v) /\ Queued(u, v, "tunStart", by)
  BY <1>1, CallDoes DEF Ops
<1>4. Queued(s, u, "none", "user")
  BY <1>1, NothingQueued DEF SameQueue, Ok
<1>5. Queued(s, v, "tunStart", by)
  <2> HIDE DEF v
  <2> QED
    BY <1>1, <1>3, <1>4 DEF Queued, SameRun
<1>6. /\ v.pid /\ v.tun = s.tun
      /\ SameRun(s, v) /\ SameProxy(s, v) /\ SameWaits(s, v) /\ SameHold(s, v) /\ SameMemory(s, v)
  <2> HIDE DEF v
  <2> QED
    BY <1>1, <1>3 DEF SameState, SameTun, SameRun, SameProxy, SameWaits, SameHold, SameMemory
<1>7. CASE s.pid
  BY <1>2, <1>7, NothingQueued DEF SameRun, SameProxy, SameWaits, SameHold, SameMemory
<1>8. CASE ~s.pid
  BY <1>2, <1>3, <1>5, <1>6, <1>8
<1> QED
  BY <1>7, <1>8

\* StopVPN calls the helper unless neither the service nor the connection has a Tun.
LEMMA StopDoes ==
  ASSUME wq \in Queue, NEW s \in Working, link \in BOOLEAN
  PROVE LET t == StopVPN(s)
        IN /\ t \in Working /\ ~t.pid /\ t.tun = s.tun
           /\ SameRun(s, t) /\ SameProxy(s, t) /\ SameWaits(s, t) /\ SameHold(s, t) /\ SameMemory(s, t)
           /\ IF s.pid \/ link THEN Queued(s, t, "tunStop", "user") ELSE Queued(s, t, "none", "user")
<1> DEFINE u == [s EXCEPT !.pid = FALSE, !.tunTimer = FALSE]
           v == Call(u, "tunStop", "user", FALSE, {})
<1>1. /\ u \in Working /\ ~u.pid /\ u.tun = s.tun /\ SameQueue(s, u)
      /\ SameRun(s, u) /\ SameProxy(s, u) /\ SameWaits(s, u) /\ SameHold(s, u) /\ SameMemory(s, u)
  BY DEF Working, SameQueue, SameRun, SameProxy, SameWaits, SameHold, SameMemory
<1>2. StopVPN(s) = IF s.pid \/ link THEN v ELSE u
  BY DEF StopVPN
<1> HIDE DEF u
<1>3. v \in Working /\ SameState(u, v) /\ Queued(u, v, "tunStop", "user")
  BY <1>1, CallDoes DEF Ops
<1>4. Queued(s, u, "none", "user")
  BY <1>1, NothingQueued DEF SameQueue, Ok
<1>5. Queued(s, v, "tunStop", "user")
  <2> HIDE DEF v
  <2> QED
    BY <1>1, <1>3, <1>4 DEF Queued, SameRun
<1>6. /\ ~v.pid /\ v.tun = s.tun
      /\ SameRun(s, v) /\ SameProxy(s, v) /\ SameWaits(s, v) /\ SameHold(s, v) /\ SameMemory(s, v)
  <2> HIDE DEF v
  <2> QED
    BY <1>1, <1>3 DEF SameState, SameTun, SameRun, SameProxy, SameWaits, SameHold, SameMemory
<1>7. CASE s.pid \/ link
  BY <1>2, <1>3, <1>5, <1>6, <1>7
<1>8. CASE ~(s.pid \/ link)
  BY <1>1, <1>2, <1>4, <1>8
<1> QED
  BY <1>7, <1>8

\* Restore calls the helper when it is connected.
LEMMA RestoreDoes ==
  ASSUME wq \in Queue, NEW s \in Working, link \in BOOLEAN, NEW by \in {"user", "modes"}
  PROVE LET t == Restore(s, by)
        IN /\ t \in Working /\ SameState(s, t)
           /\ Queued(s, t, "restore", "user") \/ (~link /\ Queued(s, t, "none", "user"))
<1> DEFINE v == Call(s, "restore", by, FALSE, {})
<1>1. v \in Working /\ SameState(s, v) /\ Queued(s, v, "restore", by)
  BY CallDoes DEF Ops
<1>2. Restore(s, by) = IF link \/ ready THEN v ELSE s
  BY DEF Restore
<1> HIDE DEF v
<1>3. Queued(s, v, "restore", "user")
  BY <1>1 DEF Queued
<1>4. Queued(s, s, "none", "user") /\ SameState(s, s)
  BY NothingQueued DEF SameState, SameRun, SameProxy, SameTun, SameWaits, SameHold, SameMemory
<1> QED
  BY <1>1, <1>2, <1>3, <1>4

\* A start that begins, or is refused.
Begun(s, t) ==
  /\ t.run = s.run /\ t.stopping = s.stopping /\ t.inFlight = s.inFlight
  /\ SameProxy(s, t) /\ SameTun(s, t) /\ SameMemory(s, t) /\ SameQueue(s, t)
  /\ t.pending = s.pending /\ t.auth = s.auth /\ t.failed = s.failed /\ t.work = s.work
  /\ \/ t.starting = s.starting /\ t.waiting = s.waiting /\ t.timer = s.timer
     \/ t.starting /\ ~s.failed /\ (s.pending => s.auth) /\ ~s.stopping

\* proxor_start begins a start only when the hold allows one.
LEMMA BeginDoes ==
  ASSUME NEW s \in Working
  PROVE LET t == Begin(s) IN t \in Working /\ Begun(s, t) /\ t.deferred = s.deferred
<1> DEFINE u == [s EXCEPT !.starting = TRUE, !.cancel = FALSE, !.timer = FALSE, !.waiting = FALSE]
<1>1. /\ u \in Working /\ u.starting /\ u.run = s.run /\ u.stopping = s.stopping /\ u.inFlight = s.inFlight
      /\ SameProxy(s, u) /\ SameTun(s, u) /\ SameMemory(s, u) /\ SameQueue(s, u) /\ SameHold(s, u)
  BY DEF Working, SameProxy, SameTun, SameMemory, SameQueue, SameHold
<1>2. Begin(s) = IF (s.pending /\ ~s.auth) \/ s.failed \/ s.starting \/ s.stopping THEN s ELSE u
  BY DEF Begin
<1> HIDE DEF u
<1>3. CASE (s.pending /\ ~s.auth) \/ s.failed \/ s.starting \/ s.stopping
  BY <1>2, <1>3 DEF Begun, SameProxy, SameTun, SameMemory, SameQueue
<1>4. CASE ~((s.pending /\ ~s.auth) \/ s.failed \/ s.starting \/ s.stopping)
  BY <1>1, <1>2, <1>4 DEF Begun, SameHold
<1> QED
  BY <1>3, <1>4

\* A deferred start is deferred no more.
LEMMA ResumeDoes ==
  ASSUME NEW s \in Working
  PROVE LET t == ResumeDeferred(s) IN t \in Working /\ Begun(s, t) /\ ~t.deferred
<1> DEFINE u == [s EXCEPT !.deferred = FALSE]
<1>1. /\ u \in Working /\ ~u.deferred /\ u.waiting = s.waiting /\ u.timer = s.timer
      /\ SameRun(s, u) /\ u.inFlight = s.inFlight
      /\ SameProxy(s, u) /\ SameTun(s, u) /\ SameMemory(s, u) /\ SameQueue(s, u)
      /\ u.pending = s.pending /\ u.auth = s.auth /\ u.failed = s.failed /\ u.work = s.work
  BY DEF Working, SameRun, SameProxy, SameTun, SameMemory, SameQueue
<1> HIDE DEF u
<1>2. Begin(u) \in Working /\ Begun(u, Begin(u)) /\ ~Begin(u).deferred
  BY <1>1, BeginDoes
<1>3. Begun(s, Begin(u))
  BY <1>1, <1>2 DEF Begun, SameRun, SameProxy, SameTun, SameMemory, SameQueue
<1>4. Begun(s, s) /\ s.deferred \in BOOLEAN
  BY DEF Begun, SameProxy, SameTun, SameMemory, SameQueue, Working
<1>5. ResumeDeferred(s) = IF s.deferred THEN Begin(u) ELSE s
  BY DEF ResumeDeferred, u
<1> QED
  BY <1>2, <1>3, <1>4, <1>5

-----------------------------------------------------------------------------
(* The parts of the handlers keep what holds between two of them.  In these lemmas
   m is any queue of the UI thread. *)

\* What only calls for a probe or a status, or notes a slip, disturbs nothing.
LEMMA SameKept ==
  ASSUME NEW m, NEW s, NEW t, SameState(s, t), Queued(s, t, "none", "user"),
         TunSound(s, m), HoldKept(s, m), MemoryKept(s, m)
  PROVE /\ TunSound(t, m) /\ HoldKept(t, m) /\ MemoryKept(t, m) /\ (BackKept(s, m) => BackKept(t, m))
        /\ ProxyKept(s, m) /\ ParkingKept(s, m) => ProxyKept(t, m) /\ ParkingKept(t, m)
<1> USE DEF SameState, SameRun, SameProxy, SameTun, SameWaits, SameHold, SameMemory, Queued
<1>1. ASSUME ProxyKept(s, m) PROVE ProxyKept(t, m)
  BY <1>1 DEF ProxyKept
<1>2. ASSUME ParkingKept(s, m) PROVE ParkingKept(t, m)
  BY <1>2 DEF ParkingKept, Ending
<1>3. TunSound(t, m) /\ (BackKept(s, m) => BackKept(t, m))
  BY DEF TunSound, BackKept, Ending
<1>4. HoldKept(t, m)
  BY DEF HoldKept
<1>5. MemoryKept(t, m)
  BY DEF MemoryKept
<1> QED
  BY <1>1, <1>2, <1>3, <1>4, <1>5

\* A start begins only where no failure and no unresolved hold stands against it.
LEMMA BegunKept ==
  ASSUME NEW m, NEW s \in Working, NEW t \in Working, Begun(s, t), Kept(s, m),
         t.work \/ t.deferred => t.pending \/ t.failed
  PROVE Kept(t, m)
<1>1. Queued(s, t, "none", "user")
  BY NothingQueued DEF Begun, SameQueue, Ok
<1> USE <1>1 DEF Begun, SameProxy, SameTun, SameMemory, Queued
<1>2. ProxyKept(t, m)
  BY DEF Kept, ProxyKept
<1>3. ParkingKept(t, m)
  BY DEF Kept, ParkingKept, Ending
<1>4. TunKept(t, m)
  BY DEF Kept, TunKept, TunSound, BackKept, Ending
<1>5. HoldKept(t, m)
  BY DEF Kept, HoldKept
<1>6. MemoryKept(t, m)
  BY DEF Kept, MemoryKept
<1> QED
  BY <1>2, <1>3, <1>4, <1>5, <1>6 DEF Kept

\* The modes paused: the proxy parked, Tun taken down.
Paused(s, t) ==
  /\ t.sp = s.sp /\ t.parked = (s.parked \/ s.sp) /\ t.tun = s.tun /\ ~t.pid
  /\ Ok(t) => Ok(s)
  /\ In(Ahead(t), Applies) <=> In(Ahead(s), Applies)
  /\ In(Ahead(t), Starts) <=> In(Ahead(s), Starts)
  /\ In(Ahead(t), TunCalls) <=> In(Ahead(s), TunCalls) \/ s.pid
  /\ ProxyToBe(Ahead(t)) => ProxyToBe(Ahead(s))
  /\ link /\ s.sp /\ ~s.parked => ~ProxyToBe(Ahead(t))
  /\ ~(s.sp /\ ~s.parked) => (ProxyToBe(Ahead(t)) <=> ProxyToBe(Ahead(s)))
  /\ TunToBe(Ahead(t)) <=> TunToBe(Ahead(s)) /\ ~s.pid
  /\ Last(Ahead(t), NotByUser, Starts) <=> Last(Ahead(s), NotByUser, Starts)

\* PauseNow parks a proxy that is on and takes down the Tun that is believed to run.
LEMMA PauseDoes ==
  ASSUME wq \in Queue, link \in BOOLEAN, NEW s \in Working, s.pid => s.tun
  PROVE LET t == PauseNow(s)
        IN /\ t \in Working /\ SameRun(s, t) /\ SameWaits(s, t) /\ SameHold(s, t) /\ SameMemory(s, t)
           /\ Paused(s, t)
<1> DEFINE p == s.sp /\ ~s.parked
           q == s.tun /\ s.pid
           u == [s EXCEPT !.paused = TRUE, !.pid = FALSE, !.tunTimer = FALSE]
           a == IF q THEN Call(u, "tunStop", "modes", FALSE, {}) ELSE s
           v == [a EXCEPT !.parked = TRUE]
           t == IF p THEN Restore(v, "modes") ELSE a
<1>0. PauseNow(s) = t
  BY DEF PauseNow, Pause
<1>1. /\ u \in Working /\ ~u.pid /\ u.tun = s.tun /\ SameQueue(s, u) /\ SameProxy(s, u)
      /\ SameRun(s, u) /\ SameWaits(s, u) /\ SameHold(s, u) /\ SameMemory(s, u)
  BY DEF Working, SameQueue, SameRun, SameProxy, SameWaits, SameHold, SameMemory
<1>2. q \in BOOLEAN /\ p \in BOOLEAN /\ (~q => ~s.pid) /\ (q => s.pid)
  BY DEF Working
<1> HIDE DEF u
<1>3. LET c == Call(u, "tunStop", "modes", FALSE, {})
      IN c \in Working /\ SameState(u, c) /\ Queued(u, c, "tunStop", "modes")
  BY <1>1, CallDoes DEF Ops
<1>4. Queued(s, u, "none", "user") /\ Queued(s, s, "none", "user")
  BY <1>1, NothingQueued DEF SameQueue, Ok
<1>5. /\ a \in Working /\ SameRun(s, a) /\ SameWaits(s, a) /\ SameHold(s, a) /\ SameMemory(s, a)
      /\ SameProxy(s, a) /\ a.tun = s.tun /\ ~a.pid
      /\ IF s.pid THEN Queued(s, a, "tunStop", "user") ELSE Queued(s, a, "none", "user")
  <2>1. CASE q
    <3> DEFINE c == Call(u, "tunStop", "modes", FALSE, {})
    <3>1. a = c /\ s.pid
      BY <1>2, <2>1
    <3>2. c \in Working /\ SameState(u, c) /\ Queued(u, c, "tunStop", "modes")
      BY <1>3
    <3> HIDE DEF c, a
    <3>3. Queued(s, c, "tunStop", "user")
      BY <1>1, <1>4, <3>2 DEF Queued, SameRun
    <3> QED
      BY <1>1, <3>1, <3>2, <3>3 DEF SameState, SameTun, SameRun, SameProxy, SameWaits, SameHold, SameMemory
  <2>2. CASE ~q
    BY <1>2, <1>4, <2>2 DEF SameRun, SameWaits, SameHold, SameMemory, SameProxy
  <2> QED
    BY <2>1, <2>2
<1> HIDE DEF a, q
<1>6. /\ v \in Working /\ SameRun(a, v) /\ SameWaits(a, v) /\ SameHold(a, v) /\ SameMemory(a, v)
      /\ SameTun(a, v) /\ v.sp = a.sp /\ v.parked /\ SameQueue(a, v)
  BY <1>5 DEF Working, SameQueue, SameRun, SameTun, SameWaits, SameHold, SameMemory
<1> HIDE DEF v
<1>7. Queued(a, v, "none", "user")
  BY <1>6, NothingQueued DEF SameQueue, Ok
<1>8. LET w == Restore(v, "modes")
      IN w \in Working /\ SameState(v, w)
         /\ (Queued(v, w, "restore", "user") \/ (~link /\ Queued(v, w, "none", "user")))
  BY <1>6, RestoreDoes
<1> USE DEF SameState, SameTun, SameRun, SameProxy, SameWaits, SameHold, SameMemory
<1>9. CASE p
  <2> DEFINE w == Restore(v, "modes")
  <2>1. t = w
    BY <1>9
  <2>2. w \in Working /\ SameState(v, w)
         /\ (Queued(v, w, "restore", "user") \/ (~link /\ Queued(v, w, "none", "user")))
    BY <1>8
  <2> HIDE DEF w, t
  <2>3. /\ t \in Working /\ SameRun(s, t) /\ SameWaits(s, t) /\ SameHold(s, t) /\ SameMemory(s, t)
        /\ t.sp = s.sp /\ t.parked /\ t.tun = s.tun /\ ~t.pid
    BY <1>5, <1>6, <2>1, <2>2
  <2>4. /\ Ok(t) => Ok(s)
        /\ In(Ahead(t), Applies) <=> In(Ahead(s), Applies)
        /\ In(Ahead(t), Starts) <=> In(Ahead(s), Starts)
        /\ In(Ahead(t), TunCalls) <=> In(Ahead(s), TunCalls) \/ s.pid
        /\ ProxyToBe(Ahead(t)) => ProxyToBe(Ahead(s))
        /\ link => ~ProxyToBe(Ahead(t))
        /\ TunToBe(Ahead(t)) <=> TunToBe(Ahead(s)) /\ ~s.pid
        /\ Last(Ahead(t), NotByUser, Starts) <=> Last(Ahead(s), NotByUser, Starts)
    BY <1>5, <1>7, <2>1, <2>2 DEF Queued
  <2> QED
    BY <1>0, <1>9, <2>3, <2>4 DEF p, Paused
<1>10. CASE ~p
  <2>1. t = a
    BY <1>10
  <2>2. s.parked = (s.parked \/ s.sp)
    BY <1>10 DEF Working
  <2> HIDE DEF t
  <2>3. /\ Ok(t) => Ok(s)
        /\ In(Ahead(t), Applies) <=> In(Ahead(s), Applies)
        /\ In(Ahead(t), Starts) <=> In(Ahead(s), Starts)
        /\ In(Ahead(t), TunCalls) <=> In(Ahead(s), TunCalls) \/ s.pid
        /\ ProxyToBe(Ahead(t)) <=> ProxyToBe(Ahead(s))
        /\ TunToBe(Ahead(t)) <=> TunToBe(Ahead(s)) /\ ~s.pid
        /\ Last(Ahead(t), NotByUser, Starts) <=> Last(Ahead(s), NotByUser, Starts)
    BY <1>5, <2>1 DEF Queued
  <2> QED
    BY <1>0, <1>5, <1>10, <2>1, <2>2, <2>3 DEF p, Paused
<1> QED
  BY <1>9, <1>10

\* proxor_stop pauses the modes of the profile it stops.
LEMMA StopEffect ==
  ASSUME wq \in Queue, link \in BOOLEAN, NEW s \in Working, s.pid => s.tun
  PROVE LET t == Stop(s)
        IN /\ t \in Working /\ t.run = s.run /\ t.starting = s.starting
           /\ t.waiting = s.waiting /\ t.timer = s.timer /\ SameHold(s, t) /\ SameMemory(s, t)
           /\ IF s.run THEN t.stopping /\ t.inFlight /\ Paused(s, t)
              ELSE /\ t.stopping = s.stopping /\ t.inFlight = s.inFlight
                   /\ SameProxy(s, t) /\ SameTun(s, t) /\ SameQueue(s, t)
<1> DEFINE u == [s EXCEPT !.inFlight = TRUE]
           p == PauseNow(u)
           a == [p EXCEPT !.stopping = TRUE]
           b == [s EXCEPT !.cancel = TRUE]
<1>1. /\ u \in Working /\ u.inFlight /\ u.waiting = s.waiting /\ u.timer = s.timer /\ SameRun(s, u)
      /\ SameProxy(s, u) /\ SameTun(s, u) /\ SameHold(s, u) /\ SameMemory(s, u) /\ SameQueue(s, u)
  BY DEF Working, SameRun, SameProxy, SameTun, SameHold, SameMemory, SameQueue
<1>2. /\ b \in Working /\ SameRun(s, b) /\ SameWaits(s, b)
      /\ SameProxy(s, b) /\ SameTun(s, b) /\ SameHold(s, b) /\ SameMemory(s, b) /\ SameQueue(s, b)
  BY DEF Working, SameRun, SameWaits, SameProxy, SameTun, SameHold, SameMemory, SameQueue
<1>3. Stop(s) = IF s.run THEN a ELSE IF s.starting THEN b ELSE s
  BY DEF Stop, ProfileStopping
<1> HIDE DEF u, b
<1>4. /\ p \in Working /\ SameRun(u, p) /\ SameWaits(u, p) /\ SameHold(u, p) /\ SameMemory(u, p)
      /\ Paused(u, p)
  BY <1>1, PauseDoes DEF SameTun
<1> HIDE DEF p
<1>5. /\ a \in Working /\ a.stopping /\ a.run = p.run /\ a.starting = p.starting
      /\ SameWaits(p, a) /\ SameProxy(p, a) /\ SameTun(p, a) /\ SameHold(p, a) /\ SameMemory(p, a)
      /\ SameQueue(p, a)
  BY <1>4 DEF Working, SameWaits, SameProxy, SameTun, SameHold, SameMemory, SameQueue
<1> HIDE DEF a
<1>6. Ahead(u) = Ahead(s) /\ Ahead(a) = Ahead(p) /\ (Ok(u) <=> Ok(s)) /\ (Ok(a) <=> Ok(p))
  BY <1>1, <1>5 DEF Ahead, SameQueue, Ok
<1>7. Paused(s, a)
  BY <1>1, <1>4, <1>5, <1>6 DEF Paused, SameProxy, SameTun
<1>8. /\ a.run = s.run /\ a.starting = s.starting /\ a.inFlight
      /\ a.waiting = s.waiting /\ a.timer = s.timer /\ SameHold(s, a) /\ SameMemory(s, a)
  BY <1>1, <1>4, <1>5 DEF SameRun, SameWaits, SameHold, SameMemory
<1>9. CASE s.run
  BY <1>3, <1>5, <1>7, <1>8, <1>9
<1>10. CASE ~s.run /\ s.starting
  BY <1>2, <1>3, <1>10 DEF SameRun, SameWaits
<1>11. CASE ~s.run /\ ~s.starting
  BY <1>3, <1>11 DEF SameHold, SameMemory, SameProxy, SameTun, SameQueue
<1> QED
  BY <1>9, <1>10, <1>11

\* The stop of a profile parks the proxy and takes Tun down before it stops anything.
LEMMA StopKept ==
  ASSUME wq \in Queue, link \in BOOLEAN, h.conn => sess, NEW m, NEW s \in Working, Kept(s, m)
  PROVE Kept(Stop(s), m)
<1> DEFINE t == Stop(s)
<1>1. s.pid => s.tun
  BY DEF Kept, TunKept, TunSound, BackKept
<1>2. /\ t \in Working /\ t.run = s.run /\ t.starting = s.starting
      /\ t.waiting = s.waiting /\ t.timer = s.timer /\ SameHold(s, t) /\ SameMemory(s, t)
      /\ IF s.run THEN t.stopping /\ t.inFlight /\ Paused(s, t)
         ELSE /\ t.stopping = s.stopping /\ t.inFlight = s.inFlight
              /\ SameProxy(s, t) /\ SameTun(s, t) /\ SameQueue(s, t)
  BY <1>1, StopEffect
<1> HIDE DEF t
<1>3. CASE s.run
  <2>1. Paused(s, t) /\ t.stopping /\ t.inFlight
    BY <1>2, <1>3
  <2> USE DEF Paused, SameHold, SameMemory
  <2>2. ProxyKept(t, m)
    BY <1>2, <2>1 DEF Kept, ProxyKept
  <2>3. ParkingKept(t, m)
    BY <1>2, <1>3, <2>1 DEF Kept, ParkingKept, Ending
  <2>4. TunKept(t, m)
    BY <1>1, <1>2, <1>3, <2>1 DEF Kept, TunKept, TunSound, BackKept, Ending
  <2>5. HoldKept(t, m)
    BY <1>2, <2>1 DEF Kept, HoldKept
  <2>6. MemoryKept(t, m)
    BY <1>2, <2>1 DEF Kept, MemoryKept
  <2> QED
    BY <2>2, <2>3, <2>4, <2>5, <2>6 DEF Kept, t
<1>4. CASE ~s.run
  <2>1. SameState(s, t) /\ Queued(s, t, "none", "user")
    BY <1>2, <1>4, NothingQueued DEF SameState, SameRun, SameWaits, SameQueue, Ok
  <2> QED
    BY <2>1, SameKept DEF Kept, TunKept, t
<1> QED
  BY <1>3, <1>4

\* At the end of the grace period the modes of a profile that runs no more are paused,
\* unless a stop that is under way has still to look.
LEMMA GraceKept ==
  ASSUME wq \in Queue, link \in BOOLEAN, h.conn => sess, NEW m, NEW s \in Working, Kept(s, m)
  PROVE GraceOver(s) \in Working /\ Kept(GraceOver(s), m) /\ GraceOver(s).rem = s.rem
<1> DEFINE u == [s EXCEPT !.timer = FALSE]
           a == [u EXCEPT !.waiting = TRUE]
           p == PauseNow(u)
<1>1. /\ u \in Working /\ ~u.timer /\ u.inFlight = s.inFlight /\ u.waiting = s.waiting /\ SameRun(s, u)
      /\ SameProxy(s, u) /\ SameTun(s, u) /\ SameHold(s, u) /\ SameMemory(s, u) /\ SameQueue(s, u)
  BY DEF Working, SameRun, SameProxy, SameTun, SameHold, SameMemory, SameQueue
<1>2. GraceOver(s) = IF s.inFlight THEN a ELSE IF s.run THEN u ELSE p
  BY DEF GraceOver
<1> HIDE DEF u
<1>3. /\ a \in Working /\ a.inFlight = u.inFlight /\ a.waiting /\ SameRun(u, a)
      /\ SameProxy(u, a) /\ SameTun(u, a) /\ SameHold(u, a) /\ SameMemory(u, a) /\ SameQueue(u, a)
  BY <1>1 DEF Working, SameRun, SameProxy, SameTun, SameHold, SameMemory, SameQueue
<1>4. s.pid => s.tun
  BY DEF Kept, TunKept, TunSound, BackKept
<1>5. /\ p \in Working /\ SameRun(u, p) /\ SameWaits(u, p) /\ SameHold(u, p) /\ SameMemory(u, p)
      /\ Paused(u, p)
  BY <1>1, <1>4, PauseDoes DEF SameTun
<1> HIDE DEF a, p
<1>6. Queued(s, u, "none", "user") /\ Queued(u, a, "none", "user")
  BY <1>1, <1>3, NothingQueued DEF SameQueue, Ok
<1>10. u.rem = s.rem /\ a.rem = s.rem /\ p.rem = s.rem
  BY <1>1, <1>3, <1>5 DEF SameMemory
<1>7. CASE s.inFlight
  <2> USE DEF SameRun, SameProxy, SameTun, SameHold, SameMemory
  <2>1. Queued(s, a, "none", "user")
    BY <1>6 DEF Queued
  <2>2. ProxyKept(a, m)
    BY <1>1, <1>3, <2>1 DEF Kept, ProxyKept, Queued
  <2>3. ParkingKept(a, m)
    BY <1>1, <1>3, <1>7, <2>1 DEF Kept, ParkingKept, TunKept, TunSound, BackKept, Ending, Queued
  <2>4. TunKept(a, m)
    BY <1>1, <1>3, <1>7, <2>1 DEF Kept, ParkingKept, TunKept, TunSound, BackKept, Ending, Queued
  <2>5. HoldKept(a, m)
    BY <1>1, <1>3, <2>1 DEF Kept, HoldKept, Queued
  <2>6. MemoryKept(a, m)
    BY <1>1, <1>3, <2>1 DEF Kept, MemoryKept, Queued
  <2> QED
    BY <1>2, <1>3, <1>7, <1>10, <2>2, <2>3, <2>4, <2>5, <2>6 DEF Kept
<1>8. CASE ~s.inFlight /\ s.run
  <2> USE DEF SameRun, SameProxy, SameTun, SameHold, SameMemory
  <2>2. ProxyKept(u, m)
    BY <1>1, <1>6 DEF Kept, ProxyKept, Queued
  <2>3. ParkingKept(u, m)
    BY <1>1, <1>6, <1>8 DEF Kept, ParkingKept, Ending, Queued
  <2>4. TunKept(u, m)
    BY <1>1, <1>6, <1>8 DEF Kept, TunKept, TunSound, BackKept, Ending, Queued
  <2>5. HoldKept(u, m)
    BY <1>1, <1>6 DEF Kept, HoldKept, Queued
  <2>6. MemoryKept(u, m)
    BY <1>1, <1>6 DEF Kept, MemoryKept, Queued
  <2> QED
    BY <1>1, <1>2, <1>8, <1>10, <2>2, <2>3, <2>4, <2>5, <2>6 DEF Kept
<1>9. CASE ~s.inFlight /\ ~s.run
  <2> USE DEF SameRun, SameProxy, SameTun, SameWaits, SameHold, SameMemory, Paused
  <2>2. ProxyKept(p, m)
    BY <1>1, <1>5, <1>6 DEF Kept, ProxyKept, Queued
  <2>3. ParkingKept(p, m)
    BY <1>1, <1>5, <1>6, <1>9 DEF Kept, ParkingKept, Ending, Queued
  <2>4. TunKept(p, m)
    BY <1>1, <1>4, <1>5, <1>6, <1>9 DEF Kept, TunKept, TunSound, BackKept, Ending, Queued
  <2>5. HoldKept(p, m)
    BY <1>1, <1>5, <1>6 DEF Kept, HoldKept, Queued
  <2>6. MemoryKept(p, m)
    BY <1>1, <1>5, <1>6 DEF Kept, MemoryKept, Queued
  <2> QED
    BY <1>2, <1>5, <1>9, <1>10, <2>2, <2>3, <2>4, <2>5, <2>6 DEF Kept
<1> QED
  BY <1>7, <1>8, <1>9

\* A profile that started gets its modes back: nothing is parked, and a Tun that is on
\* is asked for.
LEMMA StartedKept ==
  ASSUME wq \in Queue, link \in BOOLEAN, h.conn => sess, NEW m, NEW s \in Working, Kept(s, m)
  PROVE LET t == ProfileStarted(s)
        IN /\ t \in Working /\ Kept(t, m)
           /\ ~t.parked /\ (t.tun => t.pid) /\ SameRun(s, t) /\ SameWaits(s, t) /\ t.rem = s.rem
<1> DEFINE p == s.parked /\ s.sp
           q == s.tun /\ ~s.pid
           a == [s EXCEPT !.parked = FALSE, !.paused = FALSE, !.saves = IF q THEN FALSE ELSE s.saves]
           b == IF q THEN StartVPN(a, "modes") ELSE a
           c == Call(b, "apply", "modes", FALSE, {})
           t == IF p THEN c ELSE b
<1>0. ProfileStarted(s) = t
  BY DEF ProfileStarted
<1>1. /\ a \in Working /\ ~a.parked /\ a.sp = s.sp /\ a.rem = s.rem /\ a.saves = (~q /\ s.saves)
      /\ SameRun(s, a) /\ SameWaits(s, a) /\ SameTun(s, a) /\ SameHold(s, a) /\ SameQueue(s, a)
  BY DEF Working, SameRun, SameWaits, SameTun, SameHold, SameQueue
<1>2. p \in BOOLEAN /\ q \in BOOLEAN /\ (s.tun => s.pid \/ q) /\ (q => s.tun /\ ~s.pid)
  BY DEF Working
<1>3. Queued(s, a, "none", "user")
  BY <1>1, NothingQueued DEF SameQueue, Ok
<1> HIDE DEF a, q
<1>4. LET v == StartVPN(a, "modes")
      IN /\ v \in Working /\ v.pid /\ v.tun = a.tun
         /\ SameRun(a, v) /\ SameProxy(a, v) /\ SameWaits(a, v) /\ SameHold(a, v) /\ SameMemory(a, v)
         /\ IF a.pid THEN Queued(a, v, "none", "user") ELSE Queued(a, v, "tunStart", "modes")
  BY <1>1, StartDoes
<1>5. /\ b \in Working /\ b.tun = s.tun /\ b.pid = (s.pid \/ q) /\ b.rem = s.rem
      /\ b.saves = (~q /\ s.saves) /\ ~b.parked /\ b.sp = s.sp
      /\ SameRun(s, b) /\ SameWaits(s, b) /\ SameHold(s, b)
      /\ IF q THEN Queued(s, b, "tunStart", "modes") ELSE Queued(s, b, "none", "user")
  <2>1. CASE q
    <3> DEFINE v == StartVPN(a, "modes")
    <3>1. b = v
      BY <2>1
    <3>2. /\ v \in Working /\ v.pid /\ v.tun = a.tun
          /\ SameRun(a, v) /\ SameProxy(a, v) /\ SameWaits(a, v) /\ SameHold(a, v) /\ SameMemory(a, v)
          /\ Queued(a, v, "tunStart", "modes")
      BY <1>1, <1>2, <1>4, <2>1 DEF SameTun
    <3> HIDE DEF v, b
    <3>3. Queued(s, v, "tunStart", "modes")
      BY <1>1, <1>3, <3>2 DEF Queued, SameRun
    <3>4. v.pid = (s.pid \/ q)
      BY <1>2, <2>1, <3>2 DEF Working
    <3> QED
      BY <1>1, <2>1, <3>1, <3>2, <3>3, <3>4 DEF SameTun, SameRun, SameProxy, SameWaits, SameHold, SameMemory
  <2>2. CASE ~q
    <3>1. s.pid = (s.pid \/ q)
      BY <2>2 DEF Working
    <3> QED
      BY <1>1, <1>3, <2>2, <3>1 DEF SameTun
  <2> QED
    BY <2>1, <2>2
<1> HIDE DEF b
<1>6. c \in Working /\ SameState(b, c) /\ Queued(b, c, "apply", "modes")
  BY <1>5, CallDoes DEF Ops
<1> HIDE DEF c
<1> USE DEF SameState, SameTun, SameRun, SameProxy, SameWaits, SameHold, SameMemory
<1>7. /\ t \in Working /\ t.tun = s.tun /\ t.pid = (s.pid \/ q) /\ t.rem = s.rem
      /\ t.saves = (~q /\ s.saves) /\ ~t.parked /\ t.sp = s.sp
      /\ SameRun(s, t) /\ SameWaits(s, t) /\ SameHold(s, t)
  BY <1>5, <1>6
<1>8. /\ Ok(t) => Ok(s) /\ ~(s.stopping /\ (p \/ q)) /\ (p => s.run)
      /\ In(Ahead(t), Applies) <=> In(Ahead(s), Applies) \/ p
      /\ In(Ahead(t), Starts) <=> In(Ahead(s), Starts) \/ q
      /\ In(Ahead(t), TunCalls) <=> In(Ahead(s), TunCalls) \/ q
      /\ ProxyToBe(Ahead(t)) <=> ProxyToBe(Ahead(s)) \/ p
      /\ TunToBe(Ahead(t)) <=> TunToBe(Ahead(s)) \/ q
      /\ Last(Ahead(t), NotByUser, Starts) <=> Last(Ahead(s), NotByUser, Starts) \/ q
  <2>1. CASE p
    <3>1. t = c
      BY <2>1
    <3> HIDE DEF t
    <3> QED
      BY <1>5, <1>6, <2>1, <3>1 DEF Queued
  <2>2. CASE ~p
    <3>1. t = b
      BY <2>2
    <3> HIDE DEF t
    <3> QED
      BY <1>5, <2>2, <3>1 DEF Queued
  <2> QED
    BY <2>1, <2>2
<1> HIDE DEF t
<1>9. ProxyKept(t, m)
  BY <1>7, <1>8 DEF Kept, ProxyKept
<1>10. ParkingKept(t, m)
  BY <1>2, <1>7, <1>8 DEF Kept, ParkingKept, Ending
<1>11. TunKept(t, m)
  BY <1>2, <1>7, <1>8 DEF Kept, TunKept, TunSound, BackKept, Ending
<1>12. HoldKept(t, m)
  BY <1>2, <1>7, <1>8 DEF Kept, HoldKept
<1>13. MemoryKept(t, m)
  BY <1>7, <1>8 DEF Kept, MemoryKept
<1> QED
  BY <1>0, <1>2, <1>7, <1>9, <1>10, <1>11, <1>12, <1>13 DEF Kept

\* A pause that is scheduled stands for the end of the start.
LEMMA ScheduleKept ==
  ASSUME NEW m, NEW s \in Working, Kept(s, m)
  PROVE LET t == Schedule(s)
        IN /\ t \in Working /\ Kept(t, m) /\ t.timer /\ ~t.waiting /\ t.inFlight = s.inFlight /\ SameRun(s, t)
           /\ t.rem = s.rem
<1> DEFINE t == Schedule(s)
<1>1. /\ t \in Working /\ t.timer /\ ~t.waiting /\ t.inFlight = s.inFlight /\ SameRun(s, t)
      /\ SameProxy(s, t) /\ SameTun(s, t) /\ SameHold(s, t) /\ SameMemory(s, t) /\ SameQueue(s, t)
  BY DEF Schedule, Working, SameRun, SameProxy, SameTun, SameHold, SameMemory, SameQueue
<1> HIDE DEF t
<1>2. Queued(s, t, "none", "user")
  BY <1>1, NothingQueued DEF SameQueue, Ok
<1> USE DEF SameTun, SameRun, SameProxy, SameHold, SameMemory
<1>3. ProxyKept(t, m)
  BY <1>1, <1>2 DEF Kept, ProxyKept, Queued
<1>4. ParkingKept(t, m)
  BY <1>1, <1>2 DEF Kept, ParkingKept, Ending, Queued
<1>5. TunKept(t, m)
  BY <1>1, <1>2 DEF Kept, TunKept, TunSound, BackKept, Ending, Queued
<1>6. HoldKept(t, m)
  BY <1>1, <1>2 DEF Kept, HoldKept, Queued
<1>7. MemoryKept(t, m)
  BY <1>1, <1>2 DEF Kept, MemoryKept, Queued
<1> QED
  BY <1>1, <1>3, <1>4, <1>5, <1>6, <1>7 DEF Kept, t

\* A start that failed schedules the pause of what it left.
LEMMA StartFailedKept ==
  ASSUME NEW m, NEW s \in Working, Kept(s, m)
  PROVE LET t == ProfileStartFailed(s) IN t \in Working /\ Kept(t, m) /\ (t.run \/ t.timer) /\ t.rem = s.rem
  BY ScheduleKept DEF ProfileStartFailed, SameRun

\* A stop that is over: its modes come back when another profile runs already, and a
\* pause that waited for it is scheduled.
LEMMA StoppedKept ==
  ASSUME wq \in Queue, link \in BOOLEAN, h.conn => sess, NEW m, NEW s \in Working, Kept(s, m)
  PROVE LET t == ProfileStopped(s)
        IN /\ t \in Working /\ Kept(t, m) /\ ~t.inFlight
           /\ IF t.run THEN ~t.parked /\ (t.tun => t.pid) ELSE ~t.waiting
           /\ t.rem = s.rem
<1> DEFINE r == Slip(s, s.stopping, "late stop")
           u == [r EXCEPT !.inFlight = FALSE]
<1>0. s.stopping \in BOOLEAN
  BY DEF Working
<1>2. r \in Working /\ SameState(s, r) /\ r.out = s.out /\ (Ok(r) => Ok(s))
  BY <1>0, SlipDoes
<1>1. ProfileStopped(s) = IF u.run THEN ProfileStarted(u) ELSE IF u.waiting THEN Schedule(u) ELSE u
  <2>1. r.run = s.run /\ r.waiting = s.waiting
    BY <1>2 DEF SameState, SameRun, SameWaits
  <2> HIDE DEF r
  <2>2. u.run = r.run /\ u.waiting = r.waiting
    BY <1>2 DEF Working
  <2> QED
    BY <2>1, <2>2 DEF ProfileStopped, r
<1> HIDE DEF r
<1>3. Queued(s, r, "none", "user")
  BY <1>2, NothingQueued
<1>4. Kept(r, m)
  BY <1>2, <1>3, SameKept DEF Kept, TunKept
<1>5. /\ u \in Working /\ ~u.inFlight /\ u.waiting = r.waiting /\ u.timer = r.timer /\ SameRun(r, u)
      /\ SameProxy(r, u) /\ SameTun(r, u) /\ SameHold(r, u) /\ SameMemory(r, u) /\ SameQueue(r, u)
  BY <1>2 DEF Working, SameRun, SameProxy, SameTun, SameHold, SameMemory, SameQueue
<1> HIDE DEF u
<1>6. Kept(u, m)
  <2>1. Queued(r, u, "none", "user")
    BY <1>5, NothingQueued DEF SameQueue, Ok
  <2> USE DEF SameTun, SameRun, SameProxy, SameHold, SameMemory
  <2>2. ProxyKept(u, m)
    BY <1>4, <1>5, <2>1 DEF Kept, ProxyKept, Queued
  <2>3. ParkingKept(u, m)
    BY <1>4, <1>5, <2>1 DEF Kept, ParkingKept, Ending, Queued
  <2>4. TunKept(u, m)
    BY <1>4, <1>5, <2>1 DEF Kept, TunKept, TunSound, BackKept, Ending, Queued
  <2>5. HoldKept(u, m)
    BY <1>4, <1>5, <2>1 DEF Kept, HoldKept, Queued
  <2>6. MemoryKept(u, m)
    BY <1>4, <1>5, <2>1 DEF Kept, MemoryKept, Queued
  <2> QED
    BY <2>2, <2>3, <2>4, <2>5, <2>6 DEF Kept
<1>11. u.rem = s.rem
  BY <1>2, <1>5 DEF SameState, SameMemory
<1>7. CASE u.run
  <2>1. LET t == ProfileStarted(u)
        IN /\ t \in Working /\ Kept(t, m)
           /\ ~t.parked /\ (t.tun => t.pid) /\ SameRun(u, t) /\ SameWaits(u, t) /\ t.rem = u.rem
    BY <1>5, <1>6, StartedKept
  <2> QED
    BY <1>1, <1>5, <1>7, <1>11, <2>1 DEF SameRun, SameWaits
<1>8. CASE ~u.run /\ u.waiting
  <2>1. LET t == Schedule(u)
        IN /\ t \in Working /\ Kept(t, m) /\ t.timer /\ ~t.waiting /\ t.inFlight = u.inFlight /\ SameRun(u, t)
           /\ t.rem = u.rem
    BY <1>5, <1>6, ScheduleKept
  <2> QED
    BY <1>1, <1>5, <1>8, <1>11, <2>1 DEF SameRun
<1>9. CASE ~u.run /\ ~u.waiting
  BY <1>1, <1>5, <1>6, <1>9, <1>11
<1> QED
  BY <1>7, <1>8, <1>9

-----------------------------------------------------------------------------
(* The switches. *)

\* The switch itself and what is remembered of it.
SwitchProxy(s, on, save) ==
  LET u == [s EXCEPT !.sp = on] IN IF save THEN Remember(u, "proxy", on) ELSE u
SwitchTun(s, on, save) ==
  LET u == [s EXCEPT !.tun = on] IN IF save THEN Remember(u, "vpn", on) ELSE u

\* What they change.
ProxySwitched(s, t, on) ==
  /\ t \in Working /\ t.sp = on /\ t.parked = s.parked
  /\ SameRun(s, t) /\ SameTun(s, t) /\ SameWaits(s, t) /\ SameHold(s, t) /\ SameQueue(s, t)
  /\ t.saves = s.saves /\ ("vpn" \in s.rem => "vpn" \in t.rem)
TunSwitched(s, t, on, save) ==
  /\ t \in Working /\ t.tun = on /\ t.pid = s.pid
  /\ SameRun(s, t) /\ SameProxy(s, t) /\ SameWaits(s, t) /\ SameHold(s, t) /\ SameQueue(s, t)
  /\ t.saves = s.saves /\ ("vpn" \in s.rem /\ (on \/ ~save) => "vpn" \in t.rem)

\* System Proxy is switched; what is remembered of Tun is left alone.
LEMMA SwitchProxyDoes ==
  ASSUME NEW s \in Working, NEW on \in BOOLEAN, NEW save \in BOOLEAN
  PROVE ProxySwitched(s, SwitchProxy(s, on, save), on)
<1> DEFINE u == [s EXCEPT !.sp = on]
           r == IF on THEN u.rem \cup {"proxy"} ELSE u.rem \ {"proxy"}
           v == [u EXCEPT !.rem = r]
<1>1. /\ u \in Working /\ u.sp = on /\ u.parked = s.parked /\ SameRun(s, u) /\ SameTun(s, u)
      /\ SameWaits(s, u) /\ SameHold(s, u) /\ SameQueue(s, u) /\ SameMemory(s, u)
  BY DEF Working, SameRun, SameTun, SameWaits, SameHold, SameQueue, SameMemory
<1>2. SwitchProxy(s, on, save) = IF save THEN v ELSE u
  BY DEF SwitchProxy, Remember
<1> HIDE DEF u
<1>3. r \in SUBSET Modes /\ ("vpn" \in u.rem => "vpn" \in r)
  BY <1>1 DEF Working, Modes
<1> HIDE DEF r
<1>4. /\ v \in Working /\ v.rem = r /\ v.saves = u.saves /\ SameProxy(u, v) /\ SameRun(u, v) /\ SameTun(u, v)
      /\ SameWaits(u, v) /\ SameHold(u, v) /\ SameQueue(u, v)
  BY <1>1, <1>3 DEF Working, SameRun, SameTun, SameWaits, SameHold, SameQueue, SameProxy
<1> HIDE DEF v
<1> USE DEF ProxySwitched, SameRun, SameTun, SameWaits, SameHold, SameQueue, SameProxy, SameMemory
<1>5. CASE save
  BY <1>1, <1>2, <1>3, <1>4, <1>5
<1>6. CASE ~save
  BY <1>1, <1>2, <1>6
<1> QED
  BY <1>5, <1>6

\* Tun is switched; it is forgotten only when it is switched off and that is saved.
LEMMA SwitchTunDoes ==
  ASSUME NEW s \in Working, NEW on \in BOOLEAN, NEW save \in BOOLEAN
  PROVE TunSwitched(s, SwitchTun(s, on, save), on, save)
<1> DEFINE u == [s EXCEPT !.tun = on]
           r == IF on THEN u.rem \cup {"vpn"} ELSE u.rem \ {"vpn"}
           v == [u EXCEPT !.rem = r]
<1>1. /\ u \in Working /\ u.tun = on /\ u.pid = s.pid /\ SameRun(s, u) /\ SameProxy(s, u)
      /\ SameWaits(s, u) /\ SameHold(s, u) /\ SameQueue(s, u) /\ SameMemory(s, u)
  BY DEF Working, SameRun, SameProxy, SameWaits, SameHold, SameQueue, SameMemory
<1>2. SwitchTun(s, on, save) = IF save THEN v ELSE u
  BY DEF SwitchTun, Remember
<1> HIDE DEF u
<1>3. r \in SUBSET Modes /\ (on => "vpn" \in r)
  BY <1>1 DEF Working, Modes
<1> HIDE DEF r
<1>4. /\ v \in Working /\ v.rem = r /\ v.saves = u.saves /\ SameProxy(u, v) /\ SameRun(u, v) /\ SameTun(u, v)
      /\ SameWaits(u, v) /\ SameHold(u, v) /\ SameQueue(u, v)
  BY <1>1, <1>3 DEF Working, SameRun, SameTun, SameWaits, SameHold, SameQueue, SameProxy
<1> HIDE DEF v
<1> USE DEF TunSwitched, SameRun, SameTun, SameWaits, SameHold, SameQueue, SameProxy, SameMemory
<1>5. CASE save
  BY <1>1, <1>2, <1>3, <1>4, <1>5
<1>6. CASE ~save
  BY <1>1, <1>2, <1>6
<1> QED
  BY <1>5, <1>6

\* What SetProxy leaves alone.
ProxyOnly(s, t) ==
  /\ t \in Working /\ (Ok(t) => Ok(s)) /\ t.saves = s.saves /\ ("vpn" \in s.rem => "vpn" \in t.rem)
  /\ SameRun(s, t) /\ SameTun(s, t) /\ SameWaits(s, t) /\ SameHold(s, t)
  /\ In(Ahead(t), Starts) <=> In(Ahead(s), Starts)
  /\ In(Ahead(t), TunCalls) <=> In(Ahead(s), TunCalls)
  /\ TunToBe(Ahead(t)) <=> TunToBe(Ahead(s))
  /\ Last(Ahead(t), NotByUser, Starts) <=> Last(Ahead(s), NotByUser, Starts)

\* What leaves everything but the proxy alone keeps what does not concern the proxy.
LEMMA ProxyOnlyKept ==
  ASSUME NEW m, NEW s, NEW t, ProxyOnly(s, t), Kept(s, m)
  PROVE TunKept(t, m) /\ HoldKept(t, m) /\ MemoryKept(t, m)
<1> USE DEF ProxyOnly, SameRun, SameTun, SameWaits, SameHold
<1>1. TunKept(t, m)
  BY DEF Kept, TunKept, TunSound, BackKept, Ending
<1>2. HoldKept(t, m)
  BY DEF Kept, HoldKept
<1>3. MemoryKept(t, m)
  BY DEF Kept, MemoryKept
<1> QED
  BY <1>1, <1>2, <1>3

\* System Proxy is switched, parked or not as a profile runs, and the helper told.
LEMMA SetProxyKept ==
  ASSUME wq \in Queue, link \in BOOLEAN, LinkSound, NEW m, NEW s \in Working, Kept(s, m),
         NEW on \in BOOLEAN, NEW save \in BOOLEAN, NEW restoring \in BOOLEAN
  PROVE LET t == SetProxy(s, on, save, restoring) IN ProxyOnly(s, t) /\ Kept(t, m)
<1> DEFINE t == SetProxy(s, on, save, restoring)
           a == [s EXCEPT !.parked = FALSE]
           b == [s EXCEPT !.parked = TRUE]
           r == Restore(a, "user")
           c == Call(s, "probe", IF restoring THEN "restore" ELSE "proxy", save, {})
           d == Call(a, "apply", "user", save, {})
<1>1. t = IF on = s.sp THEN SwitchProxy(s, on, save)
          ELSE IF ~on THEN SwitchProxy(r, on, save)
          ELSE IF ~link THEN c
          ELSE IF ~s.run THEN SwitchProxy(b, on, save)
          ELSE SwitchProxy(d, on, save)
  BY DEF SetProxy, SwitchProxy
<1>2. /\ a \in Working /\ ~a.parked /\ a.sp = s.sp /\ SameRun(s, a) /\ SameTun(s, a)
      /\ SameWaits(s, a) /\ SameHold(s, a) /\ SameQueue(s, a) /\ SameMemory(s, a)
  BY DEF Working, SameRun, SameTun, SameWaits, SameHold, SameQueue, SameMemory
<1>3. /\ b \in Working /\ b.parked /\ b.sp = s.sp /\ SameRun(s, b) /\ SameTun(s, b)
      /\ SameWaits(s, b) /\ SameHold(s, b) /\ SameQueue(s, b) /\ SameMemory(s, b)
  BY DEF Working, SameRun, SameTun, SameWaits, SameHold, SameQueue, SameMemory
<1> HIDE DEF a, b, t
<1>4. /\ r \in Working /\ SameState(a, r)
      /\ Queued(a, r, "restore", "user") \/ (~link /\ Queued(a, r, "none", "user"))
  BY <1>2, RestoreDoes
<1>5. c \in Working /\ SameState(s, c) /\ Queued(s, c, "probe", IF restoring THEN "restore" ELSE "proxy")
  BY CallDoes DEF Ops
<1>6. d \in Working /\ SameState(a, d) /\ Queued(a, d, "apply", "user")
  BY <1>2, CallDoes DEF Ops
<1>7. Queued(s, a, "none", "user") /\ Queued(s, b, "none", "user")
  BY <1>2, <1>3, NothingQueued DEF SameQueue, Ok
<1> HIDE DEF r, c, d
<1>8. s.sp \in BOOLEAN /\ s.run \in BOOLEAN /\ (Ok(s) /\ ~Lost(m) /\ h.conn => link)
  BY DEF Working, Kept, ProxyKept, LinkSound
<1> USE DEF SameState, SameRun, SameTun, SameWaits, SameHold, SameProxy, SameMemory
<1>9. CASE on = s.sp
  <2>1. t = SwitchProxy(s, on, save)
    BY <1>1, <1>9
  <2>2. ProxySwitched(s, t, on)
    BY <1>9, <2>1, SwitchProxyDoes
  <2>3. Queued(s, t, "none", "user")
    BY <2>2, NothingQueued DEF ProxySwitched, SameQueue, Ok
  <2>4. ProxyOnly(s, t)
    BY <2>2, <2>3 DEF ProxySwitched, ProxyOnly, Queued
  <2>5. ProxyKept(t, m)
    BY <1>9, <2>2, <2>3 DEF ProxySwitched, Kept, ProxyKept, Queued
  <2>6. ParkingKept(t, m)
    BY <1>9, <2>2, <2>3 DEF ProxySwitched, Kept, ParkingKept, Ending, Queued
  <2> QED
    BY <2>4, <2>5, <2>6, ProxyOnlyKept DEF Kept, t
<1>10. CASE on # s.sp /\ ~on
  <2>1. t = SwitchProxy(r, on, save)
    BY <1>1, <1>10
  <2>2. ProxySwitched(r, t, on)
    BY <1>4, <1>10, <2>1, SwitchProxyDoes
  <2>3. Queued(r, t, "none", "user")
    BY <2>2, NothingQueued DEF ProxySwitched, SameQueue, Ok
  <2>4. ProxyOnly(s, t)
    BY <1>2, <1>4, <1>7, <2>2, <2>3 DEF ProxySwitched, ProxyOnly, Queued
  <2>5. ProxyKept(t, m)
    <3>1. /\ Ok(t) => Ok(s)
          /\ In(Ahead(t), Applies) <=> In(Ahead(s), Applies)
          /\ link => ~ProxyToBe(Ahead(t))
      BY <1>4, <1>7, <2>3 DEF Queued
    <3> QED
      BY <1>8, <1>10, <2>2, <3>1 DEF ProxySwitched, Kept, ProxyKept
  <2>6. ParkingKept(t, m)
    BY <1>2, <1>4, <1>10, <2>2, <2>4 DEF ProxySwitched, Kept, ParkingKept, Ending, ProxyOnly
  <2> QED
    BY <2>4, <2>5, <2>6, ProxyOnlyKept DEF Kept, t
<1>11. CASE on # s.sp /\ on /\ ~link
  <2>1. t = c
    BY <1>1, <1>11
  <2>2. Queued(s, t, "none", "user") /\ SameState(s, t) /\ t \in Working
    BY <1>5, <2>1 DEF Queued
  <2>3. ProxyOnly(s, t)
    BY <2>2 DEF ProxySwitched, ProxyOnly, Queued
  <2> QED
    BY <2>2, <2>3, SameKept DEF Kept, TunKept, t
<1>12. CASE on # s.sp /\ on /\ link /\ ~s.run
  <2>1. t = SwitchProxy(b, on, save)
    BY <1>1, <1>12
  <2>2. ProxySwitched(b, t, on)
    BY <1>3, <1>12, <2>1, SwitchProxyDoes
  <2>3. Queued(b, t, "none", "user")
    BY <2>2, NothingQueued DEF ProxySwitched, SameQueue, Ok
  <2>4. ProxyOnly(s, t)
    BY <1>3, <1>7, <2>2, <2>3 DEF ProxySwitched, ProxyOnly, Queued
  <2>5. ProxyKept(t, m)
    <3>1. /\ Ok(t) => Ok(s)
          /\ In(Ahead(t), Applies) <=> In(Ahead(s), Applies)
          /\ ProxyToBe(Ahead(t)) <=> ProxyToBe(Ahead(s))
      BY <1>7, <2>3 DEF Queued
    <3>2. ~s.sp /\ t.parked /\ (sess \/ Lost(m))
      BY <1>3, <1>8, <1>12, <2>2 DEF ProxySwitched, LinkSound, Lost
    <3> QED
      BY <1>12, <2>2, <3>1, <3>2 DEF ProxySwitched, Kept, ProxyKept
  <2>6. ParkingKept(t, m)
    BY <1>3, <1>12, <2>2, <2>4 DEF ProxySwitched, Kept, ParkingKept, Ending, ProxyOnly
  <2> QED
    BY <2>4, <2>5, <2>6, ProxyOnlyKept DEF Kept, t
<1>13. CASE on # s.sp /\ on /\ link /\ s.run
  <2>1. t = SwitchProxy(d, on, save)
    BY <1>1, <1>13
  <2>2. ProxySwitched(d, t, on)
    BY <1>6, <1>13, <2>1, SwitchProxyDoes
  <2>3. Queued(d, t, "none", "user")
    BY <2>2, NothingQueued DEF ProxySwitched, SameQueue, Ok
  <2>4. ProxyOnly(s, t)
    BY <1>2, <1>6, <1>7, <2>2, <2>3 DEF ProxySwitched, ProxyOnly, Queued
  <2>5. /\ Ok(t) => Ok(s) /\ ~s.stopping
        /\ ProxyToBe(Ahead(t)) /\ ~t.parked
    BY <1>2, <1>6, <1>7, <2>2, <2>3 DEF ProxySwitched, Queued
  <2>6. sess \/ Lost(m)
    BY <1>13 DEF LinkSound, Lost
  <2>7. ProxyKept(t, m)
    BY <1>13, <2>2, <2>5, <2>6 DEF ProxySwitched, Kept, ProxyKept
  <2>8. ParkingKept(t, m)
    BY <1>2, <1>6, <1>13, <2>2, <2>4, <2>5 DEF ProxySwitched, Kept, ParkingKept, Ending, ProxyOnly
  <2> QED
    BY <2>4, <2>7, <2>8, ProxyOnlyKept DEF Kept, t
<1> QED
  BY <1>8, <1>9, <1>10, <1>11, <1>12, <1>13

\* A failed startup is over when the user switches Tun: it is asked for again, or what
\* was held back goes on.
Cleared(s, on) ==
  IF on /\ s.failed THEN [s EXCEPT !.failed = FALSE, !.pending = TRUE, !.auth = FALSE]
  ELSE IF s.failed THEN ResumeDeferred([s EXCEPT !.failed = FALSE, !.work = FALSE]) ELSE s

\* Neither way disturbs the modes.
LEMMA ClearedKept ==
  ASSUME NEW m, NEW s \in Working, TunSound(s, m), HoldKept(s, m), MemoryKept(s, m), NEW on \in BOOLEAN
  PROVE LET e == Cleared(s, on)
        IN /\ e \in Working /\ TunSound(e, m) /\ HoldKept(e, m) /\ MemoryKept(e, m) /\ ~e.failed
           /\ (e.pending => s.pending \/ (on /\ s.failed))
           /\ SameProxy(s, e) /\ SameTun(s, e) /\ SameMemory(s, e) /\ SameQueue(s, e)
           /\ e.run = s.run /\ e.stopping = s.stopping
           /\ ProxyKept(s, m) /\ ParkingKept(s, m) => ProxyKept(e, m) /\ ParkingKept(e, m)
           /\ BackKept(s, m) => BackKept(e, m)
<1> DEFINE a == [s EXCEPT !.failed = FALSE, !.pending = TRUE, !.auth = FALSE]
           b == [s EXCEPT !.failed = FALSE, !.work = FALSE]
           c == ResumeDeferred(b)
<1>1. Cleared(s, on) = IF on /\ s.failed THEN a ELSE IF s.failed THEN c ELSE s
  BY DEF Cleared
<1>2. /\ a \in Working /\ ~a.failed /\ a.pending /\ ~a.auth
      /\ SameRun(s, a) /\ SameProxy(s, a) /\ SameTun(s, a) /\ SameWaits(s, a) /\ SameMemory(s, a) /\ SameQueue(s, a)
  BY DEF Working, SameRun, SameProxy, SameTun, SameWaits, SameMemory, SameQueue
<1>3. /\ b \in Working /\ ~b.failed /\ b.pending = s.pending /\ b.auth = s.auth /\ ~b.work
      /\ SameRun(s, b) /\ SameProxy(s, b) /\ SameTun(s, b) /\ SameWaits(s, b) /\ SameMemory(s, b) /\ SameQueue(s, b)
  BY DEF Working, SameRun, SameProxy, SameTun, SameWaits, SameMemory, SameQueue
<1> HIDE DEF a, b
<1>4. c \in Working /\ Begun(b, c) /\ ~c.deferred
  BY <1>3, ResumeDoes
<1> HIDE DEF c
<1> USE DEF SameRun, SameTun, SameWaits, SameProxy, SameMemory
<1>5. CASE on /\ s.failed
  <2>1. Queued(s, a, "none", "user")
    BY <1>2, NothingQueued DEF SameQueue, Ok
  <2>2. ASSUME ProxyKept(s, m) PROVE ProxyKept(a, m)
    BY <2>2, <1>2, <2>1 DEF ProxyKept, Queued
  <2>3. ASSUME ParkingKept(s, m) PROVE ParkingKept(a, m)
    BY <2>3, <1>2, <2>1 DEF ParkingKept, Ending, Queued
  <2>4. TunSound(a, m) /\ (BackKept(s, m) => BackKept(a, m))
    BY <1>2, <1>5, <2>1 DEF TunSound, BackKept, HoldKept, Ending, Queued
  <2>5. HoldKept(a, m)
    BY <1>2, <1>5, <2>1 DEF HoldKept, Queued
  <2>6. MemoryKept(a, m)
    BY <1>2, <2>1 DEF MemoryKept, Queued
  <2> QED
    BY <1>1, <1>2, <1>5, <2>2, <2>3, <2>4, <2>5, <2>6
<1>6. CASE ~on /\ s.failed
  <2>1. Queued(s, c, "none", "user") /\ SameQueue(s, c)
    <3>1. c.out = s.out /\ c.slip = s.slip
      BY <1>3, <1>4 DEF SameQueue, Begun
    <3> QED
      BY <3>1, NothingQueued DEF SameQueue, Ok
  <2>2. ASSUME ProxyKept(s, m) PROVE ProxyKept(c, m)
    BY <2>2, <1>3, <1>4, <2>1 DEF ProxyKept, Queued, Begun
  <2>3. ASSUME ParkingKept(s, m) PROVE ParkingKept(c, m)
    BY <2>3, <1>3, <1>4, <2>1 DEF ParkingKept, Ending, Queued, Begun
  <2>4. TunSound(c, m) /\ (BackKept(s, m) => BackKept(c, m))
    BY <1>3, <1>4, <1>6, <2>1 DEF TunSound, BackKept, HoldKept, Ending, Queued, Begun
  <2>5. HoldKept(c, m)
    BY <1>3, <1>4, <1>6, <2>1 DEF HoldKept, Queued, Begun
  <2>6. MemoryKept(c, m)
    BY <1>3, <1>4, <2>1 DEF MemoryKept, Queued, Begun
  <2>7. c.pending = s.pending /\ ~c.failed /\ c.run = s.run /\ c.stopping = s.stopping
    BY <1>3, <1>4 DEF Begun
  <2> QED
    BY <1>1, <1>3, <1>4, <1>6, <2>1, <2>2, <2>3, <2>4, <2>5, <2>6, <2>7 DEF Begun
<1>7. CASE ~s.failed
  BY <1>1, <1>7 DEF SameQueue
<1> QED
  BY <1>5, <1>6, <1>7

\* What SetVpn leaves alone.
TunOnly(s, t, on, save) ==
  /\ t \in Working /\ (Ok(t) => Ok(s)) /\ SameProxy(s, t) /\ t.run = s.run
  /\ ("vpn" \in s.rem /\ (on \/ ~save) => "vpn" \in t.rem)
  /\ (~on => ~t.pid) /\ (on /\ t.pid => t.tun)
  /\ (ProxyToBe(Ahead(t)) <=> ProxyToBe(Ahead(s)))
  /\ (In(Ahead(t), Applies) <=> In(Ahead(s), Applies))
  /\ ~on => (In(Ahead(t), Starts) <=> In(Ahead(s), Starts))

\* Tun is switched, for the profile that runs or for the next one, and the helper told.
LEMMA SetVpnKept ==
  ASSUME wq \in Queue, link \in BOOLEAN, LinkSound, NEW m, NEW s \in Working,
         TunSound(s, m), HoldKept(s, m), MemoryKept(s, m),
         NEW on \in BOOLEAN, NEW save \in BOOLEAN, Ok(s) /\ ~on => ~s.pending
  PROVE LET t == SetVpn(s, on, save)
        IN /\ TunOnly(s, t, on, save) /\ TunSound(t, m) /\ HoldKept(t, m) /\ MemoryKept(t, m)
           /\ ProxyKept(s, m) /\ ParkingKept(s, m) => ProxyKept(t, m) /\ ParkingKept(t, m)
           /\ (on => BackKept(s, m)) => BackKept(t, m)
<1> DEFINE e == Cleared(s, on)
           t == SetVpn(s, on, save)
           v == StopVPN(e)
           c == Call(e, "probe", "vpn", save, {})
           a == [e EXCEPT !.saves = save]
           b == StartVPN(a, "user")
           d == [e EXCEPT !.pending = FALSE, !.auth = TRUE, !.work = FALSE]
<1>1. t = IF on = s.tun THEN SwitchTun(e, on, save)
          ELSE IF ~on THEN SwitchTun(v, on, save)
          ELSE IF ~link THEN c
          ELSE IF e.run \/ (e.pending /\ e.deferred) THEN SwitchTun(b, on, save)
          ELSE SwitchTun(IF e.pending THEN d ELSE e, on, save)
  BY DEF SetVpn, SwitchTun, Cleared
<1>2. /\ e \in Working /\ TunSound(e, m) /\ HoldKept(e, m) /\ MemoryKept(e, m) /\ ~e.failed
      /\ (e.pending => s.pending \/ (on /\ s.failed))
      /\ SameProxy(s, e) /\ SameTun(s, e) /\ SameMemory(s, e) /\ SameQueue(s, e) /\ e.run = s.run
      /\ ProxyKept(s, m) /\ ParkingKept(s, m) => ProxyKept(e, m) /\ ParkingKept(e, m)
      /\ BackKept(s, m) => BackKept(e, m)
  BY ClearedKept
<1> HIDE DEF e, t
<1>3. Queued(s, e, "none", "user")
  BY <1>2, NothingQueued DEF SameQueue, Ok
<1>4. /\ v \in Working /\ ~v.pid /\ v.tun = e.tun
      /\ SameRun(e, v) /\ SameProxy(e, v) /\ SameWaits(e, v) /\ SameHold(e, v) /\ SameMemory(e, v)
      /\ IF e.pid \/ link THEN Queued(e, v, "tunStop", "user") ELSE Queued(e, v, "none", "user")
  BY <1>2, StopDoes
<1>5. c \in Working /\ SameState(e, c) /\ Queued(e, c, "probe", "vpn")
  BY <1>2, CallDoes DEF Ops
<1>6. /\ a \in Working /\ a.rem = e.rem /\ a.saves = save /\ SameQueue(e, a)
      /\ SameRun(e, a) /\ SameProxy(e, a) /\ SameTun(e, a) /\ SameWaits(e, a) /\ SameHold(e, a)
  BY <1>2 DEF Working, SameRun, SameProxy, SameTun, SameWaits, SameHold, SameQueue
<1> HIDE DEF a
<1>7. /\ b \in Working /\ b.pid /\ b.tun = a.tun
      /\ SameRun(a, b) /\ SameProxy(a, b) /\ SameWaits(a, b) /\ SameHold(a, b) /\ SameMemory(a, b)
      /\ IF a.pid THEN Queued(a, b, "none", "user") ELSE Queued(a, b, "tunStart", "user")
  BY <1>6, StartDoes
<1>8. /\ d \in Working /\ ~d.pending /\ d.auth /\ ~d.work /\ d.failed = e.failed /\ d.deferred = e.deferred
      /\ SameRun(e, d) /\ SameProxy(e, d) /\ SameTun(e, d) /\ SameWaits(e, d) /\ SameMemory(e, d) /\ SameQueue(e, d)
  BY <1>2 DEF Working, SameRun, SameProxy, SameTun, SameWaits, SameMemory, SameQueue
<1> HIDE DEF v, c, b, d
<1>9. /\ e.tun = s.tun /\ s.tun \in BOOLEAN /\ (e.pid => e.tun) /\ (Ok(e) <=> Ok(s))
      /\ (e.pending => ~e.failed) /\ e.run \in BOOLEAN
  BY <1>2 DEF Working, TunSound, SameTun, SameQueue, Ok
<1> USE DEF SameState, SameRun, SameTun, SameWaits, SameHold, SameProxy, SameMemory
<1>10. CASE on = s.tun
  <2>1. TunSwitched(e, t, on, save)
    BY <1>1, <1>2, <1>10, SwitchTunDoes
  <2>2. Queued(e, t, "none", "user")
    BY <2>1, NothingQueued DEF TunSwitched, SameQueue, Ok
  <2>3. SameRun(e, t) /\ SameProxy(e, t) /\ SameTun(e, t) /\ SameWaits(e, t) /\ SameHold(e, t) /\ t.saves = e.saves
    BY <1>9, <1>10, <2>1 DEF TunSwitched
  <2>4. TunOnly(s, t, on, save)
    BY <1>2, <1>3, <1>9, <1>10, <2>1, <2>2 DEF TunOnly, TunSwitched, Queued
  <2>5. ASSUME ProxyKept(e, m) PROVE ProxyKept(t, m)
    BY <2>5, <1>2, <2>2, <2>3 DEF ProxyKept, Queued
  <2>6. ASSUME ParkingKept(e, m) PROVE ParkingKept(t, m)
    BY <2>6, <1>2, <2>2, <2>3 DEF ParkingKept, Ending, Queued
  <2>7. TunSound(t, m) /\ ((on => BackKept(e, m)) => BackKept(t, m))
    BY <1>2, <1>10, <2>1, <2>2, <2>3 DEF TunSound, BackKept, TunSwitched, Ending, Queued
  <2>8. HoldKept(t, m)
    BY <1>2, <2>2, <2>3 DEF HoldKept, Queued
  <2>9. MemoryKept(t, m)
    BY <1>2, <2>2, <2>3 DEF MemoryKept, Queued
  <2> QED
    BY <1>2, <2>4, <2>5, <2>6, <2>7, <2>8, <2>9 DEF t
<1>11. CASE on # s.tun /\ ~on
  <2>1. TunSwitched(v, t, on, save)
    BY <1>1, <1>4, <1>11, SwitchTunDoes
  <2>2. Queued(v, t, "none", "user")
    BY <2>1, NothingQueued DEF TunSwitched, SameQueue, Ok
  <2>3. SameRun(e, t) /\ SameProxy(e, t) /\ SameWaits(e, t) /\ SameHold(e, t) /\ t.saves = e.saves
    BY <1>4, <2>1 DEF TunSwitched
  <2>4. /\ Ok(t) => Ok(e)
        /\ In(Ahead(t), Applies) <=> In(Ahead(e), Applies)
        /\ In(Ahead(t), Starts) <=> In(Ahead(e), Starts)
        /\ ProxyToBe(Ahead(t)) <=> ProxyToBe(Ahead(e))
        /\ e.pid \/ link => ~TunToBe(Ahead(t))
        /\ TunToBe(Ahead(t)) => TunToBe(Ahead(e))
        /\ Last(Ahead(t), NotByUser, Starts) <=> Last(Ahead(e), NotByUser, Starts)
    BY <1>4, <2>2 DEF Queued
  <2>5. ~t.pid /\ ~t.tun
    BY <1>4, <1>11, <2>1 DEF TunSwitched
  <2>6. TunOnly(s, t, on, save)
    BY <1>2, <1>3, <1>4, <1>11, <2>1, <2>4, <2>5 DEF TunOnly, TunSwitched, Queued
  <2>7. ASSUME ProxyKept(e, m) PROVE ProxyKept(t, m)
    BY <2>7, <1>2, <2>3, <2>4 DEF ProxyKept
  <2>8. ASSUME ParkingKept(e, m) PROVE ParkingKept(t, m)
    BY <2>8, <1>2, <2>3, <2>4, <2>5 DEF ParkingKept, Ending
  <2>9. TunSound(t, m) /\ ((on => BackKept(e, m)) => BackKept(t, m))
    BY <1>2, <2>3, <2>4, <2>5 DEF TunSound, BackKept, Ending
  <2>10. HoldKept(t, m)
    BY <1>2, <1>9, <1>11, <2>3, <2>4, <2>5 DEF HoldKept
  <2>11. MemoryKept(t, m)
    BY <1>2, <2>3, <2>4 DEF MemoryKept
  <2> QED
    BY <1>2, <2>6, <2>7, <2>8, <2>9, <2>10, <2>11 DEF t
<1>12. CASE on # s.tun /\ on /\ ~link
  <2>1. t = c
    BY <1>1, <1>12
  <2>2. Queued(e, t, "none", "user") /\ SameState(e, t) /\ t \in Working
    BY <1>5, <2>1 DEF Queued
  <2>3. TunOnly(s, t, on, save)
    BY <1>2, <1>3, <1>9, <1>12, <2>2 DEF TunOnly, Queued
  <2>4. /\ TunSound(t, m) /\ HoldKept(t, m) /\ MemoryKept(t, m)
        /\ ProxyKept(e, m) /\ ParkingKept(e, m) => ProxyKept(t, m) /\ ParkingKept(t, m)
        /\ BackKept(e, m) => BackKept(t, m)
    BY <1>2, <2>2, SameKept
  <2> QED
    BY <1>2, <1>12, <2>3, <2>4 DEF t
<1>13. CASE on # s.tun /\ on /\ link /\ (e.run \/ (e.pending /\ e.deferred))
  <2>1. TunSwitched(b, t, on, save)
    BY <1>1, <1>7, <1>13, SwitchTunDoes
  <2>2. Queued(b, t, "none", "user") /\ Queued(e, a, "none", "user")
    BY <1>6, <2>1, NothingQueued DEF TunSwitched, SameQueue, Ok
  <2>3. SameRun(e, t) /\ SameProxy(e, t) /\ SameWaits(e, t) /\ SameHold(e, t) /\ t.saves = save
    BY <1>6, <1>7, <2>1 DEF TunSwitched
  <2>4. ~e.pid /\ ~a.pid /\ t.pid /\ t.tun /\ ~e.tun
    BY <1>6, <1>7, <1>9, <1>13, <2>1 DEF TunSwitched
  <2>5. /\ Ok(t) => Ok(e) /\ ~e.stopping
        /\ In(Ahead(t), Applies) <=> In(Ahead(e), Applies)
        /\ In(Ahead(t), Starts) /\ In(Ahead(t), TunCalls) /\ TunToBe(Ahead(t))
        /\ ProxyToBe(Ahead(t)) <=> ProxyToBe(Ahead(e))
        /\ ~Last(Ahead(t), NotByUser, Starts)
    BY <1>6, <1>7, <2>2, <2>4 DEF Queued
  <2>6. TunOnly(s, t, on, save)
    BY <1>2, <1>3, <1>6, <1>7, <1>13, <2>1, <2>3, <2>4, <2>5 DEF TunOnly, TunSwitched, Queued
  <2>7. ASSUME ProxyKept(e, m) PROVE ProxyKept(t, m)
    BY <2>7, <1>2, <2>3, <2>5 DEF ProxyKept
  <2>8. ASSUME ParkingKept(e, m) PROVE ParkingKept(t, m)
    BY <2>8, <1>2, <2>3, <2>5 DEF ParkingKept, Ending
  <2>9. TunSound(t, m) /\ ((on => BackKept(e, m)) => BackKept(t, m))
    BY <1>2, <2>3, <2>4, <2>5 DEF TunSound, BackKept
  <2>10. HoldKept(t, m)
    BY <1>2, <2>3, <2>4, <2>5 DEF HoldKept
  <2>11. MemoryKept(t, m)
    BY <2>5 DEF MemoryKept
  <2> QED
    BY <1>2, <2>6, <2>7, <2>8, <2>9, <2>10, <2>11 DEF t
<1>14. CASE on # s.tun /\ on /\ link /\ ~(e.run \/ (e.pending /\ e.deferred))
  <2> DEFINE f == IF e.pending THEN d ELSE e
  <2>1. /\ f \in Working /\ SameRun(e, f) /\ SameProxy(e, f) /\ SameTun(e, f) /\ SameWaits(e, f)
        /\ SameMemory(e, f) /\ SameQueue(e, f) /\ ~f.pending /\ ~f.failed /\ ~f.work /\ ~f.deferred
    <3>1. CASE e.pending
      <4>1. f = d /\ ~e.deferred
        BY <1>14, <3>1
      <4> HIDE DEF f
      <4> QED
        BY <1>2, <1>8, <4>1
    <3>2. CASE ~e.pending
      BY <1>2, <3>2 DEF HoldKept, SameQueue
    <3> QED
      BY <3>1, <3>2
  <2>2. t = SwitchTun(f, on, save)
    BY <1>1, <1>14
  <2> HIDE DEF f
  <2>3. TunSwitched(f, t, on, save)
    BY <2>1, <2>2, SwitchTunDoes
  <2>4. Queued(f, t, "none", "user") /\ Queued(e, f, "none", "user")
    BY <2>1, <2>3, NothingQueued DEF TunSwitched, SameQueue, Ok
  <2>5. /\ SameRun(e, t) /\ SameProxy(e, t) /\ SameWaits(e, t) /\ t.saves = e.saves
        /\ ~t.pending /\ ~t.failed /\ ~t.work /\ ~t.deferred
    BY <2>1, <2>3 DEF TunSwitched
  <2>6. ~e.pid /\ ~t.pid /\ t.tun /\ ~e.tun /\ ~e.run
    BY <1>9, <1>14, <2>1, <2>3 DEF TunSwitched
  <2>7. Queued(e, t, "none", "user")
    BY <2>4 DEF Queued
  <2>8. TunOnly(s, t, on, save)
    BY <1>2, <1>3, <1>14, <2>1, <2>3, <2>5, <2>6, <2>7 DEF TunOnly, TunSwitched, Queued
  <2>9. ASSUME ProxyKept(e, m) PROVE ProxyKept(t, m)
    BY <2>9, <1>2, <2>5, <2>7 DEF ProxyKept, Queued
  <2>10. ASSUME ParkingKept(e, m) PROVE ParkingKept(t, m)
    BY <2>10, <1>2, <2>5, <2>6, <2>7 DEF ParkingKept, Ending, Queued
  <2>11. TunSound(t, m) /\ ((on => BackKept(e, m)) => BackKept(t, m))
    BY <1>2, <2>5, <2>6, <2>7 DEF TunSound, BackKept, Ending, Queued
  <2>12. HoldKept(t, m)
    BY <2>5 DEF HoldKept
  <2>13. MemoryKept(t, m)
    BY <1>2, <2>5, <2>7 DEF MemoryKept, Queued
  <2> QED
    BY <1>2, <2>8, <2>9, <2>10, <2>11, <2>12, <2>13 DEF t
<1> QED
  BY <1>9, <1>10, <1>11, <1>12, <1>13, <1>14

-----------------------------------------------------------------------------
(* The startup hold. *)

\* What the hold leaves alone.
HoldOnly(s, t) ==
  /\ t \in Working /\ SameProxy(s, t) /\ SameTun(s, t) /\ SameMemory(s, t) /\ SameQueue(s, t)
  /\ t.run = s.run /\ t.stopping = s.stopping

\* Where the hold ends without a failure, nothing is held any more.
LEMMA FreedKept ==
  ASSUME NEW m, NEW s, NEW t, HoldOnly(s, t), Kept(s, m), ~s.failed, t.inFlight = s.inFlight,
         ~t.pending, ~t.failed, ~t.work, ~t.deferred,
         \/ t.starting = s.starting /\ t.waiting = s.waiting /\ t.timer = s.timer
         \/ t.starting
  PROVE Kept(t, m)
<1>1. Queued(s, t, "none", "user")
  BY NothingQueued DEF HoldOnly, SameQueue, Ok
<1> USE DEF HoldOnly, SameTun, SameProxy, SameMemory, Queued
<1>2. ProxyKept(t, m)
  BY <1>1 DEF Kept, ProxyKept
<1>3. ParkingKept(t, m)
  BY <1>1 DEF Kept, ParkingKept, Ending
<1>4. TunKept(t, m)
  BY <1>1 DEF Kept, TunKept, TunSound, BackKept, Ending
<1>5. HoldKept(t, m)
  BY <1>1 DEF HoldKept
<1>6. MemoryKept(t, m)
  BY <1>1 DEF Kept, MemoryKept
<1> QED
  BY <1>2, <1>3, <1>4, <1>5, <1>6 DEF Kept

\* Tun is up: the network work goes on, and the deferred profile starts.
LEMMA CompleteKept ==
  ASSUME NEW m, NEW s \in Working, Kept(s, m)
  PROVE HoldOnly(s, Complete(s)) /\ Kept(Complete(s), m)
<1> DEFINE a == [s EXCEPT !.pending = FALSE, !.auth = TRUE, !.work = FALSE]
           t == ResumeDeferred(a)
<1>1. Complete(s) = IF s.pending THEN t ELSE s
  BY DEF Complete
<1>2. /\ a \in Working /\ ~a.pending /\ ~a.work /\ a.failed = s.failed
      /\ SameRun(s, a) /\ SameProxy(s, a) /\ SameTun(s, a) /\ SameWaits(s, a) /\ SameMemory(s, a) /\ SameQueue(s, a)
  BY DEF Working, SameRun, SameProxy, SameTun, SameWaits, SameMemory, SameQueue
<1> HIDE DEF a
<1>3. t \in Working /\ Begun(a, t) /\ ~t.deferred
  BY <1>2, ResumeDoes
<1> HIDE DEF t
<1> USE DEF SameRun, SameTun, SameWaits, SameProxy, SameMemory, SameQueue
<1>4. CASE s.pending
  <2>1. ~s.failed
    BY <1>4 DEF Kept, HoldKept
  <2>2. HoldOnly(s, t)
    BY <1>2, <1>3 DEF HoldOnly, Begun
  <2>3. /\ t.inFlight = s.inFlight /\ ~t.pending /\ ~t.failed /\ ~t.work /\ ~t.deferred
        /\ \/ t.starting = s.starting /\ t.waiting = s.waiting /\ t.timer = s.timer
           \/ t.starting
    BY <1>2, <1>3, <2>1 DEF Begun
  <2>4. Kept(t, m)
    BY <2>1, <2>2, <2>3, FreedKept
  <2> QED
    BY <1>1, <1>4, <2>2, <2>4
<1>5. CASE ~s.pending
  BY <1>1, <1>5 DEF HoldOnly
<1> QED
  BY <1>4, <1>5

\* Tun cannot be had: what was held goes on without it.
LEMMA ReleaseKept ==
  ASSUME NEW m, NEW s \in Working, Kept(s, m)
  PROVE HoldOnly(s, Release(s)) /\ Kept(Release(s), m)
<1> DEFINE a == [s EXCEPT !.pending = FALSE, !.auth = FALSE]
           b == ResumeDeferred(a)
           t == [b EXCEPT !.work = FALSE]
<1>1. Release(s) = IF s.pending THEN t ELSE s
  BY DEF Release
<1>2. /\ a \in Working /\ ~a.pending /\ a.failed = s.failed
      /\ SameRun(s, a) /\ SameProxy(s, a) /\ SameTun(s, a) /\ SameWaits(s, a) /\ SameMemory(s, a) /\ SameQueue(s, a)
  BY DEF Working, SameRun, SameProxy, SameTun, SameWaits, SameMemory, SameQueue
<1> HIDE DEF a
<1>3. b \in Working /\ Begun(a, b) /\ ~b.deferred
  BY <1>2, ResumeDoes
<1> HIDE DEF b
<1>4. /\ t \in Working /\ ~t.work /\ t.pending = b.pending /\ t.failed = b.failed /\ t.deferred = b.deferred
      /\ SameRun(b, t) /\ SameProxy(b, t) /\ SameTun(b, t) /\ SameWaits(b, t) /\ SameMemory(b, t) /\ SameQueue(b, t)
  BY <1>3 DEF Working, SameRun, SameProxy, SameTun, SameWaits, SameMemory, SameQueue
<1> HIDE DEF t
<1> USE DEF SameRun, SameTun, SameWaits, SameProxy, SameMemory, SameQueue
<1>5. CASE s.pending
  <2>1. ~s.failed
    BY <1>5 DEF Kept, HoldKept
  <2>2. HoldOnly(s, t)
    BY <1>2, <1>3, <1>4 DEF HoldOnly, Begun
  <2>3. /\ t.inFlight = s.inFlight /\ ~t.pending /\ ~t.failed /\ ~t.work /\ ~t.deferred
        /\ \/ t.starting = s.starting /\ t.waiting = s.waiting /\ t.timer = s.timer
           \/ t.starting
    BY <1>2, <1>3, <1>4, <2>1 DEF Begun
  <2>4. Kept(t, m)
    BY <2>1, <2>2, <2>3, FreedKept
  <2> QED
    BY <1>1, <1>5, <2>2, <2>4
<1>6. CASE ~s.pending
  BY <1>1, <1>6 DEF HoldOnly
<1> QED
  BY <1>5, <1>6

\* The core may start: the helper has accepted the Tun that is switched on.
LEMMA AuthorizeKept ==
  ASSUME NEW m, NEW s \in Working, Kept(s, m), Ok(s) /\ s.pending => s.tun
  PROVE HoldOnly(s, Authorize(s)) /\ Kept(Authorize(s), m)
<1> DEFINE a == [s EXCEPT !.auth = TRUE]
           t == ResumeDeferred(a)
<1>1. Authorize(s) = IF s.pending /\ ~s.auth THEN t ELSE s
  BY DEF Authorize
<1>2. /\ a \in Working /\ a.auth /\ a.pending = s.pending /\ a.work = s.work /\ a.failed = s.failed
      /\ SameRun(s, a) /\ SameProxy(s, a) /\ SameTun(s, a) /\ SameWaits(s, a) /\ SameMemory(s, a) /\ SameQueue(s, a)
  BY DEF Working, SameRun, SameProxy, SameTun, SameWaits, SameMemory, SameQueue
<1> HIDE DEF a
<1>3. t \in Working /\ Begun(a, t) /\ ~t.deferred
  BY <1>2, ResumeDoes
<1> HIDE DEF t
<1> USE DEF SameRun, SameTun, SameWaits, SameProxy, SameMemory
<1>4. CASE s.pending /\ ~s.auth
  <2>1. HoldOnly(s, t)
    BY <1>2, <1>3 DEF HoldOnly, Begun, SameQueue
  <2>2. Queued(s, t, "none", "user")
    BY <2>1, NothingQueued DEF HoldOnly, SameQueue, Ok
  <2> USE DEF HoldOnly, Queued, Begun
  <2>3. ProxyKept(t, m)
    BY <2>1, <2>2 DEF Kept, ProxyKept
  <2>4. ParkingKept(t, m)
    BY <1>2, <1>3, <2>1, <2>2 DEF Kept, ParkingKept, Ending
  <2>5. TunKept(t, m)
    BY <1>2, <1>3, <2>1, <2>2 DEF Kept, TunKept, TunSound, BackKept, Ending
  <2>6. HoldKept(t, m)
    BY <1>2, <1>3, <1>4, <2>1, <2>2 DEF Kept, HoldKept
  <2>7. MemoryKept(t, m)
    BY <2>1, <2>2 DEF Kept, MemoryKept
  <2> QED
    BY <1>1, <1>4, <2>1, <2>3, <2>4, <2>5, <2>6, <2>7 DEF Kept
<1>5. CASE ~(s.pending /\ ~s.auth)
  BY <1>1, <1>5 DEF HoldOnly, SameQueue
<1> QED
  BY <1>4, <1>5

\* The startup failed while no profile runs or starts: the block begins.
LEMMA FailKept ==
  ASSUME NEW m, NEW s \in Working, Kept(s, m), Ok(s) /\ s.pending => ~s.starting /\ (s.run => s.stopping)
  PROVE HoldOnly(s, FailStartup(s)) /\ Kept(FailStartup(s), m)
<1> DEFINE t == [s EXCEPT !.pending = FALSE, !.auth = FALSE, !.failed = TRUE]
<1>1. FailStartup(s) = IF s.pending THEN t ELSE s
  BY DEF FailStartup
<1>2. /\ t \in Working /\ ~t.pending /\ t.failed /\ t.work = s.work /\ t.deferred = s.deferred
      /\ SameRun(s, t) /\ SameProxy(s, t) /\ SameTun(s, t) /\ SameWaits(s, t) /\ SameMemory(s, t) /\ SameQueue(s, t)
  BY DEF Working, SameRun, SameProxy, SameTun, SameWaits, SameMemory, SameQueue
<1> HIDE DEF t
<1>3. Queued(s, t, "none", "user")
  BY <1>2, NothingQueued DEF SameQueue, Ok
<1> USE DEF SameRun, SameTun, SameWaits, SameProxy, SameMemory
<1>4. CASE s.pending
  <2>1. ProxyKept(t, m)
    BY <1>2, <1>3 DEF Kept, ProxyKept, Queued
  <2>2. ParkingKept(t, m)
    BY <1>2, <1>3 DEF Kept, ParkingKept, Ending, Queued
  <2>3. TunKept(t, m)
    BY <1>2, <1>3 DEF Kept, TunKept, TunSound, BackKept, Ending, Queued
  <2>4. HoldKept(t, m)
    BY <1>2, <1>3, <1>4 DEF Kept, HoldKept, Queued
  <2>5. MemoryKept(t, m)
    BY <1>2, <1>3 DEF Kept, MemoryKept, Queued
  <2> QED
    BY <1>1, <1>2, <1>4, <2>1, <2>2, <2>3, <2>4, <2>5 DEF Kept, HoldOnly
<1>5. CASE ~s.pending
  BY <1>1, <1>5 DEF HoldOnly, SameQueue
<1> QED
  BY <1>4, <1>5

-----------------------------------------------------------------------------
(* Tun is gone: a call failed, its process ended, or the helper died. *)

\* What is left alone then.
TunGone(s, t, save) ==
  /\ t \in Working /\ (Ok(t) => Ok(s)) /\ ~t.pid /\ t.sp = s.sp /\ t.run = s.run
  /\ ("vpn" \in s.rem /\ ~save => "vpn" \in t.rem)
  /\ In(Ahead(t), Starts) <=> In(Ahead(s), Starts)
  /\ In(Ahead(t), Applies) <=> In(Ahead(s), Applies)

\* The block begins.
LEMMA FailDoes ==
  ASSUME NEW s \in Working, s.pending
  PROVE LET t == FailStartup(s)
        IN /\ t \in Working /\ ~t.pending /\ t.failed /\ SameQueue(s, t)
           /\ SameRun(s, t) /\ SameProxy(s, t) /\ SameTun(s, t) /\ SameWaits(s, t) /\ SameMemory(s, t)
<1> DEFINE t == [s EXCEPT !.pending = FALSE, !.auth = FALSE, !.failed = TRUE]
<1>1. FailStartup(s) = t
  BY DEF FailStartup
<1>2. t \in Working
  BY DEF Working
<1>3. ~t.pending /\ t.failed /\ SameRun(s, t) /\ SameProxy(s, t) /\ SameTun(s, t)
  BY DEF Working, SameRun, SameProxy, SameTun
<1>4. SameWaits(s, t) /\ SameMemory(s, t) /\ SameQueue(s, t)
  BY DEF Working, SameWaits, SameMemory, SameQueue
<1> QED
  BY <1>1, <1>2, <1>3, <1>4

\* A Tun that fails before it was up stops the profile and starts the block.
LEMMA TunFailedKept ==
  ASSUME wq \in Queue, link \in BOOLEAN, LinkSound, NEW m, NEW s \in Working,
         TunSound(s, m), HoldKept(s, m), MemoryKept(s, m), s.pending,
         Ok(s) /\ ~Lost(m) => ~TunToBe(Ahead(s))
  PROVE LET t == TunFailed(s)
        IN /\ TunGone(s, t, FALSE) /\ TunKept(t, m) /\ HoldKept(t, m) /\ MemoryKept(t, m)
           /\ ProxyKept(s, m) /\ ParkingKept(s, m) => ProxyKept(t, m) /\ ParkingKept(t, m)
<1> DEFINE a == [s EXCEPT !.pid = FALSE, !.tunTimer = FALSE]
           b == [a EXCEPT !.deferred = TRUE]
           c == IF a.run THEN Stop(b) ELSE a
           d == Slip(c, a.starting, "start under way")
           f == FailStartup(d)
           t == [f EXCEPT !.tun = TRUE]
<1>1. TunFailed(s) = [FailStartup(d) EXCEPT !.tun = TRUE]
  BY DEF TunFailed
<1>2. /\ a \in Working /\ ~a.pid /\ a.tun = s.tun
      /\ SameRun(s, a) /\ SameProxy(s, a) /\ SameWaits(s, a) /\ SameHold(s, a) /\ SameMemory(s, a) /\ SameQueue(s, a)
  BY DEF Working, SameRun, SameProxy, SameWaits, SameHold, SameMemory, SameQueue
<1> HIDE DEF a
<1>3. /\ b \in Working /\ SameRun(a, b) /\ SameProxy(a, b) /\ SameTun(a, b) /\ SameWaits(a, b)
      /\ SameMemory(a, b) /\ SameQueue(a, b)
      /\ b.pending = a.pending /\ b.failed = a.failed /\ b.work = a.work
  BY <1>2 DEF Working, SameRun, SameProxy, SameTun, SameWaits, SameMemory, SameQueue
<1> HIDE DEF b
<1>4. LET x == Stop(b)
      IN /\ x \in Working /\ x.run = b.run /\ x.starting = b.starting
         /\ x.waiting = b.waiting /\ x.timer = b.timer /\ SameHold(b, x) /\ SameMemory(b, x)
         /\ IF b.run THEN x.stopping /\ x.inFlight /\ Paused(b, x)
            ELSE /\ x.stopping = b.stopping /\ x.inFlight = b.inFlight
                 /\ SameProxy(b, x) /\ SameTun(b, x) /\ SameQueue(b, x)
  BY <1>2, <1>3, StopEffect DEF SameTun
<1>5. a.run \in BOOLEAN /\ a.starting \in BOOLEAN /\ a.run = s.run /\ a.starting = s.starting
  BY <1>2 DEF Working, SameRun
<1>6. /\ c \in Working /\ c.run = s.run /\ c.starting = s.starting /\ c.waiting = s.waiting /\ c.timer = s.timer
      /\ SameMemory(s, c) /\ c.pending = s.pending /\ c.failed = s.failed /\ ~c.pid /\ c.tun = s.tun /\ c.sp = s.sp
      /\ c.stopping = (s.run \/ s.stopping)
      /\ IF s.run THEN c.inFlight /\ c.parked = (s.parked \/ s.sp)
                  ELSE c.inFlight = s.inFlight /\ c.parked = s.parked
  <2> USE DEF SameRun, SameProxy, SameTun, SameWaits, SameHold, SameMemory, SameQueue, Paused
  <2>1. CASE s.run
    <3>1. c = Stop(b)
      BY <1>5, <2>1
    <3> HIDE DEF c
    <3>2. c.stopping = (s.run \/ s.stopping)
      BY <1>2, <1>3, <1>4, <2>1, <3>1 DEF Working
    <3> QED
      BY <1>2, <1>3, <1>4, <2>1, <3>1, <3>2
  <2>2. CASE ~s.run
    <3>1. c = a
      BY <1>5, <2>2
    <3> HIDE DEF c
    <3>2. ~s.stopping /\ s.stopping \in BOOLEAN /\ c.stopping = s.stopping
      BY <1>2, <2>2, <3>1 DEF TunSound, Working
    <3> QED
      BY <1>2, <2>2, <3>1, <3>2
  <2> QED
    BY <2>1, <2>2
<1>7. /\ Ok(c) => Ok(s)
      /\ In(Ahead(c), Applies) <=> In(Ahead(s), Applies)
      /\ In(Ahead(c), Starts) <=> In(Ahead(s), Starts)
      /\ ProxyToBe(Ahead(c)) => ProxyToBe(Ahead(s))
      /\ s.run /\ link /\ s.sp /\ ~s.parked => ~ProxyToBe(Ahead(c))
      /\ ~(s.run /\ s.sp /\ ~s.parked) => (ProxyToBe(Ahead(c)) <=> ProxyToBe(Ahead(s)))
      /\ TunToBe(Ahead(c)) => TunToBe(Ahead(s))
      /\ Last(Ahead(c), NotByUser, Starts) <=> Last(Ahead(s), NotByUser, Starts)
  <2>1. Queued(s, a, "none", "user") /\ Queued(a, b, "none", "user")
    BY <1>2, <1>3, NothingQueued DEF SameQueue, Ok
  <2>2. CASE s.run
    <3>1. c = Stop(b) /\ Paused(b, c) /\ b.sp = s.sp /\ b.parked = s.parked
      BY <1>2, <1>3, <1>4, <1>5, <2>2 DEF SameRun, SameProxy
    <3> HIDE DEF c
    <3> QED
      BY <2>1, <2>2, <3>1 DEF Paused, Queued
  <2>3. CASE ~s.run
    <3>1. c = a
      BY <1>5, <2>3
    <3> HIDE DEF c
    <3> QED
      BY <2>1, <2>3, <3>1 DEF Queued
  <2> QED
    BY <2>2, <2>3
<1> HIDE DEF c
<1>20. c \in Working /\ a.starting \in BOOLEAN
  BY <1>5, <1>6
<1>8. d \in Working /\ SameState(c, d) /\ d.out = c.out /\ (Ok(d) => Ok(c) /\ ~a.starting)
  BY <1>20, SlipDoes
<1> HIDE DEF d
<1>21. d \in Working
  BY <1>8
<1>9. /\ f \in Working /\ ~f.pending /\ f.failed /\ f.out = d.out /\ f.slip = d.slip
      /\ SameRun(d, f) /\ SameProxy(d, f) /\ SameTun(d, f) /\ SameWaits(d, f) /\ SameMemory(d, f)
  <2>1. d.pending
    BY <1>6, <1>8 DEF SameState, SameHold
  <2> QED
    BY <1>21, <2>1, FailDoes DEF SameQueue
<1> HIDE DEF f
<1>10. /\ t \in Working /\ ~t.pending /\ t.failed /\ t.out = f.out /\ t.slip = f.slip /\ t.tun /\ t.pid = f.pid
       /\ SameRun(f, t) /\ SameProxy(f, t) /\ SameWaits(f, t) /\ SameMemory(f, t)
  BY <1>9 DEF Working, SameRun, SameProxy, SameWaits, SameMemory
<1>11. TunFailed(s) = t
  BY <1>1 DEF f
<1> HIDE DEF t
<1>12. Ahead(t) = Ahead(c) /\ (Ok(t) => Ok(c) /\ ~s.starting)
  BY <1>5, <1>8, <1>9, <1>10 DEF Ahead, Ok
<1>13. /\ t.run = s.run /\ t.starting = s.starting /\ t.waiting = s.waiting /\ t.timer = s.timer
       /\ SameMemory(s, t) /\ ~t.pid /\ t.sp = s.sp
       /\ t.stopping = (s.run \/ s.stopping)
       /\ IF s.run THEN t.inFlight /\ t.parked = (s.parked \/ s.sp)
                   ELSE t.inFlight = s.inFlight /\ t.parked = s.parked
  BY <1>6, <1>8, <1>9, <1>10 DEF SameState, SameRun, SameProxy, SameTun, SameWaits, SameMemory
<1>14. TunGone(s, t, FALSE)
  BY <1>7, <1>10, <1>12, <1>13 DEF TunGone, SameMemory
<1>15. TunKept(t, m)
  BY <1>7, <1>10, <1>12, <1>13 DEF TunKept, TunSound, BackKept, Ending
<1>16. HoldKept(t, m)
  BY <1>10, <1>12, <1>13 DEF HoldKept
<1>17. MemoryKept(t, m)
  BY <1>7, <1>12, <1>13 DEF MemoryKept, SameMemory
<1>18. ASSUME ProxyKept(s, m) PROVE ProxyKept(t, m)
  <2>1. Ok(t) /\ ~Lost(m) /\ h.conn => link
    BY <1>7, <1>12, <1>18 DEF ProxyKept, LinkSound
  <2> QED
    BY <1>7, <1>12, <1>13, <1>18, <2>1 DEF ProxyKept
<1>19. ASSUME ParkingKept(s, m) PROVE ParkingKept(t, m)
  BY <1>7, <1>12, <1>13, <1>19 DEF ParkingKept, Ending
<1> QED
  BY <1>11, <1>14, <1>15, <1>16, <1>17, <1>18, <1>19

\* A Tun that is gone is switched off; whether that is remembered is the caller's choice.
SwitchedOff(s, save) ==
  LET t == [s EXCEPT !.pid = FALSE] IN IF t.tun THEN SetVpn(t, FALSE, save) ELSE t

\* A Tun that is gone while nothing is held back is switched off.
LEMMA GoneKept ==
  ASSUME wq \in Queue, link \in BOOLEAN, LinkSound, NEW m, NEW s \in Working,
         TunSound(s, m), HoldKept(s, m), MemoryKept(s, m), ~s.pending, NEW save \in BOOLEAN,
         Ok(s) /\ ~Lost(m) => ~TunToBe(Ahead(s))
  PROVE LET t == SwitchedOff(s, save)
        IN /\ TunGone(s, t, save) /\ TunKept(t, m) /\ HoldKept(t, m) /\ MemoryKept(t, m)
           /\ ProxyKept(s, m) /\ ParkingKept(s, m) => ProxyKept(t, m) /\ ParkingKept(t, m)
<1> DEFINE u == [s EXCEPT !.pid = FALSE]
           v == SetVpn(u, FALSE, save)
<1>1. SwitchedOff(s, save) = IF u.tun THEN v ELSE u
  BY DEF SwitchedOff
<1>2. /\ u \in Working /\ ~u.pid /\ u.tun = s.tun
      /\ SameRun(s, u) /\ SameProxy(s, u) /\ SameWaits(s, u) /\ SameHold(s, u) /\ SameMemory(s, u) /\ SameQueue(s, u)
  BY DEF Working, SameRun, SameProxy, SameWaits, SameHold, SameMemory, SameQueue
<1> HIDE DEF u
<1>3. Queued(s, u, "none", "user")
  BY <1>2, NothingQueued DEF SameQueue, Ok
<1> USE DEF SameRun, SameProxy, SameWaits, SameHold, SameMemory
<1>4. TunSound(u, m)
  BY <1>2, <1>3 DEF TunSound, Ending, Queued
<1>5. HoldKept(u, m) /\ MemoryKept(u, m)
  BY <1>2, <1>3 DEF HoldKept, MemoryKept, Queued
<1>6. ASSUME ProxyKept(s, m), ParkingKept(s, m) PROVE ProxyKept(u, m) /\ ParkingKept(u, m)
  BY <1>2, <1>3, <1>6 DEF ProxyKept, ParkingKept, Ending, Queued
<1>7. TunGone(s, u, save)
  BY <1>2, <1>3 DEF TunGone, Queued
<1>8. CASE u.tun
  <2>1. ~u.pending
    BY <1>2
  <2>5. PICK off \in BOOLEAN : off = FALSE
    OBVIOUS
  <2>6. LET x == SetVpn(u, off, save)
        IN /\ TunOnly(u, x, off, save) /\ TunSound(x, m) /\ HoldKept(x, m) /\ MemoryKept(x, m)
           /\ ProxyKept(u, m) /\ ParkingKept(u, m) => ProxyKept(x, m) /\ ParkingKept(x, m)
           /\ (off => BackKept(u, m)) => BackKept(x, m)
    <3>1. u \in Working /\ (Ok(u) /\ ~off => ~u.pending)
      BY <1>2, <2>1
    <3> QED
      BY <1>4, <1>5, <3>1, SetVpnKept
  <2>2. /\ TunOnly(u, v, off, save) /\ TunSound(v, m) /\ HoldKept(v, m) /\ MemoryKept(v, m)
        /\ ProxyKept(u, m) /\ ParkingKept(u, m) => ProxyKept(v, m) /\ ParkingKept(v, m)
        /\ BackKept(v, m)
    BY <2>5, <2>6
  <2> HIDE DEF v
  <2>3. TunGone(s, v, save)
    BY <1>2, <1>3, <2>2, <2>5 DEF TunGone, TunOnly, Queued
  <2>4. TunKept(v, m)
    BY <2>2 DEF TunKept
  <2> QED
    BY <1>1, <1>6, <1>8, <2>2, <2>3, <2>4
<1>9. CASE ~u.tun
  <2>1. TunKept(u, m)
    BY <1>4, <1>9 DEF TunKept, BackKept
  <2> QED
    BY <1>1, <1>5, <1>6, <1>7, <1>9, <2>1
<1> QED
  BY <1>8, <1>9

\* The helper tells that Tun stopped.
LEMMA TunStoppedKept ==
  ASSUME wq \in Queue, link \in BOOLEAN, LinkSound, NEW m, NEW s \in Working,
         TunSound(s, m), HoldKept(s, m), MemoryKept(s, m),
         Ok(s) /\ ~Lost(m) => ~TunToBe(Ahead(s))
  PROVE LET t == TunStopped(s)
        IN /\ TunGone(s, t, FALSE) /\ TunKept(t, m) /\ HoldKept(t, m) /\ MemoryKept(t, m)
           /\ ProxyKept(s, m) /\ ParkingKept(s, m) => ProxyKept(t, m) /\ ParkingKept(t, m)
<1>1. TunStopped(s) = IF s.pending THEN TunFailed(s) ELSE SwitchedOff(s, FALSE)
  BY DEF TunStopped, SwitchedOff
<1>2. CASE s.pending
  BY <1>1, <1>2, TunFailedKept
<1>3. CASE ~s.pending
  BY <1>1, <1>3, GoneKept
<1> QED
  BY <1>2, <1>3

\* The reply to tunStart: the core may start, or Tun is gone.  It is forgotten only for
\* a call that was the user's.
LEMMA TunStartedKept ==
  ASSUME wq \in Queue, link \in BOOLEAN, LinkSound, NEW m, NEW s \in Working, Kept(s, m),
         NEW c, NEW ok \in BOOLEAN,
         Ok(s) /\ s.pending => s.tun,
         ~ok /\ Ok(s) /\ ~Later("tunStart") /\ ~Lost(m) => ~TunToBe(Ahead(s))
  PROVE LET t == TunStarted(s, c, ok)
        IN /\ t \in Working /\ Kept(t, m) /\ (~ok => ~t.pid)
           /\ "vpn" \in s.rem /\ (ok \/ ~s.saves) => "vpn" \in t.rem
<1> DEFINE a == Authorize(s)
           b == [a EXCEPT !.tunTimer = TRUE]
           r == Slip(s, Later("tunStart"), "late failure")
           u == [r EXCEPT !.pid = FALSE]
           f == TunFailed(u)
           v == SetVpn(u, FALSE, u.saves)
<1>1. TunStarted(s, c, ok) = IF ok THEN IF s.pending THEN b ELSE s
                             ELSE IF u.pending THEN f ELSE IF u.tun THEN v ELSE u
  BY DEF TunStarted
<1>2. CASE ok
  <2>1. HoldOnly(s, a) /\ Kept(a, m)
    BY AuthorizeKept
  <2> HIDE DEF a
  <2>2. b \in Working /\ SameState(a, b) /\ SameQueue(a, b)
    BY <2>1 DEF HoldOnly, Working, SameState, SameRun, SameProxy, SameTun, SameWaits, SameHold, SameMemory, SameQueue
  <2> HIDE DEF b
  <2>3. Queued(a, b, "none", "user")
    BY <2>2, NothingQueued DEF SameQueue, Ok
  <2>4. Kept(b, m)
    BY <2>1, <2>2, <2>3, SameKept DEF Kept, TunKept
  <2>5. "vpn" \in s.rem => "vpn" \in b.rem
    BY <2>1, <2>2 DEF HoldOnly, SameState, SameMemory
  <2> QED
    BY <1>1, <1>2, <2>2, <2>4, <2>5
<1>3. CASE ~ok
  <2>1. Later("tunStart") \in BOOLEAN
    BY DEF Later
  <2>2. r \in Working /\ SameState(s, r) /\ r.out = s.out /\ (Ok(r) => Ok(s) /\ ~Later("tunStart"))
    BY <2>1, SlipDoes
  <2> HIDE DEF r
  <2>3. Queued(s, r, "none", "user") /\ Ahead(r) = Ahead(s)
    BY <2>2, NothingQueued DEF Ahead
  <2>4. Kept(r, m)
    BY <2>2, <2>3, SameKept DEF Kept, TunKept
  <2>5. /\ u \in Working /\ ~u.pid /\ u.tun = r.tun
        /\ SameRun(r, u) /\ SameProxy(r, u) /\ SameWaits(r, u) /\ SameHold(r, u) /\ SameMemory(r, u) /\ SameQueue(r, u)
    BY <2>2 DEF Working, SameRun, SameProxy, SameWaits, SameHold, SameMemory, SameQueue
  <2> HIDE DEF u
  <2>6. Queued(r, u, "none", "user") /\ Ahead(u) = Ahead(r)
    BY <2>5, NothingQueued DEF SameQueue, Ok, Ahead
  <2>7. Ok(u) /\ ~Lost(m) => ~TunToBe(Ahead(u))
    BY <1>3, <2>2, <2>3, <2>6 DEF Queued
  <2>8. /\ TunSound(u, m) /\ HoldKept(u, m) /\ MemoryKept(u, m)
        /\ ProxyKept(u, m) /\ ParkingKept(u, m)
    <3> USE DEF SameRun, SameProxy, SameWaits, SameHold, SameMemory
    <3>1. TunSound(u, m)
      BY <2>4, <2>5, <2>6, <2>7 DEF Kept, TunKept, TunSound, Ending, Queued
    <3>2. HoldKept(u, m) /\ MemoryKept(u, m)
      BY <2>4, <2>5, <2>6 DEF Kept, HoldKept, MemoryKept, Queued
    <3>3. ProxyKept(u, m) /\ ParkingKept(u, m)
      BY <2>4, <2>5, <2>6 DEF Kept, ProxyKept, ParkingKept, Ending, Queued
    <3> QED
      BY <3>1, <3>2, <3>3
  <2>9. /\ u.saves \in BOOLEAN /\ u.saves = s.saves /\ u.rem = s.rem
    BY <2>2, <2>5 DEF SameState, SameMemory, Working
  <2>10. CASE u.pending
    <3>1. /\ TunGone(u, f, FALSE) /\ TunKept(f, m) /\ HoldKept(f, m) /\ MemoryKept(f, m)
          /\ ProxyKept(f, m) /\ ParkingKept(f, m)
      BY <2>5, <2>7, <2>8, <2>10, TunFailedKept
    <3> QED
      BY <1>1, <1>3, <2>9, <2>10, <3>1 DEF Kept, TunGone
  <2>11. CASE ~u.pending
    <3> DEFINE w == SwitchedOff(u, u.saves)
    <3>1. /\ TunGone(u, w, u.saves) /\ TunKept(w, m) /\ HoldKept(w, m) /\ MemoryKept(w, m)
          /\ ProxyKept(w, m) /\ ParkingKept(w, m)
      BY <2>5, <2>7, <2>8, <2>9, <2>11, GoneKept
    <3>2. w = IF u.tun THEN v ELSE u
      <4>1. [u EXCEPT !.pid = FALSE] = u
        BY <2>5 DEF Working
      <4> QED
        BY <4>1 DEF SwitchedOff
    <3> HIDE DEF w
    <3> QED
      BY <1>1, <1>3, <2>9, <2>11, <3>1, <3>2 DEF Kept, TunGone
  <2> QED
    BY <2>10, <2>11
<1> QED
  BY <1>2, <1>3

\* The connection to the helper is lost: neither mode is believed to run, and the
\* pauses that were scheduled are dropped.
LEMMA HelperLostKept ==
  ASSUME wq \in Queue, link \in BOOLEAN, LinkSound, h.conn \in BOOLEAN, NEW m, NEW s \in Working,
         TunKept(s, m), HoldKept(s, m), MemoryKept(s, m), Lost(m)
  PROVE LET t == HelperLost(s)
        IN /\ t \in Working /\ TunKept(t, m) /\ HoldKept(t, m) /\ MemoryKept(t, m)
           /\ ~t.sp /\ ~t.pid
           /\ Ok(t) => Ok(s) /\ ~h.conn /\ ~Later("apply") /\ ~Later("tunStart")
           /\ In(Ahead(t), Starts) <=> In(Ahead(s), Starts)
           /\ In(Ahead(t), Applies) <=> In(Ahead(s), Applies)
           /\ "vpn" \in s.rem => "vpn" \in t.rem
<1> DEFINE a == Reset(s)
           cond == h.conn \/ Later("apply") \/ Later("tunStart")
           r == Slip(a, cond, "late loss")
           x == IF r.pid \/ r.pending THEN TunStopped(r) ELSE r
           t == [x EXCEPT !.sp = FALSE]
<1>1. HelperLost(s) = t
  BY DEF HelperLost
<1>2. /\ a \in Working /\ ~a.inFlight /\ SameRun(s, a) /\ a.sp = s.sp
      /\ SameTun(s, a) /\ SameHold(s, a) /\ SameMemory(s, a) /\ SameQueue(s, a)
  BY DEF Reset, Working, SameRun, SameTun, SameHold, SameMemory, SameQueue
<1> HIDE DEF a
<1>3. cond \in BOOLEAN
  BY DEF Later
<1>4. r \in Working /\ SameState(a, r) /\ r.out = a.out /\ (Ok(r) => Ok(a) /\ ~cond)
  <2> HIDE DEF cond
  <2>1. a \in Working
    BY <1>2
  <2> QED
    BY <1>3, <2>1, SlipDoes
<1> HIDE DEF r
<1>5. Ahead(r) = Ahead(s) /\ (Ok(r) => Ok(s) /\ ~cond)
  BY <1>2, <1>4 DEF Ahead, SameQueue, Ok
<1>6. TunKept(r, m) /\ HoldKept(r, m) /\ MemoryKept(r, m)
  <2> USE DEF SameState, SameRun, SameTun, SameWaits, SameHold, SameMemory
  <2>1. TunKept(r, m)
    BY <1>2, <1>4, <1>5 DEF TunKept, TunSound, BackKept
  <2>2. HoldKept(r, m) /\ MemoryKept(r, m)
    BY <1>2, <1>4, <1>5 DEF HoldKept, MemoryKept
  <2> QED
    BY <2>1, <2>2
<1>7. /\ x \in Working /\ (Ok(x) => Ok(r)) /\ ~x.pid
      /\ TunKept(x, m) /\ HoldKept(x, m) /\ MemoryKept(x, m)
      /\ In(Ahead(x), Starts) <=> In(Ahead(r), Starts)
      /\ In(Ahead(x), Applies) <=> In(Ahead(r), Applies)
      /\ "vpn" \in r.rem => "vpn" \in x.rem
  <2>1. CASE r.pid \/ r.pending
    <3>1. LET y == TunStopped(r) IN TunGone(r, y, FALSE) /\ TunKept(y, m) /\ HoldKept(y, m) /\ MemoryKept(y, m)
      BY <1>4, <1>6, TunStoppedKept DEF TunKept
    <3> QED
      BY <2>1, <3>1 DEF TunGone
  <2>2. CASE ~(r.pid \/ r.pending)
    BY <1>4, <1>6, <2>2
  <2> QED
    BY <2>1, <2>2
<1> HIDE DEF x
<1>8. /\ t \in Working /\ ~t.sp /\ SameRun(x, t) /\ SameTun(x, t) /\ SameWaits(x, t)
      /\ SameHold(x, t) /\ SameMemory(x, t) /\ SameQueue(x, t)
  BY <1>7 DEF Working, SameRun, SameTun, SameWaits, SameHold, SameMemory, SameQueue
<1> HIDE DEF t
<1>9. Ahead(t) = Ahead(x) /\ (Ok(t) <=> Ok(x))
  BY <1>8 DEF Ahead, SameQueue, Ok
<1>10. TunKept(t, m) /\ HoldKept(t, m) /\ MemoryKept(t, m) /\ ~t.pid
  <2> USE DEF SameRun, SameTun, SameWaits, SameHold, SameMemory
  <2>1. TunKept(t, m) /\ ~t.pid
    BY <1>7, <1>8, <1>9 DEF TunKept, TunSound, BackKept, Ending
  <2>2. HoldKept(t, m) /\ MemoryKept(t, m)
    BY <1>7, <1>8, <1>9 DEF HoldKept, MemoryKept
  <2> QED
    BY <2>1, <2>2
<1>11. "vpn" \in s.rem => "vpn" \in t.rem
  BY <1>2, <1>4, <1>7, <1>8 DEF SameState, SameMemory
<1> QED
  BY <1>1, <1>5, <1>7, <1>8, <1>9, <1>10, <1>11

-----------------------------------------------------------------------------
(* Answers to the probes, and the other replies. *)

\* The installation of the helper is nothing the modes see.
LEMMA InstallKept ==
  ASSUME NEW m, NEW s \in Working, NEW what \in {"proxy", "vpn", "startup"}, Kept(s, m)
  PROVE LET t == Install(s, what) IN t \in Working /\ Kept(t, m) /\ t.rem = s.rem /\ (Ok(t) => Ok(s))
<1> DEFINE u == [s EXCEPT !.installing = what]
<1>1. u \in Working /\ SameState(s, u) /\ SameQueue(s, u)
  BY DEF Working, SameState, SameRun, SameProxy, SameTun, SameWaits, SameHold, SameMemory, SameQueue
<1>2. Install(s, what) = IF s.installing = "no" THEN u ELSE s
  BY DEF Install
<1> HIDE DEF u
<1>3. Kept(u, m)
  <2>1. Queued(s, u, "none", "user")
    BY <1>1, NothingQueued DEF SameQueue, Ok
  <2> QED
    BY <1>1, <2>1, SameKept DEF Kept, TunKept
<1> QED
  BY <1>1, <1>2, <1>3 DEF SameState, SameMemory, SameQueue, Ok

\* What every answer leaves behind it.
After(s, t, m) == t \in Working /\ Kept(t, m) /\ ("vpn" \in s.rem => "vpn" \in t.rem)

\* The switches and the installation leave that.
LEMMA SwitchesAfter ==
  ASSUME wq \in Queue, link \in BOOLEAN, LinkSound, NEW m, NEW s \in Working, Kept(s, m), NEW save \in BOOLEAN
  PROVE /\ \A restoring \in BOOLEAN : After(s, SetProxy(s, TRUE, save, restoring), m)
        /\ After(s, SetVpn(s, TRUE, save), m) /\ SameProxy(s, SetVpn(s, TRUE, save))
        /\ \A what \in {"proxy", "vpn", "startup"} : After(s, Install(s, what), m)
        /\ After(s, Release(s), m)
<1>1. ASSUME NEW restoring \in BOOLEAN PROVE After(s, SetProxy(s, TRUE, save, restoring), m)
  <2>1. LET t == SetProxy(s, TRUE, save, restoring) IN ProxyOnly(s, t) /\ Kept(t, m)
    BY SetProxyKept
  <2> QED
    BY <2>1 DEF After, ProxyOnly
<1>2. After(s, SetVpn(s, TRUE, save), m) /\ SameProxy(s, SetVpn(s, TRUE, save))
  <2>3. PICK on \in BOOLEAN : on = TRUE
    OBVIOUS
  <2> DEFINE t == SetVpn(s, on, save)
  <2>2. ProxyKept(s, m) /\ ParkingKept(s, m) /\ TunSound(s, m) /\ BackKept(s, m) /\ HoldKept(s, m) /\ MemoryKept(s, m)
    BY DEF Kept, TunKept
  <2>1. /\ TunOnly(s, t, on, save) /\ TunSound(t, m) /\ HoldKept(t, m) /\ MemoryKept(t, m)
        /\ ProxyKept(s, m) /\ ParkingKept(s, m) => ProxyKept(t, m) /\ ParkingKept(t, m)
        /\ (on => BackKept(s, m)) => BackKept(t, m)
    <3>1. Ok(s) /\ ~on => ~s.pending
      BY <2>3
    <3> QED
      BY <2>2, <3>1, SetVpnKept
  <2> HIDE DEF t
  <2> QED
    BY <2>1, <2>2, <2>3 DEF After, TunOnly, Kept, TunKept, t
<1>3. ASSUME NEW what \in {"proxy", "vpn", "startup"} PROVE After(s, Install(s, what), m)
  BY InstallKept DEF After
<1>4. After(s, Release(s), m)
  BY ReleaseKept DEF After, HoldOnly, SameMemory
<1> QED
  BY <1>1, <1>2, <1>3, <1>4

\* The remembered modes are switched on again when the startup probe found the helper;
\* when it did not, what the startup held goes on.
LEMMA ProbedAfter ==
  ASSUME wq \in Queue, link \in BOOLEAN, LinkSound, NEW m, NEW s \in Working, Kept(s, m), NEW is
  PROVE After(s, Probed(s, is), m)
<1> DEFINE t == [s EXCEPT !.probing = FALSE]
           p == IF "proxy" \in s.was THEN SetProxy(t, TRUE, FALSE, TRUE) ELSE t
           v == SetVpn(p, TRUE, FALSE)
<1>1. t \in Working /\ SameState(s, t) /\ SameQueue(s, t)
  BY DEF Working, SameState, SameRun, SameProxy, SameTun, SameWaits, SameHold, SameMemory, SameQueue
<1>2. Probed(s, is) = IF ~s.probing THEN s
                      ELSE IF is = "ready" THEN IF "vpn" \notin s.was THEN p ELSE IF v.tun THEN v ELSE FailStartup(v)
                      ELSE IF is = "absent" THEN Install(Release(t), "startup") ELSE Release(t)
  BY DEF Probed
<1> HIDE DEF t
<1>3. After(s, t, m)
  <2>1. Queued(s, t, "none", "user")
    BY <1>1, NothingQueued DEF SameQueue, Ok
  <2> QED
    BY <1>1, <2>1, SameKept DEF After, Kept, TunKept, SameState, SameMemory
<1>4. After(s, p, m)
  <2>1. After(t, SetProxy(t, TRUE, FALSE, TRUE), m)
    BY <1>3, SwitchesAfter DEF After
  <2> QED
    BY <1>3, <2>1 DEF After
<1> HIDE DEF p
<1>5. After(s, v, m)
  <2>1. After(p, v, m)
    BY <1>4, SwitchesAfter DEF After
  <2> QED
    BY <1>4, <2>1 DEF After
<1> HIDE DEF v
<1>6. ASSUME ~v.tun PROVE After(s, FailStartup(v), m)
  <2>1. v \in Working /\ Kept(v, m) /\ (Ok(v) /\ v.pending => ~v.starting /\ (v.run => v.stopping))
    BY <1>5, <1>6 DEF After, Kept, HoldKept
  <2>2. HoldOnly(v, FailStartup(v)) /\ Kept(FailStartup(v), m)
    BY <2>1, FailKept
  <2> QED
    BY <1>5, <2>2 DEF After, HoldOnly, SameMemory
<1>7. After(s, Release(t), m) /\ After(s, Install(Release(t), "startup"), m)
  <2> DEFINE r == Release(t)
  <2>1. After(t, r, m)
    BY <1>3, SwitchesAfter DEF After
  <2> HIDE DEF r
  <2>2. After(r, Install(r, "startup"), m)
    BY <2>1, SwitchesAfter DEF After
  <2> QED
    BY <1>3, <2>1, <2>2 DEF After, r
<1>8. After(s, s, m)
  BY DEF After
<1> QED
  BY <1>2, <1>4, <1>5, <1>6, <1>7, <1>8

\* A switch of the proxy that the helper refused is taken back.
LEMMA ProxyAppliedAfter ==
  ASSUME wq \in Queue, NEW m, NEW s \in Working, Kept(s, m), NEW c, NEW ok \in BOOLEAN,
         ~ok /\ Ok(s) => Lost(m)
  PROVE After(s, ProxyApplied(s, c, ok), m)
<1> DEFINE r == Slip(s, Later("apply"), "late failure")
           u == [r EXCEPT !.sp = FALSE]
           v == Remember(u, "proxy", FALSE)
<1>1. ProxyApplied(s, c, ok) = IF ok \/ c.by # "user" \/ ~s.sp THEN s ELSE IF c.save THEN v ELSE u
  BY DEF ProxyApplied
<1>2. Later("apply") \in BOOLEAN
  BY DEF Later
<1>3. r \in Working /\ SameState(s, r) /\ r.out = s.out /\ (Ok(r) => Ok(s) /\ ~Later("apply"))
  BY <1>2, SlipDoes
<1> HIDE DEF r
<1>4. /\ u \in Working /\ ~u.sp /\ SameRun(r, u) /\ SameTun(r, u) /\ SameWaits(r, u)
      /\ SameHold(r, u) /\ SameMemory(r, u) /\ SameQueue(r, u)
  BY <1>3 DEF Working, SameRun, SameTun, SameWaits, SameHold, SameMemory, SameQueue
<1>5. /\ v \in Working /\ ~v.sp /\ SameRun(u, v) /\ SameTun(u, v) /\ SameWaits(u, v)
      /\ SameHold(u, v) /\ v.saves = u.saves /\ SameQueue(u, v) /\ ("vpn" \in u.rem => "vpn" \in v.rem)
  <2> HIDE DEF u
  <2>1. "vpn" # "proxy" /\ v = [u EXCEPT !.rem = u.rem \ {"proxy"}] /\ u.rem \in SUBSET Modes
    BY <1>4 DEF Remember, Working
  <2> HIDE DEF v
  <2> QED
    BY <1>4, <2>1 DEF Working, SameRun, SameTun, SameWaits, SameHold, SameQueue
<1> HIDE DEF u, v
<1>6. ASSUME ~ok, NEW t \in {u, v} PROVE After(s, t, m)
  <2>1. /\ t \in Working /\ ~t.sp /\ SameRun(s, t) /\ SameTun(s, t) /\ SameWaits(s, t)
        /\ SameHold(s, t) /\ t.saves = s.saves /\ ("vpn" \in s.rem => "vpn" \in t.rem)
    BY <1>3, <1>4, <1>5, <1>6 DEF SameState, SameRun, SameTun, SameWaits, SameHold, SameMemory
  <2>2. t.out = s.out /\ (Ok(t) => Ok(s))
    BY <1>3, <1>4, <1>5, <1>6 DEF SameQueue, Ok
  <2>3. Queued(s, t, "none", "user")
    BY <2>2, NothingQueued
  <2> USE DEF SameRun, SameTun, SameWaits, SameHold
  <2>4. ProxyKept(t, m)
    BY <1>6, <2>1, <2>2, <2>3 DEF Kept, ProxyKept, Queued
  <2>5. ParkingKept(t, m)
    BY <2>1 DEF ParkingKept
  <2>6. TunKept(t, m)
    BY <2>1, <2>3 DEF Kept, TunKept, TunSound, BackKept, Ending, Queued
  <2>7. HoldKept(t, m) /\ MemoryKept(t, m)
    BY <2>1, <2>3 DEF Kept, HoldKept, MemoryKept, Queued
  <2> QED
    BY <2>1, <2>4, <2>5, <2>6, <2>7 DEF After, Kept
<1>7. After(s, s, m)
  BY DEF After
<1> QED
  BY <1>1, <1>6, <1>7

\* The answer to a probe.
LEMMA AnsweredAfter ==
  ASSUME wq \in Queue, link \in BOOLEAN, LinkSound, NEW m, NEW s \in Working, Kept(s, m),
         NEW c \in Sent, NEW ok \in BOOLEAN, NEW has
  PROVE After(s, Answered(s, c, ok, has), m)
<1> USE DEF After
<1>1. c.save \in BOOLEAN
  BY DEF Sent, Calls
<1>2. CASE c.by = "startup"
  <2>1. ASSUME NEW is PROVE After(s, Probed(s, is), m)
    BY ProbedAfter
  <2> QED
    BY <1>2, <2>1 DEF Answered
<1>3. CASE c.by = "proxy"
  <2>1. After(s, SetProxy(s, TRUE, c.save, FALSE), m) /\ After(s, Install(s, "proxy"), m)
    BY <1>1, SwitchesAfter
  <2> QED
    BY <1>3, <2>1 DEF Answered
<1>4. CASE c.by = "restore"
  <2>1. After(s, SetProxy(s, TRUE, c.save, TRUE), m)
    BY <1>1, SwitchesAfter
  <2> QED
    BY <1>4, <2>1 DEF Answered
<1>5. CASE c.by = "vpn"
  <2>1. After(s, SetVpn(s, TRUE, c.save), m) /\ After(s, Install(s, "vpn"), m) /\ After(s, Release(s), m)
    BY <1>1, SwitchesAfter
  <2> QED
    BY <1>5, <2>1 DEF Answered
<1>6. CASE c.by \notin {"startup", "proxy", "restore", "vpn"}
  <2> DEFINE t == [s EXCEPT !.installing = "no"]
             p == IF s.installing = "proxy" THEN SetProxy(t, TRUE, TRUE, FALSE)
                  ELSE IF s.installing = "startup" /\ "proxy" \in s.was THEN SetProxy(t, TRUE, FALSE, TRUE) ELSE t
             v == SetVpn(p, TRUE, TRUE)
             w == SetVpn(p, TRUE, FALSE)
  <2>1. Answered(s, c, ok, has) =
          IF ~ok THEN t
          ELSE IF s.installing = "vpn" THEN v
          ELSE IF s.installing = "startup" /\ "vpn" \in s.was THEN w ELSE p
    BY <1>6 DEF Answered
  <2>2. t \in Working /\ SameState(s, t) /\ SameQueue(s, t)
    BY DEF Working, SameState, SameRun, SameProxy, SameTun, SameWaits, SameHold, SameMemory, SameQueue
  <2> HIDE DEF t
  <2>3. After(s, t, m)
    <3>1. Queued(s, t, "none", "user")
      BY <2>2, NothingQueued DEF SameQueue, Ok
    <3> QED
      BY <2>2, <3>1, SameKept DEF Kept, TunKept, SameState, SameMemory
  <2>4. After(s, p, m)
    <3>1. After(t, SetProxy(t, TRUE, TRUE, FALSE), m) /\ After(t, SetProxy(t, TRUE, FALSE, TRUE), m)
      BY <2>3, SwitchesAfter
    <3> QED
      BY <2>3, <3>1
  <2> HIDE DEF p
  <2>5. After(s, v, m) /\ After(s, w, m)
    <3>1. After(p, v, m) /\ After(p, w, m)
      BY <2>4, SwitchesAfter
    <3> QED
      BY <2>4, <3>1
  <2> HIDE DEF v, w
  <2> QED
    BY <2>1, <2>3, <2>4, <2>5
<1> QED
  BY <1>2, <1>3, <1>4, <1>5, <1>6

\* Tun that is on for a profile that runs is asked for again after a wake.
LEMMA WakeTunAfter ==
  ASSUME wq \in Queue, NEW m, NEW s \in Working, Kept(s, m), s.tun
  PROVE LET t == StartVPN([s EXCEPT !.saves = FALSE], "wake")
        IN After(s, t, m) /\ SameProxy(s, t) /\ t.run = s.run
<1> DEFINE a == [s EXCEPT !.saves = FALSE]
           t == StartVPN(a, "wake")
<1>1. /\ a \in Working /\ ~a.saves /\ a.rem = s.rem /\ SameQueue(s, a)
      /\ SameRun(s, a) /\ SameProxy(s, a) /\ SameTun(s, a) /\ SameWaits(s, a) /\ SameHold(s, a)
  BY DEF Working, SameRun, SameProxy, SameTun, SameWaits, SameHold, SameQueue
<1> HIDE DEF a
<1>2. /\ t \in Working /\ t.pid /\ t.tun = a.tun
      /\ SameRun(a, t) /\ SameProxy(a, t) /\ SameWaits(a, t) /\ SameHold(a, t) /\ SameMemory(a, t)
      /\ IF a.pid THEN Queued(a, t, "none", "user") ELSE Queued(a, t, "tunStart", "wake")
  BY <1>1, StartDoes
<1> HIDE DEF t
<1>3. Queued(s, a, "none", "user")
  BY <1>1, NothingQueued DEF SameQueue, Ok
<1>4. IF s.pid THEN Queued(s, t, "none", "user") ELSE Queued(s, t, "tunStart", "wake")
  BY <1>1, <1>2, <1>3 DEF Queued, SameRun, SameTun
<1> USE DEF SameRun, SameProxy, SameTun, SameWaits, SameHold, SameMemory
<1>5. /\ t.run = s.run /\ t.starting = s.starting /\ t.stopping = s.stopping
      /\ t.sp = s.sp /\ t.parked = s.parked /\ SameWaits(s, t) /\ SameHold(s, t) /\ ~t.saves /\ t.rem = s.rem
      /\ t.tun /\ t.pid
  BY <1>1, <1>2
<1>6. ProxyKept(t, m) /\ ParkingKept(t, m)
  <2>1. /\ Ok(t) => Ok(s)
        /\ In(Ahead(t), Applies) <=> In(Ahead(s), Applies)
        /\ ProxyToBe(Ahead(t)) <=> ProxyToBe(Ahead(s))
    BY <1>4 DEF Queued
  <2> QED
    BY <1>5, <2>1 DEF Kept, ProxyKept, ParkingKept, Ending
<1>7. TunKept(t, m)
  BY <1>4, <1>5 DEF Kept, TunKept, TunSound, BackKept, Ending, Queued
<1>8. HoldKept(t, m) /\ MemoryKept(t, m)
  BY <1>4, <1>5 DEF Kept, HoldKept, MemoryKept, Queued
<1> QED
  BY <1>2, <1>5, <1>6, <1>7, <1>8 DEF After, Kept, t, a

\* So is a proxy that is on and not parked.
LEMMA WakeProxyAfter ==
  ASSUME wq \in Queue, NEW m, NEW s \in Working, Kept(s, m), s.sp, ~s.parked
  PROVE After(s, Call(s, "apply", "wake", FALSE, {}), m)
<1> DEFINE t == Call(s, "apply", "wake", FALSE, {})
<1>1. t \in Working /\ SameState(s, t) /\ Queued(s, t, "apply", "wake")
  BY CallDoes DEF Ops
<1> HIDE DEF t
<1> USE DEF SameState, SameRun, SameProxy, SameTun, SameWaits, SameHold, SameMemory
<1>2. ProxyKept(t, m)
  BY <1>1 DEF Kept, ProxyKept, Queued
<1>3. ParkingKept(t, m)
  BY <1>1 DEF Kept, ParkingKept, Ending, Queued
<1>4. TunKept(t, m)
  BY <1>1 DEF Kept, TunKept, TunSound, BackKept, Ending, Queued
<1>5. HoldKept(t, m) /\ MemoryKept(t, m)
  BY <1>1 DEF Kept, HoldKept, MemoryKept, Queued
<1> QED
  BY <1>1, <1>2, <1>3, <1>4, <1>5 DEF After, Kept, t

\* The repair after a wake.
LEMMA WokenAfter ==
  ASSUME wq \in Queue, link \in BOOLEAN, LinkSound, NEW m, NEW s \in Working, Kept(s, m),
         NEW c \in Sent, NEW ok \in BOOLEAN, NEW has
  PROVE After(s, Woken(s, c, ok, has), m)
<1> DEFINE fix == IF s.run THEN {i \in c.was \ has : ~(IF i = "proxy" THEN s.parked ELSE s.paused)} ELSE {}
           cond == ~(fix \subseteq On(s))
           k == Slip(s, cond, "off after sleep")
           b == StartVPN([k EXCEPT !.saves = FALSE], "wake")
           d == SetVpn(k, TRUE, FALSE)
           v == IF "vpn" \notin fix THEN k ELSE IF s.tun THEN b ELSE d
           e == Call(v, "apply", "wake", FALSE, {})
           f == SetProxy(v, TRUE, FALSE, FALSE)
<1>1. Woken(s, c, ok, has) = IF ~ok \/ ~link THEN s ELSE IF "proxy" \notin fix THEN v ELSE IF s.sp THEN e ELSE f
  BY DEF Woken
<1>2. "proxy" \in fix => ~s.parked
  OBVIOUS
<1>3. cond \in BOOLEAN
  OBVIOUS
<1> HIDE DEF fix
<1>4. k \in Working /\ SameState(s, k) /\ k.out = s.out /\ (Ok(k) => Ok(s))
  <2> HIDE DEF cond
  <2> QED
    BY <1>3, SlipDoes
<1> HIDE DEF cond, k
<1>5. After(s, k, m)
  <2>1. Queued(s, k, "none", "user")
    BY <1>4, NothingQueued
  <2> QED
    BY <1>4, <2>1, SameKept DEF After, Kept, TunKept, SameState, SameMemory
<1>6. After(s, v, m) /\ SameProxy(s, v)
  <2>1. SameProxy(s, k) /\ k.tun = s.tun /\ k \in Working /\ Kept(k, m)
    BY <1>4, <1>5 DEF SameState, SameTun, After
  <2>2. ASSUME s.tun PROVE After(k, b, m) /\ SameProxy(k, b)
    BY <2>1, <2>2, WakeTunAfter
  <2>3. After(k, d, m) /\ SameProxy(k, d)
    BY <2>1, SwitchesAfter
  <2> HIDE DEF b, d
  <2> QED
    BY <1>5, <2>1, <2>2, <2>3 DEF After, SameProxy
<1> HIDE DEF v
<1>7. ASSUME "proxy" \in fix, s.sp PROVE After(s, e, m)
  <2>1. After(v, e, m)
    BY <1>2, <1>6, <1>7, WakeProxyAfter DEF After, SameProxy
  <2> QED
    BY <1>6, <2>1 DEF After
<1>8. After(s, f, m)
  <2>1. After(v, f, m)
    BY <1>6, SwitchesAfter DEF After
  <2> QED
    BY <1>6, <2>1 DEF After
<1>9. After(s, s, m)
  BY DEF After
<1> QED
  BY <1>1, <1>6, <1>7, <1>8, <1>9

\* What comes after the head of the UI thread's queue, and what the worker still has.
LEMMA LaterMeans ==
  ASSUME wq \in Queue, mq \in Seq(Posts), mq # <<>>, NEW op \in {"apply", "tunStart"}
  PROVE ~Later(op) => ~In(wq, CallOf({op})) /\ ~In(Tail(mq), ReplyOf(op, BOOLEAN))
<1> SUFFICES ASSUME In(wq, CallOf({op})) \/ In(Tail(mq), ReplyOf(op, BOOLEAN)) PROVE Later(op)
  OBVIOUS
<1>1. CASE In(wq, CallOf({op}))
  <2>1. PICK i \in 1..Len(wq) : wq[i] \in CallOf({op})
    BY <1>1 DEF In
  <2>2. "op" \in DOMAIN wq[i] /\ wq[i].op = op
    BY <2>1 DEF CallOf, Sent, Calls
  <2> QED
    BY <2>1, <2>2 DEF Later
<1>2. CASE In(Tail(mq), ReplyOf(op, BOOLEAN))
  <2> DEFINE r == Tail(mq)
  <2>1. PICK i \in 1..Len(r) : r[i] \in ReplyOf(op, BOOLEAN)
    BY <1>2 DEF In
  <2>2. Len(r) = Len(mq) - 1 /\ r[i] = mq[i + 1] /\ Len(mq) \in Nat
    BY <2>1, HeadTailProperties, LenProperties
  <2> HIDE DEF r
  <2>3. i + 1 \in 2..Len(mq)
    BY <2>1, <2>2
  <2>4. mq[i + 1].m = "reply" /\ mq[i + 1].call.op = op
    BY <2>1, <2>2 DEF ReplyOf, Replies
  <2> QED
    BY <2>3, <2>4 DEF Later
<1> QED
  BY <1>1, <1>2

-----------------------------------------------------------------------------
(* From one handler to the next. *)

\* A message that was handled may leave the queue when the handler has done what the
\* message stood for.
LEMMA HandledKept ==
  ASSUME mq \in Seq(Posts), mq # <<>>, NEW s \in Working, Kept(s, mq),
         Head(mq) \notin Losses,
         Head(mq) \in Halts \cup StartFails => ~s.pid,
         Head(mq) \in Changes /\ s.run => ~s.parked /\ (s.tun => s.pid),
         Head(mq) \in Ends => ~s.inFlight /\ (s.run \/ ~s.waiting),
         Head(mq) \in Failures => s.run \/ s.timer
  PROVE Kept(s, Tail(mq))
<1> DEFINE e == Head(mq)  r == Tail(mq)
<1>1. \A S : In(mq, S) <=> e \in S \/ In(r, S)
  BY InTail
<1>2. \A T : \A S \in SUBSET T : Last(r, S, T) => Last(mq, S, T)
  BY LastTail
<1>3. e \notin Losses /\ (e \in Halts \/ e \in StartFails => ~s.pid)
  OBVIOUS
<1>4. e \in Changes /\ s.run => ~s.parked /\ (s.tun => s.pid)
  OBVIOUS
<1>5. e \in Ends => ~s.inFlight /\ (s.run \/ ~s.waiting)
  OBVIOUS
<1>6. e \in Failures => s.run \/ s.timer
  OBVIOUS
<1> HIDE DEF e, r
<1>7. Lost(mq) <=> Lost(r)
  BY <1>1, <1>3 DEF Lost
<1>8. Halted(mq) /\ s.pid => Halted(r)
  BY <1>1, <1>3 DEF Halted
<1>9. In(mq, StartFails) /\ s.pid => In(r, StartFails)
  BY <1>1, <1>3
<1>10. ~s.run /\ Ending(s, mq) => Ending(s, r)
  BY <1>1, <1>5, <1>6 DEF Ending
<1>11. ProxyKept(s, r)
  BY <1>1, <1>7 DEF Kept, ProxyKept
<1>12. ParkingKept(s, r)
  BY <1>1, <1>4, <1>10 DEF Kept, ParkingKept
<1>13. TunKept(s, r)
  <2>1. Last(r, StartFails, StartReplies) => Last(mq, StartFails, StartReplies)
    BY <1>2, Kinds
  <2>2. s.inFlight => s.stopping \/ In(r, Ends)
    BY <1>1, <1>5 DEF Kept, TunKept, TunSound
  <2>3. BackKept(s, r)
    BY <1>1, <1>4 DEF Kept, TunKept, BackKept
  <2>4. Ok(s) /\ ~Lost(r) /\ s.pid => TunToBe(Ahead(s)) \/ In(r, StartFails) \/ Halted(r)
    BY <1>7, <1>8, <1>9 DEF Kept, TunKept, TunSound
  <2> QED
    BY <1>7, <1>10, <2>1, <2>2, <2>3, <2>4 DEF Kept, TunKept, TunSound
<1>14. HoldKept(s, r)
  BY <1>1 DEF Kept, HoldKept
<1>15. MemoryKept(s, r)
  BY <1>2, Kinds DEF Kept, MemoryKept
<1> QED
  BY <1>11, <1>12, <1>13, <1>14, <1>15 DEF Kept, r

\* The same for the loss of the connection, which ends all that was under way.
LEMMA LossHandledKept ==
  ASSUME LinkTyped, LinkSound, mq # <<>>, NEW s \in Working, TunKept(s, mq), HoldKept(s, mq), MemoryKept(s, mq),
         Head(mq) \in Losses, ~s.sp, ~s.pid,
         Ok(s) => /\ ~h.conn /\ ~In(Tail(mq), ApplyFails)
                  /\ ~In(Ahead(s), Starts) /\ ~In(Ahead(s), Applies)
  PROVE Kept(s, Tail(mq))
<1> DEFINE e == Head(mq)  r == Tail(mq)
<1>1. mq \in Seq(Posts)
  BY DEF LinkTyped
<1>2. \A S : In(mq, S) <=> e \in S \/ In(r, S)
  BY <1>1, InTail
<1>3. \A T : \A S \in SUBSET T : Last(r, S, T) => Last(mq, S, T)
  BY <1>1, LastTail
<1>4. e \notin Ends /\ e \notin Changes /\ e \notin Failures
  BY DEF Losses, Ends, Changes, Failures
<1>5. ~In(r, ApplyFails) \/ ~Ok(s)
  OBVIOUS
<1> HIDE DEF e, r
<1>6. Ok(s) /\ ~Lost(r) => ~sess
  BY DEF Lost
<1>7. Ok(s) => ~TunToBe(Ahead(s))
  <2>1. ~In(Ahead(s), Starts) => ~Last(Ahead(s), Starts, TunCalls)
    BY DEF In, Last
  <2> QED
    BY <2>1 DEF TunToBe, LinkSound
<1>8. ProxyKept(s, r)
  BY <1>5, <1>6 DEF ProxyKept
<1>9. ParkingKept(s, r)
  BY DEF ParkingKept
<1>10. TunKept(s, r)
  <2>1. s.inFlight => s.stopping \/ In(r, Ends)
    BY <1>2, <1>4 DEF TunKept, TunSound
  <2>2. BackKept(s, r)
    BY <1>2, <1>4 DEF TunKept, BackKept
  <2> QED
    BY <1>7, <2>1, <2>2 DEF TunKept, TunSound, LinkSound
<1>11. HoldKept(s, r)
  BY <1>2 DEF HoldKept
<1>12. MemoryKept(s, r)
  BY <1>3, Kinds DEF MemoryKept
<1> QED
  BY <1>8, <1>9, <1>10, <1>11, <1>12 DEF Kept, r

\* A handler hands its calls to the worker.
LEMMA DoneDoes ==
  ASSUME wq \in Queue, NEW s \in Working, Do(s)
  PROVE /\ g' \in Working /\ g'.out = <<>> /\ g'.slip = s.slip /\ SameState(s, g')
        /\ wq' = Ahead(s) /\ wq' \in Queue /\ Ahead(g)' = Ahead(s)
        /\ In(wq', Losses) <=> In(wq, Losses)
        /\ In(wq', Halts) <=> In(wq, Halts)
<1> DEFINE t == [s EXCEPT !.out = <<>>]
<1>1. g' = t /\ wq' = Ahead(s)
  BY DEF Do, Ahead
<1>3. /\ t \in Working /\ t.out = <<>> /\ t.slip = s.slip /\ SameState(s, t)
  <2>1. <<>> \in Seq(Sent)
    OBVIOUS
  <2> QED
    BY <2>1 DEF Working, SameState, SameRun, SameProxy, SameTun, SameWaits, SameHold, SameMemory
<1> HIDE DEF t
<1>4. s.out \in Seq(Sent)
  BY DEF Working
<1>5. Ahead(s) \in Queue /\ \A S : In(Ahead(s), S) <=> In(wq, S) \/ In(s.out, S)
  <2> DEFINE X == Sent \cup [m : Signals]
  <2>1. s.out \in Seq(X) /\ wq \in Seq(X)
    BY <1>4, SeqMonotonic DEF Queue
  <2> HIDE DEF X
  <2>2. \A S : In(wq \o s.out, S) <=> In(wq, S) \/ In(s.out, S)
    BY <2>1, InConcat
  <2>3. wq \o s.out \in Seq(X)
    BY <2>1, ConcatProperties
  <2> QED
    BY <2>2, <2>3 DEF Ahead, Queue, X
<1>6. ~In(s.out, Losses) /\ ~In(s.out, Halts)
  <2>1. Sent \cap Losses = {} /\ Sent \cap Halts = {}
    BY DEF Sent, Calls, Losses, Halts
  <2>2. \A i \in 1..Len(s.out) : s.out[i] \in Sent
    BY <1>4, ElementOfSeq
  <2> QED
    BY <2>1, <2>2 DEF In
<1>7. In(wq', Losses) <=> In(wq, Losses)
  BY <1>1, <1>5, <1>6
<1>8. In(wq', Halts) <=> In(wq, Halts)
  BY <1>1, <1>5, <1>6
<1>9. Ahead(g)' = Ahead(s)
  <2>1. Ahead(s) \o <<>> = Ahead(s)
    BY <1>5, ConcatEmptySeq DEF Queue
  <2> QED
    BY <1>1, <1>3, <2>1 DEF Ahead
<1> QED
  BY <1>1, <1>3, <1>5, <1>7, <1>8, <1>9

\* What holds for the state a handler left holds when the handler is over.
LEMMA DoneKept ==
  ASSUME LinkTyped, LinkSound, acts' \in 0..MaxActs, NEW s \in Working, NEW m \in Seq(Posts), Kept(s, m), Do(s),
         Quiet, faults' \in 0..MaxFaults, mq' = m
  PROVE ModesInv'
<1>1. /\ g' \in Working /\ g'.out = <<>> /\ g'.slip = s.slip /\ SameState(s, g')
      /\ wq' = Ahead(s) /\ wq' \in Queue /\ Ahead(g)' = Ahead(s)
      /\ In(wq', Losses) <=> In(wq, Losses)
      /\ In(wq', Halts) <=> In(wq, Halts)
  BY DoneDoes DEF LinkTyped
<1>2. h' = h /\ wire' = wire /\ sess' = sess /\ link' = link /\ ready' = ready
  BY DEF Quiet
<1>10. (Lost(mq)' <=> Lost(m)) /\ (Halted(mq)' <=> Halted(m))
  BY <1>1, <1>2 DEF Lost, Halted
<1>11. LinkTyped' /\ LinkSound'
  <2>1. \A i \in 1..Len(wq') : wq'[i] \in Calls \cup [m : Signals]
    BY <1>1, ElementOfSeq DEF Queue, Sent
  <2> QED
    BY <1>1, <1>2, <2>1 DEF LinkTyped, LinkTypeOK, LinkSound
<1>12. (Ok(g)' <=> Ok(s)) /\ (Ending(g, mq)' <=> Ending(s, m))
  BY <1>1 DEF Ok, Ending, SameState, SameRun, SameWaits
<1>13. (ProxyToBe(Ahead(g))' <=> ProxyToBe(Ahead(s))) /\ (TunToBe(Ahead(g))' <=> TunToBe(Ahead(s)))
  BY <1>1, <1>2 DEF ProxyToBe, TunToBe
<1> USE DEF SameState, SameRun, SameProxy, SameTun, SameWaits, SameHold, SameMemory
<1>14. ProxyKept(g, mq)' /\ ParkingKept(g, mq)'
  BY <1>1, <1>2, <1>10, <1>12, <1>13 DEF Kept, ProxyKept, ParkingKept
<1>15. TunKept(g, mq)'
  BY <1>1, <1>2, <1>10, <1>12, <1>13 DEF Kept, TunKept, TunSound, BackKept
<1>16. HoldKept(g, mq)' /\ MemoryKept(g, mq)'
  BY <1>1, <1>2, <1>12 DEF Kept, HoldKept, MemoryKept
<1> QED
  BY <1>1, <1>11, <1>14, <1>15, <1>16 DEF ModesInv, Kept

-----------------------------------------------------------------------------
(* The handlers of the messages. *)

\* Tun is forgotten for a failed call that was the user's, or one more is under way.
Asker == ~Later("tunStart") =>
  Head(mq).m = "reply" /\ Head(mq).call.op = "tunStart" /\ Head(mq).call.by = "user"
Handled(s) == s \in Working /\ Kept(s, Tail(mq)) /\ ("vpn" \in g.rem /\ "vpn" \notin s.rem => Asker)

\* A message is of one kind.
LEMMA MessageKinds ==
  ASSUME NEW e \in Posts
  PROVE /\ e.m = "reply" <=> e \in Replies
        /\ e \in Losses <=> e.m = "lost"
        /\ e \in Halts <=> e.m = "stopped"
        /\ e \in Changes <=> e.m \in {"started", "stopDone"}
        /\ e \in Ends <=> e.m = "stopDone"
        /\ e \in Failures <=> e.m = "startFailed"
        /\ e \in StartFails <=> e.m = "reply" /\ e.call.op = "tunStart" /\ ~e.ok
        /\ e \in Replies => e.call \in Sent /\ e.ok \in BOOLEAN
        /\ e.m \in {"reply", "lost", "ready", "stopped", "started", "startFailed", "stopDone", "stop"}
<1>1. \A x \in Notes : x = [m |-> x.m] /\ x.m \in {"lost", "ready", "stopped", "started", "startFailed", "stopDone", "stop"}
  BY DEF Notes
<1>2. \A x \in Replies : x.m = "reply" /\ x.call \in Sent /\ x.ok \in BOOLEAN
  BY DEF Replies
<1>3. /\ e \in Losses <=> e = [m |-> "lost"]
      /\ e \in Halts <=> e = [m |-> "stopped"]
      /\ e \in Changes <=> e = [m |-> "started"] \/ e = [m |-> "stopDone"]
      /\ e \in Ends <=> e = [m |-> "stopDone"]
      /\ e \in Failures <=> e = [m |-> "startFailed"]
      /\ e \in StartFails <=> e \in Replies /\ e.call.op = "tunStart" /\ e.ok \in {FALSE}
  BY DEF Losses, Halts, Changes, Ends, Failures, StartFails, ReplyOf
<1>4. \A w : [m |-> w].m = w
  OBVIOUS
<1>5. CASE e \in Replies
  <2>1. e.m = "reply" /\ e.call \in Sent /\ e.ok \in BOOLEAN
    BY <1>2, <1>5
  <2>2. \A w : w # "reply" => e # [m |-> w]
    BY <1>4, <2>1
  <2>3. e # [m |-> "lost"] /\ e # [m |-> "stopped"] /\ e # [m |-> "started"]
        /\ e # [m |-> "stopDone"] /\ e # [m |-> "startFailed"]
    BY <2>2
  <2> QED
    BY <1>3, <1>5, <2>1, <2>3
<1>6. CASE e \in Notes
  <2>1. e = [m |-> e.m] /\ e.m \in {"lost", "ready", "stopped", "started", "startFailed", "stopDone", "stop"}
    BY <1>1, <1>6
  <2>2. \A w : e.m = w <=> e = [m |-> w]
    BY <1>4, <2>1
  <2>3. e.m # "reply" /\ e \notin Replies
    BY <1>2, <2>1
  <2> QED
    BY <1>3, <2>1, <2>2, <2>3
<1> QED
  BY <1>5, <1>6 DEF Posts

\* Replies.
LEMMA ReplyHandled ==
  ASSUME ModesInv, mq # <<>>, Head(mq) \in Replies
  PROVE Handled(OnReply(g, Head(mq).call, Head(mq).ok, Head(mq).has))
<1> DEFINE e == Head(mq)  c == e.call  ok == e.ok  has == e.has
           t == OnReply(g, c, ok, has)
<1>1. wq \in Queue /\ link \in BOOLEAN /\ LinkSound /\ g \in Working /\ Kept(g, mq) /\ mq \in Seq(Posts)
  BY DEF ModesInv, LinkTyped, LinkTypeOK
<1>2. e \in Posts /\ e \in Replies /\ c \in Sent /\ ok \in BOOLEAN /\ c.op \in Ops
  BY DEF Posts, Replies, Sent, Calls
<1>3. \A S : In(mq, S) <=> e \in S \/ In(Tail(mq), S)
  BY <1>1, InTail
<1>4. \A T : \A S \in SUBSET T : Last(mq, S, T) <=> Last(Tail(mq), S, T) \/ (e \in S /\ ~In(Tail(mq), T))
  BY <1>1, LastTail
<1>5. \A T : \A S \in SUBSET T : Last(Tail(mq), S, T) => In(Tail(mq), T)
  BY DEF Last, In
<1>6. Ahead(g) = wq
  BY <1>1, ConcatEmptySeq DEF Ahead, ModesInv, Queue
<1>14. t = OnReply(g, c, ok, has) /\ c = e.call /\ ok = e.ok
  OBVIOUS
<1> SUFFICES Handled(t)
  OBVIOUS
<1> HIDE DEF e, c, ok, has, t
<1>7. ASSUME t \in Working, Kept(t, mq), c.op = "tunStart" /\ ~ok => ~t.pid,
             "vpn" \in g.rem /\ "vpn" \notin t.rem => Asker
      PROVE Handled(t)
  <2>1. /\ e \notin Losses /\ e \notin Halts /\ e \notin Changes /\ e \notin Ends /\ e \notin Failures
        /\ (e \in StartFails => ~t.pid)
    BY <1>2, <1>7, <1>14, MessageKinds
  <2>2. Kept(t, Tail(mq))
    BY <1>1, <1>7, <2>1, HandledKept DEF e
  <2> QED
    BY <1>7, <2>2 DEF Handled
<1>8. CASE c.op = "tunStart"
  <2>1. e \in StartReplies /\ (~ok => e \in StartFails)
    BY <1>2, <1>8, <1>14 DEF StartReplies, StartFails, ReplyOf
  <2>2. Ok(g) /\ g.pending => g.tun
    BY <1>1, <1>3, <2>1 DEF Kept, HoldKept
  <2>3. ~Later("tunStart") => ~In(wq, Starts) /\ ~In(Tail(mq), StartReplies)
    BY <1>1, LaterMeans DEF Starts, StartReplies
  <2>4. ~ok /\ Ok(g) /\ ~Later("tunStart") /\ ~Lost(mq) => ~TunToBe(Ahead(g))
    <3>1. ~In(wq, Starts) => ~Last(wq, Starts, TunCalls)
      BY DEF In, Last
    <3>2. ~ok /\ ~Later("tunStart") => Last(mq, StartFails, StartReplies)
      BY <1>4, <2>1, <2>3, Kinds
    <3>3. ~ok /\ Ok(g) /\ ~Later("tunStart") /\ ~Lost(mq) => h.tun = "off"
      BY <1>1, <1>6, <2>3, <3>2 DEF Kept, TunKept, TunSound
    <3> QED
      BY <1>6, <2>3, <3>1, <3>3 DEF TunToBe
  <2> DEFINE x == TunStarted(g, c, ok)
  <2>5. /\ x \in Working /\ Kept(x, mq) /\ (~ok => ~x.pid)
        /\ "vpn" \in g.rem /\ (ok \/ ~g.saves) => "vpn" \in x.rem
    BY <1>1, <1>2, <2>2, <2>4, TunStartedKept
  <2>6. g.saves /\ ~Later("tunStart") => c.by = "user"
    <3>1. g.saves /\ ~In(wq, Starts) => ~Last(mq, NotForUser, StartReplies)
      BY <1>1, <1>6 DEF Kept, MemoryKept
    <3>2. g.saves /\ ~Later("tunStart") => e \notin NotForUser
      BY <1>4, <2>3, <3>1, Kinds
    <3> QED
      BY <1>14, <2>1, <3>2 DEF NotForUser
  <2>7. "vpn" \in g.rem /\ "vpn" \notin x.rem => Asker
    BY <1>2, <1>8, <1>14, <2>5, <2>6, MessageKinds DEF Asker, e
  <2>8. t = x
    BY <1>8, <1>14 DEF OnReply
  <2> QED
    BY <1>7, <2>5, <2>7, <2>8
<1>9. ASSUME After(g, t, mq), c.op # "tunStart" PROVE Handled(t)
  BY <1>7, <1>9 DEF After
<1>10. CASE c.op = "apply"
  <2>1. ~ok => e \in ApplyFails
    BY <1>2, <1>10, <1>14 DEF ApplyFails, ReplyOf
  <2>2. ~ok /\ Ok(g) => Lost(mq)
    BY <1>1, <1>3, <2>1 DEF Kept, ProxyKept
  <2>3. After(g, ProxyApplied(g, c, ok), mq)
    BY <1>1, <1>2, <2>2, ProxyAppliedAfter
  <2>4. t = ProxyApplied(g, c, ok)
    BY <1>10, <1>14 DEF OnReply
  <2> QED
    BY <1>9, <1>10, <2>3, <2>4
<1>11. CASE c.op = "probe"
  <2>1. After(g, Answered(g, c, ok, has), mq)
    BY <1>1, <1>2, AnsweredAfter
  <2>2. t = Answered(g, c, ok, has)
    BY <1>11, <1>14 DEF OnReply
  <2> QED
    BY <1>9, <1>11, <2>1, <2>2
<1>12. CASE c.op = "status"
  <2>1. After(g, Woken(g, c, ok, has), mq)
    BY <1>1, <1>2, WokenAfter
  <2>2. t = Woken(g, c, ok, has)
    BY <1>12, <1>14 DEF OnReply
  <2> QED
    BY <1>9, <1>12, <2>1, <2>2
<1>13. CASE c.op \in {"tunStop", "restore"}
  <2>1. t = g
    BY <1>13, <1>14 DEF OnReply
  <2> QED
    BY <1>1, <1>9, <1>13, <2>1 DEF After
<1> QED
  BY <1>2, <1>8, <1>10, <1>11, <1>12, <1>13 DEF Ops

\* Signals of the helper and what the threads of the profile post.
LEMMA NoteHandled ==
  ASSUME ModesInv, mq # <<>>
  PROVE /\ Head(mq).m = "ready" => Handled(TunIsReady(g))
        /\ Head(mq).m = "stopped" =>
             Handled(TunStopped(Slip(g, h.tun # "off" \/ Later("tunStart"), "late loss")))
        /\ Head(mq).m = "lost" => Handled(HelperLost(g))
        /\ Head(mq).m = "started" => Handled(ProfileStarted(g))
        /\ Head(mq).m = "startFailed" => Handled(ProfileStartFailed(g))
        /\ Head(mq).m = "stopDone" => Handled(ProfileStopped(g))
        /\ Head(mq).m = "stop" => Handled(Stop(g))
<1> DEFINE e == Head(mq)
<1>1. /\ wq \in Queue /\ link \in BOOLEAN /\ h.conn \in BOOLEAN /\ LinkSound /\ g \in Working /\ Kept(g, mq)
      /\ mq \in Seq(Posts) /\ g.out = <<>> /\ (h.conn => sess)
  BY DEF ModesInv, LinkTyped, LinkTypeOK, LinkSound
<1>2. e \in Posts
  BY <1>1, HeadTailProperties
<1>3. Ahead(g) = wq
  BY <1>1, ConcatEmptySeq DEF Ahead, Queue
<1>4. /\ e \in Losses <=> e.m = "lost"
      /\ e \in Halts <=> e.m = "stopped"
      /\ e \in Changes <=> e.m \in {"started", "stopDone"}
      /\ e \in Ends <=> e.m = "stopDone"
      /\ e \in Failures <=> e.m = "startFailed"
      /\ e \in StartFails => e.m = "reply"
  BY <1>2, MessageKinds
<1>5. ~Later("tunStart") => ~In(wq, Starts)
  BY <1>1, LaterMeans DEF Starts
<1> HIDE DEF e
<1>6. ASSUME NEW t \in Working, Kept(t, mq), t.rem = g.rem, e.m # "lost", e.m # "reply",
             e.m = "stopped" => ~t.pid,
             e.m \in {"started", "stopDone"} /\ t.run => ~t.parked /\ (t.tun => t.pid),
             e.m = "stopDone" => ~t.inFlight /\ (t.run \/ ~t.waiting),
             e.m = "startFailed" => t.run \/ t.timer
      PROVE Handled(t)
  <2>1. Kept(t, Tail(mq))
    BY <1>1, <1>4, <1>6, HandledKept DEF e
  <2> QED
    BY <1>6, <2>1 DEF Handled
<1>7. ASSUME e.m = "ready" PROVE Handled(TunIsReady(g))
  <2> DEFINE s == [g EXCEPT !.tunTimer = FALSE]
             t == Complete(s)
  <2>1. s \in Working /\ SameState(g, s) /\ SameQueue(g, s)
    BY <1>1 DEF Working, SameState, SameRun, SameProxy, SameTun, SameWaits, SameHold, SameMemory, SameQueue
  <2> HIDE DEF s
  <2>2. Kept(s, mq)
    <3>1. Queued(g, s, "none", "user")
      BY <2>1, NothingQueued DEF SameQueue, Ok
    <3> QED
      BY <1>1, <2>1, <3>1, SameKept DEF Kept, TunKept
  <2>3. HoldOnly(s, t) /\ Kept(t, mq)
    BY <2>1, <2>2, CompleteKept
  <2> HIDE DEF t
  <2>4. t \in Working /\ t.rem = g.rem
    BY <2>1, <2>3 DEF HoldOnly, SameMemory, SameState
  <2>5. Handled(t)
    BY <1>6, <1>7, <2>3, <2>4
  <2> QED
    BY <2>5 DEF TunIsReady, s, t
<1>8. ASSUME e.m = "stopped"
      PROVE Handled(TunStopped(Slip(g, h.tun # "off" \/ Later("tunStart"), "late loss")))
  <2> DEFINE cond == h.tun # "off" \/ Later("tunStart")
             s == Slip(g, cond, "late loss")
             t == TunStopped(s)
  <2>1. cond \in BOOLEAN
    BY DEF Later
  <2>2. ~cond => ~TunToBe(wq)
    <3>1. ~In(wq, Starts) => ~Last(wq, Starts, TunCalls)
      BY DEF In, Last
    <3> QED
      BY <1>5, <3>1 DEF TunToBe
  <2> HIDE DEF cond
  <2>3. s \in Working /\ SameState(g, s) /\ s.out = g.out /\ (Ok(s) => Ok(g) /\ ~cond)
    BY <1>1, <2>1, SlipDoes
  <2> HIDE DEF s
  <2>4. Kept(s, mq) /\ Ahead(s) = wq
    <3>1. Queued(g, s, "none", "user")
      BY <2>3, NothingQueued
    <3>2. Ahead(s) = wq
      BY <1>3, <2>3 DEF Ahead
    <3> QED
      BY <1>1, <2>3, <3>1, <3>2, SameKept DEF Kept, TunKept
  <2>5. /\ TunGone(s, t, FALSE) /\ TunKept(t, mq) /\ HoldKept(t, mq) /\ MemoryKept(t, mq)
        /\ ProxyKept(t, mq) /\ ParkingKept(t, mq)
    <3>1. TunSound(s, mq) /\ HoldKept(s, mq) /\ MemoryKept(s, mq) /\ ProxyKept(s, mq) /\ ParkingKept(s, mq)
      BY <2>4 DEF Kept, TunKept
    <3> QED
      BY <1>1, <2>2, <2>3, <2>4, <3>1, TunStoppedKept
  <2> HIDE DEF t
  <2>6. t \in Working /\ ~t.pid /\ Kept(t, mq) /\ ("vpn" \in g.rem => "vpn" \in t.rem)
    BY <2>3, <2>5 DEF TunGone, Kept, SameState, SameMemory
  <2>7. Kept(t, Tail(mq))
    BY <1>1, <1>4, <1>8, <2>6, HandledKept DEF e
  <2>8. Handled(t)
    BY <2>6, <2>7 DEF Handled
  <2> QED
    BY <2>8 DEF t, s, cond
<1>9. ASSUME e.m = "lost" PROVE Handled(HelperLost(g))
  <2> DEFINE t == HelperLost(g)
  <2>1. Lost(mq)
    <3>1. In(mq, Losses)
      BY <1>1, <1>4, <1>9, InTail DEF e
    <3> QED
      BY <3>1 DEF Lost
  <2>2. TunKept(g, mq) /\ HoldKept(g, mq) /\ MemoryKept(g, mq)
    BY <1>1 DEF Kept
  <2>3. /\ t \in Working /\ TunKept(t, mq) /\ HoldKept(t, mq) /\ MemoryKept(t, mq)
        /\ ~t.sp /\ ~t.pid
        /\ Ok(t) => Ok(g) /\ ~h.conn /\ ~Later("apply") /\ ~Later("tunStart")
        /\ In(Ahead(t), Starts) <=> In(Ahead(g), Starts)
        /\ In(Ahead(t), Applies) <=> In(Ahead(g), Applies)
        /\ "vpn" \in g.rem => "vpn" \in t.rem
    BY <1>1, <2>1, <2>2, HelperLostKept
  <2> HIDE DEF t
  <2>4. ~Later("apply") => ~In(wq, Applies) /\ ~In(Tail(mq), ReplyOf("apply", BOOLEAN))
    BY <1>1, LaterMeans DEF Applies
  <2>5. In(Tail(mq), ApplyFails) => In(Tail(mq), ReplyOf("apply", BOOLEAN))
    BY DEF In, ApplyFails, ReplyOf
  <2>6. Ok(t) => ~h.conn /\ ~In(Tail(mq), ApplyFails) /\ ~In(Ahead(t), Starts) /\ ~In(Ahead(t), Applies)
    BY <1>3, <1>5, <2>3, <2>4, <2>5
  <2>7. LinkTyped
    BY DEF ModesInv
  <2>8. Kept(t, Tail(mq))
    BY <1>1, <1>4, <1>9, <2>3, <2>6, <2>7, LossHandledKept DEF e
  <2>9. Handled(t)
    BY <2>3, <2>8 DEF Handled
  <2> QED
    BY <2>9 DEF t
<1>10. ASSUME e.m = "started" PROVE Handled(ProfileStarted(g))
  <2> DEFINE t == ProfileStarted(g)
  <2>1. t \in Working /\ Kept(t, mq) /\ ~t.parked /\ (t.tun => t.pid) /\ t.rem = g.rem
    BY <1>1, StartedKept
  <2> HIDE DEF t
  <2>2. Handled(t)
    BY <1>6, <1>10, <2>1
  <2> QED
    BY <2>2 DEF t
<1>11. ASSUME e.m = "startFailed" PROVE Handled(ProfileStartFailed(g))
  <2> DEFINE t == ProfileStartFailed(g)
  <2>1. t \in Working /\ Kept(t, mq) /\ (t.run \/ t.timer) /\ t.rem = g.rem
    BY <1>1, StartFailedKept
  <2> HIDE DEF t
  <2>2. Handled(t)
    BY <1>6, <1>11, <2>1
  <2> QED
    BY <2>2 DEF t
<1>12. ASSUME e.m = "stopDone" PROVE Handled(ProfileStopped(g))
  <2> DEFINE t == ProfileStopped(g)
  <2>1. /\ t \in Working /\ Kept(t, mq) /\ ~t.inFlight /\ t.rem = g.rem
        /\ IF t.run THEN ~t.parked /\ (t.tun => t.pid) ELSE ~t.waiting
    BY <1>1, StoppedKept
  <2> HIDE DEF t
  <2>2. Handled(t)
    BY <1>6, <1>12, <2>1
  <2> QED
    BY <2>2 DEF t
<1>13. ASSUME e.m = "stop" PROVE Handled(Stop(g))
  <2> DEFINE t == Stop(g)
  <2>1. Kept(t, mq)
    BY <1>1, StopKept
  <2>2. t \in Working /\ t.rem = g.rem
    <3>1. g.pid => g.tun
      BY <1>1 DEF Kept, TunKept, TunSound
    <3> QED
      BY <1>1, <3>1, StopEffect DEF SameMemory
  <2> HIDE DEF t
  <2>3. Handled(t)
    BY <1>6, <1>13, <2>1, <2>2
  <2> QED
    BY <2>3 DEF t
<1> QED
  BY <1>7, <1>8, <1>9, <1>10, <1>11, <1>12, <1>13 DEF e

\* The UI thread handles a message.
LEMMA DeliverKept ==
  ASSUME ModesInv, Deliver
  PROVE ModesInv' /\ ("vpn" \in g.rem /\ "vpn" \notin g'.rem => Asker)
<1>1. /\ mq # <<>> /\ mq' = Tail(mq) /\ Quiet /\ faults' = faults /\ acts' = acts
  BY DEF Deliver, Fine
<1>2. Head(mq) \in Posts /\ Tail(mq) \in Seq(Posts)
  BY <1>1, HeadTailProperties DEF ModesInv, LinkTyped
<1>3. Head(mq).m \in {"reply", "lost", "ready", "stopped", "started", "startFailed", "stopDone", "stop"}
      /\ (Head(mq).m = "reply" <=> Head(mq) \in Replies)
  BY <1>2, MessageKinds
<1>4. PICK s : Do(s) /\ Handled(s)
  <2>1. CASE Head(mq).m = "reply"
    BY <1>1, <1>3, <2>1, ReplyHandled DEF Deliver
  <2>2. CASE Head(mq).m = "ready"
    BY <1>1, <2>2, NoteHandled DEF Deliver
  <2>3. CASE Head(mq).m = "stopped"
    BY <1>1, <2>3, NoteHandled DEF Deliver
  <2>4. CASE Head(mq).m = "lost"
    BY <1>1, <2>4, NoteHandled DEF Deliver
  <2>5. CASE Head(mq).m = "started"
    BY <1>1, <2>5, NoteHandled DEF Deliver
  <2>6. CASE Head(mq).m = "startFailed"
    BY <1>1, <2>6, NoteHandled DEF Deliver
  <2>7. CASE Head(mq).m = "stopDone"
    BY <1>1, <2>7, NoteHandled DEF Deliver
  <2>8. CASE Head(mq).m = "stop"
    BY <1>1, <2>8, NoteHandled DEF Deliver
  <2> QED
    BY <1>3, <2>1, <2>2, <2>3, <2>4, <2>5, <2>6, <2>7, <2>8
<1>5. s \in Working /\ Kept(s, Tail(mq))
  BY <1>4 DEF Handled
<1>6. LinkTyped /\ LinkSound /\ acts' \in 0..MaxActs /\ faults' \in 0..MaxFaults
  BY <1>1 DEF ModesInv, LinkTyped, LinkTypeOK
<1>7. ModesInv'
  BY <1>1, <1>2, <1>4, <1>5, <1>6, DoneKept
<1>8. g'.rem = s.rem
  BY <1>4, <1>5 DEF Do, Working
<1> QED
  BY <1>4, <1>7, <1>8 DEF Handled

-----------------------------------------------------------------------------
(* The other actions of the UI thread. *)

\* What the handlers need of the invariant.
LEMMA AtRest ==
  ASSUME ModesInv
  PROVE /\ wq \in Queue /\ mq \in Seq(Posts) /\ link \in BOOLEAN /\ h.conn \in BOOLEAN
        /\ LinkTyped /\ LinkSound /\ (h.conn => sess)
        /\ g \in Working /\ Kept(g, mq) /\ g.out = <<>> /\ Ahead(g) = wq
        /\ acts \in 0..MaxActs /\ faults \in 0..MaxFaults
<1>1. wq \in Queue /\ g.out = <<>>
  BY DEF ModesInv, LinkTyped
<1>2. Ahead(g) = wq
  BY <1>1, ConcatEmptySeq DEF Ahead, Queue
<1> QED
  BY <1>1, <1>2 DEF ModesInv, LinkTyped, LinkTypeOK, LinkSound

\* A handler that is no message's.
LEMMA ActKept ==
  ASSUME ModesInv, NEW s \in Working, Kept(s, mq), Do(s), Quiet, mq' = mq,
         acts' \in 0..MaxActs, faults' \in 0..MaxFaults
  PROVE ModesInv'
  BY AtRest, DoneKept

\* What no part of the invariant speaks of may change.
LEMMA AsideKept ==
  ASSUME NEW m, NEW s \in Working, NEW t \in Working, Kept(s, m), SameState(s, t), t.out = s.out, Ok(t) => Ok(s)
  PROVE Kept(t, m)
<1>1. Queued(s, t, "none", "user")
  BY NothingQueued
<1> QED
  BY <1>1, SameKept DEF Kept, TunKept

\* An input of the user.
LEMMA InputKept ==
  ASSUME ModesInv, NEW i \in Inputs, Input(i)
  PROVE ModesInv' /\ acts' # acts
<1>1. /\ Quiet /\ mq' = mq /\ faults' \in 0..MaxFaults /\ acts' \in 0..MaxActs /\ acts' # acts
  <2>1. Quiet /\ mq' = mq /\ faults' = faults /\ acts < MaxActs /\ acts' = acts + 1
    BY DEF Input, Fine
  <2>2. acts \in 0..MaxActs /\ faults \in 0..MaxFaults /\ MaxActs \in Nat
    BY AtRest, ModesAssumption
  <2> QED
    BY <2>1, <2>2
<1>2. CASE i = "proxy"
  <2>1. PICK on \in BOOLEAN : on = ~g.sp
    OBVIOUS
  <2> DEFINE t == SetProxy(g, on, TRUE, FALSE)
  <2>2. ProxyOnly(g, t) /\ Kept(t, mq)
    BY AtRest, SetProxyKept
  <2>3. Do(t)
    BY <1>2, <2>1 DEF Input
  <2> QED
    BY <1>1, <2>2, <2>3, ActKept DEF ProxyOnly
<1>3. CASE i = "vpn"
  <2> DEFINE s == Slip(g, g.pending, "off while starting up")
  <2>1. PICK on \in BOOLEAN : on = ~g.tun
    OBVIOUS
  <2>2. g.pending \in BOOLEAN /\ g \in Working
    BY AtRest DEF Working
  <2>3. s \in Working /\ SameState(g, s) /\ s.out = g.out /\ (Ok(s) => Ok(g) /\ ~g.pending)
    BY <2>2, SlipDoes
  <2> DEFINE t == SetVpn(s, on, TRUE)
  <2>4. Do(t)
    BY <1>3, <2>1 DEF Input
  <2> HIDE DEF s
  <2>5. Kept(s, mq)
    BY <2>3, AtRest, AsideKept
  <2>6. TunOnly(s, t, on, TRUE) /\ Kept(t, mq)
    <3>1. PICK save \in BOOLEAN : save = TRUE
      OBVIOUS
    <3>2. TunSound(s, mq) /\ HoldKept(s, mq) /\ MemoryKept(s, mq) /\ BackKept(s, mq)
          /\ ProxyKept(s, mq) /\ ParkingKept(s, mq)
      BY <2>5 DEF Kept, TunKept
    <3>3. Ok(s) /\ ~on => ~s.pending
      BY <2>3 DEF SameState, SameHold
    <3> DEFINE x == SetVpn(s, on, save)
    <3>4. /\ TunOnly(s, x, on, save) /\ TunSound(x, mq) /\ HoldKept(x, mq) /\ MemoryKept(x, mq)
          /\ ProxyKept(s, mq) /\ ParkingKept(s, mq) => ProxyKept(x, mq) /\ ParkingKept(x, mq)
          /\ (on => BackKept(s, mq)) => BackKept(x, mq)
      BY <2>3, <3>2, <3>3, AtRest, SetVpnKept
    <3> QED
      BY <3>1, <3>2, <3>4 DEF Kept, TunKept
  <2> QED
    BY <1>1, <2>4, <2>6, ActKept DEF TunOnly
<1>4. CASE i = "start"
  <2> DEFINE t == Begin(g)
  <2>1. t \in Working /\ Begun(g, t) /\ t.deferred = g.deferred
    BY AtRest, BeginDoes
  <2>2. Do(t)
    BY <1>4 DEF Input
  <2> HIDE DEF t
  <2>3. t.work \/ t.deferred => t.pending \/ t.failed
    BY <2>1, AtRest DEF Begun, Kept, HoldKept
  <2>4. Kept(t, mq)
    BY <2>1, <2>3, AtRest, BegunKept
  <2> QED
    BY <1>1, <2>1, <2>2, <2>4, ActKept
<1>5. CASE i = "stop"
  <2>1. Kept(Stop(g), mq)
    BY AtRest, StopKept
  <2>2. Stop(g) \in Working
    <3>1. g.pid => g.tun
      BY AtRest DEF Kept, TunKept, TunSound
    <3> QED
      BY <3>1, AtRest, StopEffect
  <2>3. Do(Stop(g))
    BY <1>5 DEF Input
  <2> QED
    BY <1>1, <2>1, <2>2, <2>3, ActKept
<1>6. CASE i = "sleep"
  <2> DEFINE t == [g EXCEPT !.slept = On(g)]
  <2>1. On(g) \in SUBSET Modes /\ g \in Working
    BY AtRest DEF On, Modes
  <2>2. t \in Working /\ SameState(g, t) /\ SameQueue(g, t)
    BY <2>1 DEF Working, SameState, SameRun, SameProxy, SameTun, SameWaits, SameHold, SameMemory, SameQueue
  <2>3. Do(t)
    BY <1>6 DEF Input
  <2> HIDE DEF t
  <2>4. Kept(t, mq)
    BY <2>2, AtRest, AsideKept DEF SameQueue, Ok
  <2> QED
    BY <1>1, <2>2, <2>3, <2>4, ActKept
<1> QED
  BY <1>1, <1>2, <1>3, <1>4, <1>5, <1>6, ModesAssumption

\* The grace period ends, or the startup probe has not answered, or the machine woke.
LEMMA TimersKept ==
  ASSUME ModesInv, GraceTimeout \/ SafetyTimeout \/ WakeCheck
  PROVE ModesInv' /\ ("vpn" \in g.rem => "vpn" \in g'.rem)
<1>1. /\ Quiet /\ mq' = mq /\ faults' \in 0..MaxFaults /\ acts' \in 0..MaxActs
  <2>1. Quiet /\ mq' = mq /\ acts' = acts /\ (faults' = faults \/ (faults < MaxFaults /\ faults' = faults + 1))
    BY DEF GraceTimeout, SafetyTimeout, WakeCheck, Here, Fine, Fault
  <2>2. acts \in 0..MaxActs /\ faults \in 0..MaxFaults /\ MaxFaults \in Nat
    BY AtRest, LinkAssumption
  <2> QED
    BY <2>1, <2>2
<1>2. ASSUME NEW t, After(g, t, mq), Do(t) PROVE ModesInv' /\ ("vpn" \in g.rem => "vpn" \in g'.rem)
  <2>1. ModesInv'
    BY <1>1, <1>2, ActKept DEF After
  <2>2. g'.rem = t.rem
    BY <1>2 DEF Do, After, Working
  <2> QED
    BY <1>2, <2>1, <2>2 DEF After
<1>3. CASE GraceTimeout
  <2>1. GraceOver(g) \in Working /\ Kept(GraceOver(g), mq) /\ GraceOver(g).rem = g.rem
    BY AtRest, GraceKept
  <2>2. Do(GraceOver(g))
    BY <1>3 DEF GraceTimeout
  <2> QED
    BY <1>2, <2>1, <2>2 DEF After
<1>4. CASE SafetyTimeout
  <2>1. After(g, Probed(g, "silent"), mq)
    BY AtRest, ProbedAfter
  <2>2. Do(Probed(g, "silent"))
    BY <1>4 DEF SafetyTimeout
  <2> QED
    BY <1>2, <2>1, <2>2
<1>5. CASE WakeCheck
  <2> DEFINE s == [g EXCEPT !.slept = {}]
             t == Call(s, "status", "user", FALSE, g.slept)
  <2>1. Do(t)
    BY <1>5 DEF WakeCheck
  <2>2. g \in Working /\ g.slept \in SUBSET {"proxy", "vpn"}
    BY AtRest DEF Working, Modes
  <2>3. s \in Working /\ SameState(g, s) /\ SameQueue(g, s)
    BY <2>2 DEF Working, SameState, SameRun, SameProxy, SameTun, SameWaits, SameHold, SameMemory, SameQueue
  <2> HIDE DEF s
  <2>4. Kept(s, mq)
    BY <2>3, AtRest, AsideKept DEF SameQueue, Ok
  <2>5. t \in Working /\ SameState(s, t) /\ Queued(s, t, "status", "user")
    <3>1. "status" \in Ops /\ "status" # "tunStart"
      BY DEF Ops
    <3> QED
      BY <2>2, <2>3, <3>1, AtRest, CallDoes
  <2> HIDE DEF t
  <2>6. Queued(s, t, "none", "user")
    BY <2>5 DEF Queued
  <2>7. Kept(t, mq)
    BY <2>4, <2>5, <2>6, SameKept DEF Kept, TunKept
  <2>8. After(g, t, mq)
    BY <2>3, <2>5, <2>7 DEF After, SameState, SameMemory
  <2> QED
    BY <1>2, <2>1, <2>8
<1> QED
  BY <1>3, <1>4, <1>5

\* The Tun of the startup has not come up in time: it is stopped and the block begins.
LEMMA TunTimeoutKept ==
  ASSUME ModesInv, TunTimeout
  PROVE ModesInv' /\ ("vpn" \in g.rem => "vpn" \in g'.rem)
<1> DEFINE s == [g EXCEPT !.tunTimer = FALSE]
           c == Call(s, "tunStop", "nobody", FALSE, {})
           u == [c EXCEPT !.pid = FALSE]
           t == IF s.pending THEN TunFailed(c) ELSE s
<1>1. /\ Quiet /\ mq' = mq /\ faults' \in 0..MaxFaults /\ acts' \in 0..MaxActs
  <2>1. Quiet /\ mq' = mq /\ acts' = acts /\ (faults' = faults \/ (faults < MaxFaults /\ faults' = faults + 1))
    BY DEF TunTimeout, Here, Fine, Fault
  <2>2. acts \in 0..MaxActs /\ faults \in 0..MaxFaults /\ MaxFaults \in Nat
    BY AtRest, LinkAssumption
  <2> QED
    BY <2>1, <2>2
<1>2. Do(t)
  BY DEF TunTimeout
<1>3. s \in Working /\ SameState(g, s) /\ SameQueue(g, s)
  <2>1. g \in Working
    BY AtRest
  <2> QED
    BY <2>1 DEF Working, SameState, SameRun, SameProxy, SameTun, SameWaits, SameHold, SameMemory, SameQueue
<1> HIDE DEF s
<1>4. Kept(s, mq)
  BY <1>3, AtRest, AsideKept DEF SameQueue, Ok
<1>5. c \in Working /\ SameState(s, c) /\ Queued(s, c, "tunStop", "nobody")
  <2>1. "tunStop" \in Ops /\ "tunStop" # "tunStart"
    BY DEF Ops
  <2> QED
    BY <1>3, <2>1, AtRest, CallDoes
<1> HIDE DEF c
<1>6. /\ u \in Working /\ ~u.pid /\ u.tun = c.tun /\ SameRun(c, u) /\ SameProxy(c, u) /\ SameWaits(c, u)
      /\ SameHold(c, u) /\ SameMemory(c, u) /\ SameQueue(c, u)
  BY <1>5 DEF Working, SameRun, SameProxy, SameWaits, SameHold, SameMemory, SameQueue
<1>7. TunFailed(c) = TunFailed(u)
  <2>1. [u EXCEPT !.pid = FALSE, !.tunTimer = FALSE] = [c EXCEPT !.pid = FALSE, !.tunTimer = FALSE]
    BY <1>5 DEF Working
  <2> QED
    BY <2>1 DEF TunFailed
<1> HIDE DEF u
<1>8. TunSound(u, mq) /\ HoldKept(u, mq) /\ MemoryKept(u, mq) /\ ProxyKept(u, mq) /\ ParkingKept(u, mq)
      /\ ~TunToBe(Ahead(u))
  <2>1. Queued(c, u, "none", "user")
    BY <1>6, NothingQueued DEF SameQueue, Ok
  <2>2. /\ Ok(u) => Ok(s)
        /\ In(Ahead(u), Applies) <=> In(Ahead(s), Applies)
        /\ In(Ahead(u), Starts) <=> In(Ahead(s), Starts)
        /\ ProxyToBe(Ahead(u)) <=> ProxyToBe(Ahead(s))
        /\ ~TunToBe(Ahead(u))
        /\ Last(Ahead(u), NotByUser, Starts) <=> Last(Ahead(s), NotByUser, Starts)
    BY <1>5, <2>1 DEF Queued
  <2> USE DEF SameState, SameRun, SameProxy, SameTun, SameWaits, SameHold, SameMemory
  <2>3. ProxyKept(u, mq) /\ ParkingKept(u, mq)
    BY <1>4, <1>5, <1>6, <2>2 DEF Kept, ProxyKept, ParkingKept, Ending
  <2>4. TunSound(u, mq)
    BY <1>4, <1>5, <1>6, <2>2 DEF Kept, TunKept, TunSound
  <2>5. HoldKept(u, mq) /\ MemoryKept(u, mq)
    BY <1>4, <1>5, <1>6, <2>2 DEF Kept, HoldKept, MemoryKept
  <2> QED
    BY <2>2, <2>3, <2>4, <2>5
<1>9. CASE s.pending
  <2> DEFINE x == TunFailed(u)
  <2>1. u.pending
    BY <1>5, <1>6, <1>9 DEF SameState, SameHold
  <2>2. TunGone(u, x, FALSE) /\ Kept(x, mq)
    BY <1>6, <1>8, <2>1, AtRest, TunFailedKept DEF Kept
  <2>3. t = x
    BY <1>7, <1>9
  <2> HIDE DEF x, t
  <2>4. t \in Working /\ ("vpn" \in u.rem => "vpn" \in t.rem)
    BY <2>2, <2>3 DEF TunGone
  <2>5. u.rem = g.rem
    BY <1>3, <1>5, <1>6 DEF SameState, SameMemory
  <2>6. ModesInv'
    BY <1>1, <1>2, <2>2, <2>3, <2>4, ActKept
  <2>7. g'.rem = t.rem
    BY <1>2, <2>4 DEF Do, Working
  <2> QED
    BY <2>4, <2>5, <2>6, <2>7
<1>10. CASE ~s.pending
  <2>1. t = s
    BY <1>10
  <2> HIDE DEF t
  <2>2. ModesInv'
    BY <1>1, <1>2, <1>3, <1>4, <2>1, ActKept
  <2>3. g'.rem = g.rem
    BY <1>2, <1>3, <2>1 DEF Do, Working, SameState, SameMemory
  <2> QED
    BY <2>2, <2>3
<1> QED
  BY <1>9, <1>10

-----------------------------------------------------------------------------
(* The helper and the client's socket. *)

\* What only the threads of the UI and the replies bring, and what the helper's signals
\* leave alone of the two queues.
Heard == Replies \cup {[m |-> "started"], [m |-> "startFailed"], [m |-> "stopDone"], [m |-> "stop"]}
CallsSame ==
  /\ \A S \in SUBSET Sent : In(wq', S) <=> In(wq, S)
  /\ \A T \in SUBSET Sent : \A S \in SUBSET T : Last(wq', S, T) <=> Last(wq, S, T)
PostsSame ==
  /\ \A S \in SUBSET Heard : In(mq', S) <=> In(mq, S)
  /\ \A T \in SUBSET Heard : \A S \in SUBSET T : Last(mq', S, T) <=> Last(mq, S, T)

\* Every kind of call is a call, and every kind of reply a reply.
LEMMA KindsOf ==
  /\ Applies \in SUBSET Sent /\ ProxyCalls \in SUBSET Sent /\ Starts \in SUBSET Sent
  /\ TunCalls \in SUBSET Sent /\ NotByUser \in SUBSET Sent
  /\ ApplyFails \in SUBSET Heard /\ StartFails \in SUBSET Heard /\ StartReplies \in SUBSET Heard
  /\ NotForUser \in SUBSET Heard /\ Ends \in SUBSET Heard /\ Changes \in SUBSET Heard /\ Failures \in SUBSET Heard
<1>1. /\ Applies \in SUBSET Sent /\ ProxyCalls \in SUBSET Sent /\ Starts \in SUBSET Sent
      /\ TunCalls \in SUBSET Sent /\ NotByUser \in SUBSET Sent
  BY DEF Applies, ProxyCalls, Starts, TunCalls, NotByUser, CallOf
<1>2. /\ ApplyFails \in SUBSET Heard /\ StartFails \in SUBSET Heard /\ StartReplies \in SUBSET Heard
      /\ NotForUser \in SUBSET Heard
  BY DEF ApplyFails, StartFails, StartReplies, NotForUser, ReplyOf, Heard
<1>3. Ends \in SUBSET Heard /\ Changes \in SUBSET Heard /\ Failures \in SUBSET Heard
  BY DEF Ends, Changes, Failures, Heard
<1> QED
  BY <1>1, <1>2, <1>3

\* A signal is no call, and none of what the threads post.
LEMMA SignalsAside ==
  /\ \A x \in [m : Signals] : x \notin Sent /\ x \notin Heard /\ x \in Posts
  /\ Losses \in SUBSET [m : Signals] /\ Halts \in SUBSET [m : Signals]
<1>1. \A x \in [m : Signals] : x \notin Sent
  BY DEF Sent, Calls
<1>2. \A x \in [m : Signals] : x = [m |-> x.m] /\ x.m \in {"lost", "ready", "stopped"}
  BY DEF Signals
<1>3. \A x \in Heard : x.m \in {"reply", "started", "startFailed", "stopDone", "stop"}
  BY DEF Heard, Replies
<1>4. \A x \in [m : Signals] : x \in Posts
  BY DEF Posts, Notes, Signals
<1> QED
  BY <1>1, <1>2, <1>3, <1>4 DEF Losses, Halts, Signals

\* Signals behind the calls.
LEMMA SignalsBehind ==
  ASSUME NEW q \in Queue, NEW p \in Seq([m : Signals])
  PROVE /\ q \o p \in Queue
        /\ \A S : In(q \o p, S) <=> In(q, S) \/ In(p, S)
        /\ \A S \in SUBSET Sent : In(q \o p, S) <=> In(q, S)
        /\ \A T \in SUBSET Sent : \A S \in SUBSET T : Last(q \o p, S, T) <=> Last(q, S, T)
<1> DEFINE X == Sent \cup [m : Signals]
<1>1. q \in Seq(X) /\ p \in Seq(X)
  BY SeqMonotonic DEF Queue
<1>2. \A i \in 1..Len(p) : p[i] \notin Sent
  BY SignalsAside, ElementOfSeq
<1> HIDE DEF X
<1>3. \A S \in SUBSET Sent : ~In(p, S)
  BY <1>2 DEF In
<1>4. q \o p \in Seq(X)
  BY <1>1, ConcatProperties
<1>5. \A S : In(q \o p, S) <=> In(q, S) \/ In(p, S)
  BY <1>1, InConcat
<1>6. \A T \in SUBSET Sent : \A S \in SUBSET T : Last(q \o p, S, T) <=> Last(q, S, T)
  BY <1>1, <1>3, LastConcat
<1> QED
  BY <1>3, <1>4, <1>5, <1>6 DEF Queue, X

\* Where the switches do nothing, the invariant rests on the helper and the connection.
LEMMA FrameKept ==
  ASSUME ModesInv, g' = g, acts' = acts, CallsSame, PostsSame, LinkTyped', LinkSound',
         Lost(mq) => Lost(mq)',
         sess => sess' \/ Lost(mq)',
         ~Lost(mq)' => /\ sess' => sess /\ link' = link
                       /\ h.conn' => h.conn /\ h.proxy' = h.proxy
                       /\ h.tun = "off" => h.tun' = "off"
                       /\ h.tun # "off" => h.tun' # "off" \/ Halted(mq)'
                       /\ h.tun' = "up" => h.tun = "up" \/ g.run
                       /\ Halted(mq) => Halted(mq)'
  PROVE ModesInv'
<1>1. /\ g \in Working /\ g.out = <<>> /\ Kept(g, mq) /\ Ahead(g) = wq /\ acts \in 0..MaxActs
  BY AtRest
<1>2. Ahead(g)' = wq'
  BY <1>1, ConcatEmptySeq DEF Ahead, LinkTyped, Queue
<1>3. /\ In(wq', Applies) <=> In(wq, Applies)
      /\ In(wq', ProxyCalls) <=> In(wq, ProxyCalls)
      /\ In(wq', Starts) <=> In(wq, Starts)
      /\ In(wq', TunCalls) <=> In(wq, TunCalls)
      /\ Last(wq', Applies, ProxyCalls) <=> Last(wq, Applies, ProxyCalls)
      /\ Last(wq', Starts, TunCalls) <=> Last(wq, Starts, TunCalls)
      /\ Last(wq', NotByUser, Starts) <=> Last(wq, NotByUser, Starts)
  BY Kinds, KindsOf DEF CallsSame
<1>4. /\ In(mq', ApplyFails) <=> In(mq, ApplyFails)
      /\ In(mq', StartFails) <=> In(mq, StartFails)
      /\ In(mq', StartReplies) <=> In(mq, StartReplies)
      /\ In(mq', Ends) <=> In(mq, Ends)
      /\ In(mq', Changes) <=> In(mq, Changes)
      /\ In(mq', Failures) <=> In(mq, Failures)
      /\ Last(mq', StartFails, StartReplies) <=> Last(mq, StartFails, StartReplies)
      /\ Last(mq', NotForUser, StartReplies) <=> Last(mq, NotForUser, StartReplies)
  BY Kinds, KindsOf DEF PostsSame
<1>5. Ending(g, mq)' <=> Ending(g, mq)
  BY <1>4 DEF Ending
<1>6. ProxyKept(g, mq)'
  <2>1. ~Lost(mq)' /\ h.conn' => (ProxyToBe(wq)' <=> ProxyToBe(wq))
    BY <1>3 DEF ProxyToBe
  <2> QED
    BY <1>1, <1>2, <1>3, <1>4, <2>1 DEF Kept, ProxyKept, Ok
<1>7. ParkingKept(g, mq)'
  BY <1>1, <1>4, <1>5 DEF Kept, ParkingKept, Ok
<1>8. TunKept(g, mq)'
  <2>1. ~Lost(mq)' /\ TunToBe(wq)' => TunToBe(wq)
    BY <1>3 DEF TunToBe
  <2>2. ~Lost(mq)' /\ TunToBe(wq) => TunToBe(wq)' \/ Halted(mq)'
    BY <1>3 DEF TunToBe
  <2>3. BackKept(g, mq)'
    BY <1>1, <1>4 DEF Kept, TunKept, BackKept, Ok
  <2>4. TunSound(g, mq)'
    BY <1>1, <1>2, <1>3, <1>4, <1>5, <2>1, <2>2 DEF Kept, TunKept, TunSound, Ok
  <2> QED
    BY <2>3, <2>4 DEF TunKept
<1>9. HoldKept(g, mq)' /\ MemoryKept(g, mq)'
  BY <1>1, <1>2, <1>3, <1>4 DEF Kept, HoldKept, MemoryKept, Ok
<1> QED
  BY <1>1, <1>6, <1>7, <1>8, <1>9 DEF ModesInv, Kept

\* The types of the link after a step that adds signals to the worker's queue.
LEMMA LinkTypes ==
  ASSUME wq' \in Queue, mq' \in Seq(Posts), wire' \in Seq(Events), faults' \in 0..MaxFaults,
         h' \in [inst : BOOLEAN, up : BOOLEAN, conn : BOOLEAN, tun : {"off", "coming", "up"}, proxy : BOOLEAN],
         h'.conn => h'.up /\ h'.inst, sess' \in BOOLEAN, link' \in BOOLEAN, ready' \in BOOLEAN
  PROVE LinkTyped'
<1>1. \A i \in 1..Len(wq') : wq'[i] \in Calls \cup [m : Signals]
  BY ElementOfSeq DEF Queue, Sent
<1>2. \A i \in 1..Len(wire') : wire'[i] \in [m : {"ready", "stopped"}]
  BY ElementOfSeq DEF Events
<1> QED
  BY <1>1, <1>2 DEF LinkTyped, LinkTypeOK

\* The helper dies, or starts again.
LEMMA HelperRestartKept ==
  ASSUME ModesInv, HelperDies \/ HelperStarts, g' = g, acts' = acts
  PROVE ModesInv'
<1> DEFINE H == [inst : BOOLEAN, up : BOOLEAN, conn : BOOLEAN, tun : {"off", "coming", "up"}, proxy : BOOLEAN]
<1>1. /\ h \in H /\ (h.conn => h.up /\ h.inst) /\ sess \in BOOLEAN /\ link \in BOOLEAN /\ ready \in BOOLEAN
      /\ wire \in Seq(Events) /\ wq \in Queue /\ mq \in Seq(Posts) /\ faults \in 0..MaxFaults /\ LinkSound
  BY DEF ModesInv, LinkTyped, LinkTypeOK
<1>2. /\ sess' = sess /\ wq' = wq /\ link' = link /\ ready' = ready /\ mq' = mq
      /\ h'.inst = h.inst /\ h' \in H /\ ~h'.conn /\ h'.tun = "off"
      /\ (h'.up => ~h'.proxy) /\ (h'.up => h'.inst)
      /\ wire' \in {wire, <<>>} /\ (wire' = wire => ~h.conn \/ wire = <<>>)
  <2>1. CASE HelperDies
    BY <1>1, <2>1 DEF HelperDies, Dead
  <2>2. CASE HelperStarts
    BY <1>1, <2>2 DEF HelperStarts, LinkSound
  <2> QED
    BY <2>1, <2>2
<1>3. faults' \in 0..MaxFaults
  BY <1>1, LinkAssumption DEF HelperDies, HelperStarts, Fault
<1>5. wire' = <<>>
  BY <1>1, <1>2 DEF LinkSound
<1>4. LinkTyped'
  <2>1. wire' \in Seq(Events) /\ wq' \in Queue /\ mq' \in Seq(Posts)
    BY <1>1, <1>2, <1>5
  <2>2. sess' \in BOOLEAN /\ link' \in BOOLEAN /\ ready' \in BOOLEAN /\ h' \in H /\ ~h'.conn
    BY <1>1, <1>2
  <2> QED
    BY <1>3, <2>1, <2>2, LinkTypes
<1> HIDE DEF H
<1>6. LinkSound'
  BY <1>1, <1>2, <1>5 DEF LinkSound
<1>7. CallsSame /\ PostsSame
  BY <1>2 DEF CallsSame, PostsSame
<1>8. Lost(mq)' <=> sess \/ Lost(mq)
  BY <1>2 DEF Lost
<1>9. ~sess => wire = <<>> /\ h.tun = "off"
  BY <1>1 DEF LinkSound
<1>10. ~sess => (Halted(mq) => Halted(mq)')
  BY <1>2, <1>5, <1>9 DEF Halted
<1> QED
  BY <1>2, <1>4, <1>6, <1>7, <1>8, <1>9, <1>10, FrameKept

\* The Tun that was asked for comes up, or gives up.
LEMMA TunSettlesKept ==
  ASSUME ModesInv, TunSettles(g.run), g' = g, acts' = acts
  PROVE ModesInv'
<1> DEFINE H == [inst : BOOLEAN, up : BOOLEAN, conn : BOOLEAN, tun : {"off", "coming", "up"}, proxy : BOOLEAN]
<1>1. /\ h \in H /\ (h.conn => h.up /\ h.inst) /\ sess \in BOOLEAN /\ link \in BOOLEAN /\ ready \in BOOLEAN
      /\ wire \in Seq(Events) /\ wq \in Queue /\ mq \in Seq(Posts) /\ faults \in 0..MaxFaults /\ LinkSound
  BY DEF ModesInv, LinkTyped, LinkTypeOK
<1>2. /\ sess' = sess /\ wq' = wq /\ link' = link /\ ready' = ready /\ mq' = mq /\ h.tun = "coming"
  BY DEF TunSettles
<1>3. PICK w \in Events : wire' = Append(wire, w)
  <2>1. Signal("ready") \in Events /\ Signal("stopped") \in Events
    BY DEF Signal, Events
  <2> QED
    BY <2>1 DEF TunSettles
<1>4. h' \in H /\ h'.inst = h.inst /\ h'.up = h.up /\ h'.conn = h.conn /\ h'.proxy = h.proxy
  BY <1>1 DEF TunSettles
<1>5. \/ h'.tun = "up" /\ g.run
      \/ h'.tun = "off" /\ wire' = Append(wire, Signal("stopped"))
  BY <1>1 DEF TunSettles
<1>6. faults' \in 0..MaxFaults
  BY <1>1, LinkAssumption DEF TunSettles, Fault
<1> HIDE DEF H
<1>7. h.conn /\ sess
  BY <1>1, <1>2 DEF LinkSound
<1>8. wire' \in Seq(Events) /\ \A S : In(wire', S) <=> In(wire, S) \/ w \in S
  BY <1>1, <1>3, InAppend, AppendProperties
<1>9. LinkTyped'
  BY <1>1, <1>2, <1>4, <1>6, <1>8, LinkTypes DEF H
<1>10. LinkSound'
  BY <1>1, <1>2, <1>4, <1>7 DEF LinkSound
<1>11. CallsSame /\ PostsSame
  BY <1>2 DEF CallsSame, PostsSame
<1>12. Lost(mq)' <=> Lost(mq)
  BY <1>2, <1>4 DEF Lost
<1>13. Halted(mq) => Halted(mq)'
  BY <1>2, <1>8 DEF Halted
<1>14. h'.tun # "off" \/ Halted(mq)'
  <2>1. ASSUME wire' = Append(wire, Signal("stopped")) PROVE In(wire', Halts)
    <3>1. Signal("stopped") \in Events /\ Signal("stopped") \in Halts
      BY DEF Signal, Events, Halts
    <3> QED
      BY <1>1, <2>1, <3>1, InAppend
  <2> QED
    BY <1>5, <2>1 DEF Halted
<1> QED
  BY <1>2, <1>4, <1>5, <1>9, <1>10, <1>11, <1>12, <1>13, <1>14, FrameKept

\* The client reads the events, or notices that the connection is gone.
LEMMA ReadKept ==
  ASSUME ModesInv, Read, g' = g, acts' = acts
  PROVE ModesInv'
<1>1. /\ LinkTypeOK /\ wire \in Seq(Events) /\ wq \in Queue /\ mq \in Seq(Posts) /\ LinkSound
      /\ sess \in BOOLEAN /\ h.conn \in BOOLEAN
  BY DEF ModesInv, LinkTyped, LinkTypeOK
<1>2. /\ wq' = wq \o Noticed /\ wire' = <<>> /\ sess' = (sess /\ h.conn)
      /\ h' = h /\ link' = link /\ ready' = ready /\ mq' = mq /\ faults' = faults
  BY DEF Read
<1>3. Noticed \in Seq([m : Signals]) /\ (Gone => In(Noticed, Losses)) /\ (~Gone => Noticed = wire)
  <2>1. Signal("lost") \in [m : Signals] /\ Signal("lost") \in Losses /\ Events \subseteq [m : Signals]
    BY DEF Signal, Signals, Losses, Events
  <2>2. wire \in Seq([m : Signals])
    BY <1>1, <2>1, SeqMonotonic
  <2>3. In(<<Signal("lost")>>, Losses)
    BY <2>1 DEF In
  <2>4. <<Signal("lost")>> \in Seq([m : Signals])
    BY <2>1
  <2>5. Noticed = IF Gone THEN <<Signal("lost")>> ELSE wire
    BY DEF Noticed
  <2>6. CASE Gone
    BY <2>3, <2>4, <2>5, <2>6
  <2>7. CASE ~Gone
    BY <2>2, <2>5, <2>7
  <2> QED
    BY <2>6, <2>7
<1>4. /\ wq' \in Queue
      /\ \A S : In(wq', S) <=> In(wq, S) \/ In(Noticed, S)
      /\ CallsSame
  BY <1>1, <1>2, <1>3, SignalsBehind DEF CallsSame
<1>5. PostsSame
  BY <1>2 DEF PostsSame
<1>6. LinkTyped'
  <2>1. sess' \in BOOLEAN /\ wire' \in Seq(Events) /\ mq' \in Seq(Posts)
    BY <1>1, <1>2
  <2>2. /\ h' \in [inst : BOOLEAN, up : BOOLEAN, conn : BOOLEAN, tun : {"off", "coming", "up"}, proxy : BOOLEAN]
        /\ h'.conn => h'.up /\ h'.inst
        /\ link' \in BOOLEAN /\ ready' \in BOOLEAN /\ faults' \in 0..MaxFaults
    BY <1>1, <1>2 DEF LinkTypeOK
  <2> QED
    BY <1>4, <2>1, <2>2, LinkTypes
<1>7. Gone => Lost(mq)'
  BY <1>3, <1>4 DEF Lost
<1>8. LinkSound'
  BY <1>1, <1>2, <1>3, <1>4 DEF LinkSound, Gone
<1>9. Lost(mq) => Lost(mq)'
  BY <1>2, <1>4, <1>7 DEF Lost, Gone
<1>10. ~Gone => (Halted(mq) => Halted(mq)')
  BY <1>2, <1>3, <1>4 DEF Halted
<1> QED
  BY <1>1, <1>2, <1>4, <1>5, <1>6, <1>7, <1>8, <1>9, <1>10, FrameKept DEF Gone

\* A signal passes from the worker to the UI thread.
LEMMA PassKept ==
  ASSUME ModesInv, Pass, g' = g, acts' = acts
  PROVE ModesInv'
<1> DEFINE e == Head(wq)  X == Sent \cup [m : Signals]
<1>1. /\ LinkTypeOK /\ wire \in Seq(Events) /\ wq \in Queue /\ mq \in Seq(Posts) /\ LinkSound
      /\ sess \in BOOLEAN /\ link \in BOOLEAN
  BY DEF ModesInv, LinkTyped, LinkTypeOK
<1>2. /\ wq # <<>> /\ "m" \in DOMAIN e /\ wq' = Tail(wq) /\ mq' = Append(mq, e)
      /\ link' = (link /\ e.m # "lost") /\ h' = h /\ wire' = wire /\ sess' = sess /\ ready' = ready /\ faults' = faults
  BY DEF Pass
<1>3. wq \in Seq(X) /\ e \in X /\ Tail(wq) \in Seq(X)
  BY <1>1, <1>2, HeadTailProperties DEF Queue
<1>4. e \in [m : Signals] /\ (e \in Losses <=> e.m = "lost")
  <2>1. \A x \in Sent : "m" \notin DOMAIN x
    BY DEF Sent, Calls
  <2>2. e \in [m : Signals]
    BY <1>2, <1>3, <2>1
  <2> QED
    BY <2>2 DEF Losses
<1> HIDE DEF e, X
<1>5. e \notin Sent /\ e \notin Heard /\ e \in Posts
  BY <1>4, SignalsAside
<1>6. /\ \A S : In(wq, S) <=> e \in S \/ In(wq', S)
      /\ \A T : \A S \in SUBSET T : Last(wq, S, T) <=> Last(wq', S, T) \/ (e \in S /\ ~In(wq', T))
  BY <1>2, <1>3, InTail, LastTail DEF e
<1>7. /\ \A S : In(mq', S) <=> In(mq, S) \/ e \in S
      /\ \A T : \A S \in SUBSET T : Last(mq', S, T) <=> IF e \in T THEN e \in S ELSE Last(mq, S, T)
      /\ mq' \in Seq(Posts)
  BY <1>1, <1>2, <1>5, InAppend, LastAppend, AppendProperties
<1>8. CallsSame /\ PostsSame
  BY <1>5, <1>6, <1>7 DEF CallsSame, PostsSame
<1>9. (Lost(mq)' <=> Lost(mq)) /\ (Halted(mq)' <=> Halted(mq))
  BY <1>2, <1>6, <1>7 DEF Lost, Halted
<1>10. LinkTyped'
  <2>1. /\ h' \in [inst : BOOLEAN, up : BOOLEAN, conn : BOOLEAN, tun : {"off", "coming", "up"}, proxy : BOOLEAN]
        /\ h'.conn => h'.up /\ h'.inst
        /\ ready' \in BOOLEAN /\ faults' \in 0..MaxFaults
    BY <1>1, <1>2 DEF LinkTypeOK
  <2>2. wq' \in Queue /\ wire' \in Seq(Events) /\ sess' \in BOOLEAN /\ link' \in BOOLEAN
    BY <1>1, <1>2, <1>3 DEF Queue, X
  <2> QED
    BY <1>7, <2>1, <2>2, LinkTypes
<1>11. LinkSound'
  BY <1>1, <1>2, <1>4, <1>6 DEF LinkSound
<1>12. ~Lost(mq)' => link' = link
  BY <1>1, <1>2, <1>4, <1>7 DEF Lost
<1> QED
  BY <1>2, <1>8, <1>9, <1>10, <1>11, <1>12, FrameKept

-----------------------------------------------------------------------------
(* The threads that start and stop the profile. *)

\* What a thread posts is behind what the UI thread has to handle, and is no reply.
Behind(p, m) ==
  /\ m \in Seq(Posts)
  /\ In(m, ApplyFails) <=> In(mq, ApplyFails)
  /\ In(m, StartFails) <=> In(mq, StartFails)
  /\ In(m, StartReplies) <=> In(mq, StartReplies)
  /\ Last(m, StartFails, StartReplies) <=> Last(mq, StartFails, StartReplies)
  /\ Last(m, NotForUser, StartReplies) <=> Last(mq, NotForUser, StartReplies)
  /\ In(m, Ends) <=> In(mq, Ends) \/ In(p, Ends)
  /\ In(m, Changes) <=> In(mq, Changes) \/ In(p, Changes)
  /\ In(m, Failures) <=> In(mq, Failures) \/ In(p, Failures)
  /\ Lost(m) <=> Lost(mq)
  /\ Halted(m) <=> Halted(mq)

\* That is so of the queue with it.
LEMMA PostsAfter ==
  ASSUME ModesInv, NEW p \in Seq(Heard \ Replies)
  PROVE Behind(p, mq \o p)
<1> DEFINE m == mq \o p
<1>1. mq \in Seq(Posts) /\ p \in Seq(Posts)
  <2>1. Heard \ Replies \subseteq Posts
    BY DEF Heard, Posts, Notes
  <2> QED
    BY <2>1, SeqMonotonic DEF ModesInv, LinkTyped
<1>2. \A i \in 1..Len(p) : p[i] \in Heard /\ p[i] \notin Replies
  BY ElementOfSeq
<1>3. /\ m \in Seq(Posts)
      /\ \A S : In(m, S) <=> In(mq, S) \/ In(p, S)
  BY <1>1, InConcat, ConcatProperties
<1>4. \A S \in SUBSET Replies : ~In(p, S)
  BY <1>2 DEF In
<1>5. \A T \in SUBSET Replies : \A S \in SUBSET T : Last(m, S, T) <=> Last(mq, S, T)
  BY <1>1, <1>4, LastConcat
<1>6. ~In(p, Losses) /\ ~In(p, Halts)
  BY <1>2, SignalsAside DEF In
<1> HIDE DEF m
<1>7. (Lost(m) <=> Lost(mq)) /\ (Halted(m) <=> Halted(mq))
  BY <1>3, <1>6 DEF Lost, Halted
<1>8. /\ ApplyFails \in SUBSET Replies /\ StartFails \in SUBSET Replies /\ StartReplies \in SUBSET Replies
      /\ NotForUser \in SUBSET Replies
  BY DEF ApplyFails, StartFails, StartReplies, NotForUser, ReplyOf
<1> QED
  BY <1>3, <1>4, <1>5, <1>7, <1>8, Kinds DEF m, Behind

\* A thread's step is a handler that calls nothing and posts.
LEMMA ThreadKept ==
  ASSUME ModesInv, NEW s \in Working, s.out = <<>>, NEW p \in Seq(Heard \ Replies), Thread(s, p),
         faults' \in 0..MaxFaults, Kept(s, mq \o p)
  PROVE ModesInv'
<1>1. [s EXCEPT !.out = <<>>] = s
  BY DEF Working
<1>2. wq \o s.out = wq
  BY AtRest, ConcatEmptySeq DEF Queue
<1>3. Do(s) /\ Quiet /\ mq' = mq \o p /\ acts' = acts
  BY <1>1, <1>2 DEF Thread, Do
<1>4. mq \o p \in Seq(Posts)
  BY PostsAfter DEF Behind
<1> QED
  BY <1>3, <1>4, AtRest, DoneKept

\* A profile is replaced by the next one: the first is gone, the second not there yet.
LEMMA ReplaceKept ==
  ASSUME ModesInv, Replace
  PROVE ModesInv' /\ g'.rem = g.rem
<1> DEFINE s == [g EXCEPT !.run = FALSE]
           p == <<Signal("stopDone")>>
           m == mq \o p
<1>1. g \in Working /\ g.out = <<>> /\ Kept(g, mq) /\ faults \in 0..MaxFaults
  BY AtRest
<1>2. g.starting /\ g.run /\ ~g.stopping /\ Thread(s, p) /\ faults' = faults
  BY DEF Replace, Fine
<1>3. /\ s \in Working /\ ~s.run /\ s.starting = g.starting /\ s.stopping = g.stopping
      /\ SameProxy(g, s) /\ SameTun(g, s) /\ SameWaits(g, s) /\ SameHold(g, s) /\ SameMemory(g, s) /\ SameQueue(g, s)
  BY <1>1 DEF Working, SameProxy, SameTun, SameWaits, SameHold, SameMemory, SameQueue
<1>4. p \in Seq(Heard \ Replies) /\ In(p, Ends)
  <2>1. Signal("stopDone") \in Heard \ Replies /\ Signal("stopDone") \in Ends
    BY DEF Signal, Heard, Replies, Ends
  <2> QED
    BY <2>1 DEF In
<1> HIDE DEF s, p
<1>5. Behind(p, m)
  BY <1>4, PostsAfter
<1> HIDE DEF m
<1>6. Queued(g, s, "none", "user")
  BY <1>3, NothingQueued DEF SameQueue, Ok
<1> USE DEF SameProxy, SameTun, SameWaits, SameHold, SameMemory
<1>8. ProxyKept(s, m)
  BY <1>1, <1>3, <1>5, <1>6 DEF Kept, ProxyKept, Queued, Behind
<1>9. ParkingKept(s, m)
  BY <1>1, <1>2, <1>3 DEF ParkingKept, Ending
<1>10. TunKept(s, m)
  BY <1>1, <1>2, <1>3, <1>4, <1>5, <1>6 DEF Kept, TunKept, TunSound, BackKept, Ending, Queued, Behind
<1>11. HoldKept(s, m) /\ MemoryKept(s, m)
  BY <1>1, <1>2, <1>3, <1>5, <1>6 DEF Kept, HoldKept, MemoryKept, Queued, Behind
<1>12. ModesInv'
  <2>1. s.out = <<>> /\ Kept(s, mq \o p)
    BY <1>1, <1>3, <1>8, <1>9, <1>10, <1>11 DEF Kept, SameQueue, m
  <2> QED
    BY <1>1, <1>2, <1>3, <1>4, <2>1, ThreadKept
<1> QED
  BY <1>2, <1>3, <1>12 DEF Thread

\* A start that failed leaves no profile; the UI thread is told.
LEMMA FailedStartKept ==
  ASSUME ModesInv, g.starting, g.run => g.stopping, faults' \in 0..MaxFaults,
         NEW p \in Seq(Heard \ Replies), In(p, Failures), Thread([g EXCEPT !.starting = FALSE], p)
  PROVE ModesInv' /\ g'.rem = g.rem
<1> DEFINE s == [g EXCEPT !.starting = FALSE]
           m == mq \o p
<1>1. g \in Working /\ g.out = <<>> /\ Kept(g, mq)
  BY AtRest
<1>2. Thread(s, p)
  OBVIOUS
<1>3. /\ s \in Working /\ ~s.starting /\ s.run = g.run /\ s.stopping = g.stopping
      /\ SameProxy(g, s) /\ SameTun(g, s) /\ SameWaits(g, s) /\ SameHold(g, s) /\ SameMemory(g, s) /\ SameQueue(g, s)
  BY <1>1 DEF Working, SameProxy, SameTun, SameWaits, SameHold, SameMemory, SameQueue
<1> HIDE DEF s
<1>4. Behind(p, m)
  BY PostsAfter
<1> HIDE DEF m
<1>5. Queued(g, s, "none", "user")
  BY <1>3, NothingQueued DEF SameQueue, Ok
<1> USE DEF SameProxy, SameTun, SameWaits, SameHold, SameMemory
<1>6. ProxyKept(s, m)
  BY <1>1, <1>3, <1>4, <1>5 DEF Kept, ProxyKept, Queued, Behind
<1>7. ParkingKept(s, m)
  BY <1>1, <1>3, <1>4, <1>5 DEF Kept, ParkingKept, Ending, Queued, Behind
<1>8. TunKept(s, m)
  BY <1>1, <1>3, <1>4, <1>5 DEF Kept, TunKept, TunSound, BackKept, Ending, Queued, Behind
<1>9. HoldKept(s, m) /\ MemoryKept(s, m)
  BY <1>1, <1>3, <1>4, <1>5 DEF Kept, HoldKept, MemoryKept, Queued, Behind
<1>10. ModesInv'
  <2>1. s.out = <<>> /\ Kept(s, mq \o p)
    BY <1>1, <1>3, <1>6, <1>7, <1>8, <1>9 DEF Kept, SameQueue, m
  <2> QED
    BY <1>2, <1>3, <2>1, ThreadKept
<1> QED
  BY <1>2, <1>3, <1>10 DEF Thread

\* A profile that started runs while its modes are still paused; the UI thread is told.
LEMMA StartedProfileKept ==
  ASSUME ModesInv, g.starting, faults' \in 0..MaxFaults,
         NEW p \in Seq(Heard \ Replies), In(p, Changes),
         Thread([g EXCEPT !.starting = FALSE, !.run = TRUE], p)
  PROVE ModesInv' /\ g'.rem = g.rem
<1> DEFINE s == [g EXCEPT !.starting = FALSE, !.run = TRUE]
           m == mq \o p
<1>1. g \in Working /\ g.out = <<>> /\ Kept(g, mq)
  BY AtRest
<1>2. Thread(s, p)
  OBVIOUS
<1>3. /\ s \in Working /\ ~s.starting /\ s.run /\ s.stopping = g.stopping
      /\ SameProxy(g, s) /\ SameTun(g, s) /\ SameWaits(g, s) /\ SameHold(g, s) /\ SameMemory(g, s) /\ SameQueue(g, s)
  <2>1. s \in Working
    <3> DEFINE a == [g EXCEPT !.starting = FALSE]
    <3>1. a \in Working
      BY <1>1 DEF Working
    <3>2. s = [a EXCEPT !.run = TRUE]
      BY <1>1 DEF Working
    <3> HIDE DEF a, s
    <3> QED
      BY <3>1, <3>2 DEF Working
  <2>2. ~s.starting /\ s.run /\ s.stopping = g.stopping /\ SameProxy(g, s) /\ SameTun(g, s) /\ SameWaits(g, s)
    BY <1>1 DEF Working, SameProxy, SameTun, SameWaits
  <2>3. SameHold(g, s) /\ SameMemory(g, s) /\ SameQueue(g, s)
    BY <1>1 DEF Working, SameHold, SameMemory, SameQueue
  <2> QED
    BY <2>1, <2>2, <2>3
<1> HIDE DEF s
<1>4. Behind(p, m)
  BY PostsAfter
<1> HIDE DEF m
<1>5. Queued(g, s, "none", "user")
  BY <1>3, NothingQueued DEF SameQueue, Ok
<1> USE DEF SameProxy, SameTun, SameWaits, SameHold, SameMemory
<1>6. ProxyKept(s, m)
  BY <1>1, <1>3, <1>4, <1>5 DEF Kept, ProxyKept, Queued, Behind
<1>7. ParkingKept(s, m)
  BY <1>1, <1>3, <1>4, <1>5 DEF Kept, ParkingKept, Ending, Queued, Behind
<1>8. TunKept(s, m)
  BY <1>1, <1>3, <1>4, <1>5 DEF Kept, TunKept, TunSound, BackKept, Ending, Queued, Behind
<1>9. HoldKept(s, m) /\ MemoryKept(s, m)
  BY <1>1, <1>3, <1>4, <1>5 DEF Kept, HoldKept, MemoryKept, Queued, Behind
<1>10. ModesInv'
  <2>1. s.out = <<>> /\ Kept(s, mq \o p)
    BY <1>1, <1>3, <1>6, <1>7, <1>8, <1>9 DEF Kept, SameQueue, m
  <2> QED
    BY <1>2, <1>3, <2>1, ThreadKept
<1> QED
  BY <1>2, <1>3, <1>10 DEF Thread

\* A stop ends: the profile is gone, or it would not stop.
LEMMA StopEndedKept ==
  ASSUME ModesInv, g.stopping, faults' \in 0..MaxFaults,
         NEW s \in Working, ~s.stopping, s.starting = g.starting, SameProxy(g, s), SameTun(g, s),
         SameWaits(g, s), SameHold(g, s), SameMemory(g, s), s.out = g.out,
         Ok(s) => Ok(g) /\ (s.run => ~g.failed),
         NEW p \in Seq(Heard \ Replies), In(p, Ends), In(p, Changes), Thread(s, p)
  PROVE ModesInv' /\ g'.rem = g.rem
<1> DEFINE m == mq \o p
<1>1. g \in Working /\ g.out = <<>> /\ Kept(g, mq) /\ g.run
  BY AtRest DEF Kept, TunKept, TunSound
<1>2. Behind(p, m)
  BY PostsAfter
<1> HIDE DEF m
<1>3. Queued(g, s, "none", "user")
  BY NothingQueued
<1> USE DEF SameProxy, SameTun, SameWaits, SameHold, SameMemory
<1>4. ProxyKept(s, m)
  BY <1>1, <1>2, <1>3 DEF Kept, ProxyKept, Queued, Behind
<1>5. ParkingKept(s, m)
  BY <1>1, <1>2, <1>3 DEF Kept, ParkingKept, Ending, Queued, Behind
<1>6. TunKept(s, m)
  BY <1>1, <1>2, <1>3 DEF Kept, TunKept, TunSound, BackKept, Ending, Queued, Behind
<1>7. HoldKept(s, m) /\ MemoryKept(s, m)
  BY <1>1, <1>2, <1>3 DEF Kept, HoldKept, MemoryKept, Queued, Behind
<1>8. ModesInv'
  <2>1. s.out = <<>> /\ Kept(s, mq \o p)
    BY <1>1, <1>4, <1>5, <1>6, <1>7 DEF Kept, m
  <2> QED
    BY <2>1, ThreadKept
<1> QED
  BY <1>8 DEF Thread

\* A start ends.
LEMMA StartEndsKept ==
  ASSUME ModesInv, StartEnds
  PROVE ModesInv' /\ g'.rem = g.rem
<1> DEFINE s == [g EXCEPT !.starting = FALSE]
           b == [s EXCEPT !.run = TRUE]
           stop == IF g.cancel THEN <<Signal("stop")>> ELSE <<>>
           p == <<Signal("startFailed")>>
           q == <<Signal("started")>> \o stop
<1>1. g.starting /\ (g.run => g.stopping)
  BY DEF StartEnds
<1>2. \/ Thread(s, p)
      \/ Thread(b, q)
  BY DEF StartEnds
<1>3. faults' \in 0..MaxFaults
  <2>1. faults' = faults \/ Fault
    BY DEF StartEnds, Fine
  <2> QED
    BY <2>1, AtRest, LinkAssumption DEF Fault
<1>4. CASE Thread(s, p)
  <2>1. Signal("startFailed") \in Heard \ Replies /\ Signal("startFailed") \in Failures
    BY DEF Signal, Heard, Replies, Failures
  <2>2. p \in Seq(Heard \ Replies) /\ In(p, Failures)
    BY <2>1 DEF In
  <2> HIDE DEF p
  <2> QED
    BY <1>1, <1>3, <1>4, <2>2, FailedStartKept
<1>5. CASE Thread(b, q)
  <2> DEFINE X == Heard \ Replies
  <2>1. Signal("started") \in X /\ Signal("stop") \in X /\ Signal("started") \in Changes
    BY DEF Signal, Heard, Replies, Changes
  <2> HIDE DEF X
  <2>2. <<Signal("started")>> \in Seq(X) /\ In(<<Signal("started")>>, Changes)
    BY <2>1 DEF In
  <2>3. stop \in Seq(X)
    BY <2>1
  <2> HIDE DEF stop
  <2>4. q \in Seq(X) /\ In(q, Changes)
    BY <2>2, <2>3, InConcat, ConcatProperties
  <2> HIDE DEF q
  <2>5. b = [g EXCEPT !.starting = FALSE, !.run = TRUE]
    BY AtRest DEF Working
  <2>6. Thread([g EXCEPT !.starting = FALSE, !.run = TRUE], q)
    BY <1>5, <2>5
  <2> QED
    BY <1>1, <1>3, <2>4, <2>6, StartedProfileKept DEF X
<1> QED
  BY <1>2, <1>4, <1>5

\* A stop ends.
LEMMA StopEndsKept ==
  ASSUME ModesInv, StopEnds
  PROVE ModesInv' /\ g'.rem = g.rem
<1> DEFINE s == [g EXCEPT !.stopping = FALSE]
           a == [s EXCEPT !.run = FALSE]
           b == Slip(s, g.failed, "stop failed")
           p == <<Signal("stopDone")>>
<1>1. g \in Working /\ g.stopping /\ g.failed \in BOOLEAN
  BY AtRest DEF StopEnds, Working
<1>2. Thread(a, p) \/ Thread(b, p)
  BY DEF StopEnds
<1>3. faults' \in 0..MaxFaults
  <2>1. faults' = faults \/ Fault
    BY DEF StopEnds, Fine
  <2> QED
    BY <2>1, AtRest, LinkAssumption DEF Fault
<1>4. p \in Seq(Heard \ Replies) /\ In(p, Ends) /\ In(p, Changes)
  <2>1. Signal("stopDone") \in Heard \ Replies /\ Signal("stopDone") \in Ends /\ Signal("stopDone") \in Changes
    BY DEF Signal, Heard, Replies, Ends, Changes
  <2> QED
    BY <2>1 DEF In
<1> HIDE DEF p
<1>5. s \in Working
  BY <1>1 DEF Working
<1>6. /\ ~s.stopping /\ s.run = g.run /\ s.starting = g.starting
      /\ SameProxy(g, s) /\ SameTun(g, s) /\ SameWaits(g, s) /\ SameHold(g, s) /\ SameMemory(g, s) /\ SameQueue(g, s)
  BY <1>1 DEF Working, SameProxy, SameTun, SameWaits, SameHold, SameMemory, SameQueue
<1> HIDE DEF s
<1>7. CASE Thread(a, p)
  <2>1. a \in Working
    BY <1>5 DEF Working
  <2>2. /\ ~a.run /\ a.stopping = s.stopping /\ a.starting = s.starting
        /\ SameProxy(s, a) /\ SameTun(s, a) /\ SameWaits(s, a) /\ SameHold(s, a) /\ SameMemory(s, a) /\ SameQueue(s, a)
    BY <1>5 DEF Working, SameProxy, SameTun, SameWaits, SameHold, SameMemory, SameQueue
  <2> HIDE DEF a
  <2>3. SameProxy(g, a) /\ SameTun(g, a) /\ SameWaits(g, a) /\ SameHold(g, a) /\ SameMemory(g, a) /\ a.out = g.out
        /\ (Ok(a) => Ok(g) /\ (a.run => ~g.failed)) /\ ~a.stopping /\ a.starting = g.starting
    BY <1>6, <2>2 DEF SameProxy, SameTun, SameWaits, SameHold, SameMemory, SameQueue, Ok
  <2> QED
    BY <1>1, <1>3, <1>4, <1>7, <2>1, <2>3, StopEndedKept
<1>8. CASE Thread(b, p)
  <2>1. b \in Working /\ SameState(s, b) /\ b.out = s.out /\ (Ok(b) => Ok(s) /\ ~g.failed)
    BY <1>1, <1>5, SlipDoes
  <2> HIDE DEF b
  <2>2. SameProxy(g, b) /\ SameTun(g, b) /\ SameWaits(g, b) /\ SameHold(g, b) /\ SameMemory(g, b)
    BY <1>6, <2>1 DEF SameState, SameProxy, SameTun, SameWaits, SameHold, SameMemory
  <2>3. b.out = g.out /\ (Ok(b) => Ok(g) /\ (b.run => ~g.failed)) /\ ~b.stopping /\ b.starting = g.starting
    BY <1>6, <2>1 DEF SameState, SameRun, SameQueue, Ok
  <2> QED
    BY <1>1, <1>3, <1>4, <1>8, <2>1, <2>2, <2>3, StopEndedKept
<1> QED
  BY <1>2, <1>7, <1>8

\* The administrator's script ends: the helper is there, and no client is connected to
\* it; or it was declined.
LEMMA InstallEndsKept ==
  ASSUME ModesInv, InstallEnds
  PROVE ModesInv' /\ g'.rem = g.rem
<1> DEFINE none == [inst |-> TRUE, up |-> TRUE, conn |-> FALSE, tun |-> "off", proxy |-> FALSE]
           t == Call(g, "probe", "install", FALSE, {})
           d == [g EXCEPT !.installing = "no"]
<1>1. /\ wq \in Queue /\ mq \in Seq(Posts) /\ link \in BOOLEAN /\ sess \in BOOLEAN /\ ready \in BOOLEAN /\ LinkSound
      /\ g \in Working /\ Kept(g, mq) /\ g.out = <<>> /\ faults \in 0..MaxFaults /\ acts \in 0..MaxActs
  BY AtRest DEF LinkTyped, LinkTypeOK
<1>2. sess' = sess /\ link' = link /\ ready' = ready /\ mq' = mq /\ acts' = acts /\ faults' = faults
  BY DEF InstallEnds, Fine
<1>3. \/ h' = none /\ wire' = <<>> /\ Do(t)
      \/ Do(d) /\ h' = h /\ wire' = wire
  BY DEF InstallEnds
<1>4. CASE Do(d) /\ h' = h /\ wire' = wire
  <2>1. d \in Working /\ SameState(g, d) /\ SameQueue(g, d)
    BY <1>1 DEF Working, SameState, SameRun, SameProxy, SameTun, SameWaits, SameHold, SameMemory, SameQueue
  <2> HIDE DEF d
  <2>2. Kept(d, mq)
    BY <1>1, <2>1, AsideKept DEF SameQueue, Ok
  <2>3. ModesInv'
    BY <1>1, <1>2, <1>4, <2>1, <2>2, ActKept DEF Quiet
  <2>4. g'.rem = d.rem
    BY <1>4, <2>1 DEF Do, Working
  <2> QED
    BY <2>1, <2>3, <2>4 DEF SameState, SameMemory
<1>5. CASE h' = none /\ wire' = <<>> /\ Do(t)
  <2>1. t \in Working /\ SameState(g, t) /\ Queued(g, t, "probe", "install")
    <3>1. "probe" \in Ops /\ "probe" # "tunStart"
      BY DEF Ops
    <3> QED
      BY <1>1, <3>1, CallDoes
  <2> HIDE DEF t
  <2>2. /\ g' \in Working /\ g'.out = <<>> /\ g'.slip = t.slip /\ SameState(t, g')
        /\ wq' = Ahead(t) /\ wq' \in Queue /\ Ahead(g)' = Ahead(t)
        /\ In(wq', Losses) <=> In(wq, Losses)
        /\ In(wq', Halts) <=> In(wq, Halts)
    BY <1>1, <1>5, <2>1, DoneDoes
  <2>3. SameState(g, g')
    BY <2>1, <2>2 DEF SameState, SameRun, SameProxy, SameTun, SameWaits, SameHold, SameMemory
  <2>4. Queued(g, t, "none", "user") /\ (Ok(g)' => Ok(g))
    BY <2>1, <2>2 DEF Queued, Ok
  <2>5. h'.inst /\ h'.up /\ ~h'.conn /\ h'.tun = "off" /\ ~h'.proxy
    BY <1>5
  <2>6. Lost(mq)' <=> sess \/ Lost(mq)
    BY <1>2, <2>2, <2>5 DEF Lost
  <2>7. ~sess => ~h.conn /\ h.tun = "off" /\ wire = <<>>
    BY <1>1 DEF LinkSound
  <2>8. ~sess => (Halted(mq)' <=> Halted(mq))
    BY <1>2, <1>5, <2>2, <2>7 DEF Halted
  <2>9. ~sess => (TunToBe(Ahead(g))' <=> TunToBe(Ahead(g)))
    BY <2>2, <2>4, <2>5, <2>7 DEF TunToBe, Queued
  <2>10. Ending(g, mq)' <=> Ending(g, mq)
    BY <1>2, <2>3 DEF Ending, SameState, SameRun, SameWaits
  <2>11. LinkTyped'
    <3>1. /\ h' \in [inst : BOOLEAN, up : BOOLEAN, conn : BOOLEAN, tun : {"off", "coming", "up"}, proxy : BOOLEAN]
          /\ wire' \in Seq(Events)
      BY <1>5
    <3>2. mq' \in Seq(Posts) /\ faults' \in 0..MaxFaults /\ sess' \in BOOLEAN /\ link' \in BOOLEAN /\ ready' \in BOOLEAN
      BY <1>1, <1>2
    <3> QED
      BY <2>2, <2>5, <3>1, <3>2, LinkTypes
  <2>12. LinkSound'
    BY <1>1, <1>2, <1>5, <2>2, <2>5 DEF LinkSound
  <2> HIDE DEF none
  <2> USE DEF SameState, SameRun, SameProxy, SameTun, SameWaits, SameHold, SameMemory
  <2>13. ProxyKept(g, mq)'
    BY <1>1, <1>2, <2>2, <2>3, <2>4, <2>5, <2>6 DEF Kept, ProxyKept, Queued
  <2>14. ParkingKept(g, mq)'
    BY <1>1, <1>2, <2>3, <2>4, <2>10 DEF Kept, ParkingKept
  <2>15. TunKept(g, mq)'
    <3>1. TunSound(g, mq)'
      BY <1>1, <1>2, <2>2, <2>3, <2>4, <2>5, <2>6, <2>8, <2>9 DEF Kept, TunKept, TunSound, Queued
    <3>2. BackKept(g, mq)'
      BY <1>1, <1>2, <2>3, <2>4 DEF Kept, TunKept, BackKept
    <3> QED
      BY <3>1, <3>2 DEF TunKept
  <2>16. HoldKept(g, mq)' /\ MemoryKept(g, mq)'
    BY <1>1, <1>2, <2>2, <2>3, <2>4 DEF Kept, HoldKept, MemoryKept, Queued
  <2>17. ModesInv'
    BY <1>1, <1>2, <2>2, <2>11, <2>12, <2>13, <2>14, <2>15, <2>16 DEF ModesInv, Kept
  <2> QED
    BY <2>3, <2>17
<1> QED
  BY <1>3, <1>4, <1>5

-----------------------------------------------------------------------------
(* The worker. *)

\* The queues after the worker has taken a call: its reply waits for the UI thread, and
\* what was found on the socket is behind the other calls.
Taken(c, ok) ==
  /\ In(wq, Applies) <=> In(wq', Applies) \/ c.op = "apply"
  /\ In(wq, ProxyCalls) <=> In(wq', ProxyCalls) \/ c.op \in {"apply", "restore"}
  /\ In(wq, Starts) <=> In(wq', Starts) \/ c.op = "tunStart"
  /\ In(wq, TunCalls) <=> In(wq', TunCalls) \/ c.op \in {"tunStart", "tunStop"}
  /\ Last(wq, Applies, ProxyCalls) <=> Last(wq', Applies, ProxyCalls) \/ (c.op = "apply" /\ ~In(wq', ProxyCalls))
  /\ Last(wq, Starts, TunCalls) <=> Last(wq', Starts, TunCalls) \/ (c.op = "tunStart" /\ ~In(wq', TunCalls))
  /\ Last(wq, NotByUser, Starts) <=>
       Last(wq', NotByUser, Starts) \/ (c.op = "tunStart" /\ c.by # "user" /\ ~In(wq', Starts))
  /\ In(mq', ApplyFails) => In(mq, ApplyFails) \/ (c.op = "apply" /\ ~ok)
  /\ In(mq, StartFails) \/ (c.op = "tunStart" /\ ~ok) => In(mq', StartFails)
  /\ In(mq', StartReplies) => In(mq, StartReplies) \/ c.op = "tunStart"
  /\ Last(mq', StartFails, StartReplies) <=> IF c.op = "tunStart" THEN ~ok ELSE Last(mq, StartFails, StartReplies)
  /\ Last(mq', NotForUser, StartReplies) <=>
       IF c.op = "tunStart" THEN c.by # "user" ELSE Last(mq, NotForUser, StartReplies)
  /\ In(mq', Ends) <=> In(mq, Ends)
  /\ In(mq', Changes) <=> In(mq, Changes)
  /\ In(mq', Failures) <=> In(mq, Failures)
  /\ In(mq', Losses) <=> In(mq, Losses)
  /\ In(mq', Halts) <=> In(mq, Halts)

\* The worker's queue without the call.
LEMMA CallTaken ==
  ASSUME wq \in Queue, wq # <<>>, NEW c \in Sent, c = Head(wq), NEW p \in Seq([m : Signals]), wq' = Tail(wq) \o p
  PROVE /\ wq' \in Queue
        /\ In(wq', Losses) <=> In(wq, Losses) \/ In(p, Losses)
        /\ In(wq', Halts) <=> In(wq, Halts) \/ In(p, Halts)
        /\ In(wq, Applies) <=> In(wq', Applies) \/ c.op = "apply"
        /\ In(wq, ProxyCalls) <=> In(wq', ProxyCalls) \/ c.op \in {"apply", "restore"}
        /\ In(wq, Starts) <=> In(wq', Starts) \/ c.op = "tunStart"
        /\ In(wq, TunCalls) <=> In(wq', TunCalls) \/ c.op \in {"tunStart", "tunStop"}
        /\ Last(wq, Applies, ProxyCalls) <=>
             Last(wq', Applies, ProxyCalls) \/ (c.op = "apply" /\ ~In(wq', ProxyCalls))
        /\ Last(wq, Starts, TunCalls) <=> Last(wq', Starts, TunCalls) \/ (c.op = "tunStart" /\ ~In(wq', TunCalls))
        /\ Last(wq, NotByUser, Starts) <=>
             Last(wq', NotByUser, Starts) \/ (c.op = "tunStart" /\ c.by # "user" /\ ~In(wq', Starts))
<1> DEFINE X == Sent \cup [m : Signals]  r == Tail(wq)
<1>1. wq \in Seq(X) /\ r \in Seq(X) /\ r \in Queue
  BY HeadTailProperties DEF Queue
<1> HIDE DEF X
<1>2. /\ \A S : In(wq, S) <=> c \in S \/ In(r, S)
      /\ \A T : \A S \in SUBSET T : Last(wq, S, T) <=> Last(r, S, T) \/ (c \in S /\ ~In(r, T))
  BY <1>1, InTail, LastTail
<1> HIDE DEF r
<1>3. /\ wq' \in Queue
      /\ \A S : In(wq', S) <=> In(r, S) \/ In(p, S)
      /\ \A S \in SUBSET Sent : In(wq', S) <=> In(r, S)
      /\ \A T \in SUBSET Sent : \A S \in SUBSET T : Last(wq', S, T) <=> Last(r, S, T)
  BY <1>1, SignalsBehind DEF r
<1>4. /\ c \in Applies <=> c.op = "apply"
      /\ c \in ProxyCalls <=> c.op \in {"apply", "restore"}
      /\ c \in Starts <=> c.op = "tunStart"
      /\ c \in TunCalls <=> c.op \in {"tunStart", "tunStop"}
      /\ c \in NotByUser <=> c.op = "tunStart" /\ c.by # "user"
  BY DEF Applies, ProxyCalls, Starts, TunCalls, NotByUser, CallOf
<1>5. c \notin Losses /\ c \notin Halts
  BY SignalsAside
<1>6. /\ In(wq', Losses) <=> In(wq, Losses) \/ In(p, Losses)
      /\ In(wq', Halts) <=> In(wq, Halts) \/ In(p, Halts)
  BY <1>2, <1>3, <1>5
<1>7. /\ In(wq, Applies) <=> In(wq', Applies) \/ c \in Applies
      /\ In(wq, ProxyCalls) <=> In(wq', ProxyCalls) \/ c \in ProxyCalls
      /\ In(wq, Starts) <=> In(wq', Starts) \/ c \in Starts
      /\ In(wq, TunCalls) <=> In(wq', TunCalls) \/ c \in TunCalls
  BY <1>2, <1>3, KindsOf
<1>8. /\ Last(wq, Applies, ProxyCalls) <=>
           Last(wq', Applies, ProxyCalls) \/ (c \in Applies /\ ~In(wq', ProxyCalls))
      /\ Last(wq, Starts, TunCalls) <=> Last(wq', Starts, TunCalls) \/ (c \in Starts /\ ~In(wq', TunCalls))
      /\ Last(wq, NotByUser, Starts) <=> Last(wq', NotByUser, Starts) \/ (c \in NotByUser /\ ~In(wq', Starts))
  BY <1>2, <1>3, KindsOf, Kinds
<1> QED
  BY <1>3, <1>4, <1>6, <1>7, <1>8

\* The UI thread's queue with the reply; nobody waits for the reply of the one call that
\* has none, and that is no start.
LEMMA CallReplied ==
  ASSUME mq \in Seq(Posts), NEW c \in Sent, NEW ok \in BOOLEAN, NEW has \in SUBSET {"proxy", "vpn", "absent"},
         mq' = IF c.by = "nobody" THEN mq ELSE Append(mq, Reply(c, ok, has))
  PROVE /\ mq' \in Seq(Posts)
        /\ In(mq', ApplyFails) => In(mq, ApplyFails) \/ (c.op = "apply" /\ ~ok)
        /\ In(mq, StartFails) \/ (c.op = "tunStart" /\ ~ok) => In(mq', StartFails)
        /\ In(mq', StartReplies) => In(mq, StartReplies) \/ c.op = "tunStart"
        /\ Last(mq', StartFails, StartReplies) <=>
             IF c.op = "tunStart" THEN ~ok ELSE Last(mq, StartFails, StartReplies)
        /\ Last(mq', NotForUser, StartReplies) <=>
             IF c.op = "tunStart" THEN c.by # "user" ELSE Last(mq, NotForUser, StartReplies)
        /\ In(mq', Ends) <=> In(mq, Ends)
        /\ In(mq', Changes) <=> In(mq, Changes)
        /\ In(mq', Failures) <=> In(mq, Failures)
        /\ In(mq', Losses) <=> In(mq, Losses)
        /\ In(mq', Halts) <=> In(mq, Halts)
<1> DEFINE r == Reply(c, ok, has)
<1>1. c.op = "tunStart" => c.by # "nobody"
  BY DEF Sent
<1>2. r \in Replies /\ r.call = c /\ r.ok = ok /\ r.m = "reply" /\ r \in Posts
  BY DEF Reply, Replies, Posts
<1> HIDE DEF r
<1>3. /\ r \in ApplyFails <=> c.op = "apply" /\ ~ok
      /\ r \in StartFails <=> c.op = "tunStart" /\ ~ok
      /\ r \in StartReplies <=> c.op = "tunStart"
      /\ r \in NotForUser <=> c.op = "tunStart" /\ c.by # "user"
  BY <1>2 DEF ApplyFails, StartFails, StartReplies, NotForUser, ReplyOf
<1>4. r \notin Ends /\ r \notin Changes /\ r \notin Failures /\ r \notin Losses /\ r \notin Halts
  BY <1>2, MessageKinds
<1>5. CASE c.by = "nobody"
  BY <1>1, <1>5
<1>6. CASE c.by # "nobody"
  <2>1. mq' = Append(mq, r)
    BY <1>6 DEF r
  <2>2. /\ \A S : In(mq', S) <=> In(mq, S) \/ r \in S
        /\ \A T : \A S \in SUBSET T : Last(mq', S, T) <=> IF r \in T THEN r \in S ELSE Last(mq, S, T)
        /\ mq' \in Seq(Posts)
    BY <1>2, <2>1, InAppend, LastAppend, AppendProperties
  <2>3. /\ Last(mq', StartFails, StartReplies) <=>
             IF r \in StartReplies THEN r \in StartFails ELSE Last(mq, StartFails, StartReplies)
        /\ Last(mq', NotForUser, StartReplies) <=>
             IF r \in StartReplies THEN r \in NotForUser ELSE Last(mq, NotForUser, StartReplies)
    BY <2>2, Kinds
  <2> QED
    BY <1>3, <1>4, <2>2, <2>3
<1> QED
  BY <1>5, <1>6

\* What a call does to the helper and the connection.  A call that fails while the
\* connection lives is a fault.
Answers(c, p, ok, has) ==
  /\ wq # <<>> /\ c = Head(wq) /\ wq' = Tail(wq) \o p /\ wire' = <<>> /\ link' = sess'
  /\ mq' = IF c.by = "nobody" THEN mq ELSE Append(mq, Reply(c, ok, has))
  /\ Gone => In(p, Losses)
  /\ ~Gone => (In(wire, Halts) => In(p, Halts))
  /\ h'.conn = sess'
  /\ IF sess' THEN h.up /\ (ok => h' = Serve(c)) /\ (~ok => faults' # faults)
     ELSE ~ok /\ ~h'.up /\ h'.tun = "off" /\ (h.up => In(p, Losses))

\* The worker's step is of that form.
LEMMA WorkDoes ==
  ASSUME ModesInv, Work
  PROVE /\ \E c \in Sent, p \in Seq([m : Signals]), ok \in BOOLEAN, has \in SUBSET {"proxy", "vpn", "absent"} :
             Answers(c, p, ok, has)
        /\ h' \in [inst : BOOLEAN, up : BOOLEAN, conn : BOOLEAN, tun : {"off", "coming", "up"}, proxy : BOOLEAN]
        /\ h'.up => h'.inst
        /\ h'.conn => h'.up
        /\ sess' \in BOOLEAN /\ ready' \in BOOLEAN /\ faults' \in 0..MaxFaults
<1> DEFINE H == [inst : BOOLEAN, up : BOOLEAN, conn : BOOLEAN, tun : {"off", "coming", "up"}, proxy : BOOLEAN]
           R == SUBSET {"proxy", "vpn", "absent"}
           c == Head(wq)
           late == Serve(c)
           gone == [h EXCEPT !.conn = TRUE, !.tun = IF c.op = "tunStart" THEN "off" ELSE h.tun]
           absent == IF h.inst THEN {} ELSE {"absent"}
<1>1. /\ h \in H /\ (h.conn => h.up /\ h.inst) /\ sess \in BOOLEAN /\ ready \in BOOLEAN
      /\ wire \in Seq(Events) /\ wq \in Queue /\ faults \in 0..MaxFaults /\ LinkSound
  BY DEF ModesInv, LinkTyped, LinkTypeOK
<1>2. wq # <<>> /\ "op" \in DOMAIN c
  BY DEF Work
<1>3. c \in Sent
  <2>1. c \in Sent \cup [m : Signals]
    BY <1>1, <1>2, HeadTailProperties DEF Queue
  <2>2. \A x \in [m : Signals] : DOMAIN x = {"m"}
    OBVIOUS
  <2> QED
    BY <1>2, <2>1, <2>2
<1>4. \/ ~h.up /\ Finish(c, h, FALSE, FALSE, absent) /\ faults' = faults
      \/ h.up /\ Finish(c, late, TRUE, TRUE, Applied(h)) /\ faults' = faults
      \/ h.up /\ Fault /\ Finish(c, late, TRUE, FALSE, {})
      \/ h.up /\ Fault /\ Finish(c, gone, TRUE, FALSE, {})
      \/ h.up /\ Fault /\ Finish(c, Dead(late), FALSE, FALSE, {})
  BY DEF Work
<1> HIDE DEF c
<1>5. late \in H /\ late.conn /\ late.up = h.up /\ late.inst = h.inst
  BY <1>1 DEF Serve
<1>6. gone \in H /\ gone.conn /\ gone.up = h.up /\ gone.inst = h.inst
  BY <1>1
<1>7. Dead(late) \in H /\ ~Dead(late).conn /\ ~Dead(late).up /\ Dead(late).inst = h.inst /\ Dead(late).tun = "off"
  BY <1>5 DEF Dead
<1>8. absent \in R /\ {} \in R /\ Applied(h) \in R
  BY DEF Applied
<1>9. Fault => faults' # faults /\ faults' \in 0..MaxFaults
  BY <1>1, LinkAssumption DEF Fault
<1>10. h.up => h.inst
  BY <1>1 DEF LinkSound
<1>11. ~h.up => ~h.conn /\ h.tun = "off"
  BY <1>1 DEF LinkSound
<1> HIDE DEF late, gone, absent, H, R
<1>12. \E after \in H, alive \in BOOLEAN, ok \in BOOLEAN, has \in R :
         /\ Finish(c, after, alive, ok, has)
         /\ after.inst = h.inst /\ (after.up => h.up) /\ after.conn = alive
         /\ IF alive THEN h.up /\ after.up /\ (ok => after = late) /\ (~ok => faults' # faults)
            ELSE ~ok /\ ~after.up /\ after.tun = "off"
         /\ faults' \in 0..MaxFaults
  <2>1. CASE ~h.up /\ Finish(c, h, FALSE, FALSE, absent) /\ faults' = faults
    BY <1>1, <1>8, <1>11, <2>1 DEF H
  <2>2. CASE h.up /\ Finish(c, late, TRUE, TRUE, Applied(h)) /\ faults' = faults
    BY <1>1, <1>5, <1>8, <2>2 DEF H
  <2>3. CASE h.up /\ Fault /\ Finish(c, late, TRUE, FALSE, {})
    BY <1>5, <1>8, <1>9, <2>3 DEF H
  <2>4. CASE h.up /\ Fault /\ Finish(c, gone, TRUE, FALSE, {})
    BY <1>6, <1>8, <1>9, <2>4 DEF H
  <2>5. CASE h.up /\ Fault /\ Finish(c, Dead(late), FALSE, FALSE, {})
    BY <1>7, <1>8, <1>9, <2>5 DEF H
  <2> QED
    BY <1>4, <2>1, <2>2, <2>3, <2>4, <2>5
<1>13. PICK after \in H, alive \in BOOLEAN, ok \in BOOLEAN, has \in R :
         /\ Finish(c, after, alive, ok, has)
         /\ after.inst = h.inst /\ (after.up => h.up) /\ after.conn = alive
         /\ IF alive THEN h.up /\ after.up /\ (ok => after = late) /\ (~ok => faults' # faults)
            ELSE ~ok /\ ~after.up /\ after.tun = "off"
         /\ faults' \in 0..MaxFaults
  BY <1>12
<1> DEFINE dead == IF h.up /\ ~alive THEN <<Signal("lost")>> ELSE <<>>
           p == Noticed \o dead
<1>14. /\ h' = after /\ sess' = alive /\ link' = alive /\ wire' = <<>>
       /\ wq' = Tail(wq) \o Noticed \o dead
       /\ ready' = (IF c.op = "probe" THEN alive ELSE ready \/ ok \/ alive)
       /\ mq' = IF c.by = "nobody" THEN mq ELSE Append(mq, Reply(c, ok, has))
  BY <1>13 DEF Finish
<1>15. /\ Noticed \in Seq([m : Signals]) /\ dead \in Seq([m : Signals])
       /\ (Gone => In(Noticed, Losses)) /\ (~Gone => Noticed = wire)
       /\ (h.up /\ ~alive => In(dead, Losses))
  <2>1. Signal("lost") \in [m : Signals] /\ Signal("lost") \in Losses /\ Events \subseteq [m : Signals]
    BY DEF Signal, Signals, Losses, Events
  <2>2. wire \in Seq([m : Signals])
    BY <1>1, <2>1, SeqMonotonic
  <2>3. In(<<Signal("lost")>>, Losses) /\ <<Signal("lost")>> \in Seq([m : Signals])
    BY <2>1 DEF In
  <2>4. Noticed = IF Gone THEN <<Signal("lost")>> ELSE wire
    BY DEF Noticed
  <2>5. dead \in Seq([m : Signals]) /\ (h.up /\ ~alive => In(dead, Losses))
    <3>1. dead = IF h.up /\ ~alive THEN <<Signal("lost")>> ELSE <<>>
      OBVIOUS
    <3>2. <<>> \in Seq([m : Signals])
      OBVIOUS
    <3> HIDE DEF dead
    <3> QED
      BY <2>3, <3>1, <3>2
  <2> QED
    BY <2>2, <2>3, <2>4, <2>5
<1> HIDE DEF dead
<1>16. p \in Seq([m : Signals]) /\ \A S : In(p, S) <=> In(Noticed, S) \/ In(dead, S)
  BY <1>15, ConcatProperties, InConcat
<1>17. wq' = Tail(wq) \o p
  <2> DEFINE X == Sent \cup [m : Signals]
  <2>1. Tail(wq) \in Seq(X) /\ Noticed \in Seq(X) /\ dead \in Seq(X)
    BY <1>1, <1>2, <1>15, HeadTailProperties, SeqMonotonic DEF Queue
  <2> HIDE DEF X
  <2> QED
    BY <1>14, <2>1, ConcatAssociative
<1> HIDE DEF p
<1>18. Answers(c, p, ok, has)
  BY <1>2, <1>13, <1>14, <1>15, <1>16, <1>17 DEF Answers, c, late
<1> QED
  BY <1>1, <1>3, <1>10, <1>13, <1>14, <1>16, <1>18 DEF H, R

\* What the switches, the helper and the queues promise of each other outlives a call.
LEMMA AnswerKept ==
  ASSUME ModesInv, NEW c \in Sent, NEW p \in Seq([m : Signals]), NEW ok \in BOOLEAN,
         NEW has \in SUBSET {"proxy", "vpn", "absent"}, Answers(c, p, ok, has), LinkTyped', LinkSound',
         g' \in Working, SameState(g, g'), g'.out = <<>>, Ok(g') => Ok(g) /\ ~(faults' # faults /\ sess'),
         acts' = acts
  PROVE ModesInv'
<1> DEFINE s == g'
<1>1. /\ wq \in Queue /\ mq \in Seq(Posts) /\ LinkSound /\ Kept(g, mq) /\ Ahead(g) = wq /\ acts \in 0..MaxActs
      /\ h.conn \in BOOLEAN /\ sess \in BOOLEAN /\ (h.conn => h.up)
  BY AtRest DEF LinkTyped, LinkTypeOK
<1>2. Ahead(g)' = wq'
  BY ConcatEmptySeq DEF Ahead, LinkTyped, Queue
<1>3. Taken(c, ok)
  BY <1>1, CallTaken, CallReplied DEF Answers, Taken
<1>4. /\ In(wq', Losses) <=> In(wq, Losses) \/ In(p, Losses)
      /\ In(wq', Halts) <=> In(wq, Halts) \/ In(p, Halts)
  BY <1>1, CallTaken DEF Answers
<1>5. /\ link' = sess' /\ h'.conn = sess' /\ (Gone => In(p, Losses))
      /\ (~Gone => (In(wire, Halts) => In(p, Halts)))
      /\ sess' => h.up /\ (ok => h' = Serve(c)) /\ (~ok => faults' # faults)
      /\ ~sess' => ~ok /\ h'.tun = "off" /\ (h.up => In(p, Losses))
  BY DEF Answers
<1>6. Gone <=> sess /\ ~h.conn
  BY DEF Gone
<1>7. Lost(mq)' <=> Lost(mq) \/ In(p, Losses)
  BY <1>3, <1>4, <1>5, <1>6 DEF Lost, Taken
<1>8. ~Lost(mq)' => (Halted(mq) => Halted(mq)')
  BY <1>3, <1>4, <1>5, <1>7 DEF Halted, Taken
<1>9. ~Lost(mq)' /\ ~sess' => ~sess /\ ~h.conn /\ h.tun = "off"
  BY <1>1, <1>5, <1>6, <1>7 DEF LinkSound
<1>10. Ok(g)' /\ ~Lost(mq)' /\ sess' => Ok(g) /\ ~Lost(mq) /\ ok /\ h' = Serve(c) /\ h.up
  BY <1>5, <1>7 DEF Ok
<1>11. h' = Serve(c) =>
         /\ h'.tun # "off" <=> IF c.op \in {"tunStart", "tunStop"} THEN c.op = "tunStart" ELSE h.tun # "off"
         /\ h'.proxy <=> IF c.op \in {"apply", "restore"} THEN c.op = "apply" ELSE h.proxy
         /\ h'.tun = "up" => h.tun = "up" /\ c.op \notin {"tunStart", "tunStop"}
  BY <1>1 DEF Serve, ModesInv, LinkTyped, LinkTypeOK
<1>12. Ok(g)' => Ok(g)
  BY DEF Ok
<1>13. Ending(g, mq)' <=> Ending(g, mq)
  BY <1>3 DEF Ending, SameState, SameRun, SameWaits, Taken
<1>14. h' = Serve(c) => /\ ProxyToBe(wq)' <=> ProxyToBe(wq)
                        /\ TunToBe(wq)' <=> TunToBe(wq)
  BY <1>3, <1>11 DEF ProxyToBe, TunToBe, Taken
<1> USE DEF SameState, SameRun, SameProxy, SameTun, SameWaits, SameHold, SameMemory
<1>15. ProxyKept(g, mq)'
  <2>1. Ok(g)' /\ (g'.sp \/ In(wq', Applies)) => sess' \/ Lost(mq)'
    BY <1>1, <1>3, <1>7, <1>9, <1>12 DEF Kept, ProxyKept, Taken
  <2>2. Ok(g)' /\ In(mq', ApplyFails) => Lost(mq)'
    <3>1. CASE In(mq, ApplyFails)
      BY <1>1, <1>7, <1>12, <3>1 DEF Kept, ProxyKept
    <3>2. CASE c.op = "apply" /\ ~ok
      <4>1. In(wq, Applies)
        BY <1>3, <3>2 DEF Taken
      <4> QED
        BY <1>1, <1>7, <1>9, <1>10, <1>12, <3>2, <4>1 DEF Kept, ProxyKept
    <3> QED
      BY <1>3, <3>1, <3>2 DEF Taken
  <2>3. Ok(g)' /\ ~Lost(mq)' /\ h'.conn => (ProxyToBe(wq)' <=> (g'.sp /\ ~g'.parked))
    <3>1. SUFFICES ASSUME Ok(g)', ~Lost(mq)', h'.conn PROVE ProxyToBe(wq) <=> (g.sp /\ ~g.parked)
      BY <1>5, <1>10, <1>14
    <3>2. Ok(g) /\ ~Lost(mq) /\ h.up
      BY <1>5, <1>10, <3>1
    <3>3. CASE h.conn
      BY <1>1, <3>2, <3>3 DEF Kept, ProxyKept
    <3>4. CASE ~h.conn
      <4>1. ~sess /\ ~h.proxy
        BY <1>1, <1>5, <1>6, <1>7, <3>1, <3>2, <3>4 DEF LinkSound
      <4>2. ~g.sp /\ ~In(wq, Applies)
        BY <1>1, <3>2, <4>1 DEF Kept, ProxyKept
      <4>3. ~Last(wq, Applies, ProxyCalls)
        BY <4>2 DEF In, Last
      <4> QED
        BY <4>1, <4>2, <4>3 DEF ProxyToBe
    <3> QED
      BY <3>3, <3>4
  <2> QED
    BY <1>2, <1>5, <2>1, <2>2, <2>3 DEF ProxyKept
<1>16. ParkingKept(g, mq)'
  BY <1>1, <1>3, <1>12, <1>13 DEF Kept, ParkingKept, Taken
<1>17. TunSound(g, mq)'
  <2>1. Ok(g)' /\ ~Lost(mq)' /\ TunToBe(wq)' => g'.pid
    <3>1. Ok(g)' /\ ~Lost(mq)' /\ TunToBe(wq)' => TunToBe(wq)
      BY <1>3, <1>5, <1>9, <1>10, <1>14 DEF TunToBe, Taken
    <3> QED
      BY <1>1, <1>7, <1>12, <3>1 DEF Kept, TunKept, TunSound
  <2>2. Ok(g)' /\ ~Lost(mq)' /\ g'.pid => TunToBe(wq)' \/ In(mq', StartFails) \/ Halted(mq)'
    <3>1. Ok(g)' /\ ~Lost(mq)' /\ TunToBe(wq) => TunToBe(wq)' \/ In(mq', StartFails)
      BY <1>3, <1>5, <1>9, <1>10, <1>14 DEF TunToBe, Taken
    <3>2. In(mq, StartFails) => In(mq', StartFails)
      BY <1>3 DEF Taken
    <3> QED
      BY <1>1, <1>7, <1>8, <1>12, <3>1, <3>2 DEF Kept, TunKept, TunSound
  <2>3. Ok(g)' /\ ~Lost(mq)' /\ ~In(wq', Starts) /\ Last(mq', StartFails, StartReplies) => h'.tun = "off"
    <3>1. SUFFICES ASSUME Ok(g)', ~Lost(mq)', ~In(wq', Starts), Last(mq', StartFails, StartReplies), sess'
                   PROVE h'.tun = "off"
      BY <1>5
    <3>2. ok /\ c.op # "tunStart" /\ h' = Serve(c) /\ Ok(g) /\ ~Lost(mq)
      BY <1>3, <1>10, <3>1 DEF Taken
    <3>3. h.tun = "off"
      BY <1>1, <1>3, <3>1, <3>2 DEF Kept, TunKept, TunSound, Taken
    <3> QED
      BY <1>11, <3>2, <3>3
  <2>4. Ok(g)' /\ ~Lost(mq)' /\ g'.pid /\ ~g'.run /\ h'.tun = "up" /\ ~In(wq', TunCalls) => Ending(g, mq)'
    <3>1. SUFFICES ASSUME Ok(g)', ~Lost(mq)', g.pid, ~g.run, h'.tun = "up", ~In(wq', TunCalls), sess'
                   PROVE Ending(g, mq)'
      BY <1>5
    <3>2. h.tun = "up" /\ ~In(wq, TunCalls) /\ Ok(g) /\ ~Lost(mq)
      BY <1>3, <1>10, <1>11, <3>1 DEF Taken
    <3> QED
      BY <1>1, <1>13, <3>1, <3>2 DEF Kept, TunKept, TunSound
  <2>5. /\ g'.stopping => g'.run
        /\ g'.inFlight => g'.stopping \/ In(mq', Ends)
        /\ g'.pid => g'.tun
        /\ Ok(g)' /\ g'.stopping => ~g'.pid
    BY <1>1, <1>3, <1>12 DEF Kept, TunKept, TunSound, Taken
  <2> QED
    BY <1>2, <2>1, <2>2, <2>3, <2>4, <2>5 DEF TunSound
<1>18. BackKept(g, mq)'
  BY <1>1, <1>3, <1>12 DEF Kept, TunKept, BackKept, Taken
<1>19. HoldKept(g, mq)'
  BY <1>1, <1>2, <1>3, <1>12 DEF Kept, HoldKept, Taken
<1>20. MemoryKept(g, mq)'
  BY <1>1, <1>2, <1>3 DEF Kept, MemoryKept, Taken
<1> QED
  BY <1>1, <1>15, <1>16, <1>17, <1>18, <1>19, <1>20 DEF ModesInv, Kept, TunKept

\* The worker takes a call.
LEMMA WorkerKept ==
  ASSUME ModesInv, Worker
  PROVE ModesInv' /\ g'.rem = g.rem
<1> DEFINE slipped == faults' # faults /\ sess'
           s == Slip(g, slipped, "helper failed")
<1>1. Work /\ acts' = acts /\ g' = s
  BY DEF Worker
<1>2. PICK c \in Sent, p \in Seq([m : Signals]), ok \in BOOLEAN, has \in SUBSET {"proxy", "vpn", "absent"} :
        Answers(c, p, ok, has)
  BY <1>1, WorkDoes
<1>3. /\ h' \in [inst : BOOLEAN, up : BOOLEAN, conn : BOOLEAN, tun : {"off", "coming", "up"}, proxy : BOOLEAN]
      /\ h'.up => h'.inst
      /\ h'.conn => h'.up
      /\ sess' \in BOOLEAN /\ ready' \in BOOLEAN /\ faults' \in 0..MaxFaults
  BY <1>1, WorkDoes
<1>4. g \in Working /\ g.out = <<>> /\ wq \in Queue /\ mq \in Seq(Posts)
  BY AtRest
<1>5. slipped \in BOOLEAN
  BY <1>3
<1> HIDE DEF slipped
<1>6. s \in Working /\ SameState(g, s) /\ s.out = g.out /\ (Ok(s) => Ok(g) /\ ~slipped)
  BY <1>4, <1>5, SlipDoes
<1> HIDE DEF s
<1>7. wq # <<>> /\ c = Head(wq) /\ wq' = Tail(wq) \o p /\ wire' = <<>> /\ link' = sess'
      /\ mq' = IF c.by = "nobody" THEN mq ELSE Append(mq, Reply(c, ok, has))
  BY <1>2 DEF Answers
<1>8. h'.conn = sess' /\ (~sess' => ~h'.up /\ h'.tun = "off")
  BY <1>2 DEF Answers
<1>9. LinkTyped'
  <2>1. wq' \in Queue /\ mq' \in Seq(Posts)
    BY <1>4, <1>7, CallTaken, CallReplied
  <2>2. wire' \in Seq(Events) /\ link' \in BOOLEAN /\ (h'.conn => h'.up /\ h'.inst)
    BY <1>3, <1>7
  <2> QED
    BY <1>3, <2>1, <2>2, LinkTypes
<1>10. LinkSound'
  BY <1>3, <1>7, <1>8 DEF LinkSound
<1>11. g' \in Working /\ SameState(g, g') /\ g'.out = <<>> /\ (Ok(g') => Ok(g) /\ ~slipped)
  BY <1>1, <1>4, <1>6
<1>12. ModesInv'
  BY <1>1, <1>2, <1>9, <1>10, <1>11, AnswerKept DEF slipped
<1> QED
  BY <1>11, <1>12 DEF SameState, SameMemory

-----------------------------------------------------------------------------
(* The invariant, and what follows from it. *)

\* A step of the helper, the socket or a signal on its way.
LEMMA ElsewhereKept ==
  ASSUME ModesInv, Elsewhere
  PROVE ModesInv' /\ g'.rem = g.rem
<1>1. g' = g /\ acts' = acts /\ (Read \/ Pass \/ (HelperDies \/ HelperStarts) \/ TunSettles(g.run))
  BY DEF Elsewhere
<1>2. ModesInv'
  BY <1>1, ReadKept, PassKept, HelperRestartKept, TunSettlesKept
<1> QED
  BY <1>1, <1>2

\* Nothing is asked and nothing is on when the program starts.
LEMMA ModesStart ==
  ASSUME Init
  PROVE ModesInv
<1> DEFINE probe == [op |-> "probe", by |-> "startup", save |-> FALSE, was |-> {}]
<1>1. /\ h \in [inst : BOOLEAN, up : BOOLEAN, conn : BOOLEAN, tun : {"off", "coming", "up"}, proxy : BOOLEAN]
      /\ ~h.conn /\ h.tun = "off" /\ ~h.proxy /\ (h.up => h.inst)
      /\ wire = <<>> /\ sess = FALSE /\ link = FALSE /\ ready = FALSE /\ mq = <<>> /\ faults = 0 /\ acts = 0
  BY DEF Init, LinkInit
<1>2. PICK rem \in Remembered, enabled \in BOOLEAN, profile \in BOOLEAN :
        LET restores == rem # {} /\ (enabled \/ "vpn" \in rem)
            hold == "vpn" \in rem
            last == enabled /\ profile
        IN /\ g = [run |-> FALSE, starting |-> last /\ ~hold, stopping |-> FALSE, cancel |-> FALSE,
                   sp |-> FALSE, tun |-> FALSE, pid |-> FALSE, rem |-> rem, saves |-> FALSE,
                   parked |-> FALSE, paused |-> FALSE, inFlight |-> FALSE, waiting |-> FALSE, timer |-> FALSE,
                   pending |-> hold, auth |-> FALSE, failed |-> FALSE,
                   deferred |-> hold /\ last, work |-> hold, probing |-> rem # {},
                   was |-> IF restores THEN rem ELSE {}, tunTimer |-> FALSE, installing |-> "no",
                   slept |-> {}, slip |-> "", out |-> <<>>]
           /\ wq = IF restores THEN <<[op |-> "probe", by |-> "startup", save |-> FALSE, was |-> {}]>> ELSE <<>>
  BY DEF Init
<1>3. PICK hold \in BOOLEAN, last \in BOOLEAN, want \in BOOLEAN, was \in SUBSET Modes :
        /\ hold = ("vpn" \in rem) /\ last = (enabled /\ profile) /\ want = (rem # {})
        /\ was = IF rem # {} /\ (enabled \/ "vpn" \in rem) THEN rem ELSE {}
  <2> DEFINE w == IF rem # {} /\ (enabled \/ "vpn" \in rem) THEN rem ELSE {}
  <2>1. w \in SUBSET Modes
    BY ModesAssumption DEF Modes
  <2>2. ("vpn" \in rem) \in BOOLEAN /\ (enabled /\ profile) \in BOOLEAN /\ (rem # {}) \in BOOLEAN
    OBVIOUS
  <2> QED
    BY <2>1, <2>2
<1>4. g = [run |-> FALSE, starting |-> last /\ ~hold, stopping |-> FALSE, cancel |-> FALSE,
           sp |-> FALSE, tun |-> FALSE, pid |-> FALSE, rem |-> rem, saves |-> FALSE,
           parked |-> FALSE, paused |-> FALSE, inFlight |-> FALSE, waiting |-> FALSE, timer |-> FALSE,
           pending |-> hold, auth |-> FALSE, failed |-> FALSE,
           deferred |-> hold /\ last, work |-> hold, probing |-> want,
           was |-> was, tunTimer |-> FALSE, installing |-> "no",
           slept |-> {}, slip |-> "", out |-> <<>>]
  BY <1>2, <1>3
<1>5. rem \in SUBSET Modes /\ <<>> \in Seq(Sent)
  BY ModesAssumption DEF Modes
<1>6. g \in Working
  BY <1>4, <1>5 DEF Working
<1>7. /\ ~g.run /\ ~g.stopping /\ ~g.inFlight /\ ~g.sp /\ ~g.pid /\ ~g.saves /\ ~g.failed /\ ~g.auth
      /\ g.out = <<>> /\ g.pending = hold /\ g.work = hold
      /\ (g.deferred => hold) /\ (g.starting => ~hold)
  BY <1>4
<1>8. wq \in {<<>>, <<probe>>}
  BY <1>2
<1>9. wq \in Queue /\ \A S \in {Applies, ProxyCalls, Starts, TunCalls, Losses, Halts} : ~In(wq, S)
  <2>1. probe \in Sent /\ probe \notin Losses /\ probe \notin Halts
    <3>1. probe \in Sent
      BY DEF Sent, Calls, Ops
    <3> QED
      BY <3>1, SignalsAside
  <2>2. probe \notin Applies /\ probe \notin ProxyCalls /\ probe \notin Starts /\ probe \notin TunCalls
    BY DEF Applies, ProxyCalls, Starts, TunCalls, CallOf
  <2> HIDE DEF probe
  <2>3. <<probe>> \in Queue /\ <<>> \in Queue
    BY <2>1 DEF Queue
  <2>4. \A S : In(<<probe>>, S) => probe \in S
    BY DEF In
  <2>5. \A S : ~In(<<>>, S)
    BY DEF In
  <2> QED
    BY <1>8, <2>1, <2>2, <2>3, <2>4, <2>5
<1>10. /\ \A S : ~In(mq, S)
       /\ \A S, T : ~Last(mq, S, T)
       /\ \A S : ~In(wire, S)
  BY <1>1 DEF In, Last
<1>11. ~Last(wq, Applies, ProxyCalls) /\ ~Last(wq, Starts, TunCalls) /\ ~Last(wq, NotByUser, Starts)
  <2>1. NotByUser \subseteq Starts
    BY Kinds
  <2> QED
    BY <1>9, <2>1 DEF In, Last
<1>12. Ahead(g) = wq
  BY <1>7, <1>9, ConcatEmptySeq DEF Ahead, Queue
<1>13. ~Lost(mq) /\ ~Halted(mq) /\ ~ProxyToBe(wq) /\ ~TunToBe(wq)
  BY <1>1, <1>9, <1>10, <1>11 DEF Lost, Halted, ProxyToBe, TunToBe
<1>14. LinkTyped
  <2>1. \A i \in 1..Len(wq) : wq[i] \in Calls \cup [m : Signals]
    BY <1>9, ElementOfSeq DEF Queue, Sent
  <2>2. \A i \in 1..Len(wire) : wire[i] \in [m : {"ready", "stopped"}]
    BY <1>1
  <2>3. <<>> \in Seq(Events) /\ <<>> \in Seq(Posts) /\ faults \in 0..MaxFaults
    BY <1>1, LinkAssumption
  <2>4. LinkTypeOK
    BY <1>1, <2>1, <2>2, <2>3 DEF LinkTypeOK
  <2> QED
    BY <1>1, <1>9, <2>3, <2>4 DEF LinkTyped
<1>15. LinkSound
  BY <1>1 DEF LinkSound
<1>16. ProxyKept(g, mq) /\ ParkingKept(g, mq)
  BY <1>1, <1>7, <1>9, <1>10, <1>12, <1>13 DEF ProxyKept, ParkingKept
<1>17. TunKept(g, mq)
  BY <1>1, <1>7, <1>10, <1>12, <1>13 DEF TunKept, TunSound, BackKept
<1>18. HoldKept(g, mq) /\ MemoryKept(g, mq)
  BY <1>7, <1>9, <1>10, <1>12 DEF HoldKept, MemoryKept
<1> QED
  BY <1>1, <1>6, <1>7, <1>14, <1>15, <1>16, <1>17, <1>18, ModesAssumption DEF ModesInv, Kept

\* Every step keeps the invariant, and forgets Tun only for the user.
LEMMA StepKept ==
  ASSUME ModesInv, [Next]_vars
  PROVE ModesInv' /\ ("vpn" \in g.rem /\ "vpn" \notin g'.rem /\ acts' = acts => Asker)
<1>1. CASE Deliver
  BY <1>1, DeliverKept
<1>2. CASE \E i \in Inputs : Input(i)
  BY <1>2, InputKept
<1>3. CASE GraceTimeout \/ SafetyTimeout \/ WakeCheck
  BY <1>3, TimersKept
<1>4. CASE TunTimeout
  BY <1>4, TunTimeoutKept
<1>5. CASE InstallEnds
  BY <1>5, InstallEndsKept
<1>6. CASE Replace
  BY <1>6, ReplaceKept
<1>7. CASE StartEnds
  BY <1>7, StartEndsKept
<1>8. CASE StopEnds
  BY <1>8, StopEndsKept
<1>9. CASE Worker
  BY <1>9, WorkerKept
<1>10. CASE Elsewhere
  BY <1>10, ElsewhereKept
<1>11. CASE UNCHANGED vars
  <2>1. /\ h' = h /\ wire' = wire /\ sess' = sess /\ link' = link /\ ready' = ready /\ mq' = mq
        /\ acts' = acts /\ faults' = faults /\ g' = g /\ wq' = wq
    BY <1>11 DEF vars, linkVars
  <2>2. CallsSame /\ PostsSame /\ (Lost(mq)' <=> Lost(mq)) /\ (Halted(mq)' <=> Halted(mq))
    BY <2>1 DEF CallsSame, PostsSame, Lost, Halted
  <2>3. LinkTyped' /\ LinkSound'
    BY <2>1 DEF ModesInv, LinkTyped, LinkTypeOK, LinkSound
  <2> QED
    BY <2>1, <2>2, <2>3, FrameKept
<1> QED
  BY <1>1, <1>2, <1>3, <1>4, <1>5, <1>6, <1>7, <1>8, <1>9, <1>10, <1>11 DEF Next

\* The state of the UI thread has made its calls.
LEMMA TypesHold ==
  ASSUME ModesInv
  PROVE TypeOK
<1>1. g \in Working /\ g.out = <<>>
  BY AtRest
<1>2. g \in StateType
  <2>1. g.out \in {<<>>}
    BY <1>1
  <2> QED
    BY <1>1, <2>1 DEF Working, StateType
<1> QED
  BY <1>2 DEF ModesInv, LinkTyped, TypeOK

\* When nothing is under way the promises have been kept: the queues that could excuse a
\* difference are empty.
LEMMA AgreeAtRest ==
  ASSUME ModesInv
  PROVE SettledAgree /\ BlockHolds /\ HeldForAReason
<1>1. Kept(g, mq) /\ Ahead(g) = wq /\ LinkSound
  BY AtRest
<1>2. HeldForAReason
  BY <1>1 DEF HeldForAReason, Kept, HoldKept
<1>3. BlockHolds
  BY <1>1 DEF BlockHolds, Settled, Kept, HoldKept, Ok
<1>4. ASSUME Settled, g.slip = "" PROVE h.proxy = (g.sp /\ g.run) /\ (h.tun = "up") = (g.tun /\ g.run /\ ~g.failed)
  <2>1. /\ wq = <<>> /\ mq = <<>> /\ wire = <<>> /\ sess = h.conn /\ h.tun # "coming" /\ h.up
        /\ ~g.starting /\ ~g.stopping /\ ~g.timer
    BY <1>4 DEF Settled
  <2>2. Ok(g)
    BY <1>4 DEF Ok
  <2>3. /\ \A S : ~In(wq, S) /\ ~In(mq, S) /\ ~In(wire, S)
        /\ \A S, T : ~Last(wq, S, T)
    BY <2>1 DEF In, Last
  <2>4. /\ h \in [inst : BOOLEAN, up : BOOLEAN, conn : BOOLEAN, tun : {"off", "coming", "up"}, proxy : BOOLEAN]
        /\ g \in Working
    BY AtRest DEF LinkTyped, LinkTypeOK
  <2>5. ~Lost(mq) /\ ~Halted(mq) /\ ~Ending(g, mq)
    BY <2>1, <2>3 DEF Lost, Halted, Ending
  <2>6. (ProxyToBe(wq) <=> h.proxy) /\ (TunToBe(wq) <=> h.tun # "off")
    BY <2>3 DEF ProxyToBe, TunToBe
  <2>7. h.proxy <=> g.sp /\ g.run
    <3>1. g.sp /\ g.parked => ~g.run
      BY <1>1, <2>1, <2>3 DEF Kept, ParkingKept
    <3>2. g.sp /\ ~g.parked => g.run
      BY <1>1, <2>2, <2>5 DEF Kept, ParkingKept
    <3>3. h.conn => (h.proxy <=> g.sp /\ ~g.parked)
      BY <1>1, <2>2, <2>5, <2>6 DEF Kept, ProxyKept
    <3>4. ~h.conn => ~h.proxy /\ ~g.sp
      BY <1>1, <2>1, <2>2, <2>5 DEF Kept, ProxyKept, LinkSound
    <3> QED
      BY <3>1, <3>2, <3>3, <3>4
  <2>8. h.tun = "up" <=> g.tun /\ g.run /\ ~g.failed
    <3>1. h.tun = "up" <=> TunToBe(wq)
      BY <2>1, <2>4, <2>6
    <3>2. TunToBe(wq) <=> g.pid
      BY <1>1, <2>2, <2>3, <2>5 DEF Kept, TunKept, TunSound
    <3>3. g.pid => g.tun
      BY <1>1 DEF Kept, TunKept, TunSound
    <3>4. g.pid => g.run
      BY <1>1, <2>2, <2>3, <2>5, <3>1, <3>2 DEF Kept, TunKept, TunSound
    <3>5. g.run => ~g.failed
      BY <1>1, <2>1, <2>2 DEF Kept, HoldKept
    <3>6. g.tun /\ g.run /\ ~g.failed => g.pid
      BY <1>1, <2>1, <2>2, <2>3 DEF Kept, TunKept, BackKept
    <3> QED
      BY <3>1, <3>2, <3>3, <3>4, <3>5, <3>6
  <2>9. h.proxy \in BOOLEAN /\ g.sp \in BOOLEAN /\ g.run \in BOOLEAN /\ g.tun \in BOOLEAN /\ g.failed \in BOOLEAN
    BY <2>4 DEF Working
  <2> QED
    BY <2>7, <2>8, <2>9
<1> QED
  BY <1>2, <1>3, <1>4 DEF SettledAgree

\* The promises of the switches, the helper and the queues hold in every state.
THEOREM PromisesKept == Spec => []ModesInv
<1>1. Init => ModesInv
  BY ModesStart
<1>2. ModesInv /\ [Next]_vars => ModesInv'
  BY StepKept
<1> QED
  BY <1>1, <1>2, PTL DEF Spec

\* The switches, the helper and the profile agree and what is held back is held for a
\* reason whenever nothing is under way (MacModeCoordinator, macTunFailed), unless one of
\* the named ways this fails has happened; and every variable keeps its type.
THEOREM ModesAlwaysAgree == Spec => []ModesAgree
<1>1. ModesInv => ModesAgree
  BY TypesHold, AgreeAtRest DEF ModesAgree
<1> QED
  BY <1>1, PromisesKept, PTL

\* Tun stays remembered until the user turns it off or a call the user made fails
\* (macTunStarted, macOnTunStopped and every other handler that turns the switch).
THEOREM RememberedAlways == Spec => RememberedUntilAsked
<1>1. ModesInv /\ [Next]_vars =>
        [/\ "vpn" \in g.rem \ g'.rem /\ acts' = acts /\ ~Later("tunStart")
         => Head(mq).m = "reply" /\ Head(mq).call.op = "tunStart" /\ Head(mq).call.by = "user"]_vars
  BY StepKept DEF Asker
<1> QED
  BY <1>1, PromisesKept, PTL DEF Spec, RememberedUntilAsked
=============================================================================
