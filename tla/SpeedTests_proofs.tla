------------------------------ MODULE SpeedTests_proofs ------------------------------
(* Theorems about SpeedTests and the TrafficLooper under it, for all profiles and their
   statistics, any number of pools, of workers and of threads, and every bound on bytes,
   starts and faults. The invariant has two halves. LoopInv: who holds loop_mutex, where the
   three threads are, and, for each profile the running configuration names, how often the
   looper's items and the rest of the UpdateAll under way still name it. TestInv: for each
   pool what its workers have taken, finished and locked; what the lists name; when the flag
   is a pool. The tests rename, save and delete what the first half counts.            *)
EXTENDS SpeedTests, FiniteSetTheorems, TLAPS

-------------------------------------------------------------------------------
(* The inductive invariant. *)

\* The ranges of the variables of the traffic.
CoreType == core \in [up : BOOLEAN, unread : Int]
LooperType ==
  /\ DOMAIN looper = {"enabled", "looping", "items", "mutex", "status"}
  /\ looper.enabled \in BOOLEAN /\ looper.items \in Seq(Ids) /\ looper.mutex \in {None, "loop", "stop"}
UpdType ==
  /\ upd = [todo |-> upd.todo, diff |-> upd.diff, got |-> upd.got]
  /\ upd.todo \in Seq(Ids) /\ upd.got \in Int \cup {None}
  /\ \A t \in DOMAIN upd.diff : upd.diff[t] \in Int
AtType ==
  at \in [loop : {"sleep", "want", "update"}, stop : {"idle", "off", "update", "save", "put", "rpc"}, start : {"idle", "built", "up"},
          next : DOMAIN StatsOf \cup {None}, started : DOMAIN StatsOf \cup {None}]
BooksType == total \in [Ids -> Int] /\ saved \in [Ids -> Int] /\ store \subseteq Ids
HistoryType ==
  /\ DOMAIN h = {"passed", "before", "lost", "base", "own", "retag", "skip", "late", "starts", "faults", "tested", "crossed"}
  /\ h.passed \in Int /\ h.before \in Int /\ h.lost \in Int /\ h.late \in BOOLEAN
  /\ h.base \in [Ids -> Int]
  /\ DOMAIN h.own \subseteq Ids /\ \A i \in DOMAIN h.own : h.own[i] \in Int
LoopTypes == CoreType /\ LooperType /\ UpdType /\ AtType /\ BooksType /\ HistoryType

\* The mutex is held by the thread that updates, which adds an answer before it ends, and by
\* the stop until it has saved what the looper's items name.
Saving == at.stop \in {"save", "put"}
Mutex ==
  /\ at.loop = "update" <=> looper.mutex = "loop"
  /\ at.stop = "update" \/ Saving <=> looper.mutex = "stop"
  /\ Saving => upd.got = None /\ upd.diff = <<>>
  /\ at.stop = "put" => upd.todo # <<>>
  /\ looper.mutex = None => upd = Nothing
  /\ upd.got # None => upd.todo # <<>>

\* A profile is counted only while one is started; the next starts when none is.
Order ==
  /\ at.stop # "idle" => at.started # None /\ ~looper.enabled
  /\ at.started = None => ~looper.enabled
  /\ at.start # "idle" => at.next # None
  /\ at.start = "up" => at.started = None

\* The update of a loop that was not late is of the items of the profile that runs.
InTime ==
  ~h.late =>
    /\ looper.mutex = "loop" => at.started # None /\ at.stop # "rpc"
    /\ \A k \in DOMAIN upd.todo : \E l \in DOMAIN looper.items : looper.items[l] = upd.todo[k]

\* Nothing that excuses a byte. Of each profile named by the running configuration: the object
\* has its tag, the items name it as often as the configuration, and so does what is left of
\* an update until the answer for its tag has come; what was answered is credited or held.
Clean == ~h.late /\ h.retag = {}
Answered == h.passed - h.before - core.unread - h.lost
Counts(i) ==
  /\ tag[i] = Proxy
  /\ at.started # None => h.own[i] = Times(looper.items, i)
  /\ at.start = "up" => h.own[i] = Times(Items(at.next), i)
  /\ (looper.mutex # None /\ ~Saving /\ Proxy \notin DOMAIN Known /\ i \notin h.skip) => Times(upd.todo, i) = h.own[i]
Credited(i) == i \notin h.skip => total[i] - h.base[i] + Held(i) = h.own[i] * Answered
BytesInv == Clean => \A i \in DOMAIN h.own : Counts(i) /\ Credited(i)

\* What is not saved will be, by the stop of the profile that runs.
Due(i) == at.started # None /\ at.stop # "rpc" /\ i \in Range(IF Saving THEN upd.todo ELSE looper.items)
SaveDue == ~h.late => \A i \in store : saved[i] = total[i] \/ Due(i)

\* The workers that finished, and the ranges of the variables of the tests.
Finishing == {"bye", "leaving", "gone"}
Finished(p) == {w \in Workers : work[<<p, w>>].pc \in Finishing}
Kinds == {"icmp", "url", "full"}
PoolRecord ==
  [state : {"none", "live", "over"}, kind : Kinds \cup {None}, list : Seq(Ids), left : Seq(Ids), finished : Nat,
   ret : BOOLEAN, lock : Workers \cup {None}, broken : BOOLEAN, tries : [Ids -> Nat]]
Job ==
  [pc : {"none", "new", "idle", "got", "sent", "bye", "leaving", "gone", "dead"}, prof : Ids \cup {None},
   mode : {"icmp", "tcp", "url", "full", None}]
PoolsType == pools \in [Pools -> PoolRecord]
WorkType == work \in [Pools \X Workers -> Job]
UiType ==
  /\ DOMAIN ui = {"testing", "listed", "dialog", "quit", "open", "stops", "forced", "deletes"}
  /\ ui.testing \in BOOLEAN /\ ui.forced \in BOOLEAN /\ ui.dialog \in Seq(Ids)
RestType ==
  /\ case \in Cases
  /\ icmp \in [down : BOOLEAN, noticed : BOOLEAN, notices : Int]
  /\ result \in [Ids -> {None, "report", "measured"}]

\* Of a pool: nothing before it begins; its workers are its threads; who finished is counted,
\* after the last profile was taken, and all of them when the control thread may go; one of
\* them has lock_write; a profile that left the list was taken once, by a worker that has it.
Asleep(p) ==
  pools[p].state = "none" =>
    /\ pools[p].list = <<>> /\ pools[p].left = <<>> /\ pools[p].finished = 0 /\ ~pools[p].ret /\ pools[p].lock = None
    /\ \A w \in Workers : work[<<p, w>>].pc = "none"
    /\ \A i \in Ids : pools[p].tries[i] = 0
Crew(p) ==
  pools[p].state # "none" => \A w \in Workers : work[<<p, w>>].pc # "none" <=> w \in Threads(pools[p].kind)
Counted(p) ==
  /\ pools[p].finished = Cardinality(Finished(p))
  /\ Finished(p) # {} => pools[p].left = <<>>
  /\ pools[p].ret => Threads(pools[p].kind) \subseteq Finished(p)
  /\ pools[p].ret => pools[p].left = <<>>
  /\ pools[p].state = "over" => pools[p].ret
Locked(p) == \A w \in Workers : work[<<p, w>>].pc = "bye" <=> pools[p].lock = w
Tried(p) ==
  /\ IsInjective(pools[p].left)
  /\ Range(pools[p].left) \subseteq Range(pools[p].list)
  /\ \A i \in Ids : pools[p].tries[i] = IF i \in Range(pools[p].list) \ Range(pools[p].left) THEN 1 ELSE 0
Handed(p) == \A w \in Workers : work[<<p, w>>].pc \in {"got", "sent"} => work[<<p, w>>].prof \in Range(pools[p].list)
PoolInv(p) == Asleep(p) /\ Crew(p) /\ Counted(p) /\ Locked(p) /\ Tried(p) /\ Handed(p)

\* What the lists and the dialog name is stored, or was deleted under a test, and what a stop
\* has looked up is stored, or was deleted after it; the flag is a pool, and the notice was
\* given once.
Looked == at.stop = "put" => Head(upd.todo) \in store \cup h.crossed
ListsInv ==
  /\ Looked
  /\ \A p \in Pools : pools[p].state = "live" => Range(pools[p].list) \subseteq store \cup h.tested
  /\ IsInjective(ui.dialog) /\ Range(ui.dialog) \subseteq store \cup h.tested
FlagInv == ~ui.forced => IF ui.testing THEN \E p \in Pools : Live = {p} ELSE Live = {}
NoticeInv == (icmp.down <=> icmp.noticed) /\ icmp.notices = IF icmp.noticed THEN 1 ELSE 0

\* Both halves.
LoopInv == LoopTypes /\ Mutex /\ Order /\ InTime /\ BytesInv /\ SaveDue
PoolsInv == \A p \in Pools : PoolInv(p)
TestInv == PoolsType /\ WorkType /\ UiType /\ RestType /\ PoolsInv /\ ListsInv /\ FlagInv /\ NoticeInv
-------------------------------------------------------------------------------
(* How often a profile stands in a list. *)

\* The positions at which a list names a profile are finitely many.
LEMMA PlacesFinite ==
  ASSUME NEW s \in Seq(Ids), NEW i
  PROVE /\ IsFiniteSet({k \in DOMAIN s : s[k] = i})
        /\ Times(s, i) \in Nat
<1>1. DOMAIN s = 1..Len(s) /\ Len(s) \in Nat
  OBVIOUS
<1>2. IsFiniteSet(DOMAIN s)
  BY <1>1, FS_Interval
<1>3. {k \in DOMAIN s : s[k] = i} \in SUBSET DOMAIN s
  OBVIOUS
<1> HIDE DEF Times
<1> QED
  BY <1>2, <1>3, FS_Subset, FS_CardinalityType DEF Times

\* So their number is a natural number.
LEMMA TimesNat == \A s \in Seq(Ids) : \A i : Times(s, i) \in Nat
BY PlacesFinite

\* An empty list names nobody.
LEMMA TimesNone == ASSUME NEW i PROVE Times(<<>>, i) = 0
<1>1. {k \in DOMAIN <<>> : <<>>[k] = i} = {}
  OBVIOUS
<1> QED
  BY <1>1, FS_EmptySet DEF Times

\* Without its head a list names the head once less, and the others as often.
LEMMA TimesTail ==
  ASSUME NEW s \in Seq(Ids), s # <<>>, NEW i
  PROVE Times(Tail(s), i) = Times(s, i) - (IF Head(s) = i THEN 1 ELSE 0)
<1> DEFINE K == {k \in DOMAIN s : s[k] = i}
           T == {k \in DOMAIN Tail(s) : Tail(s)[k] = i}
           f == [k \in K \ {1} |-> k - 1]
<1>1. Len(s) \in Nat \ {0} /\ DOMAIN s = 1..Len(s) /\ DOMAIN Tail(s) = 1..(Len(s) - 1)
  OBVIOUS
<1>2. \A k \in DOMAIN Tail(s) : Tail(s)[k] = s[k + 1]
  OBVIOUS
<1>3. \A k \in K \ {1} : k - 1 \in T
  BY <1>1, <1>2
<1>4. \A k \in T : k + 1 \in K \ {1} /\ (k + 1) - 1 = k
  BY <1>1, <1>2
<1>5. f \in Bijection(K \ {1}, T)
  <2>1. f \in [K \ {1} -> T]
    BY <1>3
  <2>2. \A a, b \in K \ {1} : f[a] = f[b] => a = b
    BY <1>1
  <2>3. \A k \in T : \E a \in K \ {1} : f[a] = k
    BY <1>4
  <2> QED
    BY <2>1, <2>2, <2>3 DEF Bijection, Injection, Surjection, IsInjective
<1>6. IsFiniteSet(K) /\ Cardinality(K) \in Nat
  BY PlacesFinite, FS_CardinalityType
<1>7. IsFiniteSet(K \ {1}) /\ Cardinality(K \ {1}) = IF 1 \in K THEN Cardinality(K) - 1 ELSE Cardinality(K)
  BY <1>6, FS_RemoveElement
<1>8. Cardinality(T) = Cardinality(K \ {1})
  <2>1. ExistsBijection(K \ {1}, T)
    BY <1>5 DEF ExistsBijection
  <2> QED
    BY <2>1, <1>7, FS_Bijection
<1>9. 1 \in K <=> Head(s) = i
  BY <1>1
<1>10. Times(s, i) = Cardinality(K) /\ Times(Tail(s), i) = Cardinality(T)
  BY DEF Times
<1> HIDE DEF K, T, f
<1> QED
  BY <1>6, <1>7, <1>8, <1>9, <1>10

\* The first of a list and the rest of it.
LEMMA HeadTail ==
  ASSUME NEW S, NEW s \in Seq(S), s # <<>>
  PROVE /\ Head(s) \in S /\ Head(s) = s[1] /\ 1 \in DOMAIN s /\ Tail(s) \in Seq(S)
        /\ \A k \in DOMAIN Tail(s) : k + 1 \in DOMAIN s /\ Tail(s)[k] = s[k + 1]
        /\ \A k \in DOMAIN s : k = 1 \/ (k - 1 \in DOMAIN Tail(s) /\ Tail(s)[k - 1] = s[k])
  OBVIOUS

-------------------------------------------------------------------------------
(* The counting loop, the starts and the stops. *)

\* Every step keeps the counters, the objects and the places of the threads in their ranges.
LEMMA LoopTyped == LoopTypes /\ Mutex /\ Order /\ TrafficNext => LoopTypes'
<1> SUFFICES ASSUME LoopTypes, Mutex, Order, TrafficNext PROVE LoopTypes'
  OBVIOUS
<1>0. CoreType /\ LooperType /\ UpdType /\ AtType /\ BooksType /\ HistoryType
  BY DEF LoopTypes
<1>1. ASSUME NEW id \in DOMAIN StatsOf, StartBuild(id) PROVE LoopTypes'
  <2>1. AtType'
    BY <1>0, <1>1, TrafficAssumption DEF StartBuild, AtType, Changed
  <2>2. HistoryType'
    BY <1>0, <1>1, TrafficAssumption DEF StartBuild, CoreType, BooksType, HistoryType, Changed
  <2>3. UNCHANGED <<core, looper, upd, total, saved, store>>
    BY <1>1 DEF StartBuild
  <2> QED
    BY <1>0, <2>1, <2>2, <2>3 DEF LoopTypes, CoreType, LooperType, UpdType, BooksType
<1>2. ASSUME StartRpc PROVE LoopTypes'
  <2>1. CoreType'
    BY <1>0, <1>2, TrafficAssumption DEF StartRpc, CoreType, Changed
  <2>2. AtType'
    BY <1>0, <1>2, TrafficAssumption DEF StartRpc, AtType, Changed
  <2>3. HistoryType'
    <3>1. Items(at.next) \in Seq(Ids)
      BY <1>0, <1>2, TrafficAssumption DEF StartRpc, AtType, Order
    <3>2. \A i \in Ids : Times(Items(at.next), i) \in Int
      BY <3>1, TimesNat
    <3> DEFINE stats == StatsOf[at.next]
               own == [i \in {j \in Ids : Tags(stats)[j] = Proxy} |-> Times(Items(at.next), i)]
    <3>3. /\ DOMAIN own \subseteq Ids
          /\ \A i \in DOMAIN own : own[i] \in Int
      BY <3>2
    <3>4. h' = [h EXCEPT !.before = h.passed, !.lost = 0, !.base = total, !.own = own, !.retag = Changed(stats), !.skip = {}]
      BY <1>2 DEF StartRpc
    <3> HIDE DEF own, stats
    <3> QED
      BY <1>0, <3>3, <3>4 DEF HistoryType, BooksType
  <2>4. UNCHANGED <<looper, upd, total, saved, store>>
    BY <1>2 DEF StartRpc
  <2> QED
    BY <1>0, <2>1, <2>2, <2>3, <2>4 DEF LoopTypes, LooperType, UpdType, BooksType
<1>3. ASSUME StartFails PROVE LoopTypes'
  <2>1. AtType'
    BY <1>0, <1>3, TrafficAssumption DEF StartFails, AtType
  <2>2. HistoryType'
    BY <1>0, <1>3, TrafficAssumption DEF StartFails, CoreType, BooksType, HistoryType
  <2>3. UNCHANGED <<core, looper, upd, total, saved, store>>
    BY <1>3 DEF StartFails
  <2> QED
    BY <1>0, <2>1, <2>2, <2>3 DEF LoopTypes, CoreType, LooperType, UpdType, BooksType
<1>4. ASSUME StartAssign PROVE LoopTypes'
  <2>1. LooperType'
    <3>1. Items(at.next) \in Seq(Ids)
      BY <1>0, <1>4, TrafficAssumption DEF StartAssign, AtType, Order
    <3>2. looper' = [looper EXCEPT !.items = Items(at.next), !.enabled = TRUE]
      BY <1>4 DEF StartAssign
    <3> QED
      BY <1>0, <3>1, <3>2 DEF LooperType
  <2>2. AtType'
    BY <1>0, <1>4, TrafficAssumption DEF StartAssign, AtType
  <2>3. UNCHANGED <<core, upd, total, saved, store, h>>
    BY <1>4 DEF StartAssign
  <2> QED
    BY <1>0, <2>1, <2>2, <2>3 DEF LoopTypes, CoreType, UpdType, BooksType, HistoryType
<1>5. ASSUME LoopChecks PROVE LoopTypes'
  <2>1. LooperType'
    BY <1>0, <1>5, TrafficAssumption DEF LoopChecks, LooperType, AtType, Looping
  <2>2. AtType'
    BY <1>0, <1>5, TrafficAssumption DEF LoopChecks, AtType, Looping
  <2>3. UNCHANGED <<core, upd, total, saved, store, h>>
    BY <1>5 DEF LoopChecks
  <2> QED
    BY <1>0, <2>1, <2>2, <2>3 DEF LoopTypes, CoreType, UpdType, BooksType, HistoryType
<1>6. ASSUME LoopLocks PROVE LoopTypes'
  <2>1. LooperType'
    BY <1>0, <1>6, TrafficAssumption DEF LoopLocks, LooperType, AtType, Locks, Nothing
  <2>2. UpdType'
    BY <1>0, <1>6, TrafficAssumption DEF LoopLocks, CoreType, LooperType, UpdType, Locks, Nothing
  <2>3. AtType'
    BY <1>0, <1>6, TrafficAssumption DEF LoopLocks, AtType, Locks, Nothing
  <2>4. HistoryType'
    BY <1>0, <1>6, TrafficAssumption DEF LoopLocks, CoreType, BooksType, HistoryType, Locks, Nothing
  <2>5. UNCHANGED <<core, total, saved, store>>
    BY <1>6 DEF LoopLocks
  <2> QED
    BY <1>0, <2>1, <2>2, <2>3, <2>4, <2>5 DEF LoopTypes, CoreType, BooksType
<1>7. ASSUME LoopUnlocks PROVE LoopTypes'
  <2>1. LooperType'
    BY <1>0, <1>7, TrafficAssumption DEF LoopUnlocks, LooperType, AtType, Nothing
  <2>2. AtType'
    BY <1>0, <1>7, TrafficAssumption DEF LoopUnlocks, AtType, Nothing
  <2>3. UpdType'
    BY <1>0, <1>7, TrafficAssumption DEF LoopUnlocks, CoreType, LooperType, UpdType, Nothing
  <2>4. UNCHANGED <<core, total, saved, store, h>>
    BY <1>7 DEF LoopUnlocks
  <2> QED
    BY <1>0, <2>1, <2>2, <2>3, <2>4 DEF LoopTypes, CoreType, BooksType, HistoryType
<1>8. ASSUME Query PROVE LoopTypes'
  <2> DEFINE i == Head(upd.todo)
             seen == core.up /\ tag[i] = Proxy
  <2>0. upd.todo # <<>> /\ Tail(upd.todo) \in Seq(Ids)
    BY <1>0, <1>8, HeadTail DEF Query, UpdType
  <2> DEFINE G == CoreType' /\ UpdType' /\ HistoryType'
  <2>1. ASSUME /\ upd' = [upd EXCEPT !.got = IF seen THEN core.unread ELSE 0]
             /\ core' = [core EXCEPT !.unread = IF seen THEN 0 ELSE @] /\ UNCHANGED h
        PROVE G
    <3> HIDE DEF seen
    <3> QED
      BY <1>0, <2>1 DEF CoreType, UpdType, HistoryType
  <2>2. ASSUME /\ upd' = [upd EXCEPT !.got = 0] /\ core' = [core EXCEPT !.unread = 0]
             /\ h' = [h EXCEPT !.faults = @ + 1, !.lost = @ + core.unread]
        PROVE G
    BY <1>0, <2>2 DEF CoreType, UpdType, HistoryType
  <2>3. ASSUME upd' = [upd EXCEPT !.todo = Tail(@)] /\ h' = [h EXCEPT !.skip = @ \cup {i}] /\ UNCHANGED core
        PROVE G
    <3> HIDE DEF i
    <3> QED
      BY <1>0, <2>0, <2>3 DEF CoreType, UpdType, HistoryType
  <2>4. UNCHANGED <<looper, at, total, saved, store>>
    BY <1>8 DEF Query
  <2>6. G
    BY <1>8, <2>1, <2>2, <2>3 DEF Query
  <2> QED
    BY <1>0, <1>8, <2>6, <2>4 DEF LoopTypes, LooperType, AtType, BooksType
<1>9. ASSUME AddOwn PROVE LoopTypes'
  <2>1. BooksType'
    <3>1. upd.todo # <<>> /\ Head(upd.todo) \in Ids /\ upd.got \in Int
      BY <1>0, <1>9, HeadTail DEF AddOwn, UpdType, Mutex
    <3> DEFINE i == Head(upd.todo)
    <3>2. total' = [total EXCEPT ![i] = @ + upd.got] /\ UNCHANGED <<saved, store>>
      BY <1>9 DEF AddOwn
    <3> HIDE DEF i
    <3> QED
      BY <1>0, <3>1, <3>2 DEF BooksType, i
  <2>2. UpdType'
    <3>1. upd.todo # <<>> /\ Tail(upd.todo) \in Seq(Ids) /\ upd.got \in Int
      BY <1>0, <1>9, HeadTail DEF AddOwn, UpdType, Mutex
    <3> DEFINE t == tag[Head(upd.todo)]
               d == With(upd.diff, t, upd.got)
    <3>2. upd' = [todo |-> Tail(upd.todo), diff |-> d, got |-> None]
      BY <1>9 DEF AddOwn
    <3>3. \A x \in DOMAIN d : d[x] \in Int
      BY <1>0, <3>1 DEF UpdType, With
    <3> HIDE DEF d
    <3> QED
      BY <3>1, <3>2, <3>3 DEF UpdType
  <2>3. UNCHANGED <<core, looper, at, h>>
    BY <1>9 DEF AddOwn
  <2> QED
    BY <1>0, <2>1, <2>2, <2>3 DEF LoopTypes, CoreType, LooperType, AtType, HistoryType
<1>10. ASSUME AddShared PROVE LoopTypes'
  <2>1. BooksType'
    BY <1>0, <1>10, TrafficAssumption DEF AddShared, UpdType, BooksType, Share
  <2>2. UpdType'
    <3>1. Tail(upd.todo) \in Seq(Ids) /\ upd' = [upd EXCEPT !.todo = Tail(@)]
      BY <1>0, <1>10, HeadTail DEF AddShared, UpdType
    <3> QED
      BY <1>0, <3>1 DEF UpdType
  <2>3. UNCHANGED <<core, looper, at, h>>
    BY <1>10 DEF AddShared
  <2> QED
    BY <1>0, <2>1, <2>2, <2>3 DEF LoopTypes, CoreType, LooperType, AtType, HistoryType
<1>11. ASSUME StopBegin PROVE LoopTypes'
  <2>1. LooperType'
    BY <1>0, <1>11, TrafficAssumption DEF StopBegin, LooperType, AtType
  <2>2. AtType'
    BY <1>0, <1>11, TrafficAssumption DEF StopBegin, AtType
  <2>3. UNCHANGED <<core, upd, total, saved, store, h>>
    BY <1>11 DEF StopBegin
  <2> QED
    BY <1>0, <2>1, <2>2, <2>3 DEF LoopTypes, CoreType, UpdType, BooksType, HistoryType
<1>12. ASSUME StopLocks PROVE LoopTypes'
  <2>1. LooperType'
    BY <1>0, <1>12, TrafficAssumption DEF StopLocks, LooperType, AtType, Locks, Nothing
  <2>2. UpdType'
    BY <1>0, <1>12, TrafficAssumption DEF StopLocks, CoreType, LooperType, UpdType, Locks, Nothing
  <2>3. AtType'
    BY <1>0, <1>12, TrafficAssumption DEF StopLocks, AtType, Locks, Nothing
  <2>4. UNCHANGED <<core, total, saved, store, h>>
    BY <1>12 DEF StopLocks
  <2> QED
    BY <1>0, <2>1, <2>2, <2>3, <2>4 DEF LoopTypes, CoreType, BooksType, HistoryType
<1>13. ASSUME StopSaves PROVE LoopTypes'
  <2>1. upd.todo # <<>> => Head(upd.todo) \in Ids /\ Tail(upd.todo) \in Seq(Ids)
    BY <1>0, HeadTail DEF UpdType
  <2>2. UNCHANGED <<core, total, h>>
    BY <1>13 DEF StopSaves, StopUpdated, StopGets, StopPuts, StopUnlocks
  <2>3. BooksType'
    <3>1. CASE StopPuts
      <4>1. upd.todo # <<>>
        BY <3>1 DEF StopPuts, Mutex
      <4> QED
        BY <1>0, <2>1, <2>2, <3>1, <4>1 DEF StopPuts, BooksType
    <3>2. CASE ~StopPuts
      BY <1>0, <1>13, <2>2, <3>2 DEF StopSaves, StopUpdated, StopGets, StopUnlocks, BooksType
    <3> QED
      BY <3>1, <3>2
  <2>4. LooperType'
    BY <1>0, <1>13 DEF StopSaves, StopUpdated, StopGets, StopPuts, StopUnlocks, LooperType
  <2>5. UpdType'
    <3>1. CASE StopUpdated
      BY <1>0, <3>1 DEF StopUpdated, UpdType, LooperType, Nothing
    <3>2. CASE StopGets \/ StopPuts
      <4>1. upd' = upd \/ (upd.todo # <<>> /\ upd' = [upd EXCEPT !.todo = Tail(@)])
        BY <3>2 DEF StopGets, StopPuts, Mutex
      <4> QED
        BY <1>0, <2>1, <4>1 DEF UpdType
    <3>3. CASE StopUnlocks
      BY <1>0, <3>3 DEF StopUnlocks, UpdType
    <3> QED
      BY <1>13, <3>1, <3>2, <3>3 DEF StopSaves
  <2>6. AtType'
    BY <1>0, <1>13 DEF StopSaves, StopUpdated, StopGets, StopPuts, StopUnlocks, AtType
  <2> QED
    BY <1>0, <2>2, <2>3, <2>4, <2>5, <2>6 DEF LoopTypes, CoreType, HistoryType
<1>14. ASSUME StopRpc PROVE LoopTypes'
  <2>1. CoreType'
    BY <1>0, <1>14, TrafficAssumption DEF StopRpc, CoreType
  <2>2. HistoryType'
    BY <1>0, <1>14, TrafficAssumption DEF StopRpc, CoreType, BooksType, HistoryType
  <2>3. AtType'
    BY <1>0, <1>14, TrafficAssumption DEF StopRpc, AtType
  <2>4. UNCHANGED <<looper, upd, total, saved, store>>
    BY <1>14 DEF StopRpc
  <2> QED
    BY <1>0, <2>1, <2>2, <2>3, <2>4 DEF LoopTypes, LooperType, UpdType, BooksType
<1>15. ASSUME StopFails PROVE LoopTypes'
  <2>1. AtType'
    BY <1>0, <1>15, TrafficAssumption DEF StopFails, AtType
  <2>2. HistoryType'
    BY <1>0, <1>15, TrafficAssumption DEF StopFails, CoreType, BooksType, HistoryType
  <2>3. UNCHANGED <<core, looper, upd, total, saved, store>>
    BY <1>15 DEF StopFails
  <2> QED
    BY <1>0, <2>1, <2>2, <2>3 DEF LoopTypes, CoreType, LooperType, UpdType, BooksType
<1>16. ASSUME Bytes PROVE LoopTypes'
  <2>1. CoreType'
    BY <1>0, <1>16, TrafficAssumption DEF Bytes, CoreType
  <2>2. HistoryType'
    BY <1>0, <1>16, TrafficAssumption DEF Bytes, CoreType, BooksType, HistoryType
  <2>3. UNCHANGED <<looper, upd, at, total, saved, store>>
    BY <1>16 DEF Bytes
  <2> QED
    BY <1>0, <2>1, <2>2, <2>3 DEF LoopTypes, LooperType, UpdType, AtType, BooksType
<1>17. ASSUME CoreDies PROVE LoopTypes'
  <2>1. CoreType'
    BY <1>0, <1>17, TrafficAssumption DEF CoreDies, CoreType
  <2>2. HistoryType'
    BY <1>0, <1>17, TrafficAssumption DEF CoreDies, CoreType, BooksType, HistoryType
  <2>3. UNCHANGED <<looper, upd, at, total, saved, store>>
    BY <1>17 DEF CoreDies
  <2> QED
    BY <1>0, <2>1, <2>2, <2>3 DEF LoopTypes, LooperType, UpdType, AtType, BooksType
<1> QED
  BY <1>1, <1>2, <1>3, <1>4, <1>5, <1>6, <1>7, <1>8, <1>9, <1>10, <1>11, <1>12, <1>13, <1>14, <1>15, <1>16, <1>17 DEF TrafficNext, Loop, Update, Starts, Stops
\* An UpdateAll works off its list and touches nothing of the threads.
LEMMA UpdateWorksOff ==
  ASSUME LoopTypes, Mutex, Update
  PROVE /\ upd.todo # <<>> /\ looper.mutex # None /\ ~Saving
        /\ UNCHANGED <<looper, at, tag, saved, store>> /\ h'.late = h.late
        /\ upd'.todo = upd.todo \/ (upd'.todo = Tail(upd.todo) /\ upd'.got = None)
<1>0. UpdType /\ HistoryType
  BY DEF LoopTypes
<1>1. upd.todo # <<>>
  BY DEF Update, Query, AddOwn, AddShared, Mutex
<1>2. UNCHANGED <<looper, at, tag, saved, store>>
  BY DEF Update, Query, AddOwn, AddShared
<1>3. h'.late = h.late
  <2>1. CASE Query
    BY <1>0, <2>1 DEF Query, HistoryType
  <2> QED
    BY <2>1 DEF Update, AddOwn, AddShared
<1>4. upd'.todo = upd.todo \/ (upd'.todo = Tail(upd.todo) /\ upd'.got = None)
  <2>1. CASE Query
    BY <1>0, <2>1 DEF Query, UpdType
  <2>2. CASE AddOwn
    BY <1>0, <2>2 DEF AddOwn
  <2>3. CASE AddShared
    BY <1>0, <2>3 DEF AddShared, UpdType
  <2> QED
    BY <2>1, <2>2, <2>3 DEF Update
<1>5. looper.mutex # None
  BY <1>1 DEF Mutex, Nothing
<1>6. ~Saving
  BY DEF Update, Query, AddOwn, AddShared, Mutex, Saving
<1> QED
  BY <1>1, <1>2, <1>3, <1>4, <1>5, <1>6

\* Every step keeps the mutex with the thread that updates, and the order of starts and stops.
LEMMA LoopOrdered == LoopTypes /\ Mutex /\ Order /\ InTime /\ TrafficNext => Mutex' /\ Order' /\ InTime'
<1> SUFFICES ASSUME LoopTypes, Mutex, Order, InTime, TrafficNext PROVE Mutex' /\ Order' /\ InTime'
  OBVIOUS
<1>0. LooperType /\ UpdType /\ AtType /\ HistoryType
  BY DEF LoopTypes
<1>1. ASSUME NEW id \in DOMAIN StatsOf, StartBuild(id) PROVE Mutex' /\ Order' /\ InTime'
  <2>1. Mutex'
    BY <1>0, <1>1, TrafficAssumption DEF StartBuild, Mutex, Saving, LooperType, UpdType, AtType, Changed
  <2>2. Order'
    BY <1>0, <1>1, TrafficAssumption DEF StartBuild, Order, LooperType, AtType, Changed
  <2>3. InTime'
    BY <1>0, <1>1, TrafficAssumption DEF StartBuild, InTime, Mutex, Saving, Order, LooperType, UpdType, AtType, HistoryType, Changed
  <2> QED
    BY <2>1, <2>2, <2>3
<1>2. ASSUME StartRpc PROVE Mutex' /\ Order' /\ InTime'
  <2>1. Mutex'
    BY <1>0, <1>2, TrafficAssumption DEF StartRpc, Mutex, Saving, LooperType, UpdType, AtType, Changed
  <2>2. Order'
    BY <1>0, <1>2, TrafficAssumption DEF StartRpc, Order, LooperType, AtType, Changed
  <2>3. InTime'
    BY <1>0, <1>2, TrafficAssumption DEF StartRpc, InTime, Mutex, Saving, Order, LooperType, UpdType, AtType, HistoryType, Changed
  <2> QED
    BY <2>1, <2>2, <2>3
<1>3. ASSUME StartFails PROVE Mutex' /\ Order' /\ InTime'
  <2>1. Mutex'
    BY <1>0, <1>3, TrafficAssumption DEF StartFails, Mutex, Saving, LooperType, UpdType, AtType
  <2>2. Order'
    BY <1>0, <1>3, TrafficAssumption DEF StartFails, Order, LooperType, AtType
  <2>3. InTime'
    BY <1>0, <1>3, TrafficAssumption DEF StartFails, InTime, Mutex, Saving, Order, LooperType, UpdType, AtType, HistoryType
  <2> QED
    BY <2>1, <2>2, <2>3
<1>4. ASSUME StartAssign PROVE Mutex' /\ Order' /\ InTime'
  <2>1. Mutex'
    BY <1>0, <1>4, TrafficAssumption DEF StartAssign, Mutex, Saving, LooperType, UpdType, AtType
  <2>2. Order'
    BY <1>0, <1>4, TrafficAssumption DEF StartAssign, Order, LooperType, AtType
  <2>3. InTime'
    <3>1. /\ looper'.mutex = looper.mutex /\ h' = h /\ upd' = upd
          /\ at'.stop = at.stop /\ at'.started # None /\ at.started = None
      BY <1>0, <1>4, TrafficAssumption DEF StartAssign, LooperType, AtType, Order
    <3>2. ~h.late => upd.todo = <<>>
      BY <1>0, <3>1, TrafficAssumption DEF InTime, Mutex, Saving, Order, Nothing, LooperType
    <3> QED
      BY <3>1, <3>2 DEF InTime
  <2> QED
    BY <2>1, <2>2, <2>3
<1>5. ASSUME LoopChecks PROVE Mutex' /\ Order' /\ InTime'
  <2>1. Mutex'
    BY <1>0, <1>5, TrafficAssumption DEF LoopChecks, Mutex, Saving, LooperType, UpdType, AtType, Looping
  <2>2. Order'
    BY <1>0, <1>5, TrafficAssumption DEF LoopChecks, Order, LooperType, AtType, Looping
  <2>3. InTime'
    <3>1. /\ looper'.mutex = looper.mutex /\ looper'.items = looper.items /\ h' = h /\ upd' = upd
          /\ at'.stop = at.stop /\ at'.started = at.started
      BY <1>0, <1>5 DEF LoopChecks, Looping, LooperType, AtType
    <3> QED
      BY <3>1 DEF InTime
  <2> QED
    BY <2>1, <2>2, <2>3
<1>6. ASSUME LoopLocks PROVE Mutex' /\ Order' /\ InTime'
  <2>1. Mutex'
    BY <1>0, <1>6, TrafficAssumption DEF LoopLocks, Mutex, Saving, LooperType, UpdType, AtType, Locks, Nothing
  <2>2. Order'
    BY <1>0, <1>6, TrafficAssumption DEF LoopLocks, Order, LooperType, AtType, Locks, Nothing
  <2>3. InTime'
    BY <1>0, <1>6, TrafficAssumption DEF LoopLocks, InTime, Mutex, Saving, Order, LooperType, UpdType, AtType, HistoryType, Locks, Nothing
  <2> QED
    BY <2>1, <2>2, <2>3
<1>7. ASSUME LoopUnlocks PROVE Mutex' /\ Order' /\ InTime'
  <2>1. Mutex'
    BY <1>0, <1>7, TrafficAssumption DEF LoopUnlocks, Mutex, Saving, LooperType, UpdType, AtType, Nothing
  <2>2. Order'
    BY <1>0, <1>7, TrafficAssumption DEF LoopUnlocks, Order, LooperType, AtType, Nothing
  <2>3. InTime'
    BY <1>0, <1>7, TrafficAssumption DEF LoopUnlocks, InTime, Mutex, Saving, Order, LooperType, UpdType, AtType, HistoryType, Nothing
  <2> QED
    BY <2>1, <2>2, <2>3
<1>8. ASSUME Update PROVE Mutex' /\ Order' /\ InTime'
  <2>1. /\ upd.todo # <<>> /\ looper.mutex # None /\ ~Saving
        /\ looper' = looper /\ at' = at /\ h'.late = h.late
        /\ upd'.todo = upd.todo \/ (upd'.todo = Tail(upd.todo) /\ upd'.got = None)
    BY <1>8, UpdateWorksOff
  <2>2. upd.todo \in Seq(Ids)
    BY <1>0 DEF UpdType
  <2>3. Mutex' /\ Order'
    BY <2>1 DEF Mutex, Saving, Order
  <2>4. \A k \in DOMAIN upd'.todo : \E l \in DOMAIN upd.todo : upd.todo[l] = upd'.todo[k]
    <3>1. CASE upd'.todo = upd.todo
      BY <3>1
    <3>2. CASE upd'.todo = Tail(upd.todo)
      BY <2>1, <2>2, <3>2, HeadTail
    <3> QED
      BY <2>1, <3>1, <3>2
  <2>5. InTime'
    BY <2>1, <2>4 DEF InTime
  <2> QED
    BY <2>3, <2>5
<1>11. ASSUME StopBegin PROVE Mutex' /\ Order' /\ InTime'
  <2>1. Mutex'
    BY <1>0, <1>11, TrafficAssumption DEF StopBegin, Mutex, Saving, LooperType, UpdType, AtType
  <2>2. Order'
    BY <1>0, <1>11, TrafficAssumption DEF StopBegin, Order, LooperType, AtType
  <2>3. InTime'
    BY <1>0, <1>11, TrafficAssumption DEF StopBegin, InTime, Mutex, Saving, Order, LooperType, UpdType, AtType, HistoryType
  <2> QED
    BY <2>1, <2>2, <2>3
<1>12. ASSUME StopLocks PROVE Mutex' /\ Order' /\ InTime'
  <2>1. Mutex'
    BY <1>0, <1>12, TrafficAssumption DEF StopLocks, Mutex, Saving, LooperType, UpdType, AtType, Locks, Nothing
  <2>2. Order'
    BY <1>0, <1>12, TrafficAssumption DEF StopLocks, Order, LooperType, AtType, Locks, Nothing
  <2>3. InTime'
    BY <1>0, <1>12, TrafficAssumption DEF StopLocks, InTime, Mutex, Saving, Order, LooperType, UpdType, AtType, HistoryType, Locks, Nothing
  <2> QED
    BY <2>1, <2>2, <2>3
<1>13. ASSUME StopSaves PROVE Mutex' /\ Order' /\ InTime'
  <2>0. upd.todo \in Seq(Ids)
    BY <1>0 DEF UpdType
  <2>1. CASE StopUpdated
    <3>1. /\ at'.stop = "save" /\ at'.loop = at.loop /\ looper' = looper /\ h' = h /\ at.stop = "update"
          /\ at'.started = at.started /\ at'.start = at.start /\ at'.next = at.next
          /\ upd'.todo = looper.items /\ upd'.diff = <<>> /\ upd'.got = None
      BY <1>0, <2>1 DEF StopUpdated, AtType, Nothing
    <3>2. looper.mutex = "stop"
      BY <3>1 DEF Mutex
    <3> QED
      BY <3>1, <3>2, TrafficAssumption DEF Mutex, Saving, Order, InTime
  <2>2. CASE StopGets \/ StopPuts
    <3>1. /\ Saving /\ Saving' /\ at'.loop = at.loop /\ looper' = looper /\ h' = h
          /\ at'.started = at.started /\ at'.start = at.start /\ at'.next = at.next
      BY <1>0, <2>2 DEF StopGets, StopPuts, AtType, Saving
    <3>2. upd.todo # <<>> /\ looper.mutex = "stop"
      BY <2>2, <3>1 DEF StopGets, StopPuts, Mutex
    <3>3. /\ upd'.got = upd.got /\ upd'.diff = upd.diff
          /\ \/ upd'.todo = upd.todo
             \/ at'.stop = "save" /\ upd'.todo = Tail(upd.todo)
      BY <1>0, <2>2 DEF StopGets, StopPuts, AtType, UpdType
    <3>4. \A k \in DOMAIN upd'.todo : \E l \in DOMAIN upd.todo : upd.todo[l] = upd'.todo[k]
      <4>1. \A k \in DOMAIN Tail(upd.todo) : k + 1 \in DOMAIN upd.todo /\ Tail(upd.todo)[k] = upd.todo[k + 1]
        BY <2>0, <3>2, HeadTail
      <4> QED
        BY <3>3, <4>1
    <3>5. Mutex'
      BY <3>1, <3>2, <3>3, TrafficAssumption DEF Mutex, Saving
    <3> QED
      BY <3>1, <3>2, <3>4, <3>5 DEF Order, InTime, Saving
  <2>3. CASE StopUnlocks
    <3>1. /\ at'.stop = "rpc" /\ at'.loop = at.loop /\ h' = h /\ at.stop = "save" /\ upd' = upd /\ upd.todo = <<>>
          /\ at'.started = at.started /\ at'.start = at.start /\ at'.next = at.next
          /\ looper'.mutex = None /\ looper'.items = looper.items /\ looper'.enabled = looper.enabled
      BY <1>0, <2>3 DEF StopUnlocks, AtType, LooperType
    <3>2. looper.mutex = "stop" /\ upd.got = None /\ upd.diff = <<>> /\ at.loop # "update"
      BY <3>1, TrafficAssumption DEF Mutex, Saving
    <3>3. upd = Nothing
      BY <1>0, <3>1, <3>2 DEF UpdType, Nothing
    <3> QED
      BY <3>1, <3>2, <3>3, TrafficAssumption DEF Mutex, Saving, Order, InTime
  <2> QED
    BY <1>13, <2>1, <2>2, <2>3 DEF StopSaves
<1>14. ASSUME StopRpc PROVE Mutex' /\ Order' /\ InTime'
  <2>1. Mutex'
    BY <1>0, <1>14, TrafficAssumption DEF StopRpc, Mutex, Saving, LooperType, UpdType, AtType
  <2>2. Order'
    BY <1>0, <1>14, TrafficAssumption DEF StopRpc, Order, LooperType, AtType
  <2>3. InTime'
    BY <1>0, <1>14, TrafficAssumption DEF StopRpc, InTime, Mutex, Saving, Order, LooperType, UpdType, AtType, HistoryType
  <2> QED
    BY <2>1, <2>2, <2>3
<1>15. ASSUME StopFails PROVE Mutex' /\ Order' /\ InTime'
  <2>1. Mutex'
    BY <1>0, <1>15, TrafficAssumption DEF StopFails, Mutex, Saving, LooperType, UpdType, AtType
  <2>2. Order'
    BY <1>0, <1>15, TrafficAssumption DEF StopFails, Order, LooperType, AtType
  <2>3. InTime'
    BY <1>0, <1>15, TrafficAssumption DEF StopFails, InTime, Mutex, Saving, Order, LooperType, UpdType, AtType, HistoryType
  <2> QED
    BY <2>1, <2>2, <2>3
<1>16. ASSUME Bytes PROVE Mutex' /\ Order' /\ InTime'
  <2>1. Mutex'
    BY <1>0, <1>16, TrafficAssumption DEF Bytes, Mutex, Saving, LooperType, UpdType, AtType
  <2>2. Order'
    BY <1>0, <1>16, TrafficAssumption DEF Bytes, Order, LooperType, AtType
  <2>3. InTime'
    BY <1>0, <1>16, TrafficAssumption DEF Bytes, InTime, Mutex, Saving, Order, LooperType, UpdType, AtType, HistoryType
  <2> QED
    BY <2>1, <2>2, <2>3
<1>17. ASSUME CoreDies PROVE Mutex' /\ Order' /\ InTime'
  <2>1. Mutex'
    BY <1>0, <1>17, TrafficAssumption DEF CoreDies, Mutex, Saving, LooperType, UpdType, AtType
  <2>2. Order'
    BY <1>0, <1>17, TrafficAssumption DEF CoreDies, Order, LooperType, AtType
  <2>3. InTime'
    BY <1>0, <1>17, TrafficAssumption DEF CoreDies, InTime, Mutex, Saving, Order, LooperType, UpdType, AtType, HistoryType
  <2> QED
    BY <2>1, <2>2, <2>3
<1> QED
  BY <1>1, <1>2, <1>3, <1>4, <1>5, <1>6, <1>7, <1>8, <1>11, <1>12, <1>13, <1>14, <1>15, <1>16, <1>17 DEF TrafficNext, Loop, Starts, Stops
\* Every step leaves what is not yet saved to a stop that is still to come.
LEMMA LoopSaves ==
  ASSUME LoopTypes, Mutex, Order, InTime, SaveDue, TrafficNext
  PROVE SaveDue'
<1>0. LooperType /\ UpdType /\ AtType /\ BooksType /\ HistoryType
  BY DEF LoopTypes
<1> DEFINE Calm == /\ UNCHANGED <<total, saved, store>> /\ (~h'.late => ~h.late)
                     /\ looper'.items = looper.items /\ at'.started = at.started /\ (at'.stop = "rpc" => at.stop = "rpc")
                     /\ Saving' = Saving /\ (Saving => upd'.todo = upd.todo)
<1>1. ASSUME Calm PROVE SaveDue'
  <2>1. /\ total' = total /\ saved' = saved /\ store' = store /\ (~h'.late => ~h.late)
        /\ looper'.items = looper.items /\ at'.started = at.started /\ (at'.stop = "rpc" => at.stop = "rpc")
        /\ Saving' = Saving /\ (Saving => upd'.todo = upd.todo)
    BY <1>1
  <2>2. SUFFICES ASSUME ~h'.late, NEW i \in store PROVE saved'[i] = total'[i] \/ Due(i)'
    BY <2>1 DEF SaveDue
  <2>3. saved[i] = total[i] \/ Due(i)
    BY <2>1, <2>2 DEF SaveDue
  <2> QED
    BY <2>1, <2>3 DEF Due
<1>2. ASSUME NEW id \in DOMAIN StatsOf, StartBuild(id) PROVE SaveDue'
  <2>1. Calm
    BY <1>0, <1>2 DEF StartBuild, AtType, HistoryType, Changed, Saving
  <2> QED
    BY <1>1, <2>1
<1>3. ASSUME StartRpc PROVE SaveDue'
  <2>1. Calm
    BY <1>0, <1>3 DEF StartRpc, AtType, HistoryType, Changed, Saving
  <2> QED
    BY <1>1, <2>1
<1>4. ASSUME StartFails PROVE SaveDue'
  <2>1. Calm
    BY <1>0, <1>4 DEF StartFails, AtType, HistoryType, Saving
  <2> QED
    BY <1>1, <2>1
<1>5. ASSUME LoopChecks PROVE SaveDue'
  <2>1. Calm
    BY <1>0, <1>5 DEF LoopChecks, AtType, LooperType, Looping, Saving
  <2> QED
    BY <1>1, <2>1
<1>6. ASSUME LoopLocks PROVE SaveDue'
  <2>1. Calm
    BY <1>0, <1>6, TrafficAssumption DEF LoopLocks, AtType, LooperType, HistoryType, Locks, Nothing, Mutex, Saving
  <2> QED
    BY <1>1, <2>1
<1>7. ASSUME LoopUnlocks PROVE SaveDue'
  <2>1. Calm
    BY <1>0, <1>7, TrafficAssumption DEF LoopUnlocks, Mutex, AtType, LooperType, Nothing, Saving
  <2> QED
    BY <1>1, <2>1
<1>8. ASSUME Query PROVE SaveDue'
  <2>1. Calm
    BY <1>0, <1>8 DEF Query, AtType, HistoryType, Saving
  <2> QED
    BY <1>1, <2>1
<1>9. ASSUME StopBegin PROVE SaveDue'
  <2>1. Calm
    BY <1>0, <1>9 DEF StopBegin, AtType, LooperType, Saving
  <2> QED
    BY <1>1, <2>1
<1>10. ASSUME StopLocks PROVE SaveDue'
  <2>1. Calm
    BY <1>0, <1>10 DEF StopLocks, AtType, LooperType, Locks, Nothing, Saving
  <2> QED
    BY <1>1, <2>1
<1>11. ASSUME StopFails PROVE SaveDue'
  <2>1. Calm
    BY <1>0, <1>11 DEF StopFails, AtType, HistoryType, Saving
  <2> QED
    BY <1>1, <2>1
<1>12. ASSUME Bytes PROVE SaveDue'
  <2>1. Calm
    BY <1>0, <1>12 DEF Bytes, AtType, HistoryType, Saving
  <2> QED
    BY <1>1, <2>1
<1>13. ASSUME CoreDies PROVE SaveDue'
  <2>1. Calm
    BY <1>0, <1>13 DEF CoreDies, AtType, HistoryType, Saving
  <2> QED
    BY <1>1, <2>1
<1>20. ASSUME StartAssign PROVE SaveDue'
  <2>1. UNCHANGED <<total, saved, store, h>> /\ at.started = None
    BY <1>20 DEF StartAssign, Order
  <2> QED
    BY <2>1 DEF SaveDue, Due
<1>21. ASSUME AddOwn \/ AddShared PROVE SaveDue'
  <2>1. Update
    BY <1>21 DEF Update
  <2>2. /\ upd.todo # <<>> /\ looper.mutex # None
        /\ UNCHANGED <<looper, at, tag, saved, store>> /\ h'.late = h.late /\ ~Saving
    BY <2>1, UpdateWorksOff
  <2> DEFINE j == Head(upd.todo)
  <2>3. \A i \in Ids : i # j => total'[i] = total[i]
    BY <1>0, <1>21 DEF AddOwn, AddShared, Share, BooksType
  <2>4. ASSUME ~h.late PROVE at.started # None /\ at.stop # "rpc" /\ j \in Range(looper.items)
    <3>1. at.started # None /\ at.stop # "rpc"
      BY <1>0, <2>2, <2>4 DEF InTime, Mutex, Order, LooperType
    <3>2. \E l \in DOMAIN looper.items : looper.items[l] = j
      BY <1>0, <2>2, <2>4, HeadTail DEF InTime, UpdType
    <3> QED
      BY <3>1, <3>2 DEF Range
  <2> HIDE DEF j
  <2>5. \A i : Due(i)' <=> Due(i)
    BY <2>2 DEF Due, Saving
  <2>6. ~h.late => Due(j)
    BY <2>2, <2>4 DEF Due
  <2> QED
    BY <1>0, <2>2, <2>3, <2>5, <2>6 DEF SaveDue, BooksType
<1>22. ASSUME StopSaves PROVE SaveDue'
  <2>0. upd.todo \in Seq(Ids)
    BY <1>0 DEF UpdType
  <2>1. CASE StopUpdated
    <3>1. /\ UNCHANGED <<total, saved, store, h>> /\ looper' = looper /\ ~Saving /\ Saving' /\ at.stop # "rpc"
          /\ at'.started = at.started /\ upd'.todo = looper.items /\ at'.stop # "rpc"
      BY <1>0, <2>1 DEF StopUpdated, AtType, Saving, Nothing
    <3> QED
      BY <3>1 DEF SaveDue, Due
  <2>2. CASE StopGets \/ StopPuts
    <3> DEFINE j == Head(upd.todo)
    <3>1. /\ Saving /\ Saving' /\ at'.started = at.started /\ at.stop # "rpc" /\ at'.stop # "rpc"
          /\ UNCHANGED <<total, h>> /\ upd.todo # <<>>
          /\ upd'.todo = upd.todo \/ upd'.todo = Tail(upd.todo)
      BY <1>0, <2>2 DEF StopGets, StopPuts, Saving, AtType, UpdType, Mutex
    <3>2. \A i \in Range(upd.todo) : i # j => i \in Range(upd'.todo)
      <4> SUFFICES ASSUME NEW k \in DOMAIN upd.todo, upd.todo[k] # j, upd'.todo = Tail(upd.todo)
                   PROVE upd.todo[k] \in Range(upd'.todo)
        BY <3>1 DEF Range
      <4>1. k # 1
        BY <2>0, <3>1, HeadTail
      <4>2. k - 1 \in DOMAIN upd'.todo /\ upd'.todo[k - 1] = upd.todo[k]
        BY <2>0, <3>1, <4>1, HeadTail
      <4> QED
        BY <4>2 DEF Range
    <3>3. j \in Ids
      BY <2>0, <3>1, HeadTail
    <3>4. j \in store' => saved'[j] = total[j] \/ upd'.todo = upd.todo
      BY <1>0, <2>2, <3>1, <3>3 DEF StopGets, StopPuts, Found, BooksType
    <3>5. \A i \in Ids : i # j => (i \in store' <=> i \in store) /\ saved'[i] = saved[i]
      BY <1>0, <2>2 DEF StopGets, StopPuts, BooksType
    <3>6. upd'.todo = upd.todo => store' = store /\ saved' = saved
      <4>1. Tail(upd.todo) # upd.todo
        <5> SUFFICES ASSUME Tail(upd.todo) = upd.todo PROVE FALSE
          OBVIOUS
        <5>1. Len(Tail(upd.todo)) = Len(upd.todo) - 1 /\ Len(upd.todo) \in Nat
          BY <2>0, <3>1
        <5>2. Len(Tail(upd.todo)) = Len(upd.todo)
          OBVIOUS
        <5> QED
          BY <5>1, <5>2
      <4>2. StopPuts => upd'.todo = Tail(upd.todo)
        BY <1>0 DEF StopPuts, UpdType
      <4>3. StopGets => store' = store /\ saved' = saved
        BY DEF StopGets
      <4> QED
        BY <2>2, <4>1, <4>2, <4>3
    <3>7. store' \subseteq Ids
      BY <1>0, <2>2, <3>3 DEF StopGets, StopPuts, BooksType
    <3> HIDE DEF j
    <3> SUFFICES ASSUME ~h.late, NEW i \in store' PROVE saved'[i] = total[i] \/ Due(i)'
      BY <3>1 DEF SaveDue
    <3>8. CASE upd'.todo = upd.todo
      BY <3>1, <3>6, <3>8 DEF SaveDue, Due
    <3>9. CASE upd'.todo # upd.todo /\ i = j
      BY <3>4, <3>9
    <3>10. CASE i # j
      <4>1. i \in store /\ saved'[i] = saved[i]
        BY <3>5, <3>7, <3>10
      <4>2. saved[i] = total[i] \/ Due(i)
        BY <4>1 DEF SaveDue
      <4> QED
        BY <3>1, <3>2, <3>10, <4>1, <4>2 DEF Due
    <3> QED
      BY <3>8, <3>9, <3>10
  <2>3. CASE StopUnlocks
    <3>1. UNCHANGED <<total, saved, store, h>> /\ Saving /\ Range(upd.todo) = {}
      BY <2>3 DEF StopUnlocks, Saving, Range
    <3> QED
      BY <3>1 DEF SaveDue, Due
  <2> QED
    BY <1>22, <2>1, <2>2, <2>3 DEF StopSaves
<1>23. ASSUME StopRpc PROVE SaveDue'
  <2>1. UNCHANGED <<total, saved, store>> /\ h'.late = h.late /\ at.stop = "rpc"
    BY <1>0, <1>23 DEF StopRpc, HistoryType
  <2> QED
    BY <2>1 DEF SaveDue, Due
<1> QED
  BY <1>2, <1>3, <1>4, <1>5, <1>6, <1>7, <1>8, <1>9, <1>10, <1>11, <1>12, <1>13, <1>20, <1>21, <1>22, <1>23 DEF TrafficNext, Loop, Update, Starts, Stops
-------------------------------------------------------------------------------
(* The bytes. *)

\* A profile's bytes stay as they are when nothing they depend on moves.
LEMMA QuietCounts ==
  ASSUME NEW i \in Ids, HistoryType, UpdType, Mutex, Counts(i), Credited(i),
         \A j \in Ids : tag'[j] = tag[j], upd' = upd, total' = total,
         looper'.items = looper.items, looper'.mutex = looper.mutex,
         h'.own = h.own, h'.skip = h.skip, h'.base = h.base, Answered' = Answered,
         at'.started \in {at.started, None}, Saving => Saving',
         at'.start = "up" => at.start = "up" /\ at'.next = at.next
  PROVE Counts(i)' /\ Credited(i)'
<1>1. upd.got # None => Head(upd.todo) \in Ids
  BY HeadTail DEF UpdType, Mutex
<1>2. Known' = Known
  BY <1>1 DEF Known
<1>3. Held(i)' = Held(i)
  BY <1>2 DEF Held
<1>4. Counts(i)'
  BY <1>2 DEF Counts
<1>5. Credited(i)'
  BY <1>3 DEF Credited
<1> QED
  BY <1>4, <1>5
\* The steps that neither count nor credit.
LEMMA QuietSteps ==
  ASSUME LoopTypes, Mutex, BytesInv,
         \/ \E id \in DOMAIN StatsOf : StartBuild(id)
         \/ StartFails \/ LoopChecks \/ StopBegin \/ StopRpc \/ StopFails \/ Bytes \/ CoreDies
  PROVE BytesInv'
<1>0. CoreType /\ LooperType /\ UpdType /\ AtType /\ BooksType /\ HistoryType
  BY DEF LoopTypes
<1> DEFINE Same == /\ upd' = upd /\ total' = total /\ looper'.items = looper.items /\ looper'.mutex = looper.mutex
                   /\ h'.own = h.own /\ h'.skip = h.skip /\ h'.base = h.base /\ Answered' = Answered
                   /\ at'.started \in {at.started, None} /\ (Saving => Saving')
                   /\ (at'.start = "up" => at.start = "up" /\ at'.next = at.next)
           Tidy == Clean' => Clean /\ \A j \in Ids : tag'[j] = tag[j]
<1>1. ASSUME NEW id \in DOMAIN StatsOf, StartBuild(id) PROVE Same /\ Tidy
  <2>1. Same
    BY <1>0, <1>1 DEF StartBuild, LooperType, AtType, Saving, HistoryType, Answered
  <2>2. tag' = Tags(StatsOf[id]) /\ h'.retag = h.retag \cup Changed(StatsOf[id]) /\ h'.late = h.late
    BY <1>0, <1>1 DEF StartBuild, HistoryType
  <2>3. Tidy
    BY <2>2 DEF Clean, Changed
  <2> QED
    BY <2>1, <2>3
<1>2. ASSUME StartFails PROVE Same /\ Tidy
  <2>1. tag' = tag /\ upd' = upd /\ total' = total
    BY <1>2 DEF StartFails
  <2>2. looper'.items = looper.items /\ looper'.mutex = looper.mutex
    BY <1>0, <1>2 DEF StartFails, LooperType
  <2>3. at'.started \in {at.started, None} /\ (Saving => Saving') /\ (at'.start = "up" => at.start = "up" /\ at'.next = at.next)
    BY <1>0, <1>2 DEF StartFails, AtType, Saving
  <2>4. /\ h'.own = h.own /\ h'.skip = h.skip /\ h'.base = h.base /\ h'.late = h.late /\ h'.retag = h.retag
        /\ Answered' = Answered
    BY <1>0, <1>2 DEF StartFails, CoreType, HistoryType, Answered
  <2> QED
    BY <2>1, <2>2, <2>3, <2>4 DEF Clean
<1>3. ASSUME LoopChecks PROVE Same /\ Tidy
  <2>1. tag' = tag /\ upd' = upd /\ total' = total
    BY <1>3 DEF LoopChecks
  <2>2. looper'.items = looper.items /\ looper'.mutex = looper.mutex
    BY <1>0, <1>3 DEF LoopChecks, LooperType, Looping
  <2>3. at'.started \in {at.started, None} /\ (Saving => Saving') /\ (at'.start = "up" => at.start = "up" /\ at'.next = at.next)
    BY <1>0, <1>3 DEF LoopChecks, AtType, Saving
  <2>4. /\ h'.own = h.own /\ h'.skip = h.skip /\ h'.base = h.base /\ h'.late = h.late /\ h'.retag = h.retag
        /\ Answered' = Answered
    BY <1>0, <1>3 DEF LoopChecks, CoreType, HistoryType, Answered
  <2> QED
    BY <2>1, <2>2, <2>3, <2>4 DEF Clean
<1>4. ASSUME StopBegin PROVE Same /\ Tidy
  <2>1. tag' = tag /\ upd' = upd /\ total' = total
    BY <1>4 DEF StopBegin
  <2>2. looper'.items = looper.items /\ looper'.mutex = looper.mutex
    BY <1>0, <1>4 DEF StopBegin, LooperType
  <2>3. at'.started \in {at.started, None} /\ (Saving => Saving') /\ (at'.start = "up" => at.start = "up" /\ at'.next = at.next)
    BY <1>0, <1>4 DEF StopBegin, AtType, Saving
  <2>4. /\ h'.own = h.own /\ h'.skip = h.skip /\ h'.base = h.base /\ h'.late = h.late /\ h'.retag = h.retag
        /\ Answered' = Answered
    BY <1>0, <1>4 DEF StopBegin, CoreType, HistoryType, Answered
  <2> QED
    BY <2>1, <2>2, <2>3, <2>4 DEF Clean
<1>5. ASSUME StopRpc PROVE Same /\ Tidy
  <2>1. tag' = tag /\ upd' = upd /\ total' = total
    BY <1>5 DEF StopRpc
  <2>2. looper'.items = looper.items /\ looper'.mutex = looper.mutex
    BY <1>0, <1>5 DEF StopRpc, LooperType
  <2>3. at'.started \in {at.started, None} /\ (Saving => Saving') /\ (at'.start = "up" => at.start = "up" /\ at'.next = at.next)
    BY <1>0, <1>5 DEF StopRpc, AtType, Saving
  <2>4. /\ h'.own = h.own /\ h'.skip = h.skip /\ h'.base = h.base /\ h'.late = h.late /\ h'.retag = h.retag
        /\ Answered' = Answered
    BY <1>0, <1>5 DEF StopRpc, CoreType, HistoryType, Answered
  <2> QED
    BY <2>1, <2>2, <2>3, <2>4 DEF Clean
<1>6. ASSUME StopFails PROVE Same /\ Tidy
  <2>1. tag' = tag /\ upd' = upd /\ total' = total
    BY <1>6 DEF StopFails
  <2>2. looper'.items = looper.items /\ looper'.mutex = looper.mutex
    BY <1>0, <1>6 DEF StopFails, LooperType
  <2>3. at'.started \in {at.started, None} /\ (Saving => Saving') /\ (at'.start = "up" => at.start = "up" /\ at'.next = at.next)
    BY <1>0, <1>6 DEF StopFails, AtType, Saving
  <2>4. /\ h'.own = h.own /\ h'.skip = h.skip /\ h'.base = h.base /\ h'.late = h.late /\ h'.retag = h.retag
        /\ Answered' = Answered
    BY <1>0, <1>6 DEF StopFails, CoreType, HistoryType, Answered
  <2> QED
    BY <2>1, <2>2, <2>3, <2>4 DEF Clean
<1>7. ASSUME Bytes PROVE Same /\ Tidy
  <2>1. tag' = tag /\ upd' = upd /\ total' = total
    BY <1>7 DEF Bytes
  <2>2. looper'.items = looper.items /\ looper'.mutex = looper.mutex
    BY <1>0, <1>7 DEF Bytes, LooperType
  <2>3. at'.started \in {at.started, None} /\ (Saving => Saving') /\ (at'.start = "up" => at.start = "up" /\ at'.next = at.next)
    BY <1>0, <1>7 DEF Bytes, AtType, Saving
  <2>4. /\ h'.own = h.own /\ h'.skip = h.skip /\ h'.base = h.base /\ h'.late = h.late /\ h'.retag = h.retag
        /\ Answered' = Answered
    BY <1>0, <1>7 DEF Bytes, CoreType, HistoryType, Answered
  <2> QED
    BY <2>1, <2>2, <2>3, <2>4 DEF Clean
<1>8. ASSUME CoreDies PROVE Same /\ Tidy
  <2>1. tag' = tag /\ upd' = upd /\ total' = total
    BY <1>8 DEF CoreDies
  <2>2. looper'.items = looper.items /\ looper'.mutex = looper.mutex
    BY <1>0, <1>8 DEF CoreDies, LooperType
  <2>3. at'.started \in {at.started, None} /\ (Saving => Saving') /\ (at'.start = "up" => at.start = "up" /\ at'.next = at.next)
    BY <1>0, <1>8 DEF CoreDies, AtType, Saving
  <2>4. /\ h'.own = h.own /\ h'.skip = h.skip /\ h'.base = h.base /\ h'.late = h.late /\ h'.retag = h.retag
        /\ Answered' = Answered
    BY <1>0, <1>8 DEF CoreDies, CoreType, HistoryType, Answered
  <2> QED
    BY <2>1, <2>2, <2>3, <2>4 DEF Clean
<1>20. Same /\ Tidy
  BY <1>1, <1>2, <1>3, <1>4, <1>5, <1>6, <1>7, <1>8
<1>21. ASSUME Clean', NEW i \in DOMAIN h.own PROVE Counts(i)' /\ Credited(i)'
  BY <1>0, <1>20, <1>21, QuietCounts DEF BytesInv, HistoryType
<1> QED
  BY <1>20, <1>21 DEF BytesInv

\* A step that leaves no list to work off holds nothing back.
LEMMA NothingHeld ==
  ASSUME NEW i \in Ids
  PROVE /\ upd = Nothing => Known = <<>> /\ Held(i) = 0
        /\ (UpdType /\ Mutex /\ upd.todo = <<>>) => Held(i) = 0
<1>1. upd = Nothing => Known = <<>> /\ Held(i) = 0
  BY DEF Nothing, Known, Held
<1>2. (UpdType /\ Mutex /\ upd.todo = <<>>) => Held(i) = 0
  <2> SUFFICES ASSUME UpdType, Mutex, upd.todo = <<>> PROVE Held(i) = 0
    OBVIOUS
  <2>1. upd.got = None /\ Known = upd.diff
    BY DEF Mutex, Known
  <2>2. Times(upd.todo, i) = 0
    BY TimesNone
  <2>3. tag[i] \in DOMAIN Known => Known[tag[i]] \in Int
    BY <2>1 DEF UpdType
  <2> QED
    BY <2>2, <2>3 DEF Held
<1> QED
  BY <1>1, <1>2

\* When no profile runs, an update in progress would be late.
LEMMA RestIsEmpty ==
  ASSUME LooperType, Mutex, Order, InTime, ~h.late, at.started = None
  PROVE looper.mutex = None /\ upd = Nothing
BY DEF LooperType, Mutex, Saving, Order, InTime

\* A start notes what the totals were, and how often its configuration names each profile.
LEMMA StartRpcBytes ==
  ASSUME LoopTypes, Mutex, Order, InTime, StartRpc
  PROVE BytesInv'
<1>0. CoreType /\ LooperType /\ UpdType /\ AtType /\ BooksType /\ HistoryType
  BY DEF LoopTypes
<1> DEFINE stats == StatsOf[at.next]
           own == [i \in {j \in Ids : Tags(stats)[j] = Proxy} |-> Times(Items(at.next), i)]
<1>1. /\ core' = [up |-> TRUE, unread |-> 0] /\ at' = [at EXCEPT !.start = "up"]
      /\ UNCHANGED <<looper, upd, tag, total>> /\ at.started = None
      /\ h' = [h EXCEPT !.before = h.passed, !.lost = 0, !.base = total, !.own = own, !.retag = Changed(stats), !.skip = {}]
  BY DEF StartRpc
<1> HIDE DEF stats, own
<1>2. /\ h'.late = h.late /\ h'.own = own /\ h'.retag = Changed(stats) /\ h'.base = total
      /\ h'.before = h.passed /\ h'.passed = h.passed /\ h'.lost = 0
  BY <1>0, <1>1 DEF HistoryType
<1>3. Answered' = 0
  BY <1>0, <1>1, <1>2 DEF Answered, HistoryType
<1>4. at'.started = None /\ at'.next = at.next
  BY <1>0, <1>1 DEF AtType
<1> SUFFICES ASSUME Clean', NEW i \in DOMAIN own PROVE Counts(i)' /\ Credited(i)'
  BY <1>2 DEF BytesInv
<1>5. i \in Ids /\ Tags(stats)[i] = Proxy /\ own[i] = Times(Items(at.next), i)
  BY DEF own
<1>6. tag'[i] = Proxy
  BY <1>1, <1>2, <1>5 DEF Clean, Changed
<1>7. looper'.mutex = None /\ upd' = Nothing
  BY <1>0, <1>1, <1>2, RestIsEmpty DEF Clean
<1>8. Counts(i)'
  BY <1>2, <1>4, <1>5, <1>6, <1>7 DEF Counts
<1>9. Held(i)' = 0
  BY <1>7 DEF Held, Known, Nothing
<1>10. Credited(i)'
  <2>1. own[i] \in Int
    BY <1>0, <1>1, <1>5, TimesNat, TrafficAssumption DEF StartRpc, AtType, Order
  <2>2. total'[i] = h'.base[i] /\ total[i] \in Int
    BY <1>0, <1>1, <1>2, <1>5 DEF BooksType
  <2> QED
    BY <1>1, <1>2, <1>3, <1>9, <2>1, <2>2 DEF Credited
<1> QED
  BY <1>8, <1>10

\* The looper gets the profiles of the configuration that runs.
LEMMA StartAssignBytes ==
  ASSUME LoopTypes, Mutex, Order, InTime, BytesInv, StartAssign
  PROVE BytesInv'
<1>0. CoreType /\ LooperType /\ UpdType /\ AtType /\ BooksType /\ HistoryType
  BY DEF LoopTypes
<1>1. /\ looper'.items = Items(at.next) /\ looper'.mutex = looper.mutex
      /\ at'.start = "idle" /\ at'.started = at.next /\ at.start = "up" /\ at.started = None
      /\ UNCHANGED <<core, upd, tag, total, h>>
  BY <1>0 DEF StartAssign, LooperType, AtType, Order
<1> SUFFICES ASSUME Clean, NEW i \in DOMAIN h.own PROVE Counts(i)' /\ Credited(i)'
  BY <1>1 DEF BytesInv, Clean
<1>2. Counts(i) /\ Credited(i)
  BY DEF BytesInv
<1>3. looper.mutex = None
  BY <1>0, <1>1, RestIsEmpty DEF Clean
<1>4. Counts(i)'
  BY <1>1, <1>2, <1>3 DEF Counts
<1>5. Held(i)' = Held(i) /\ Answered' = Answered
  BY <1>1 DEF Held, Known, Answered
<1>6. Credited(i)'
  BY <1>1, <1>2, <1>5 DEF Credited
<1> QED
  BY <1>4, <1>6

\* An UpdateAll begins with all the profiles of the configuration, and ends with none.
LEMMA LockBytes ==
  ASSUME LoopTypes, Mutex, Order, InTime, BytesInv, LoopLocks \/ StopLocks
  PROVE BytesInv'
<1>0. CoreType /\ LooperType /\ UpdType /\ AtType /\ BooksType /\ HistoryType
  BY DEF LoopTypes
<1>1. /\ looper.mutex = None /\ looper'.items = looper.items
      /\ upd' = [Nothing EXCEPT !.todo = looper.items]
      /\ UNCHANGED <<core, tag, total>>
  BY <1>0 DEF LoopLocks, StopLocks, Locks, LooperType
<1>2. /\ h'.own = h.own /\ h'.skip = h.skip /\ h'.base = h.base /\ h'.retag = h.retag /\ Answered' = Answered
      /\ at'.started = at.started /\ at'.start = at.start /\ at'.next = at.next
  BY <1>0, <1>1 DEF LoopLocks, StopLocks, HistoryType, AtType, Answered
<1>3. ~h'.late => ~h.late /\ at.started # None
  BY <1>0 DEF LoopLocks, StopLocks, HistoryType, Order
<1> SUFFICES ASSUME Clean', NEW i \in DOMAIN h.own PROVE Counts(i)' /\ Credited(i)'
  BY <1>2 DEF BytesInv
<1>4. Counts(i) /\ Credited(i) /\ i \in Ids
  BY <1>0, <1>2, <1>3 DEF BytesInv, Clean, HistoryType
<1>5. upd'.todo = looper.items /\ upd'.got = None /\ upd'.diff = <<>>
  BY <1>1 DEF Nothing
<1>6. Known' = <<>>
  BY <1>5 DEF Known
<1>7. Held(i)' = 0 /\ Held(i) = 0
  BY <1>1, <1>4, <1>6, NothingHeld DEF Held, Mutex
<1>8. Counts(i)'
  BY <1>1, <1>2, <1>3, <1>4, <1>5 DEF Counts, Clean
<1>9. Credited(i)'
  BY <1>1, <1>2, <1>4, <1>7 DEF Credited
<1> QED
  BY <1>8, <1>9

\* An UpdateAll that ends has nothing left to add.
LEMMA UnlockBytes ==
  ASSUME LoopTypes, Mutex, Order, InTime, BytesInv, LoopUnlocks \/ StopUnlocks
  PROVE BytesInv'
<1>0. CoreType /\ LooperType /\ UpdType /\ AtType /\ BooksType /\ HistoryType
  BY DEF LoopTypes
<1>1. /\ looper'.mutex = None /\ looper'.items = looper.items
      /\ upd.todo = <<>> /\ UNCHANGED <<core, tag, total, h>>
      /\ at'.started = at.started /\ at'.start = at.start /\ at'.next = at.next
  BY <1>0 DEF LoopUnlocks, StopUnlocks, LooperType, AtType
<1>2. Known' = <<>>
  <2>1. upd'.got = None /\ upd'.diff = <<>>
    BY DEF LoopUnlocks, StopUnlocks, Nothing, Mutex, Saving
  <2> QED
    BY <2>1 DEF Known
<1> SUFFICES ASSUME Clean, NEW i \in DOMAIN h.own PROVE Counts(i)' /\ Credited(i)'
  BY <1>1 DEF BytesInv, Clean
<1>3. Counts(i) /\ Credited(i) /\ i \in Ids
  BY <1>0 DEF BytesInv, HistoryType
<1>4. Held(i) = 0
  BY <1>0, <1>1, <1>3, NothingHeld
<1>5. Held(i)' = 0 /\ Answered' = Answered
  BY <1>1, <1>2 DEF Held, Answered
<1>6. Counts(i)'
  BY <1>1, <1>3 DEF Counts
<1>7. Credited(i)'
  BY <1>1, <1>3, <1>4, <1>5 DEF Credited
<1> QED
  BY <1>6, <1>7

\* Nor has a stop that saves what was added.
LEMMA SaveBytes ==
  ASSUME LoopTypes, Mutex, BytesInv, StopUpdated \/ StopGets \/ StopPuts
  PROVE BytesInv'
<1>0. CoreType /\ LooperType /\ UpdType /\ AtType /\ BooksType /\ HistoryType
  BY DEF LoopTypes
<1>1. /\ Saving' /\ UNCHANGED <<core, looper, tag, total, h>>
      /\ at'.started = at.started /\ at'.start = at.start /\ at'.next = at.next
  BY <1>0 DEF StopUpdated, StopGets, StopPuts, AtType, Saving
<1>2. upd.got = None /\ (upd.todo = <<>> \/ upd.diff = <<>>) /\ upd'.got = None /\ upd'.diff = <<>>
  BY <1>0 DEF StopUpdated, StopGets, StopPuts, Mutex, Saving, Nothing, UpdType
<1> SUFFICES ASSUME Clean, NEW i \in DOMAIN h.own PROVE Counts(i)' /\ Credited(i)'
  BY <1>1 DEF BytesInv, Clean
<1>3. Counts(i) /\ Credited(i) /\ i \in Ids
  BY <1>0 DEF BytesInv, HistoryType
<1>4. Held(i) = 0
  <2>1. CASE upd.todo = <<>>
    BY <1>0, <1>3, <2>1, NothingHeld
  <2>2. CASE upd.diff = <<>>
    BY <1>2, <2>2 DEF Held, Known
  <2> QED
    BY <1>2, <2>1, <2>2
<1>5. Held(i)' = 0 /\ Answered' = Answered
  BY <1>1, <1>2 DEF Held, Known, Answered
<1>6. Counts(i)'
  BY <1>1, <1>3 DEF Counts
<1>7. Credited(i)'
  BY <1>1, <1>3, <1>4, <1>5 DEF Credited
<1> QED
  BY <1>6, <1>7

\* A query takes all that is unread, for every profile of its tag; nobody of it was served before.
LEMMA QueryBytes ==
  ASSUME LoopTypes, Mutex, BytesInv, Query
  PROVE BytesInv'
<1>0. CoreType /\ LooperType /\ UpdType /\ AtType /\ BooksType /\ HistoryType
  BY DEF LoopTypes
<1> DEFINE j == Head(upd.todo)
           seen == core.up /\ tag[j] = Proxy
<1>1. /\ UNCHANGED <<looper, at, tag, total>> /\ upd.todo # <<>> /\ upd.got = None
      /\ tag[j] \notin DOMAIN upd.diff /\ looper.mutex # None /\ ~Saving /\ ~Saving'
      /\ upd.todo \in Seq(Ids) /\ j \in Ids
  BY <1>0, HeadTail DEF Query, UpdType, Mutex, Nothing, Saving
<1>2. Known = upd.diff
  BY <1>1 DEF Known
<1>3. ASSUME NEW g \in Int, NEW l \in Int,
             upd' = [upd EXCEPT !.got = g], core'.unread = core.unread - g - l,
             tag[j] # Proxy => g = 0 /\ l = 0,
             h'.lost = h.lost + l, h'.passed = h.passed, h'.before = h.before, h'.base = h.base,
             h'.own = h.own, h'.skip = h.skip, h'.late = h.late, h'.retag = h.retag
      PROVE BytesInv'
  <2> SUFFICES ASSUME Clean, NEW i \in DOMAIN h.own PROVE Counts(i)' /\ Credited(i)'
    BY <1>3 DEF BytesInv, Clean
  <2>1. Counts(i) /\ Credited(i) /\ i \in Ids /\ tag[i] = Proxy
    BY <1>0 DEF BytesInv, HistoryType, Counts
  <2>2. upd'.todo = upd.todo /\ upd'.diff = upd.diff /\ upd'.got = g /\ g # None
    BY <1>0, <1>3, TrafficAssumption DEF UpdType
  <2>3. Known' = With(upd.diff, tag[j], g)
    BY <1>1, <2>2 DEF Known
  <2>4. /\ DOMAIN Known' = DOMAIN upd.diff \cup {tag[j]} /\ Known'[tag[j]] = g
        /\ \A t \in DOMAIN upd.diff : Known'[t] = upd.diff[t]
    BY <1>1, <2>3 DEF With
  <2>5. Counts(i)'
    BY <1>1, <1>2, <1>3, <2>1, <2>2, <2>4 DEF Counts
  <2>6. Answered' = Answered + g /\ Answered \in Int
    BY <1>0, <1>3 DEF Answered, CoreType, HistoryType
  <2>7. Credited(i)'
    <3>1. CASE tag[j] # Proxy
      <4>1. Held(i)' = Held(i)
        BY <1>1, <1>2, <2>1, <2>2, <2>4, <3>1 DEF Held
      <4>2. Answered' = Answered
        BY <1>3, <2>6, <3>1
      <4> QED
        BY <1>1, <1>3, <2>1, <4>1, <4>2 DEF Credited
    <3>2. CASE tag[j] = Proxy /\ i \notin h.skip
      <4>1. Held(i) = 0
        BY <1>1, <1>2, <2>1, <3>2 DEF Held
      <4>2. Times(upd.todo, i) = h.own[i]
        BY <1>1, <1>2, <2>1, <3>2 DEF Counts
      <4>3. Held(i)' = h.own[i] * g
        BY <1>1, <2>1, <2>2, <2>4, <3>2, <4>2 DEF Held
      <4>4. total[i] - h.base[i] + 0 = h.own[i] * Answered
        BY <2>1, <3>2, <4>1 DEF Credited
      <4>5. h.own[i] \in Int /\ total[i] \in Int /\ h.base[i] \in Int
        BY <1>0, <2>1 DEF HistoryType, BooksType
      <4>6. h.own[i] * (Answered + g) = h.own[i] * Answered + h.own[i] * g
        BY <2>6, <4>5
      <4>7. h.own[i] * Answered \in Int /\ h.own[i] * g \in Int
        BY <2>6, <4>5
      <4>8. total[i] - h.base[i] + h.own[i] * g = h.own[i] * (Answered + g)
        BY <4>4, <4>5, <4>6, <4>7
      <4> QED
        BY <1>1, <1>3, <2>6, <4>3, <4>8 DEF Credited
    <3> QED
      BY <1>3, <3>1, <3>2 DEF Credited
  <2> QED
    BY <2>5, <2>7
<1>4. CASE /\ upd' = [upd EXCEPT !.got = IF seen THEN core.unread ELSE 0]
           /\ core' = [core EXCEPT !.unread = IF seen THEN 0 ELSE @] /\ UNCHANGED h
  <2> DEFINE g == IF seen THEN core.unread ELSE 0
             l == 0
  <2>1. g \in Int /\ upd' = [upd EXCEPT !.got = g] /\ (tag[j] # Proxy => g = 0 /\ l = 0)
    BY <1>0, <1>4 DEF CoreType
  <2>2. core'.unread = core.unread - g - l
    BY <1>0, <1>4 DEF CoreType
  <2>3. /\ h'.lost = h.lost + l /\ h'.passed = h.passed /\ h'.before = h.before /\ h'.base = h.base
        /\ h'.own = h.own /\ h'.skip = h.skip /\ h'.late = h.late /\ h'.retag = h.retag
    BY <1>0, <1>4 DEF HistoryType
  <2>4. l \in Int
    OBVIOUS
  <2> HIDE DEF g, l, seen, j
  <2> QED
    BY <1>3, <2>1, <2>2, <2>3, <2>4
<1>5. CASE /\ seen /\ upd' = [upd EXCEPT !.got = 0] /\ core' = [core EXCEPT !.unread = 0]
           /\ h' = [h EXCEPT !.faults = @ + 1, !.lost = @ + core.unread]
  <2> DEFINE g == 0
             l == core.unread
  <2>1. core'.unread = core.unread - g - l /\ g \in Int /\ l \in Int
    BY <1>0, <1>5 DEF CoreType
  <2>2. /\ h'.lost = h.lost + l /\ h'.passed = h.passed /\ h'.before = h.before /\ h'.base = h.base
        /\ h'.own = h.own /\ h'.skip = h.skip /\ h'.late = h.late /\ h'.retag = h.retag
    BY <1>0, <1>5 DEF HistoryType
  <2>3. (tag[j] # Proxy => g = 0 /\ l = 0) /\ upd' = [upd EXCEPT !.got = g]
    BY <1>5
  <2> HIDE DEF j, g, l, seen
  <2> QED
    BY <1>3, <2>1, <2>2, <2>3
<1>6. CASE upd' = [upd EXCEPT !.todo = Tail(@)] /\ h' = [h EXCEPT !.skip = @ \cup {j}] /\ UNCHANGED core
  <2>1. /\ h'.skip = h.skip \cup {j} /\ h'.passed = h.passed /\ h'.before = h.before /\ h'.base = h.base
        /\ h'.own = h.own /\ h'.lost = h.lost /\ h'.late = h.late /\ h'.retag = h.retag
    BY <1>0, <1>6 DEF HistoryType
  <2>2. upd'.todo = Tail(upd.todo) /\ upd'.got = None /\ upd'.diff = upd.diff
    BY <1>0, <1>1, <1>6 DEF UpdType
  <2> SUFFICES ASSUME Clean, NEW i \in DOMAIN h.own PROVE Counts(i)' /\ Credited(i)'
    BY <2>1 DEF BytesInv, Clean
  <2>3. Counts(i) /\ Credited(i) /\ i \in Ids
    BY <1>0 DEF BytesInv, HistoryType
  <2>4. Known' = Known /\ Answered' = Answered
    BY <1>2, <1>6, <2>1, <2>2 DEF Known, Answered
  <2>5. i # j => Times(upd'.todo, i) = Times(upd.todo, i)
    BY <1>1, <2>2, TimesTail, TimesNat
  <2>6. Counts(i)'
    BY <1>1, <2>1, <2>3, <2>4, <2>5 DEF Counts
  <2>7. i # j => Held(i)' = Held(i)
    BY <1>1, <2>4, <2>5 DEF Held
  <2>8. Credited(i)'
    BY <1>1, <2>1, <2>3, <2>4, <2>7 DEF Credited
  <2> QED
    BY <2>6, <2>8
<1> QED
  BY <1>4, <1>5, <1>6 DEF Query

\* What a query found goes to each profile of the tag, once for each time it is named.
LEMMA AddBytes ==
  ASSUME LoopTypes, Mutex, BytesInv, AddOwn \/ AddShared
  PROVE BytesInv'
<1>0. CoreType /\ LooperType /\ UpdType /\ AtType /\ BooksType /\ HistoryType
  BY DEF LoopTypes
<1> DEFINE j == Head(upd.todo)
<1>1. /\ UNCHANGED <<core, looper, at, tag, h>> /\ upd.todo # <<>> /\ looper.mutex # None /\ ~Saving /\ ~Saving'
      /\ upd.todo \in Seq(Ids) /\ j \in Ids
  BY <1>0, HeadTail DEF AddOwn, AddShared, UpdType, Mutex, Nothing, Saving
<1>2. /\ upd'.todo = Tail(upd.todo) /\ Known' = Known
      /\ tag[j] \in DOMAIN Known /\ Known[tag[j]] \in Int
      /\ total' = [total EXCEPT ![j] = @ + Known[tag[j]]]
  <2>1. CASE AddOwn
    <3>1. upd' = [todo |-> Tail(upd.todo), diff |-> With(upd.diff, tag[j], upd.got), got |-> None] /\ upd.got # None
      BY <2>1 DEF AddOwn
    <3>2. Known = With(upd.diff, tag[j], upd.got) /\ Known' = Known
      BY <1>1, <3>1 DEF Known
    <3>3. tag[j] \in DOMAIN Known /\ Known[tag[j]] = upd.got /\ upd.got \in Int
      BY <1>0, <3>1, <3>2 DEF UpdType, With
    <3> QED
      BY <2>1, <3>1, <3>2, <3>3 DEF AddOwn
  <2>2. CASE AddShared
    <3>1. upd' = [upd EXCEPT !.todo = Tail(@)] /\ upd.got = None /\ tag[j] \in DOMAIN upd.diff
      BY <2>2 DEF AddShared
    <3>2. upd'.todo = Tail(upd.todo) /\ upd'.got = None /\ upd'.diff = upd.diff
      BY <1>0, <3>1 DEF UpdType
    <3>3. Known = upd.diff /\ Known' = Known
      BY <3>1, <3>2 DEF Known
    <3>4. Known[tag[j]] \in Int
      BY <1>0, <3>1, <3>3 DEF UpdType
    <3> QED
      BY <2>2, <3>1, <3>2, <3>3, <3>4 DEF AddShared, Share
  <2> QED
    BY <2>1, <2>2
<1> SUFFICES ASSUME Clean, NEW i \in DOMAIN h.own PROVE Counts(i)' /\ Credited(i)'
  BY <1>1 DEF BytesInv, Clean
<1>3. Counts(i) /\ Credited(i) /\ i \in Ids /\ tag[i] = Proxy
  BY <1>0 DEF BytesInv, HistoryType, Counts
<1>4. /\ Times(upd.todo, i) \in Nat
      /\ Times(Tail(upd.todo), i) = Times(upd.todo, i) - (IF j = i THEN 1 ELSE 0)
  BY <1>1, TimesTail, TimesNat
<1> HIDE DEF j
<1>5. Counts(i)'
  BY <1>1, <1>2, <1>3, <1>4 DEF Counts
<1>6. total'[i] + Held(i)' = total[i] + Held(i)
  <2>1. CASE i # j
    BY <1>0, <1>1, <1>2, <1>3, <1>4, <2>1 DEF Held, BooksType
  <2>2. CASE i = j
    <3> DEFINE n == Times(upd.todo, i)
               d == Known[tag[j]]
    <3>1. Held(i) = n * d /\ Held(i)' = (n - 1) * d
      BY <1>1, <1>2, <1>4, <2>2 DEF Held
    <3>2. total'[i] = total[i] + d /\ total[i] \in Int
      BY <1>0, <1>2, <1>3, <2>2 DEF BooksType
    <3>3. n \in Int /\ d \in Int
      BY <1>2, <1>4
    <3> HIDE DEF n, d
    <3>4. (n - 1) * d = n * d - d /\ n * d \in Int
      BY <3>3
    <3> QED
      BY <3>1, <3>2, <3>3, <3>4
  <2> QED
    BY <2>1, <2>2
<1>7. total[i] \in Int /\ total'[i] \in Int /\ h.base[i] \in Int /\ Held(i) \in Int /\ Held(i)' \in Int
  <2>1. total[i] \in Int /\ total'[i] \in Int /\ h.base[i] \in Int
    BY <1>0, <1>2, <1>3 DEF BooksType, HistoryType
  <2>2. \A t \in DOMAIN Known : Known[t] \in Int
    BY <1>0 DEF Known, UpdType, With
  <2>3. Held(i) \in Int
    BY <1>4, <2>2 DEF Held
  <2>4. Times(upd'.todo, i) \in Int
    BY <1>2, <1>4
  <2>5. Held(i)' \in Int
    BY <1>1, <1>2, <2>2, <2>4 DEF Held
  <2> QED
    BY <2>1, <2>3, <2>5
<1>8. Answered' = Answered
  BY <1>1 DEF Answered
<1>9. Credited(i)'
  BY <1>1, <1>3, <1>6, <1>7, <1>8 DEF Credited
<1> QED
  BY <1>5, <1>9

\* The loop, the starts and the stops keep the invariant, whatever the tests do meanwhile.
LEMMA LoopKept == LoopInv /\ TrafficNext => LoopInv'
<1> SUFFICES ASSUME LoopInv, TrafficNext PROVE LoopInv'
  OBVIOUS
<1>0. LoopTypes /\ Mutex /\ Order /\ InTime /\ BytesInv /\ SaveDue
  BY DEF LoopInv
<1>1. LoopTypes'
  BY <1>0, LoopTyped
<1>2. Mutex' /\ Order' /\ InTime'
  BY <1>0, LoopOrdered
<1>3. SaveDue'
  BY <1>0, LoopSaves
<1>4. BytesInv'
  BY <1>0, QuietSteps, StartRpcBytes, StartAssignBytes, LockBytes, UnlockBytes, SaveBytes, QueryBytes, AddBytes
     DEF TrafficNext, Loop, Update, Starts, Stops, StopSaves
<1> QED
  BY <1>1, <1>2, <1>3, <1>4 DEF LoopInv

\* A test may rename objects, save a profile with what was counted, or see one deleted.
LEMMA LoopAside ==
  ASSUME LoopInv, UNCHANGED <<core, looper, upd, at, total>>, BooksType', DOMAIN h' = DOMAIN h,
         h'.passed = h.passed, h'.before = h.before, h'.lost = h.lost, h'.base = h.base,
         h'.own = h.own, h'.skip = h.skip, h'.late = h.late,
         Clean' => Clean /\ \A j \in Ids : tag'[j] = tag[j],
         \A i \in store' : saved'[i] = total[i] \/ (i \in store /\ saved'[i] = saved[i])
  PROVE LoopInv'
<1>0. CoreType /\ LooperType /\ UpdType /\ AtType /\ BooksType /\ HistoryType /\ Mutex /\ Order /\ InTime /\ BytesInv /\ SaveDue
  BY DEF LoopInv, LoopTypes
<1>1. LoopTypes'
  BY <1>0 DEF LoopTypes, CoreType, LooperType, UpdType, AtType, HistoryType
<1>2. Mutex' /\ Order' /\ InTime'
  BY <1>0 DEF Mutex, Saving, Order, InTime
<1>3. SaveDue'
  BY <1>0 DEF SaveDue, Due, Saving
<1>4. Answered' = Answered
  BY DEF Answered
<1>5. ASSUME Clean', NEW i \in DOMAIN h.own PROVE Counts(i)' /\ Credited(i)'
  BY <1>0, <1>4, <1>5, QuietCounts DEF BytesInv, HistoryType, Saving
<1>6. BytesInv'
  BY <1>5 DEF BytesInv
<1> QED
  BY <1>1, <1>2, <1>3, <1>6 DEF LoopInv

\* The invariant says what TrafficKept says.
LEMMA LoopSuffices == LoopInv => TrafficKept
<1> SUFFICES ASSUME LoopInv PROVE TrafficKept
  OBVIOUS
<1>1. NoByteLost
  BY DEF LoopInv, BytesInv, NoByteLost, Clean, Credited, Answered
<1>2. SavedAtStop
  BY DEF LoopInv, SaveDue, Due, SavedAtStop
<1> QED
  BY <1>1, <1>2 DEF TrafficKept
-------------------------------------------------------------------------------
(* The pools. *)

\* A pool is as it was when nothing of it changes.
LEMMA Untouched ==
  ASSUME NEW q \in Pools, pools'[q] = pools[q], \A w \in Workers : work'[<<q, w>>] = work[<<q, w>>],
         case' = case, PoolInv(q)
  PROVE PoolInv(q)'
<1>1. Finished(q)' = Finished(q)
  BY DEF Finished
<1>2. Threads(pools[q].kind)' = Threads(pools[q].kind)
  BY DEF Threads
<1>3. Asleep(q)' /\ Locked(q)' /\ Tried(q)' /\ Handed(q)'
  BY DEF PoolInv, Asleep, Locked, Tried, Handed
<1>4. Crew(q)' /\ Counted(q)'
  BY <1>1, <1>2 DEF PoolInv, Crew, Counted
<1> QED
  BY <1>3, <1>4 DEF PoolInv

\* A worker that moves while it works on a profile or waits for one changes nothing else.
LEMMA Moves ==
  ASSUME NEW p \in Pools, NEW w \in Workers, PoolInv(p), case' = case,
         \A f \in {"state", "kind", "list", "left", "finished", "ret", "lock", "tries"} : pools'[p][f] = pools[p][f],
         \A v \in Workers \ {w} : work'[<<p, v>>] = work[<<p, v>>],
         work[<<p, w>>].pc \notin Finishing \cup {"none"}, work'[<<p, w>>].pc \notin Finishing \cup {"none"},
         work'[<<p, w>>].pc \in {"got", "sent"} => work'[<<p, w>>].prof \in Range(pools[p].list)
  PROVE PoolInv(p)'
<1>0. /\ pools'[p].state = pools[p].state /\ pools'[p].kind = pools[p].kind /\ pools'[p].list = pools[p].list
      /\ pools'[p].left = pools[p].left /\ pools'[p].finished = pools[p].finished /\ pools'[p].ret = pools[p].ret
      /\ pools'[p].lock = pools[p].lock /\ pools'[p].tries = pools[p].tries
  OBVIOUS
<1>1. Finished(p)' = Finished(p)
  BY DEF Finished
<1>2. Threads(pools[p].kind)' = Threads(pools[p].kind)
  BY <1>0 DEF Threads
<1>3. Tried(p)'
  BY <1>0 DEF PoolInv, Tried
<1>4. Asleep(p)'
  BY <1>0 DEF PoolInv, Asleep
<1>5. Locked(p)'
  BY <1>0 DEF PoolInv, Locked, Finishing
<1>6. Handed(p)'
  BY <1>0 DEF PoolInv, Handed
<1>7. Crew(p)'
  BY <1>0, <1>2 DEF PoolInv, Crew
<1>8. Counted(p)'
  BY <1>0, <1>1, <1>2 DEF PoolInv, Counted
<1> QED
  BY <1>3, <1>4, <1>5, <1>6, <1>7, <1>8 DEF PoolInv

\* The threads of a pool are workers, finitely many and at least one.
LEMMA ThreadsFinite ==
  ASSUME RestType, NEW kind
  PROVE Threads(kind) \subseteq Workers /\ IsFiniteSet(Threads(kind)) /\ Threads(kind) # {}
<1>1. case.threads \in Nat \ {0} /\ 1..case.threads \subseteq Workers
  BY TestsAssumption DEF RestType
<1>2. Threads(kind) \subseteq 1..case.threads /\ Threads(kind) # {}
  BY <1>1 DEF Threads
<1> QED
  BY <1>1, <1>2, TestsAssumption, FS_Subset DEF Threads

\* Who has finished was one of the pool's threads.
LEMMA FinishedAreThreads ==
  ASSUME RestType, NEW p \in Pools, PoolInv(p), pools[p].state # "none"
  PROVE Finished(p) \subseteq Threads(pools[p].kind) /\ IsFiniteSet(Finished(p)) /\ Cardinality(Finished(p)) \in Nat
<1>1. Finished(p) \subseteq Threads(pools[p].kind)
  BY DEF PoolInv, Crew, Finished, Finishing
<1> QED
  BY <1>1, ThreadsFinite, FS_Subset, FS_CardinalityType

Took(r, i, rest) == [r EXCEPT !.left = rest, !.tries[i] = @ + 1]
\* What taking a profile changes in the record of a pool.
LEMMA TakeRecord ==
  ASSUME NEW r \in PoolRecord, NEW i \in Ids, NEW rest \in Seq(Ids)
  PROVE /\ Took(r, i, rest) \in PoolRecord
        /\ Took(r, i, rest).state = r.state /\ Took(r, i, rest).kind = r.kind /\ Took(r, i, rest).list = r.list
        /\ Took(r, i, rest).finished = r.finished /\ Took(r, i, rest).ret = r.ret /\ Took(r, i, rest).lock = r.lock
        /\ Took(r, i, rest).left = rest
        /\ \A j \in Ids : Took(r, i, rest).tries[j] = IF j = i THEN r.tries[j] + 1 ELSE r.tries[j]
<1> DEFINE t == [r.tries EXCEPT ![i] = @ + 1]
<1>1. t \in [Ids -> Nat] /\ \A j \in Ids : t[j] = IF j = i THEN r.tries[j] + 1 ELSE r.tries[j]
  BY DEF PoolRecord
<1>2. Took(r, i, rest) = [r EXCEPT !.left = rest, !.tries = t]
  BY DEF PoolRecord, Took
<1> HIDE DEF t
<1> QED
  BY <1>1, <1>2 DEF PoolRecord

\* A worker takes the next profile.
LEMMA TakeKeeps ==
  ASSUME PoolsType, WorkType, RestType, PoolsInv, NEW p \in Pools, NEW w \in Workers, Take(p, w)
  PROVE /\ PoolsType' /\ WorkType' /\ PoolsInv'
        /\ \A q \in Pools : pools'[q].state = pools[q].state /\ pools'[q].list = pools[q].list
<1> DEFINE i == Head(pools[p].left)
           rest == Tail(pools[p].left)
<1>0. /\ work[<<p, w>>].pc = "idle" /\ pools[p].lock = None /\ pools[p].left # <<>> /\ case' = case
      /\ work' = [work EXCEPT ![<<p, w>>].pc = "got", ![<<p, w>>].prof = i]
      /\ pools' = [pools EXCEPT ![p].left = rest, ![p].tries[i] = @ + 1]
  BY DEF Take, Taken
<1>1. pools[p] \in PoolRecord /\ pools[p].left \in Seq(Ids) /\ pools[p].tries \in [Ids -> Nat] /\ work[<<p, w>>] \in Job
  BY DEF PoolsType, PoolRecord, WorkType
<1>2. i \in Ids /\ rest \in Seq(Ids)
  BY <1>0, <1>1, HeadTail
<1> HIDE DEF i, rest
<1>3. pools'[p] = Took(pools[p], i, rest)
  BY <1>0 DEF PoolsType, Took
<1>4. \A q \in Pools : q # p => pools'[q] = pools[q]
  BY <1>0 DEF PoolsType
<1>5. PoolsType'
  <2>1. pools'[p] \in PoolRecord
    BY <1>1, <1>2, <1>3, TakeRecord
  <2> QED
    BY <1>0, <1>4, <2>1 DEF PoolsType
<1>6. work'[<<p, w>>] = [work[<<p, w>>] EXCEPT !.pc = "got", !.prof = i] /\ work'[<<p, w>>] \in Job
  BY <1>0, <1>1, <1>2 DEF WorkType, Job
<1>7. \A x \in Pools \X Workers : x # <<p, w>> => work'[x] = work[x]
  BY <1>0 DEF WorkType
<1>8. WorkType'
  BY <1>0, <1>6, <1>7 DEF WorkType
<1>9. /\ pools'[p].state = pools[p].state /\ pools'[p].kind = pools[p].kind /\ pools'[p].list = pools[p].list
      /\ pools'[p].left = rest /\ pools'[p].finished = pools[p].finished /\ pools'[p].ret = pools[p].ret
      /\ pools'[p].lock = pools[p].lock
      /\ \A j \in Ids : pools'[p].tries[j] = IF j = i THEN pools[p].tries[j] + 1 ELSE pools[p].tries[j]
  <2> DEFINE r2 == Took(pools[p], i, rest)
  <2>1. /\ r2.state = pools[p].state /\ r2.kind = pools[p].kind /\ r2.list = pools[p].list
        /\ r2.left = rest /\ r2.finished = pools[p].finished /\ r2.ret = pools[p].ret /\ r2.lock = pools[p].lock
    BY <1>1, <1>2, TakeRecord
  <2>2. \A j \in Ids : r2.tries[j] = IF j = i THEN pools[p].tries[j] + 1 ELSE pools[p].tries[j]
    BY <1>1, <1>2, TakeRecord
  <2> QED
    BY <1>3, <2>1, <2>2
<1>10. work'[<<p, w>>].pc = "got" /\ work'[<<p, w>>].prof = i
  BY <1>1, <1>6 DEF Job
<1>11. \A v \in Workers \ {w} : work'[<<p, v>>] = work[<<p, v>>]
  BY <1>7
<1>12. PoolInv(p)
  BY DEF PoolsInv
<1>13. pools[p].state # "none"
  BY <1>0, <1>12 DEF PoolInv, Asleep
<1>14. Threads(pools[p].kind)' = Threads(pools[p].kind)
  BY <1>0, <1>9 DEF Threads
<1>15. Finished(p) = {} /\ Finished(p)' = {}
  <2>1. Finished(p) = {}
    BY <1>0, <1>12 DEF PoolInv, Counted
  <2> QED
    BY <1>10, <1>11, <2>1 DEF Finished, Finishing
<1>16. Asleep(p)' /\ Crew(p)' /\ Locked(p)'
  <2>1. Asleep(p)'
    BY <1>9, <1>13 DEF Asleep
  <2>2. Crew(p)'
    BY <1>0, <1>9, <1>10, <1>11, <1>12, <1>13, <1>14 DEF PoolInv, Crew
  <2>3. Locked(p)'
    BY <1>0, <1>9, <1>10, <1>11, <1>12, TestsAssumption DEF PoolInv, Locked
  <2> QED
    BY <2>1, <2>2, <2>3
<1>17. Counted(p)'
  BY <1>0, <1>9, <1>12, <1>15 DEF PoolInv, Counted
<1>18. /\ i \in Range(pools[p].list) /\ i \in Range(pools[p].left) /\ Range(rest) = Range(pools[p].left) \ {i}
       /\ IsInjective(rest)
  <2>1. IsInjective(pools[p].left) /\ Range(pools[p].left) \subseteq Range(pools[p].list)
    BY <1>12 DEF PoolInv, Tried
  <2>2. /\ i = pools[p].left[1] /\ 1 \in DOMAIN pools[p].left
        /\ \A k \in DOMAIN rest : k + 1 \in DOMAIN pools[p].left /\ rest[k] = pools[p].left[k + 1]
        /\ \A k \in DOMAIN pools[p].left : k = 1 \/ (k - 1 \in DOMAIN rest /\ rest[k - 1] = pools[p].left[k])
    BY <1>0, <1>1, HeadTail DEF i, rest
  <2>3. DOMAIN rest \subseteq Nat \ {0}
    BY <1>2
  <2>4. IsInjective(rest)
    BY <2>1, <2>2, <2>3 DEF IsInjective
  <2>5. i \in Range(pools[p].left) /\ i \in Range(pools[p].list)
    BY <2>1, <2>2 DEF Range
  <2>6. Range(rest) \subseteq Range(pools[p].left) \ {i}
    BY <2>1, <2>2, <2>3 DEF Range, IsInjective
  <2>7. Range(pools[p].left) \ {i} \subseteq Range(rest)
    BY <2>2 DEF Range
  <2> QED
    BY <2>4, <2>5, <2>6, <2>7
<1>19. Tried(p)'
  <2>1. \A j \in Ids : pools[p].tries[j] = IF j \in Range(pools[p].list) \ Range(pools[p].left) THEN 1 ELSE 0
    BY <1>12 DEF PoolInv, Tried
  <2>2. \A j \in Ids : pools'[p].tries[j] = IF j \in Range(pools[p].list) \ Range(rest) THEN 1 ELSE 0
    BY <1>1, <1>2, <1>9, <1>18, <2>1
  <2>3. Range(rest) \subseteq Range(pools[p].list)
    BY <1>12, <1>18 DEF PoolInv, Tried
  <2> QED
    BY <1>9, <1>18, <2>2, <2>3 DEF Tried
<1>20. Handed(p)'
  BY <1>9, <1>10, <1>11, <1>12, <1>18 DEF PoolInv, Handed
<1>21. PoolInv(p)'
  BY <1>16, <1>17, <1>19, <1>20 DEF PoolInv
<1>22. \A q \in Pools \ {p} : PoolInv(q)'
  BY <1>0, <1>4, <1>7, Untouched DEF PoolsInv
<1>23. \A q \in Pools : pools'[q].state = pools[q].state /\ pools'[q].list = pools[q].list
  BY <1>4, <1>9
<1> QED
  BY <1>5, <1>8, <1>21, <1>22, <1>23 DEF PoolsInv

\* A worker that goes on to its next place changes only that.
LEMMA BecomesKeeps ==
  ASSUME WorkType, NEW p \in Pools, NEW w \in Workers,
         NEW pc \in {"none", "new", "idle", "got", "sent", "bye", "leaving", "gone", "dead"}, Becomes(p, w, pc)
  PROVE /\ WorkType' /\ work'[<<p, w>>].pc = pc /\ work'[<<p, w>>].prof = work[<<p, w>>].prof
        /\ \A q \in Pools, v \in Workers : <<q, v>> # <<p, w>> => work'[<<q, v>>] = work[<<q, v>>]
<1> DEFINE x == <<p, w>>
<1>1. x \in Pools \X Workers
  OBVIOUS
<1>2. \A q \in Pools, v \in Workers : <<q, v>> \in Pools \X Workers
  OBVIOUS
<1>3. work' = [work EXCEPT ![x].pc = pc]
  BY DEF Becomes
<1> HIDE DEF x
<1>4. work'[x] = [work[x] EXCEPT !.pc = pc] /\ work[x] \in Job
  BY <1>1, <1>3 DEF WorkType
<1>5. work'[x].pc = pc /\ work'[x].prof = work[x].prof /\ work'[x] \in Job
  BY <1>4 DEF Job
<1>6. \A y \in Pools \X Workers : y # x => work'[y] = work[y]
  BY <1>3 DEF WorkType
<1>7. WorkType'
  BY <1>3, <1>5, <1>6 DEF WorkType
<1> QED
  BY <1>2, <1>5, <1>6, <1>7 DEF x

\* A worker joins the list of threads.
LEMMA RegisterKeeps ==
  ASSUME PoolsType, WorkType, RestType, PoolsInv, NEW p \in Pools, NEW w \in Workers, Register(p, w)
  PROVE /\ PoolsType' /\ WorkType' /\ PoolsInv'
        /\ \A q \in Pools : pools'[q].state = pools[q].state /\ pools'[q].list = pools[q].list
<1>1. work[<<p, w>>].pc = "new" /\ Becomes(p, w, "idle") /\ pools' = pools /\ case' = case
  BY DEF Register
<1>2. /\ WorkType' /\ work'[<<p, w>>].pc = "idle"
      /\ \A q \in Pools, v \in Workers : <<q, v>> # <<p, w>> => work'[<<q, v>>] = work[<<q, v>>]
  BY <1>1, BecomesKeeps
<1>3. PoolInv(p)'
  BY <1>1, <1>2, Moves DEF PoolsInv, Finishing
<1>4. \A q \in Pools \ {p} : PoolInv(q)'
  BY <1>1, <1>2, Untouched DEF PoolsInv
<1> QED
  BY <1>1, <1>2, <1>3, <1>4 DEF PoolsInv, PoolsType

\* The last profile is taken, and a worker ends; the last one lets the control thread go.
LEMMA FinishKeeps ==
  ASSUME PoolsType, WorkType, RestType, PoolsInv, NEW p \in Pools, NEW w \in Workers, Finish(p, w)
  PROVE /\ PoolsType' /\ WorkType' /\ PoolsInv'
        /\ \A q \in Pools : pools'[q].state = pools[q].state /\ pools'[q].list = pools[q].list
<1> DEFINE last == AllFinished(p)
<1>0. /\ work[<<p, w>>].pc = "idle" /\ pools[p].lock = None /\ pools[p].left = <<>> /\ case' = case
      /\ pools' = [pools EXCEPT ![p].finished = @ + 1, ![p].ret = @ \/ last, ![p].lock = w]
      /\ Becomes(p, w, "bye")
  BY DEF Finish
<1>1. last \in BOOLEAN
  BY DEF AllFinished
<1> HIDE DEF last
<1>2. /\ WorkType' /\ work'[<<p, w>>].pc = "bye"
      /\ \A q \in Pools, v \in Workers : <<q, v>> # <<p, w>> => work'[<<q, v>>] = work[<<q, v>>]
  BY <1>0, BecomesKeeps
<1>3. pools[p] \in PoolRecord /\ pools[p].finished \in Nat /\ pools[p].ret \in BOOLEAN
  BY DEF PoolsType, PoolRecord
<1>4. pools'[p] = [pools[p] EXCEPT !.finished = @ + 1, !.ret = @ \/ last, !.lock = w]
  BY <1>0 DEF PoolsType
<1>5. \A q \in Pools : q # p => pools'[q] = pools[q]
  BY <1>0 DEF PoolsType
<1>6. /\ pools'[p].state = pools[p].state /\ pools'[p].kind = pools[p].kind /\ pools'[p].list = pools[p].list
      /\ pools'[p].left = pools[p].left /\ pools'[p].finished = pools[p].finished + 1
      /\ pools'[p].ret = (pools[p].ret \/ last) /\ pools'[p].lock = w /\ pools'[p].tries = pools[p].tries
      /\ pools'[p] \in PoolRecord
  <2> DEFINE n == pools[p].finished + 1
             b == pools[p].ret \/ last
  <2>1. n \in Nat /\ b \in BOOLEAN
    BY <1>1, <1>3
  <2>2. pools'[p] = [pools[p] EXCEPT !.finished = n, !.ret = b, !.lock = w]
    BY <1>4
  <2> HIDE DEF n, b
  <2>3. pools'[p] \in PoolRecord
    BY <1>3, <2>1, <2>2 DEF PoolRecord
  <2>4. /\ pools'[p].state = pools[p].state /\ pools'[p].kind = pools[p].kind /\ pools'[p].list = pools[p].list
        /\ pools'[p].left = pools[p].left /\ pools'[p].finished = n
        /\ pools'[p].ret = b /\ pools'[p].lock = w /\ pools'[p].tries = pools[p].tries
    BY <1>3, <2>2 DEF PoolRecord
  <2> QED
    BY <2>3, <2>4 DEF n, b
<1>7. PoolsType'
  BY <1>0, <1>5, <1>6 DEF PoolsType
<1>8. PoolInv(p)
  BY DEF PoolsInv
<1>9. pools[p].state # "none"
  BY <1>0, <1>8 DEF PoolInv, Asleep
<1>10. Threads(pools[p].kind)' = Threads(pools[p].kind)
  BY <1>0, <1>6 DEF Threads
<1>11. Finished(p)' = Finished(p) \cup {w} /\ w \notin Finished(p)
  BY <1>0, <1>2 DEF Finished, Finishing
<1>12. Asleep(p)' /\ Tried(p)' /\ Handed(p)'
  <2>1. Asleep(p)'
    BY <1>6, <1>9 DEF Asleep
  <2>2. Tried(p)'
    BY <1>6, <1>8 DEF PoolInv, Tried
  <2>3. Handed(p)'
    BY <1>2, <1>6, <1>8 DEF PoolInv, Handed
  <2> QED
    BY <2>1, <2>2, <2>3
<1>13. Crew(p)'
  BY <1>0, <1>2, <1>6, <1>8, <1>9, <1>10 DEF PoolInv, Crew
<1>14. Locked(p)'
  BY <1>0, <1>2, <1>6, <1>8, TestsAssumption DEF PoolInv, Locked
<1>15. IsFiniteSet(Finished(p)) /\ Finished(p) \subseteq Threads(pools[p].kind) /\ pools[p].finished = Cardinality(Finished(p))
  BY <1>8, <1>9, FinishedAreThreads DEF PoolInv, Counted
<1>16. Cardinality(Finished(p)') = pools'[p].finished
  BY <1>6, <1>11, <1>15, FS_AddElement
<1>17. pools'[p].ret => Threads(pools[p].kind) \subseteq Finished(p)'
  <2>1. CASE pools[p].ret
    BY <1>8, <1>11, <2>1 DEF PoolInv, Counted
  <2>2. CASE last
    <3>1. Cardinality(Finished(p)') = Cardinality(Threads(pools[p].kind))
      BY <1>6, <1>16, <2>2 DEF last, AllFinished
    <3>2. w \in Threads(pools[p].kind)
      BY <1>0, <1>8, <1>9 DEF PoolInv, Crew
    <3>3. Finished(p) \cup {w} \in SUBSET Threads(pools[p].kind)
      BY <1>15, <3>2
    <3>4. Finished(p) \cup {w} = Threads(pools[p].kind)
      BY <1>11, <3>1, <3>3, ThreadsFinite, FS_Subset
    <3> QED
      BY <1>11, <3>4
  <2> QED
    BY <1>6, <2>1, <2>2
<1>18. Counted(p)'
  <2>1. pools[p].state = "over" => pools[p].ret
    BY <1>8 DEF PoolInv, Counted
  <2> QED
    BY <1>0, <1>6, <1>10, <1>16, <1>17, <2>1 DEF Counted
<1>19. PoolInv(p)'
  BY <1>12, <1>13, <1>14, <1>18 DEF PoolInv
<1>20. \A q \in Pools \ {p} : PoolInv(q)'
  BY <1>0, <1>2, <1>5, Untouched DEF PoolsInv
<1>21. \A q \in Pools : pools'[q].state = pools[q].state /\ pools'[q].list = pools[q].list
  BY <1>5, <1>6
<1> QED
  BY <1>2, <1>7, <1>19, <1>20, <1>21 DEF PoolsInv

\* A worker that ended gives lock_write back.
LEMMA UnlockKeeps ==
  ASSUME PoolsType, WorkType, RestType, PoolsInv, NEW p \in Pools, NEW w \in Workers, Unlock(p, w)
  PROVE /\ PoolsType' /\ WorkType' /\ PoolsInv'
        /\ \A q \in Pools : pools'[q].state = pools[q].state /\ pools'[q].list = pools[q].list
<1>0. /\ work[<<p, w>>].pc = "bye" /\ pools' = [pools EXCEPT ![p].lock = None] /\ Becomes(p, w, "leaving") /\ case' = case
  BY DEF Unlock, Release
<1>1. /\ WorkType' /\ work'[<<p, w>>].pc = "leaving"
      /\ \A q \in Pools, v \in Workers : <<q, v>> # <<p, w>> => work'[<<q, v>>] = work[<<q, v>>]
  BY <1>0, BecomesKeeps
<1>2. pools[p] \in PoolRecord /\ pools'[p] = [pools[p] EXCEPT !.lock = None] /\ \A q \in Pools : q # p => pools'[q] = pools[q]
  BY <1>0 DEF PoolsType
<1>3. /\ pools'[p].state = pools[p].state /\ pools'[p].kind = pools[p].kind /\ pools'[p].list = pools[p].list
      /\ pools'[p].left = pools[p].left /\ pools'[p].finished = pools[p].finished /\ pools'[p].ret = pools[p].ret
      /\ pools'[p].lock = None /\ pools'[p].tries = pools[p].tries /\ pools'[p] \in PoolRecord
  BY <1>2 DEF PoolRecord
<1>4. PoolsType'
  BY <1>0, <1>2, <1>3 DEF PoolsType
<1>5. PoolInv(p)
  BY DEF PoolsInv
<1>6. Threads(pools[p].kind)' = Threads(pools[p].kind) /\ Finished(p)' = Finished(p)
  <2>1. Finished(p)' = Finished(p)
    BY <1>0, <1>1 DEF Finished, Finishing
  <2> QED
    BY <1>0, <1>3, <2>1 DEF Threads
<1>7. pools[p].state # "none" /\ pools[p].lock = w
  BY <1>0, <1>5 DEF PoolInv, Asleep, Locked
<1>8. Asleep(p)' /\ Tried(p)' /\ Handed(p)' /\ Counted(p)'
  <2>1. Asleep(p)'
    BY <1>3, <1>7 DEF Asleep
  <2>2. Tried(p)'
    BY <1>3, <1>5 DEF PoolInv, Tried
  <2>3. Handed(p)'
    BY <1>1, <1>3, <1>5 DEF PoolInv, Handed
  <2>4. Counted(p)'
    BY <1>3, <1>5, <1>6 DEF PoolInv, Counted
  <2> QED
    BY <2>1, <2>2, <2>3, <2>4
<1>9. Crew(p)'
  BY <1>0, <1>1, <1>3, <1>5, <1>6, <1>7 DEF PoolInv, Crew
<1>10. Locked(p)'
  BY <1>1, <1>3, <1>5, <1>7, TestsAssumption DEF PoolInv, Locked
<1>11. PoolInv(p)'
  BY <1>8, <1>9, <1>10 DEF PoolInv
<1>12. \A q \in Pools \ {p} : PoolInv(q)'
  BY <1>0, <1>1, <1>2, Untouched DEF PoolsInv
<1>13. \A q \in Pools : pools'[q].state = pools[q].state /\ pools'[q].list = pools[q].list
  BY <1>2, <1>3
<1> QED
  BY <1>1, <1>4, <1>11, <1>12, <1>13 DEF PoolsInv

\* And leaves the list of threads.
LEMMA DeregisterKeeps ==
  ASSUME PoolsType, WorkType, RestType, PoolsInv, NEW p \in Pools, NEW w \in Workers, Deregister(p, w)
  PROVE /\ PoolsType' /\ WorkType' /\ PoolsInv'
        /\ \A q \in Pools : pools'[q].state = pools[q].state /\ pools'[q].list = pools[q].list
<1>0. work[<<p, w>>].pc = "leaving" /\ Becomes(p, w, "gone") /\ pools' = pools /\ case' = case
  BY DEF Deregister
<1>1. /\ WorkType' /\ work'[<<p, w>>].pc = "gone"
      /\ \A q \in Pools, v \in Workers : <<q, v>> # <<p, w>> => work'[<<q, v>>] = work[<<q, v>>]
  BY <1>0, BecomesKeeps
<1>2. PoolInv(p)
  BY DEF PoolsInv
<1>3. Finished(p)' = Finished(p)
  BY <1>0, <1>1 DEF Finished, Finishing
<1>4. Threads(pools[p].kind)' = Threads(pools[p].kind)
  BY <1>0 DEF Threads
<1>5. pools[p].state # "none"
  BY <1>0, <1>2 DEF PoolInv, Asleep
<1>6. Asleep(p)' /\ Tried(p)' /\ Handed(p)' /\ Counted(p)' /\ Crew(p)' /\ Locked(p)'
  <2>1. Asleep(p)' /\ Tried(p)'
    BY <1>0, <1>2, <1>5 DEF PoolInv, Asleep, Tried
  <2>2. Handed(p)'
    BY <1>0, <1>1, <1>2 DEF PoolInv, Handed
  <2>3. Counted(p)'
    BY <1>0, <1>2, <1>3, <1>4 DEF PoolInv, Counted
  <2>4. Crew(p)'
    BY <1>0, <1>1, <1>2, <1>4, <1>5 DEF PoolInv, Crew
  <2>5. Locked(p)'
    BY <1>0, <1>1, <1>2 DEF PoolInv, Locked
  <2> QED
    BY <2>1, <2>2, <2>3, <2>4, <2>5
<1>7. \A q \in Pools \ {p} : PoolInv(q)'
  BY <1>0, <1>1, Untouched DEF PoolsInv
<1> QED
  BY <1>0, <1>1, <1>6, <1>7 DEF PoolsInv, PoolInv, PoolsType

\* A worker that keeps a result waits for the next profile.
LEMMA KeptKeeps ==
  ASSUME PoolsType, WorkType, RestType, PoolsInv, LoopInv, NEW p \in Pools, NEW w \in Workers,
         work[<<p, w>>].pc \in {"got", "sent"}, NEW what \in {"report", "measured"}, Kept(p, w, what),
         UNCHANGED <<core, looper, upd, at, tag, total, h, case, pools, ui, icmp>>
  PROVE PoolsType' /\ WorkType' /\ RestType' /\ PoolsInv' /\ LoopInv'
<1> DEFINE x == <<p, w>>
           i == work[x].prof
<1>0. /\ x \in Pools \X Workers /\ work[x].pc \in {"got", "sent"}
      /\ store' = store \cup {i} /\ saved' = [saved EXCEPT ![i] = total[i]]
      /\ result' = [result EXCEPT ![i] = what]
      /\ work' = [work EXCEPT ![x] = [Quiet EXCEPT !.pc = "idle"]]
  BY DEF Kept
<1>1. \A q \in Pools, v \in Workers : <<q, v>> \in Pools \X Workers
  OBVIOUS
<1>2. PoolInv(p) /\ pools[p] \in PoolRecord
  BY DEF PoolsInv, PoolsType
<1>3. i \in Range(pools[p].list)
  BY <1>0, <1>2 DEF PoolInv, Handed
<1>4. i \in Ids
  <2>1. pools[p].list \in Seq(Ids)
    BY <1>2 DEF PoolRecord
  <2> QED
    BY <1>3, <2>1 DEF Range
<1> HIDE DEF i
<1>5. work'[x].pc = "idle" /\ work'[x] \in Job
  BY <1>0 DEF WorkType, Quiet, Job
<1>6. \A y \in Pools \X Workers : y # x => work'[y] = work[y]
  BY <1>0 DEF WorkType
<1>7. WorkType'
  <2> HIDE DEF x
  <2> QED
    BY <1>0, <1>5, <1>6 DEF WorkType
<1>8. \A q \in Pools, v \in Workers : <<q, v>> # x => work'[<<q, v>>] = work[<<q, v>>]
  BY <1>1, <1>6
<1>9. PoolInv(p)'
  BY <1>0, <1>2, <1>5, <1>8, Moves DEF Finishing
<1>10. \A q \in Pools \ {p} : PoolInv(q)'
  BY <1>8, Untouched DEF PoolsInv
<1>11. RestType'
  BY <1>0, <1>4 DEF RestType
<1>12. total \in [Ids -> Int] /\ saved \in [Ids -> Int] /\ store \subseteq Ids
  BY DEF LoopInv, LoopTypes, BooksType
<1>13. saved'[i] = total[i] /\ \A j \in Ids : j # i => saved'[j] = saved[j]
  BY <1>0, <1>4, <1>12
<1>14. BooksType'
  BY <1>0, <1>4, <1>12 DEF BooksType
<1>15. \A j \in store' : saved'[j] = total[j] \/ (j \in store /\ saved'[j] = saved[j])
  BY <1>0, <1>12, <1>13
<1>16. LoopInv'
  BY <1>14, <1>15, LoopAside DEF Clean
<1> QED
  BY <1>7, <1>9, <1>10, <1>11, <1>16 DEF PoolsInv, PoolsType

\* What a test renames, SaveProfile has not to do with.
LEMMA RetagAside ==
  ASSUME LoopInv, NEW stats, Retag(stats), UNCHANGED <<core, looper, upd, at, total, saved, store>>
  PROVE LoopInv' /\ h'.tested = h.tested /\ h'.crossed = h.crossed
<1> DEFINE c == h.retag \cup Changed(stats)
<1>1. tag' = Tags(stats) /\ h' = [h EXCEPT !.retag = c]
  BY DEF Retag
<1>2. LoopTypes /\ BooksType /\ HistoryType
  BY DEF LoopInv, LoopTypes
<1> HIDE DEF c
<1>3. /\ DOMAIN h' = DOMAIN h /\ h'.retag = c /\ h'.tested = h.tested /\ h'.crossed = h.crossed
      /\ h'.passed = h.passed /\ h'.before = h.before /\ h'.lost = h.lost /\ h'.base = h.base
      /\ h'.own = h.own /\ h'.skip = h.skip /\ h'.late = h.late
  BY <1>1, <1>2 DEF HistoryType
<1>4. c = {} => h.retag = {} /\ \A j \in Ids : tag'[j] = tag[j]
  BY <1>1 DEF c, Changed
<1>5. Clean' => Clean /\ \A j \in Ids : tag'[j] = tag[j]
  BY <1>3, <1>4 DEF Clean
<1>6. BooksType'
  BY <1>2 DEF BooksType
<1>7. LoopInv'
  BY <1>2, <1>3, <1>5, <1>6, LoopAside
<1> QED
  BY <1>3, <1>7

\* A worker that goes on with its profile, its test sent or its mode changed.
LEMMA SendsKeeps ==
  ASSUME PoolsType, WorkType, PoolsInv, NEW p \in Pools, NEW w \in Workers, work[<<p, w>>].pc \in {"got", "sent"},
         NEW pc \in {"got", "sent"}, NEW mode \in {"icmp", "tcp", "url", "full", None},
         work' = [work EXCEPT ![<<p, w>>].pc = pc, ![<<p, w>>].mode = mode], pools' = pools, case' = case
  PROVE PoolsType' /\ WorkType' /\ PoolsInv'
<1> DEFINE x == <<p, w>>
<1>0. x \in Pools \X Workers /\ work[x].pc \in {"got", "sent"} /\ work[x] \in Job
  BY DEF WorkType
<1>1. \A q \in Pools, v \in Workers : <<q, v>> \in Pools \X Workers
  OBVIOUS
<1>2. work' = [work EXCEPT ![x] = [work[x] EXCEPT !.pc = pc, !.mode = mode]]
  BY <1>0 DEF WorkType
<1> HIDE DEF x
<1>3. work'[x] = [work[x] EXCEPT !.pc = pc, !.mode = mode]
  BY <1>0, <1>2 DEF WorkType
<1>4. work'[x].pc = pc /\ work'[x].prof = work[x].prof /\ work'[x] \in Job
  <2> DEFINE j == work[x]
  <2>1. j \in Job /\ work'[x] = [j EXCEPT !.pc = pc, !.mode = mode]
    BY <1>0, <1>3
  <2> HIDE DEF j
  <2>2. [j EXCEPT !.pc = pc, !.mode = mode].pc = pc /\ [j EXCEPT !.pc = pc, !.mode = mode].prof = j.prof
    BY <2>1 DEF Job
  <2>3. [j EXCEPT !.pc = pc, !.mode = mode] \in Job
    BY <2>1 DEF Job
  <2> QED
    BY <2>1, <2>2, <2>3 DEF j
<1>5. \A y \in Pools \X Workers : y # x => work'[y] = work[y]
  BY <1>2 DEF WorkType
<1>6. WorkType'
  BY <1>2, <1>4, <1>5 DEF WorkType
<1>7. \A q \in Pools, v \in Workers : <<q, v>> # x => work'[<<q, v>>] = work[<<q, v>>]
  BY <1>1, <1>5
<1>8. work[x].prof \in Range(pools[p].list)
  BY <1>0 DEF PoolsInv, PoolInv, Handed, x
<1>9. PoolInv(p)'
  BY <1>0, <1>4, <1>7, <1>8, Moves DEF PoolsInv, Finishing, x
<1>10. \A q \in Pools \ {p} : PoolInv(q)'
  BY <1>7, Untouched DEF PoolsInv, x
<1> QED
  BY <1>6, <1>9, <1>10 DEF PoolsInv, PoolsType

\* A profile is loaded and its test is sent, or there is nothing to send.
LEMMA PrepareKeeps ==
  ASSUME PoolsType, WorkType, RestType, PoolsInv, LoopInv, NEW p \in Pools, NEW w \in Workers, Prepare(p, w)
  PROVE /\ PoolsType' /\ WorkType' /\ RestType' /\ PoolsInv' /\ LoopInv' /\ UNCHANGED <<case, pools, ui, icmp>>
        /\ h'.tested = h.tested /\ h'.crossed = h.crossed /\ store \subseteq store' /\ UNCHANGED <<at, upd>>
<1> DEFINE i == work[<<p, w>>].prof
           kind == pools[p].kind
<1>0. work[<<p, w>>].pc = "got" /\ UNCHANGED <<case, pools, ui, icmp>>
  BY DEF Prepare
<1>1. CASE i \in case.unfit
  <2>1. Kept(p, w, "report") /\ UNCHANGED <<core, looper, upd, at, tag, total, h, case, pools, ui, icmp>>
    BY <1>1 DEF Prepare
  <2>2. store \subseteq store'
    BY <2>1 DEF Kept
  <2> QED
    BY <1>0, <2>1, <2>2, KeptKeeps
<1>2. CASE i \notin case.unfit
  <2> DEFINE mode == EffectivePingMode(kind)
  <2>1. /\ work' = [work EXCEPT ![<<p, w>>].pc = "sent", ![<<p, w>>].mode = mode]
        /\ UNCHANGED <<core, looper, upd, at, total, saved, store, case, pools, ui, icmp, result>>
        /\ Retag(StatsOf[i]) \/ UNCHANGED <<tag, h>>
    BY <1>2 DEF Prepare
  <2>2. mode \in {"icmp", "tcp", "url", "full", None}
    <3>1. pools[p] \in PoolRecord
      BY DEF PoolsType
    <3> QED
      BY <3>1 DEF PoolRecord, Kinds, EffectivePingMode
  <2> HIDE DEF mode
  <2>3. PoolsType' /\ WorkType' /\ PoolsInv'
    BY <1>0, <2>1, <2>2, SendsKeeps
  <2>4. LoopInv' /\ h'.tested = h.tested /\ h'.crossed = h.crossed
    <3>1. CASE Retag(StatsOf[i])
      BY <2>1, <3>1, RetagAside
    <3>2. CASE UNCHANGED <<tag, h>>
      <4>1. BooksType'
        BY <2>1 DEF LoopInv, LoopTypes, BooksType
      <4>2. DOMAIN h' = DOMAIN h
        BY <3>2
      <4>3. Clean' => Clean /\ \A j \in Ids : tag'[j] = tag[j]
        BY <3>2 DEF Clean
      <4> QED
        BY <2>1, <3>2, <4>1, <4>2, <4>3, LoopAside
    <3> QED
      BY <2>1, <3>1, <3>2
  <2>5. RestType'
    BY <2>1 DEF RestType
  <2> QED
    BY <1>0, <2>1, <2>3, <2>4, <2>5
<1> QED
  BY <1>1, <1>2

\* An answer is kept.
LEMMA AnswerKeeps ==
  ASSUME PoolsType, WorkType, RestType, PoolsInv, LoopInv, NEW p \in Pools, NEW w \in Workers, Answer(p, w)
  PROVE /\ PoolsType' /\ WorkType' /\ RestType' /\ PoolsInv' /\ LoopInv' /\ UNCHANGED <<case, pools, ui, icmp>>
        /\ h'.tested = h.tested /\ h'.crossed = h.crossed /\ store \subseteq store' /\ UNCHANGED <<at, upd>>
<1>0. /\ work[<<p, w>>].pc = "sent" /\ UNCHANGED <<core, looper, upd, at, tag, total, h, case, pools, ui, icmp>>
  BY DEF Answer
<1>1. PICK answer \in Answers(work[<<p, w>>].mode) :
        ~RetryWithTcp(work[<<p, w>>].mode, answer) /\ Kept(p, w, answer)
  BY DEF Answer
<1>2. answer = "measured"
  BY <1>1 DEF Answers, RetryWithTcp
<1>3. Kept(p, w, "measured")
  BY <1>1, <1>2
<1>4. store \subseteq store'
  BY <1>3 DEF Kept
<1> QED
  BY <1>0, <1>3, <1>4, KeptKeeps

\* Another ping is tried, as this machine cannot send the one that was asked for.
LEMMA AnswerLocalKeeps ==
  ASSUME PoolsType, WorkType, RestType, PoolsInv, NoticeInv, NEW p \in Pools, NEW w \in Workers, AnswerLocal(p, w)
  PROVE /\ PoolsType' /\ WorkType' /\ RestType' /\ PoolsInv' /\ NoticeInv'
        /\ UNCHANGED <<traffic, store, h, case, pools, ui>>
<1> DEFINE x == <<p, w>>
<1>0. /\ x \in Pools \X Workers /\ work[x].pc = "sent" /\ work[x] \in Job
      /\ work' = [work EXCEPT ![x].mode = "tcp"] /\ icmp' = Notice
      /\ UNCHANGED <<traffic, store, h, case, pools, ui, result>>
  BY DEF AnswerLocal, WorkType
<1>1. \A q \in Pools, v \in Workers : <<q, v>> \in Pools \X Workers
  OBVIOUS
<1> HIDE DEF x
<1>2. work'[x].pc = "sent" /\ work'[x].prof = work[x].prof /\ work'[x] \in Job
  <2>1. work'[x] = [work[x] EXCEPT !.mode = "tcp"]
    BY <1>0 DEF WorkType
  <2> QED
    BY <1>0, <2>1 DEF Job
<1>3. \A y \in Pools \X Workers : y # x => work'[y] = work[y]
  BY <1>0 DEF WorkType
<1>4. WorkType'
  BY <1>0, <1>2, <1>3 DEF WorkType
<1>5. \A q \in Pools, v \in Workers : <<q, v>> # x => work'[<<q, v>>] = work[<<q, v>>]
  BY <1>1, <1>3
<1>6. work[x].prof \in Range(pools[p].list)
  BY <1>0 DEF PoolsInv, PoolInv, Handed, x
<1>7. PoolInv(p)'
  BY <1>0, <1>2, <1>5, <1>6, Moves DEF PoolsInv, Finishing, x
<1>8. \A q \in Pools \ {p} : PoolInv(q)'
  BY <1>0, <1>5, Untouched DEF PoolsInv, x
<1>9. RestType' /\ NoticeInv'
  <2>1. icmp.notices \in Int /\ icmp.noticed \in BOOLEAN
    BY DEF RestType
  <2>2. icmp' \in [down : BOOLEAN, noticed : BOOLEAN, notices : Int] /\ NoticeInv'
    BY <1>0, <2>1 DEF Notice, NoticeInv
  <2> QED
    BY <1>0, <2>2 DEF RestType
<1> QED
  BY <1>0, <1>4, <1>7, <1>8, <1>9 DEF PoolsInv, PoolsType

\* A worker whose call failed returns, uncounted.
LEMMA RpcFailsKeeps ==
  ASSUME PoolsType, WorkType, RestType, PoolsInv, LoopInv, NEW p \in Pools, NEW w \in Workers, RpcFails(p, w)
  PROVE /\ PoolsType' /\ WorkType' /\ RestType' /\ PoolsInv' /\ LoopInv' /\ UNCHANGED <<case, store, ui, icmp, at, upd>>
        /\ h'.tested = h.tested /\ h'.crossed = h.crossed
        /\ \A q \in Pools : pools'[q].state = pools[q].state /\ pools'[q].list = pools[q].list
<1>0. /\ work[<<p, w>>].pc = "sent" /\ Becomes(p, w, "dead") /\ pools' = [pools EXCEPT ![p].broken = TRUE]
      /\ h' = [h EXCEPT !.faults = @ + 1] /\ UNCHANGED <<traffic, store, case, ui, icmp, result>>
  BY DEF RpcFails
<1>1. /\ WorkType' /\ work'[<<p, w>>].pc = "dead"
      /\ \A q \in Pools, v \in Workers : <<q, v>> # <<p, w>> => work'[<<q, v>>] = work[<<q, v>>]
  BY <1>0, BecomesKeeps
<1>2. pools[p] \in PoolRecord /\ pools'[p] = [pools[p] EXCEPT !.broken = TRUE] /\ \A q \in Pools : q # p => pools'[q] = pools[q]
  BY <1>0 DEF PoolsType
<1>3. /\ pools'[p].state = pools[p].state /\ pools'[p].kind = pools[p].kind /\ pools'[p].list = pools[p].list
      /\ pools'[p].left = pools[p].left /\ pools'[p].finished = pools[p].finished /\ pools'[p].ret = pools[p].ret
      /\ pools'[p].lock = pools[p].lock /\ pools'[p].tries = pools[p].tries /\ pools'[p] \in PoolRecord
  BY <1>2 DEF PoolRecord
<1>4. PoolsType'
  BY <1>0, <1>2, <1>3 DEF PoolsType
<1>5. PoolInv(p)'
  BY <1>0, <1>1, <1>3, Moves DEF PoolsInv, Finishing
<1>6. \A q \in Pools \ {p} : PoolInv(q)'
  BY <1>0, <1>1, <1>2, Untouched DEF PoolsInv
<1>7. RestType'
  BY <1>0 DEF RestType
<1>8. LoopInv' /\ h'.tested = h.tested /\ h'.crossed = h.crossed /\ UNCHANGED <<at, upd>>
  <2>1. LoopTypes /\ BooksType /\ HistoryType
    BY DEF LoopInv, LoopTypes
  <2>2. /\ DOMAIN h' = DOMAIN h /\ h'.retag = h.retag /\ h'.tested = h.tested /\ h'.crossed = h.crossed
        /\ h'.passed = h.passed /\ h'.before = h.before /\ h'.lost = h.lost /\ h'.base = h.base
        /\ h'.own = h.own /\ h'.skip = h.skip /\ h'.late = h.late
    BY <1>0, <2>1 DEF HistoryType
  <2>3. UNCHANGED <<core, looper, upd, at, tag, total, saved>>
    BY <1>0 DEF traffic
  <2>4. BooksType' /\ (Clean' => Clean)
    BY <1>0, <2>1, <2>2, <2>3 DEF BooksType, Clean
  <2> QED
    BY <1>0, <2>2, <2>3, <2>4, LoopAside
<1>9. \A q \in Pools : pools'[q].state = pools[q].state /\ pools'[q].list = pools[q].list
  BY <1>2, <1>3
<1> QED
  BY <1>0, <1>1, <1>4, <1>5, <1>6, <1>7, <1>8, <1>9 DEF PoolsInv

\* The control thread returns when its workers have finished.
LEMMA ControlKeeps ==
  ASSUME PoolsType, WorkType, RestType, PoolsInv, NEW p \in Pools, Control(p)
  PROVE /\ PoolsType' /\ WorkType' /\ RestType' /\ PoolsInv' /\ UNCHANGED <<traffic, store, h, case, icmp>>
        /\ pools[p].state = "live" /\ pools'[p].state = "over" /\ \A q \in Pools : q # p => pools'[q] = pools[q]
        /\ ui' = [ui EXCEPT !.testing = FALSE]
<1>0. /\ pools[p].state = "live" /\ pools[p].ret /\ pools' = [pools EXCEPT ![p].state = "over"]
      /\ ui' = [ui EXCEPT !.testing = FALSE] /\ UNCHANGED <<traffic, store, h, case, work, icmp, result>>
  BY DEF Control
<1>1. pools[p] \in PoolRecord /\ pools'[p] = [pools[p] EXCEPT !.state = "over"] /\ \A q \in Pools : q # p => pools'[q] = pools[q]
  BY <1>0 DEF PoolsType
<1>2. /\ pools'[p].state = "over" /\ pools'[p].kind = pools[p].kind /\ pools'[p].list = pools[p].list
      /\ pools'[p].left = pools[p].left /\ pools'[p].finished = pools[p].finished /\ pools'[p].ret = pools[p].ret
      /\ pools'[p].lock = pools[p].lock /\ pools'[p].tries = pools[p].tries /\ pools'[p] \in PoolRecord
  BY <1>1 DEF PoolRecord
<1>3. PoolsType' /\ WorkType' /\ RestType'
  BY <1>0, <1>1, <1>2 DEF PoolsType, WorkType, RestType
<1>4. PoolInv(p)
  BY DEF PoolsInv
<1>5. Finished(p)' = Finished(p) /\ Threads(pools[p].kind)' = Threads(pools[p].kind)
  BY <1>0, <1>2 DEF Finished, Threads
<1>6. PoolInv(p)'
  <2>1. Asleep(p)' /\ Locked(p)' /\ Tried(p)' /\ Handed(p)'
    BY <1>0, <1>2, <1>4 DEF PoolInv, Asleep, Locked, Tried, Handed
  <2>2. Crew(p)' /\ Counted(p)'
    BY <1>0, <1>2, <1>4, <1>5 DEF PoolInv, Crew, Counted
  <2> QED
    BY <2>1, <2>2 DEF PoolInv
<1>7. \A q \in Pools \ {p} : PoolInv(q)'
  BY <1>0, <1>1, Untouched DEF PoolsInv
<1> QED
  BY <1>0, <1>1, <1>2, <1>3, <1>6, <1>7 DEF PoolsInv

Opened(r, kind, list) == [r EXCEPT !.state = "live", !.kind = kind, !.list = list, !.left = list]
\* What beginning changes in the record of a pool.
LEMMA OpenRecord ==
  ASSUME NEW r \in PoolRecord, NEW kind \in Kinds, NEW list \in Seq(Ids)
  PROVE /\ Opened(r, kind, list) \in PoolRecord
        /\ Opened(r, kind, list).state = "live" /\ Opened(r, kind, list).kind = kind
        /\ Opened(r, kind, list).list = list /\ Opened(r, kind, list).left = list
        /\ Opened(r, kind, list).finished = r.finished /\ Opened(r, kind, list).ret = r.ret
        /\ Opened(r, kind, list).lock = r.lock /\ Opened(r, kind, list).tries = r.tries
  BY DEF Opened, PoolRecord

\* A pool that begins has its whole list before it, and as many workers as threads.
LEMMA BeginKeeps ==
  ASSUME PoolsType, WorkType, RestType, PoolsInv, NEW kind \in Kinds, NEW list \in Seq(Ids), IsInjective(list),
         NEW u, Begin(kind, list, u)
  PROVE /\ PoolsType' /\ WorkType' /\ RestType' /\ PoolsInv' /\ UNCHANGED <<traffic, store, h, case, icmp>>
        /\ ui' = [u EXCEPT !.testing = TRUE]
        /\ \E p \in Pools : /\ pools[p].state = "none" /\ pools'[p].state = "live" /\ pools'[p].list = list
                            /\ \A q \in Pools : q # p => pools'[q] = pools[q]
<1>1. PICK p \in Unused :
        /\ pools' = [pools EXCEPT ![p].state = "live", ![p].kind = kind, ![p].list = list, ![p].left = list]
        /\ work' = [x \in Pools \X Workers |-> IF x[1] = p /\ x[2] \in Threads(kind) THEN [Quiet EXCEPT !.pc = "new"] ELSE work[x]]
  BY DEF Begin
<1>2. UNCHANGED <<traffic, store, h, case, icmp, result>> /\ ui' = [u EXCEPT !.testing = TRUE]
  BY DEF Begin
<1>3. p \in Pools /\ pools[p].state = "none" /\ pools[p] \in PoolRecord
  <2>1. 1..case.pools \subseteq Pools
    BY TestsAssumption DEF RestType
  <2>2. p \in 1..case.pools /\ pools[p].state = "none"
    BY <1>1 DEF Unused
  <2> QED
    BY <2>1, <2>2 DEF PoolsType
<1>4. pools'[p] = Opened(pools[p], kind, list) /\ \A q \in Pools : q # p => pools'[q] = pools[q]
  BY <1>1, <1>3 DEF PoolsType, Opened
<1>5. /\ pools'[p].state = "live" /\ pools'[p].kind = kind /\ pools'[p].list = list /\ pools'[p].left = list
      /\ pools'[p].finished = pools[p].finished /\ pools'[p].ret = pools[p].ret
      /\ pools'[p].lock = pools[p].lock /\ pools'[p].tries = pools[p].tries /\ pools'[p] \in PoolRecord
  <2> DEFINE r == Opened(pools[p], kind, list)
  <2>1. /\ r \in PoolRecord /\ r.state = "live" /\ r.kind = kind /\ r.list = list /\ r.left = list
        /\ r.finished = pools[p].finished /\ r.ret = pools[p].ret /\ r.lock = pools[p].lock /\ r.tries = pools[p].tries
    BY <1>3, OpenRecord
  <2> QED
    BY <1>4, <2>1
<1>6. PoolsType'
  BY <1>1, <1>4, <1>5 DEF PoolsType
<1>7. \A w \in Workers : work'[<<p, w>>] = IF w \in Threads(kind) THEN [Quiet EXCEPT !.pc = "new"] ELSE work[<<p, w>>]
  BY <1>1, <1>3
<1>8. \A q \in Pools : q # p => \A w \in Workers : work'[<<q, w>>] = work[<<q, w>>]
  BY <1>1
<1>9. WorkType'
  <2>1. [Quiet EXCEPT !.pc = "new"] \in Job
    BY DEF Quiet, Job
  <2> QED
    BY <1>1, <2>1 DEF WorkType
<1>10. \A w \in Workers : work'[<<p, w>>].pc = IF w \in Threads(kind) THEN "new" ELSE "none"
  <2>1. \A w \in Workers : work[<<p, w>>].pc = "none"
    BY <1>3 DEF PoolsInv, PoolInv, Asleep
  <2> QED
    BY <1>7, <2>1 DEF Quiet
<1>11. /\ pools[p].finished = 0 /\ ~pools[p].ret /\ pools[p].lock = None /\ \A i \in Ids : pools[p].tries[i] = 0
  BY <1>3 DEF PoolsInv, PoolInv, Asleep
<1>12. Asleep(p)' /\ Crew(p)'
  <2>1. Threads(kind)' = Threads(kind)
    BY <1>2 DEF Threads
  <2> QED
    BY <1>5, <1>10, <2>1 DEF Asleep, Crew
<1>13. Counted(p)'
  <2>1. Finished(p)' = {}
    BY <1>10 DEF Finished, Finishing
  <2> QED
    BY <1>5, <1>11, <2>1, FS_EmptySet DEF Counted
<1>14. Locked(p)' /\ Handed(p)'
  BY <1>5, <1>10, <1>11, TestsAssumption DEF Locked, Handed
<1>15. Tried(p)'
  BY <1>5, <1>11 DEF Tried
<1>16. PoolInv(p)'
  BY <1>12, <1>13, <1>14, <1>15 DEF PoolInv
<1>17. \A q \in Pools \ {p} : PoolInv(q)'
  BY <1>2, <1>4, <1>8, Untouched DEF PoolsInv
<1>18. RestType'
  BY <1>2 DEF RestType
<1> QED
  BY <1>2, <1>3, <1>4, <1>5, <1>6, <1>9, <1>16, <1>17, <1>18 DEF PoolsInv
-------------------------------------------------------------------------------
(* The window, the lists and the flag. *)

\* What the lists name stays known while no list and no profile changes.
LEMMA ListsStay ==
  ASSUME ListsInv, ui'.dialog = ui.dialog, store \subseteq store', h.tested \subseteq h'.tested,
         h.crossed \subseteq h'.crossed, Looked',
         \A p \in Pools : pools'[p].state = "live" => pools[p].state = "live" /\ pools'[p].list = pools[p].list
  PROVE ListsInv'
  BY DEF ListsInv

\* So does the flag while no pool begins or ends.
LEMMA FlagStays ==
  ASSUME FlagInv, ui'.testing = ui.testing, ui'.forced = ui.forced,
         \A p \in Pools : pools'[p].state = pools[p].state
  PROVE FlagInv'
<1>1. Live' = Live
  BY DEF Live
<1> QED
  BY <1>1 DEF FlagInv

\* The traffic tests nobody, and brings back what a stop looked up at most.
LEMMA TrafficStores ==
  LoopTypes /\ TrafficNext =>
    /\ h'.tested = h.tested /\ h'.crossed = h.crossed
    /\ store' = store \/ (StopPuts /\ store' = store \cup {Head(upd.todo)})
<1> DEFINE Steady == store' = store /\ h'.tested = h.tested /\ h'.crossed = h.crossed
<1> SUFFICES ASSUME LoopTypes, TrafficNext
             PROVE Steady \/ (StopPuts /\ store' = store \cup {Head(upd.todo)} /\ h' = h)
  OBVIOUS
<1>0. HistoryType
  BY DEF LoopTypes
<1>1. ASSUME NEW id \in DOMAIN StatsOf, StartBuild(id) PROVE Steady
  <2> DEFINE c == h.retag \cup Changed(StatsOf[id])
  <2>1. h' = [h EXCEPT !.retag = c, !.starts = @ + 1] /\ store' = store
    BY <1>1 DEF StartBuild
  <2> HIDE DEF c
  <2> QED
    BY <1>0, <2>1 DEF HistoryType
<1>2. ASSUME StartRpc PROVE Steady
  <2> DEFINE stats == StatsOf[at.next]
             own == [i \in {j \in Ids : Tags(stats)[j] = Proxy} |-> Times(Items(at.next), i)]
             c == Changed(stats)
  <2>1. h' = [h EXCEPT !.before = h.passed, !.lost = 0, !.base = total, !.own = own, !.retag = c, !.skip = {}]
    BY <1>2 DEF StartRpc
  <2>2. store' = store
    BY <1>2 DEF StartRpc
  <2> HIDE DEF own, c
  <2> QED
    BY <1>0, <2>1, <2>2 DEF HistoryType
<1>3. ASSUME StartFails \/ StartAssign \/ Loop \/ AddOwn \/ AddShared \/ StopBegin \/ StopLocks \/ StopRpc \/ StopFails \/ Bytes \/ CoreDies
      PROVE Steady
  BY <1>0, <1>3 DEF StartFails, StartAssign, Loop, LoopChecks, LoopLocks, LoopUnlocks, AddOwn, AddShared, StopBegin, StopLocks, StopRpc,
     StopFails, Bytes, CoreDies, HistoryType
<1>4. ASSUME Query PROVE Steady
  <2> DEFINE i == Head(upd.todo)
  <2>1. store' = store
    BY <1>4 DEF Query
  <2>2. \/ h' = h
        \/ h' = [h EXCEPT !.faults = @ + 1, !.lost = @ + core.unread]
        \/ h' = [h EXCEPT !.skip = @ \cup {i}]
    BY <1>4 DEF Query
  <2> HIDE DEF i
  <2> QED
    BY <1>0, <2>1, <2>2 DEF HistoryType
<1>5. ASSUME StopSaves, ~StopPuts PROVE Steady
  BY <1>5 DEF StopSaves, StopUpdated, StopGets, StopUnlocks
<1>6. CASE StopPuts
  BY <1>6 DEF StopPuts
<1> QED
  BY <1>1, <1>2, <1>3, <1>4, <1>5, <1>6 DEF TrafficNext, Update, Starts, Stops

\* What a stop is about to save was stored when it looked.
LEMMA LookedKept ==
  ASSUME LoopTypes, Mutex, Looked, TrafficNext
  PROVE Looked'
<1>0. AtType /\ HistoryType
  BY DEF LoopTypes
<1>1. /\ store \subseteq store' /\ h'.crossed = h.crossed
  BY TrafficStores
<1> SUFFICES ASSUME at'.stop = "put" PROVE Head(upd'.todo) \in store' \cup h'.crossed
  BY DEF Looked
<1>2. CASE at.stop = "put"
  <2>1. ~Update
    BY <1>2, UpdateWorksOff DEF Saving
  <2>2. ~LoopLocks /\ ~LoopUnlocks
    BY <1>2, TrafficAssumption DEF LoopLocks, LoopUnlocks, Locks, Mutex, Saving
  <2>3. ~Stops
    BY <1>0, <1>2 DEF Stops, StopBegin, StopLocks, StopSaves, StopUpdated, StopGets, StopPuts, StopUnlocks, StopRpc, StopFails, AtType
  <2>4. upd' = upd
    BY <2>1, <2>2, <2>3 DEF TrafficNext, Loop, LoopChecks, Starts, StartBuild, StartRpc, StartFails, StartAssign, Bytes, CoreDies
  <2> QED
    BY <1>1, <1>2, <2>4 DEF Looked
<1>3. CASE at.stop # "put"
  <2>1. StopGets
    <3>1. ASSUME Loop \/ Update \/ Starts \/ Bytes \/ CoreDies PROVE at'.stop = at.stop
      <4>1. ASSUME NEW id \in DOMAIN StatsOf, StartBuild(id) PROVE at'.stop = at.stop
        BY <1>0, <4>1 DEF StartBuild, AtType
      <4> QED
        BY <1>0, <3>1, <4>1 DEF Loop, LoopChecks, LoopLocks, LoopUnlocks, Update, Query, AddOwn, AddShared, Starts, StartRpc,
           StartFails, StartAssign, Bytes, CoreDies, AtType
    <3>2. ~StopBegin /\ ~StopLocks /\ ~StopUpdated /\ ~StopPuts /\ ~StopUnlocks /\ ~StopRpc /\ ~StopFails
      BY <1>0 DEF StopBegin, StopLocks, StopUpdated, StopPuts, StopUnlocks, StopRpc, StopFails, AtType
    <3> QED
      BY <1>3, <3>1, <3>2 DEF TrafficNext, Stops, StopSaves
  <2>2. Found(Head(upd.todo)) /\ upd' = upd
    BY <1>3, <2>1 DEF StopGets
  <2> QED
    BY <1>1, <2>2 DEF Found
<1> QED
  BY <1>2, <1>3

\* The counting stays sound while nothing of it changes.
LEMMA LoopUntouched == LoopInv /\ UNCHANGED <<traffic, store, h>> => LoopInv'
<1> SUFFICES ASSUME LoopInv, UNCHANGED <<traffic, store, h>> PROVE LoopInv'
  OBVIOUS
<1>1. UNCHANGED <<core, looper, upd, at, tag, total, saved, store, h>>
  BY DEF traffic
<1>2. BooksType' /\ (Clean' => Clean)
  BY <1>1 DEF LoopInv, LoopTypes, BooksType, Clean
<1> QED
  BY <1>1, <1>2, LoopAside

\* A profile that is at work belongs to a pool that lives.
LEMMA AtWorkIsLive ==
  ASSUME PoolsType, PoolsInv, NEW p \in Pools, NEW w \in Workers, work[<<p, w>>].pc \notin Finishing \cup {"none"}
  PROVE pools[p].state = "live"
<1>1. PoolInv(p) /\ pools[p].state \in {"none", "live", "over"}
  BY DEF PoolsInv, PoolsType, PoolRecord
<1>2. pools[p].state # "none"
  BY <1>1 DEF PoolInv, Asleep
<1>3. pools[p].state # "over"
  <2> SUFFICES ASSUME pools[p].state = "over" PROVE FALSE
    OBVIOUS
  <2>1. w \in Threads(pools[p].kind)
    BY <1>1, <1>2 DEF PoolInv, Crew
  <2>2. Threads(pools[p].kind) \subseteq Finished(p)
    BY <1>1 DEF PoolInv, Counted
  <2> QED
    BY <2>1, <2>2 DEF Finished
<1> QED
  BY <1>1, <1>2, <1>3

\* A step of a worker keeps it all.
LEMMA WorkerKept ==
  ASSUME LoopInv, TestInv, NEW p \in Pools, NEW w \in Workers, Worker(p, w) \/ RpcFails(p, w)
  PROVE LoopInv' /\ TestInv'
<1>0. PoolsType /\ WorkType /\ UiType /\ RestType /\ PoolsInv /\ ListsInv /\ FlagInv /\ NoticeInv
  BY DEF TestInv
<1>1. ASSUME Register(p, w) \/ Take(p, w) \/ Finish(p, w) \/ Unlock(p, w) \/ Deregister(p, w) PROVE LoopInv' /\ TestInv'
  <2>1. UNCHANGED <<traffic, store, h, case, icmp, result>>
    BY <1>1 DEF Register, Take, Finish, Unlock, Deregister
  <2>2. ui' = ui \/ ui' = [ui EXCEPT !.listed = @ + 1] \/ ui' = [ui EXCEPT !.listed = 0]
    BY <1>1 DEF Register, Take, Finish, Unlock, Deregister
  <2>3. PoolsType' /\ WorkType' /\ PoolsInv' /\ \A q \in Pools : pools'[q].state = pools[q].state /\ pools'[q].list = pools[q].list
    <3>1. CASE Register(p, w)
      BY <1>0, <3>1, RegisterKeeps
    <3>2. CASE Take(p, w)
      BY <1>0, <3>2, TakeKeeps
    <3>3. CASE Finish(p, w)
      BY <1>0, <3>3, FinishKeeps
    <3>4. CASE Unlock(p, w)
      BY <1>0, <3>4, UnlockKeeps
    <3>5. CASE Deregister(p, w)
      BY <1>0, <3>5, DeregisterKeeps
    <3> QED
      BY <1>1, <3>1, <3>2, <3>3, <3>4, <3>5
  <2>4. LoopInv' /\ RestType' /\ NoticeInv'
    <3>1. RestType' /\ NoticeInv'
      BY <1>0, <2>1 DEF RestType, NoticeInv
    <3> QED
      BY <2>1, <3>1, LoopUntouched
  <2>5. UiType' /\ ui'.dialog = ui.dialog /\ ui'.testing = ui.testing /\ ui'.forced = ui.forced
    BY <1>0, <2>2 DEF UiType
  <2>6. ListsInv' /\ FlagInv'
    BY <1>0, <2>1, <2>3, <2>5, ListsStay, FlagStays DEF ListsInv, Looked, traffic
  <2> QED
    BY <2>3, <2>4, <2>5, <2>6 DEF TestInv
<1>2. ASSUME Prepare(p, w) \/ Answer(p, w) PROVE LoopInv' /\ TestInv'
  <2>1. /\ PoolsType' /\ WorkType' /\ RestType' /\ PoolsInv' /\ LoopInv' /\ UNCHANGED <<case, pools, ui, icmp>>
        /\ h'.tested = h.tested /\ h'.crossed = h.crossed /\ store \subseteq store' /\ UNCHANGED <<at, upd>>
    BY <1>0, <1>2, PrepareKeeps, AnswerKeeps
  <2>2. UiType' /\ NoticeInv'
    BY <1>0, <2>1 DEF UiType, NoticeInv
  <2>3. ListsInv' /\ FlagInv'
    BY <1>0, <2>1, ListsStay, FlagStays DEF ListsInv, Looked, traffic
  <2> QED
    BY <2>1, <2>2, <2>3 DEF TestInv
<1>3. ASSUME AnswerLocal(p, w) PROVE LoopInv' /\ TestInv'
  <2>1. PoolsType' /\ WorkType' /\ RestType' /\ PoolsInv' /\ NoticeInv' /\ UNCHANGED <<traffic, store, h, case, pools, ui>>
    BY <1>0, <1>3, AnswerLocalKeeps
  <2>2. UiType'
    BY <1>0, <2>1 DEF UiType
  <2>3. ListsInv' /\ FlagInv'
    BY <1>0, <2>1, ListsStay, FlagStays DEF ListsInv, Looked, traffic
  <2>4. LoopInv'
    BY <2>1, LoopUntouched
  <2> QED
    BY <2>1, <2>2, <2>3, <2>4 DEF TestInv
<1>4. ASSUME RpcFails(p, w) PROVE LoopInv' /\ TestInv'
  <2>1. /\ PoolsType' /\ WorkType' /\ RestType' /\ PoolsInv' /\ LoopInv' /\ UNCHANGED <<case, store, ui, icmp, at, upd>>
        /\ h'.tested = h.tested /\ h'.crossed = h.crossed
        /\ \A q \in Pools : pools'[q].state = pools[q].state /\ pools'[q].list = pools[q].list
    BY <1>0, <1>4, RpcFailsKeeps
  <2>2. UiType' /\ NoticeInv'
    BY <1>0, <2>1 DEF UiType, NoticeInv
  <2>3. ListsInv' /\ FlagInv'
    BY <1>0, <2>1, ListsStay, FlagStays DEF ListsInv, Looked, traffic
  <2> QED
    BY <2>1, <2>2, <2>3 DEF TestInv
<1> QED
  BY <1>1, <1>2, <1>3, <1>4 DEF Worker

\* So does the end of a pool.
LEMMA ControlKept == ASSUME LoopInv, TestInv, NEW p \in Pools, Control(p) PROVE LoopInv' /\ TestInv'
<1>0. PoolsType /\ WorkType /\ UiType /\ RestType /\ PoolsInv /\ ListsInv /\ FlagInv /\ NoticeInv
  BY DEF TestInv
<1>1. /\ PoolsType' /\ WorkType' /\ RestType' /\ PoolsInv' /\ UNCHANGED <<traffic, store, h, case, icmp>>
      /\ pools[p].state = "live" /\ pools'[p].state = "over" /\ \A q \in Pools : q # p => pools'[q] = pools[q]
      /\ ui' = [ui EXCEPT !.testing = FALSE]
  BY <1>0, ControlKeeps
<1>2. UiType' /\ ui'.dialog = ui.dialog /\ ui'.forced = ui.forced /\ ~ui'.testing
  BY <1>0, <1>1 DEF UiType
<1>3. ListsInv'
  BY <1>0, <1>1, <1>2, ListsStay DEF ListsInv, Looked, traffic
<1>4. Live' = Live \ {p} /\ p \in Live
  BY <1>1 DEF Live
<1>5. FlagInv'
  BY <1>0, <1>2, <1>4 DEF FlagInv
<1>6. LoopInv' /\ NoticeInv'
  <2>1. NoticeInv'
    BY <1>0, <1>1 DEF NoticeInv
  <2> QED
    BY <1>1, <2>1, LoopUntouched
<1> QED
  BY <1>1, <1>2, <1>3, <1>5, <1>6 DEF TestInv

\* A list of stored profiles names none twice.
LEMMA ListOfStored ==
  ASSUME RestType, store \subseteq Ids
  PROVE Profiles \in Seq(Ids) /\ IsInjective(Profiles) /\ Range(Profiles) \subseteq store
<1>1. Profiles \in Seq(store) /\ IsInjective(Profiles)
  <2>1. \A S \in SUBSET Ids : Stored(case.list, S) \in Seq(S) /\ IsInjective(Stored(case.list, S))
    BY TestsAssumption DEF RestType
  <2> QED
    BY <2>1 DEF Profiles
<1>2. Range(Profiles) \subseteq store
  BY <1>1 DEF Range
<1>3. Profiles \in Seq(Ids)
  BY <1>1
<1> QED
  BY <1>1, <1>2, <1>3

\* A pool begins with a list of stored profiles, and with the flag if none lives.
LEMMA BeginKept ==
  ASSUME LoopInv, TestInv, NEW kind \in Kinds, NEW list \in Seq(Ids), IsInjective(list),
         Range(list) \subseteq store \cup h.tested,
         NEW u, Begin(kind, list, u), DOMAIN u = DOMAIN ui, u.forced \in BOOLEAN, u.dialog \in {ui.dialog, <<>>},
         ~u.forced => ~ui.forced /\ Live = {}
  PROVE LoopInv' /\ TestInv'
<1>0. PoolsType /\ WorkType /\ UiType /\ RestType /\ PoolsInv /\ ListsInv /\ FlagInv /\ NoticeInv
  BY DEF TestInv
<1>1. /\ PoolsType' /\ WorkType' /\ RestType' /\ PoolsInv' /\ UNCHANGED <<traffic, store, h, case, icmp>>
      /\ ui' = [u EXCEPT !.testing = TRUE]
  BY <1>0, BeginKeeps
<1>2. PICK p \in Pools :
        /\ pools[p].state = "none" /\ pools'[p].state = "live" /\ pools'[p].list = list
        /\ \A q \in Pools : q # p => pools'[q] = pools[q]
  BY <1>0, BeginKeeps
<1>3. DOMAIN ui' = DOMAIN ui /\ ui'.testing /\ ui'.forced = u.forced /\ ui'.dialog = u.dialog
  BY <1>0, <1>1 DEF UiType
<1>4. UiType'
  <2>1. <<>> \in Seq(Ids)
    OBVIOUS
  <2>2. ui'.testing = TRUE
    BY <1>0, <1>1 DEF UiType
  <2> QED
    BY <1>0, <1>3, <2>1, <2>2 DEF UiType
<1>5. ListsInv'
  <2>1. IsInjective(<<>>) /\ Range(<<>>) = {}
    BY DEF IsInjective, Range
  <2>2. IsInjective(ui'.dialog) /\ Range(ui'.dialog) \subseteq store \cup h.tested
    BY <1>0, <1>3, <2>1 DEF ListsInv
  <2>3. \A q \in Pools : pools'[q].state = "live" => Range(pools'[q].list) \subseteq store \cup h.tested
    BY <1>0, <1>2 DEF ListsInv
  <2> QED
    BY <1>0, <1>1, <2>2, <2>3 DEF ListsInv, Looked, traffic
<1>6. FlagInv'
  <2>1. Live' = Live \cup {p}
    BY <1>2 DEF Live
  <2> QED
    BY <1>3, <2>1 DEF FlagInv
<1>7. LoopInv' /\ NoticeInv'
  <2>1. NoticeInv'
    BY <1>0, <1>1 DEF NoticeInv
  <2> QED
    BY <1>1, <2>1, LoopUntouched
<1> QED
  BY <1>1, <1>4, <1>5, <1>6, <1>7 DEF TestInv

\* What the window does without a pool that begins.
LEMMA WindowStays ==
  ASSUME LoopInv, TestInv, UNCHANGED <<traffic, store, h, case, pools, work, icmp, result>>,
         DOMAIN ui' = DOMAIN ui, ui'.dialog \in {ui.dialog, Profiles, <<>>},
         (ui'.testing = ui.testing /\ ui'.forced = ui.forced) \/ (ui'.testing = FALSE /\ ui'.forced = TRUE)
  PROVE LoopInv' /\ TestInv'
<1>0. PoolsType /\ WorkType /\ UiType /\ RestType /\ PoolsInv /\ ListsInv /\ FlagInv /\ NoticeInv
  BY DEF TestInv
<1>1. PoolsType' /\ WorkType' /\ RestType' /\ NoticeInv' /\ LoopInv'
  <2>1. PoolsType' /\ WorkType' /\ RestType' /\ NoticeInv'
    BY <1>0 DEF PoolsType, WorkType, RestType, NoticeInv
  <2> QED
    BY <2>1, LoopUntouched
<1>2. PoolsInv'
  <2>1. \A p \in Pools : PoolInv(p)'
    BY <1>0, Untouched DEF PoolsInv
  <2> QED
    BY <2>1 DEF PoolsInv
<1>3. ui'.dialog \in Seq(Ids) /\ IsInjective(ui'.dialog) /\ Range(ui'.dialog) \subseteq store \cup h.tested
  <2>1. store \subseteq Ids
    BY DEF LoopInv, LoopTypes, BooksType
  <2>2. Profiles \in Seq(Ids) /\ IsInjective(Profiles) /\ Range(Profiles) \subseteq store
    BY <1>0, <2>1, ListOfStored
  <2>3. <<>> \in Seq(Ids) /\ IsInjective(<<>>) /\ Range(<<>>) = {}
    BY DEF IsInjective, Range
  <2>4. ui.dialog \in Seq(Ids) /\ IsInjective(ui.dialog) /\ Range(ui.dialog) \subseteq store \cup h.tested
    BY <1>0 DEF UiType, ListsInv
  <2>5. CASE ui'.dialog = ui.dialog
    BY <2>4, <2>5
  <2>6. CASE ui'.dialog = Profiles
    BY <2>2, <2>6
  <2>7. CASE ui'.dialog = <<>>
    BY <2>3, <2>7
  <2> QED
    BY <2>5, <2>6, <2>7
<1>4. UiType'
  BY <1>0, <1>3 DEF UiType
<1>5. ListsInv'
  BY <1>0, <1>3 DEF ListsInv, Looked, traffic
<1>6. FlagInv'
  <2>1. Live' = Live
    BY DEF Live
  <2> QED
    BY <1>0, <2>1 DEF FlagInv
<1> QED
  BY <1>1, <1>2, <1>4, <1>5, <1>6 DEF TestInv

\* What the user does, and what is done once when the program opens.
LEMMA WindowKept == LoopInv /\ TestInv /\ Window => LoopInv' /\ TestInv'
<1> SUFFICES ASSUME LoopInv, TestInv, Window PROVE LoopInv' /\ TestInv'
  OBVIOUS
<1>0. UiType /\ RestType /\ ListsInv /\ FlagInv
  BY DEF TestInv
<1>1. store \subseteq Ids
  BY DEF LoopInv, LoopTypes, BooksType
<1>2. Profiles \in Seq(Ids) /\ IsInjective(Profiles) /\ Range(Profiles) \subseteq store \cup h.tested
  BY <1>0, <1>1, ListOfStored
<1>3. ~ui.testing /\ ~ui.forced => Live = {}
  BY <1>0 DEF FlagInv
<1>4. ASSUME NEW kind \in {"icmp", "url", "full"}, Test(kind) PROVE LoopInv' /\ TestInv'
  <2>1. ~ui.testing
    BY <1>4 DEF Test, MayTest
  <2>2. CASE Begin(kind, Profiles, ui)
    BY <1>0, <1>2, <1>3, <2>1, <2>2, BeginKept DEF Kinds, UiType
  <2>3. CASE ui' = [ui EXCEPT !.dialog = Profiles] /\ UNCHANGED <<traffic, store, h, case, pools, work, icmp, result>>
    <3>1. DOMAIN ui' = DOMAIN ui /\ ui'.dialog = Profiles /\ ui'.testing = ui.testing /\ ui'.forced = ui.forced
      BY <1>0, <2>3 DEF UiType
    <3> QED
      BY <2>3, <3>1, WindowStays
  <2> QED
    BY <1>4, <2>2, <2>3 DEF Test
<1>5. ASSUME DialogOk PROVE LoopInv' /\ TestInv'
  <2> DEFINE b == ui.forced \/ Live # {}
             u == [ui EXCEPT !.dialog = <<>>, !.forced = b]
  <2>1. Begin("full", ui.dialog, u)
    BY <1>5 DEF DialogOk
  <2>2. DOMAIN u = DOMAIN ui /\ u.forced = b /\ u.dialog = <<>> /\ b \in BOOLEAN
    BY <1>0 DEF UiType
  <2>3. ui.dialog \in Seq(Ids) /\ IsInjective(ui.dialog) /\ Range(ui.dialog) \subseteq store \cup h.tested
    BY <1>0 DEF UiType, ListsInv
  <2>4. ~b => ~ui.forced /\ Live = {}
    OBVIOUS
  <2> HIDE DEF b, u
  <2> QED
    BY <2>1, <2>2, <2>3, <2>4, BeginKept DEF Kinds
<1>6. ASSUME DialogCancel \/ OpenGivesUp PROVE LoopInv' /\ TestInv'
  <2>1. UNCHANGED <<traffic, store, h, case, pools, work, icmp, result>>
    BY <1>6 DEF DialogCancel, OpenGivesUp
  <2>2. ui' = [ui EXCEPT !.dialog = <<>>] \/ ui' = [ui EXCEPT !.open = FALSE]
    BY <1>6 DEF DialogCancel, OpenGivesUp
  <2>3. DOMAIN ui' = DOMAIN ui /\ ui'.dialog \in {ui.dialog, <<>>} /\ ui'.testing = ui.testing /\ ui'.forced = ui.forced
    BY <1>0, <2>2 DEF UiType
  <2> QED
    BY <2>1, <2>3, WindowStays
<1>7. ASSUME OpenTests PROVE LoopInv' /\ TestInv'
  <2> DEFINE u == [ui EXCEPT !.open = FALSE]
  <2>1. DOMAIN u = DOMAIN ui /\ u.dialog = ui.dialog /\ u.testing = ui.testing /\ u.forced = ui.forced /\ u.forced \in BOOLEAN
    BY <1>0 DEF UiType
  <2> HIDE DEF u
  <2>2. CASE ~ui.testing /\ Begin("icmp", Profiles, u)
    BY <1>2, <1>3, <2>1, <2>2, BeginKept DEF Kinds
  <2>3. CASE ui' = u /\ UNCHANGED <<traffic, store, h, case, pools, work, icmp, result>>
    BY <2>1, <2>3, WindowStays
  <2> QED
    BY <1>7, <2>2, <2>3 DEF OpenTests, u
<1>8. ASSUME StopTests PROVE LoopInv' /\ TestInv'
  <2> DEFINE q == ui.listed > 0
  <2>1. /\ ui' = [ui EXCEPT !.testing = FALSE, !.listed = 0, !.quit = q, !.stops = @ + 1, !.forced = TRUE]
        /\ UNCHANGED <<traffic, store, h, case, pools, work, icmp, result>>
    BY <1>8 DEF StopTests
  <2> HIDE DEF q
  <2>2. DOMAIN ui' = DOMAIN ui /\ ui'.dialog = ui.dialog /\ ui'.testing = FALSE /\ ui'.forced = TRUE
    BY <1>0, <2>1 DEF UiType
  <2> QED
    BY <2>1, <2>2, WindowStays
<1> QED
  BY <1>4, <1>5, <1>6, <1>7, <1>8 DEF Window

\* A profile that is deleted while a list names it is remembered as tested.
LEMMA DeleteKept == ASSUME LoopInv, TestInv, NEW i \in Ids, Delete(i) PROVE LoopInv' /\ TestInv'
<1> DEFINE named == Range(ui.dialog) \cup UNION {Range(pools[p].list) : p \in Live}
           t == IF i \in named THEN h.tested \cup {i} ELSE h.tested
           c == IF at.stop = "put" /\ i = Head(upd.todo) THEN h.crossed \cup {i} ELSE h.crossed
<1>0. PoolsType /\ WorkType /\ UiType /\ RestType /\ PoolsInv /\ ListsInv /\ FlagInv /\ NoticeInv
  BY DEF TestInv
<1>1. /\ store' = store \ {i} /\ ui' = [ui EXCEPT !.deletes = @ + 1] /\ h' = [h EXCEPT !.tested = t, !.crossed = c]
      /\ UNCHANGED <<traffic, case, pools, work, icmp, result>>
  BY DEF Delete
<1>2. LoopTypes /\ BooksType /\ HistoryType
  BY DEF LoopInv, LoopTypes
<1>3. \A p \in Pools : pools[p].state = "live" => Range(pools[p].list) \subseteq named
  BY DEF Live
<1>4. ListsInv'
  <2>1. h'.tested = t /\ h'.crossed = c
    <3> HIDE DEF t, c
    <3> QED
      BY <1>1, <1>2 DEF HistoryType
  <2>2. ui'.dialog = ui.dialog
    BY <1>0, <1>1 DEF UiType
  <2>3. \A p \in Pools : pools[p].state = "live" => Range(pools[p].list) \subseteq (store \ {i}) \cup t
    <3> SUFFICES ASSUME NEW p \in Pools, pools[p].state = "live", NEW j \in Range(pools[p].list)
                 PROVE j \in (store \ {i}) \cup t
      OBVIOUS
    <3>1. j \in store \cup h.tested /\ j \in named
      BY <1>0, <1>3 DEF ListsInv
    <3> HIDE DEF named
    <3> QED
      BY <3>1
  <2>4. Range(ui.dialog) \subseteq (store \ {i}) \cup t
    BY <1>0 DEF ListsInv
  <2>5. at.stop = "put" => Head(upd.todo) \in (store \ {i}) \cup c
    BY <1>0 DEF ListsInv, Looked
  <2> HIDE DEF t, c
  <2> QED
    BY <1>0, <1>1, <2>1, <2>2, <2>3, <2>4, <2>5 DEF ListsInv, Looked, traffic
<1> HIDE DEF named, t, c
<1>5. UiType' /\ ui'.testing = ui.testing /\ ui'.forced = ui.forced
  BY <1>0, <1>1 DEF UiType
<1>6. FlagInv'
  BY <1>0, <1>1, <1>5, FlagStays
<1>7. PoolsType' /\ WorkType' /\ RestType' /\ NoticeInv'
  BY <1>0, <1>1 DEF PoolsType, WorkType, RestType, NoticeInv
<1>8. PoolsInv'
  <2>1. \A p \in Pools : PoolInv(p)'
    BY <1>0, <1>1, Untouched DEF PoolsInv
  <2> QED
    BY <2>1 DEF PoolsInv
<1>9. LoopInv'
  <2>1. /\ DOMAIN h' = DOMAIN h /\ h'.retag = h.retag
        /\ h'.passed = h.passed /\ h'.before = h.before /\ h'.lost = h.lost /\ h'.base = h.base
        /\ h'.own = h.own /\ h'.skip = h.skip /\ h'.late = h.late
    BY <1>1, <1>2 DEF HistoryType
  <2>2. UNCHANGED <<core, looper, upd, at, tag, total, saved>>
    BY <1>1 DEF traffic
  <2>3. BooksType' /\ (Clean' => Clean)
    BY <1>1, <1>2, <2>1, <2>2 DEF BooksType, Clean
  <2>4. \A j \in store' : j \in store
    BY <1>1
  <2> QED
    BY <2>1, <2>2, <2>3, <2>4, LoopAside
<1> QED
  BY <1>4, <1>5, <1>6, <1>7, <1>8, <1>9 DEF TestInv

\* A step of the traffic leaves the tests alone.
LEMMA RunningKept == LoopInv /\ TestInv /\ Running => LoopInv' /\ TestInv'
<1> SUFFICES ASSUME LoopInv, TestInv, Running PROVE LoopInv' /\ TestInv'
  OBVIOUS
<1>0. PoolsType /\ WorkType /\ UiType /\ RestType /\ PoolsInv /\ ListsInv /\ FlagInv /\ NoticeInv
  BY DEF TestInv
<1>1. TrafficNext /\ UNCHANGED <<case, pools, work, ui, icmp, result>>
  BY DEF Running, tests
<1>2. LoopInv'
  BY <1>1, LoopKept
<1>3. store \subseteq store' /\ h'.tested = h.tested /\ h'.crossed = h.crossed
  BY <1>1, TrafficStores DEF LoopInv
<1>4. PoolsType' /\ WorkType' /\ UiType' /\ RestType' /\ NoticeInv'
  BY <1>0, <1>1 DEF PoolsType, WorkType, UiType, RestType, NoticeInv
<1>5. PoolsInv'
  <2>1. \A p \in Pools : PoolInv(p)'
    BY <1>0, <1>1, Untouched DEF PoolsInv
  <2> QED
    BY <2>1 DEF PoolsInv
<1>6. Looked'
  BY <1>0, <1>1, LookedKept DEF LoopInv, ListsInv
<1>7. ListsInv' /\ FlagInv'
  BY <1>0, <1>1, <1>3, <1>6, ListsStay, FlagStays
<1> QED
  BY <1>2, <1>4, <1>5, <1>7 DEF TestInv

\* At the start nothing is counted, tested or shown.
LEMMA InitHolds == Init => LoopInv /\ TestInv
<1> SUFFICES ASSUME Init PROVE LoopInv /\ TestInv
  OBVIOUS
<1>0. TrafficInit /\ TestsInit
  BY DEF Init
<1>1. LoopTypes
  <2>1. CoreType /\ LooperType /\ UpdType /\ AtType /\ BooksType
    BY <1>0 DEF TrafficInit, Nothing, CoreType, LooperType, UpdType, AtType, BooksType
  <2>2. HistoryType
    BY <1>0 DEF TrafficInit, HistoryType
  <2> QED
    BY <2>1, <2>2 DEF LoopTypes
<1>2. Mutex /\ Order /\ InTime /\ BytesInv /\ SaveDue
  BY <1>0, TrafficAssumption DEF TrafficInit, Nothing, Mutex, Saving, Order, InTime, BytesInv, SaveDue
<1>3. PoolsType /\ WorkType
  <2>1. Quiet \in Job
    BY DEF Quiet, Job
  <2>2. [state |-> "none", kind |-> None, list |-> <<>>, left |-> <<>>, finished |-> 0, ret |-> FALSE,
         lock |-> None, broken |-> FALSE, tries |-> [i \in Ids |-> 0]] \in PoolRecord
    BY DEF PoolRecord
  <2> QED
    BY <1>0, <2>1, <2>2 DEF TestsInit, PoolsType, WorkType
<1>4. UiType /\ RestType
  BY <1>0 DEF TestsInit, UiType, RestType
<1>5. \A p \in Pools : /\ pools[p].state = "none" /\ pools[p].list = <<>> /\ pools[p].left = <<>> /\ pools[p].finished = 0
                       /\ ~pools[p].ret /\ pools[p].lock = None /\ \A i \in Ids : pools[p].tries[i] = 0
  BY <1>0 DEF TestsInit
<1>6. \A p \in Pools, w \in Workers : work[<<p, w>>].pc = "none"
  BY <1>0 DEF TestsInit, Quiet
<1>7. IsInjective(<<>>) /\ Range(<<>>) = {}
  BY DEF IsInjective, Range
<1>8. ASSUME NEW p \in Pools PROVE PoolInv(p)
  <2>1. Asleep(p) /\ Crew(p) /\ Locked(p) /\ Handed(p)
    BY <1>5, <1>6, TestsAssumption DEF Asleep, Crew, Locked, Handed
  <2>2. Tried(p)
    BY <1>5, <1>7 DEF Tried
  <2>3. Counted(p)
    <3>1. Finished(p) = {}
      BY <1>6 DEF Finished, Finishing
    <3> QED
      BY <1>5, <3>1, FS_EmptySet DEF Counted
  <2> QED
    BY <2>1, <2>2, <2>3 DEF PoolInv
<1>9. ListsInv
  <2>1. ui.dialog = <<>> /\ at.stop = "idle"
    BY <1>0 DEF TestsInit, TrafficInit
  <2> QED
    BY <1>5, <1>7, <2>1 DEF ListsInv, Looked
<1>10. FlagInv /\ NoticeInv
  <2>1. ~ui.testing /\ ~icmp.down /\ ~icmp.noticed /\ icmp.notices = 0
    BY <1>0 DEF TestsInit
  <2>2. Live = {}
    BY <1>5 DEF Live
  <2> QED
    BY <2>1, <2>2 DEF FlagInv, NoticeInv
<1> QED
  BY <1>1, <1>2, <1>3, <1>4, <1>8, <1>9, <1>10 DEF LoopInv, TestInv, PoolsInv

\* Every step keeps it.
LEMMA NextKeeps == LoopInv /\ TestInv /\ [Next]_vars => LoopInv' /\ TestInv'
<1> SUFFICES ASSUME LoopInv, TestInv, [Next]_vars PROVE LoopInv' /\ TestInv'
  OBVIOUS
<1>1. CASE Window
  BY <1>1, WindowKept
<1>2. CASE Running
  BY <1>2, RunningKept
<1>3. ASSUME NEW p \in Pools, Control(p) PROVE LoopInv' /\ TestInv'
  BY <1>3, ControlKept
<1>4. ASSUME NEW p \in Pools, NEW w \in Workers, Worker(p, w) \/ RpcFails(p, w) PROVE LoopInv' /\ TestInv'
  BY <1>4, WorkerKept
<1>5. ASSUME NEW i \in Ids, Delete(i) PROVE LoopInv' /\ TestInv'
  BY <1>5, DeleteKept
<1>6. CASE UNCHANGED vars
  <2>1. UNCHANGED <<traffic, store, h, case, pools, work, ui, icmp, result>>
    BY <1>6 DEF vars, tests
  <2> QED
    BY <2>1, WindowStays
<1> QED
  BY <1>1, <1>2, <1>3, <1>4, <1>5, <1>6 DEF Next

\* The invariant says what PoolSound says.
LEMMA TestSuffices == TestInv => PoolSound
<1> SUFFICES ASSUME TestInv PROVE PoolSound
  OBVIOUS
<1>0. PoolsType /\ WorkType /\ UiType /\ RestType /\ PoolsInv /\ ListsInv /\ FlagInv /\ NoticeInv
  BY DEF TestInv
<1>1. FlagIsPool
  <2> SUFFICES ASSUME ~ui.forced PROVE Cardinality(Live) = IF ui.testing THEN 1 ELSE 0
    BY DEF FlagIsPool
  <2>1. CASE ui.testing
    <3>1. PICK p \in Pools : Live = {p}
      BY <1>0, <2>1 DEF FlagInv
    <3> QED
      BY <2>1, <3>1, FS_Singleton
  <2>2. CASE ~ui.testing
    <3>1. Live = {}
      BY <1>0, <2>2 DEF FlagInv
    <3> QED
      BY <2>2, <3>1, FS_EmptySet
  <2> QED
    BY <2>1, <2>2
<1>2. EachTestedOnce
  <2> SUFFICES ASSUME NEW p \in Pools, NEW i \in Range(pools[p].list)
               PROVE pools[p].tries[i] <= 1 /\ (pools[p].state = "over" => pools[p].tries[i] = 1)
    BY DEF EachTestedOnce
  <2>1. pools[p].list \in Seq(Ids) /\ PoolInv(p)
    <3>1. pools[p] \in PoolRecord
      BY <1>0 DEF PoolsType
    <3> QED
      BY <1>0, <3>1 DEF PoolRecord, PoolsInv
  <2>2. i \in Ids
    BY <2>1 DEF Range
  <2>3. pools[p].tries[i] = IF i \in Range(pools[p].list) \ Range(pools[p].left) THEN 1 ELSE 0
    BY <2>1, <2>2 DEF PoolInv, Tried
  <2>4. pools[p].state = "over" => Range(pools[p].left) = {}
    <3>1. pools[p].state = "over" => pools[p].left = <<>>
      BY <2>1 DEF PoolInv, Counted
    <3> QED
      BY <3>1 DEF Range
  <2> QED
    BY <2>3, <2>4
<1>3. LocalsAlive
  <2> SUFFICES ASSUME NEW p \in Pools, pools[p].state = "over"
               PROVE /\ \A w \in Workers : work[<<p, w>>].pc \in {"none", "bye", "leaving", "gone"}
                     /\ Cardinality({w \in Workers : work[<<p, w>>].pc = "bye"}) <= 1
    BY DEF LocalsAlive
  <2>1. PoolInv(p)
    BY <1>0 DEF PoolsInv
  <2>2. Threads(pools[p].kind) \subseteq Finished(p)
    BY <2>1 DEF PoolInv, Counted
  <2>3. \A w \in Workers : work[<<p, w>>].pc = "none" \/ w \in Finished(p)
    BY <2>1, <2>2 DEF PoolInv, Crew
  <2>4. \A w \in Workers : work[<<p, w>>].pc \in {"none", "bye", "leaving", "gone"}
    BY <2>3 DEF Finished, Finishing
  <2> DEFINE B == {w \in Workers : work[<<p, w>>].pc = "bye"}
  <2>5. B = {} \/ B = {pools[p].lock}
    BY <2>1 DEF PoolInv, Locked
  <2>6. Cardinality(B) <= 1
    <3> HIDE DEF B
    <3>1. Cardinality({}) = 0 /\ Cardinality({pools[p].lock}) = 1
      BY FS_EmptySet, FS_Singleton
    <3> QED
      BY <2>5, <3>1
  <2> QED
    BY <2>4, <2>6
<1>4. LocalFailureIsTold
  <2>1. icmp.notices <= 1 /\ (icmp.down => icmp.notices = 1)
    BY <1>0 DEF NoticeInv, RestType
  <2>2. \A i \in Ids : result[i] # "local"
    <3>1. \A i \in Ids : result[i] \in {None, "report", "measured"}
      BY <1>0 DEF RestType
    <3> QED
      BY <3>1, TestsAssumption
  <2> QED
    BY <2>1, <2>2 DEF LocalFailureIsTold
<1> QED
  BY <1>1, <1>2, <1>3, <1>4 DEF PoolSound

\* A profile that comes back is one that a live pool works on or that a stop had looked up.
LEMMA ComesBack ==
  ASSUME LoopInv, TestInv, [Next]_vars, NEW i \in Ids, i \notin store, i \in store'
  PROVE i \in h.tested \cup h.crossed
<1>0. PoolsType /\ PoolsInv /\ ListsInv
  BY DEF TestInv
<1>1. ~Window /\ ~(\E j \in Ids : Delete(j)) /\ ~UNCHANGED vars
  BY DEF Window, Test, Begin, DialogOk, DialogCancel, OpenGivesUp, OpenTests, StopTests, Delete, vars
<1>2. CASE Running
  <2>1. StopPuts /\ i = Head(upd.todo)
    BY <1>2, TrafficStores DEF Running, LoopInv
  <2> QED
    BY <1>0, <2>1 DEF StopPuts, ListsInv, Looked
<1> SUFFICES ASSUME ~Running PROVE i \in h.tested
  BY <1>2
<1>3. PICK p \in Pools, w \in Workers : Prepare(p, w) \/ Answer(p, w)
  <2>1. PICK p \in Pools : Control(p) \/ \E w \in Workers : Worker(p, w) \/ RpcFails(p, w)
    BY <1>1 DEF Next
  <2>2. ~Control(p)
    BY DEF Control
  <2>3. PICK w \in Workers : Worker(p, w) \/ RpcFails(p, w)
    BY <2>1, <2>2
  <2>4. ~Register(p, w) /\ ~Take(p, w) /\ ~Finish(p, w) /\ ~Unlock(p, w) /\ ~Deregister(p, w)
    BY DEF Register, Take, Finish, Unlock, Deregister
  <2>5. ~AnswerLocal(p, w) /\ ~RpcFails(p, w)
    BY DEF AnswerLocal, RpcFails
  <2> QED
    BY <2>3, <2>4, <2>5 DEF Worker
<1>4. work[<<p, w>>].pc \in {"got", "sent"} /\ store' \subseteq store \cup {work[<<p, w>>].prof}
  BY <1>3 DEF Prepare, Answer, Kept
<1>5. i \in Range(pools[p].list)
  BY <1>0, <1>4 DEF PoolsInv, PoolInv, Handed
<1>6. pools[p].state = "live"
  BY <1>0, <1>4, AtWorkIsLive DEF Finishing
<1> QED
  BY <1>0, <1>5, <1>6 DEF ListsInv
-------------------------------------------------------------------------------
(* What holds in every behaviour. *)

\* The invariant the others rest on.
THEOREM AlwaysInv == Spec => [](LoopInv /\ TestInv)
<1>1. Init => LoopInv /\ TestInv
  BY InitHolds
<1>2. LoopInv /\ TestInv /\ [Next]_vars => (LoopInv /\ TestInv)'
  BY NextKeeps
<1> QED
  BY <1>1, <1>2, PTL DEF Spec

\* Every byte the core told of is credited as often as the configuration says, whatever the
\* loop, the stop and the starts interleave, and what a stop leaves is saved
\* (UpdateAll, proxor_stop_stage2).
THEOREM TrafficAlwaysKept == Spec => []TrafficKept
<1>1. LoopInv /\ TestInv => TrafficKept
  BY LoopSuffices
<1> QED
  BY AlwaysInv, <1>1, PTL

\* Whatever the number of pools and workers: the flag is one pool, each profile is tested
\* once, no worker outlives the locals it needs, and a local failure is told once
\* (speedtest_profiles).
THEOREM PoolsAlwaysSound == Spec => []PoolSound
<1>1. LoopInv /\ TestInv => PoolSound
  BY TestSuffices
<1> QED
  BY AlwaysInv, <1>1, PTL

\* Only a test under way brings a deleted profile back (SaveProfile in speedtest_profiles), or a
\* stop that had looked it up before it was deleted, item by item (proxor_stop_stage2); the
\* save of a stop brings back none that was deleted before.
THEOREM DeletedStayDeleted == Spec => StaysDeleted
<1>1. LoopInv /\ TestInv /\ [Next]_vars => [\A i \in Ids : i \notin store /\ i \in store' => i \in h.tested \cup h.crossed]_vars
  BY ComesBack
<1> QED
  BY AlwaysInv, <1>1, PTL DEF Spec, StaysDeleted
=============================================================================
