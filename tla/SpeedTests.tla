-------------------------------- MODULE SpeedTests --------------------------------
(* The tests of profiles: MainWindow::speedtest_profiles and speedtest_current_group
   (ui/mainwindow_grpc.cpp), run_subscription_ping_on_open (ui/mainwindow.cpp), the
   fallback of platform/PingPolicy.cpp, and Test of the core (grpc_box.go) as their
   answers. A pool is one call: a control thread and its workers, which share the
   control's locals. The tests write the profiles that TrafficLooper counts for.      *)
EXTENDS TrafficLooper

CONSTANTS Pools, Workers,
          Cases         \* the inputs: [list, threads, kinds, unfit, runs, starts, bytes, pools, stops, deletes]

VARIABLES case,    \* the case of this behaviour
          pools,   \* p -> [state, kind, list, left, finished, ret, lock, broken, tries]
          work,    \* <<p, w>> -> [pc, prof, mode]
          ui,      \* [testing, listed, dialog, quit, open, stops, forced, deletes]
          icmp,    \* [down, noticed, notices]
          result   \* id -> what was kept of its last test
tests == <<case, pools, work, ui, icmp, result>>
vars == <<traffic, store, h, tests>>

Quiet == [pc |-> "none", prof |-> None, mode |-> None]
TestsInit ==
  /\ case \in Cases
  /\ pools = [p \in Pools |-> [state |-> "none", kind |-> None, list |-> <<>>, left |-> <<>>, finished |-> 0, ret |-> FALSE,
                               lock |-> None, broken |-> FALSE, tries |-> [i \in Ids |-> 0]]]
  /\ work = [x \in Pools \X Workers |-> Quiet]
  /\ ui = [testing |-> FALSE, listed |-> 0, dialog |-> <<>>, quit |-> FALSE, open |-> "open" \in case.kinds,
           stops |-> 0, forced |-> FALSE, deletes |-> 0]
  /\ icmp = [down |-> FALSE, noticed |-> FALSE, notices |-> 0]
  /\ result = [i \in Ids |-> None]
Init == TrafficInit /\ TestsInit

Unused == {p \in 1..case.pools : pools[p].state = "none"}
Live == {p \in Pools : pools[p].state = "live"}
Threads(kind) == 1..(IF kind = "full" THEN 1 ELSE case.threads)   \* the speed is measured one by one

Stored(list, S) == SelectSeq(list, LAMBDA i : i \in S)
Profiles == Stored(case.list, store)
(* A list names no profile twice, and neither does what is left of it when some are deleted. *)
ASSUME TestsAssumption ==
  /\ IsFiniteSet(Workers) /\ None \notin Workers /\ None # "local"
  /\ \A c \in Cases :
       /\ 1..c.pools \subseteq Pools /\ c.threads \in Nat \ {0} /\ 1..c.threads \subseteq Workers
       /\ \A S \in SUBSET Ids : Stored(c.list, S) \in Seq(S) /\ IsInjective(Stored(c.list, S))

(* speedtest_profiles after its dialog, with its list; u is the rest of the window. *)
Begin(kind, list, u) ==
  \E p \in Unused :
    /\ \A q \in Unused : p <= q
    /\ list # <<>>
    /\ ui' = [u EXCEPT !.testing = TRUE]
    /\ pools' = [pools EXCEPT ![p].state = "live", ![p].kind = kind, ![p].list = list, ![p].left = list]
    /\ work' = [x \in Pools \X Workers |-> IF x[1] = p /\ x[2] \in Threads(kind) THEN [Quiet EXCEPT !.pc = "new"] ELSE work[x]]
    /\ UNCHANGED <<traffic, store, h, case, icmp, result>>
MayTest == ~ui.testing
Test(kind) ==
  /\ ~ui.quit /\ ui.dialog = <<>> /\ MayTest /\ kind \in case.kinds
  /\ \/ kind # "full" /\ Begin(kind, Profiles, ui)
     \/ kind = "full" /\ Unused # {} /\ ui' = [ui EXCEPT !.dialog = Profiles]
        /\ UNCHANGED <<traffic, store, h, case, pools, work, icmp, result>>
(* The flag is not looked at again when the dialog closes. *)
DialogOk == ~ui.quit /\ Begin("full", ui.dialog, [ui EXCEPT !.dialog = <<>>, !.forced = @ \/ Live # {}])
DialogCancel ==
  ui.dialog # <<>> /\ ui' = [ui EXCEPT !.dialog = <<>>] /\ UNCHANGED <<traffic, store, h, case, pools, work, icmp, result>>
(* run_subscription_ping_on_open, once: it waits, a second at a time, for the remembered
   Tun, the core and the updates, gives up after 90 of them, or tests. *)
OpenGivesUp ==
  /\ ui.open /\ ~ui.quit /\ ui' = [ui EXCEPT !.open = FALSE]
  /\ UNCHANGED <<traffic, store, h, case, pools, work, icmp, result>>
OpenTests ==
  /\ ui.open /\ ~ui.quit
  /\ \/ ~ui.testing /\ Begin("icmp", Profiles, [ui EXCEPT !.open = FALSE])
     \/ ui.testing /\ ui' = [ui EXCEPT !.open = FALSE] /\ UNCHANGED <<traffic, store, h, case, pools, work, icmp, result>>
(* Stop (114514): what is in the list is exit()ed - and that is the thread of the window,
   for QObject::thread() in a worker is the window's. *)
StopTests ==
  /\ ~ui.quit /\ ui.dialog = <<>> /\ ui.stops < case.stops
  /\ ui' = [ui EXCEPT !.testing = FALSE, !.listed = 0, !.quit = ui.listed > 0, !.stops = @ + 1, !.forced = TRUE]
  /\ UNCHANGED <<traffic, store, h, case, pools, work, icmp, result>>

(* A worker. *)
Becomes(p, w, pc) == work' = [work EXCEPT ![<<p, w>>].pc = pc]
Register(p, w) ==
  /\ work[<<p, w>>].pc = "new" /\ Becomes(p, w, "idle")
  /\ ui' = [ui EXCEPT !.listed = @ + 1]
  /\ UNCHANGED <<traffic, store, h, case, pools, icmp, result>>
Taken(left) == Tail(left)
Take(p, w) ==
  /\ work[<<p, w>>].pc = "idle" /\ pools[p].lock = None /\ pools[p].left # <<>>
  /\ LET i == Head(pools[p].left)
     IN /\ work' = [work EXCEPT ![<<p, w>>].pc = "got", ![<<p, w>>].prof = i]
        /\ pools' = [pools EXCEPT ![p].left = Taken(@), ![p].tries[i] = @ + 1]
  /\ UNCHANGED <<traffic, store, h, case, ui, icmp, result>>
\* mutant: the first one to finish lets the control thread go
AnyFinished(p) == TRUE
AllFinished(p) == pools[p].finished + 1 = Cardinality(Threads(pools[p].kind))
Finish(p, w) ==   \* lock_return is unlocked while lock_write is held
  /\ work[<<p, w>>].pc = "idle" /\ pools[p].lock = None /\ pools[p].left = <<>>
  /\ pools' = [pools EXCEPT ![p].finished = @ + 1, ![p].ret = @ \/ AllFinished(p), ![p].lock = w]
  /\ Becomes(p, w, "bye") /\ UNCHANGED <<traffic, store, h, case, ui, icmp, result>>
\* mutant: a worker that ends keeps lock_write
Relock(p) == pools' = pools
Release(p) == pools' = [pools EXCEPT ![p].lock = None]
Unlock(p, w) ==
  /\ work[<<p, w>>].pc = "bye" /\ Release(p)
  /\ Becomes(p, w, "leaving") /\ UNCHANGED <<traffic, store, h, case, ui, icmp, result>>
Deregister(p, w) ==   \* all the entries are the same pointer
  /\ work[<<p, w>>].pc = "leaving" /\ Becomes(p, w, "gone")
  /\ ui' = [ui EXCEPT !.listed = 0]
  /\ UNCHANGED <<traffic, store, h, case, pools, icmp, result>>

(* SaveProfile puts back a profile that was deleted meanwhile. *)
Kept(p, w, what) ==
  LET i == work[<<p, w>>].prof
  IN /\ store' = store \cup {i} /\ saved' = [saved EXCEPT ![i] = total[i]]
     /\ result' = [result EXCEPT ![i] = what]
     /\ work' = [work EXCEPT ![<<p, w>>] = [Quiet EXCEPT !.pc = "idle"]]
EffectivePingMode(kind) == IF kind = "icmp" /\ icmp.down THEN "tcp" ELSE kind
Prepare(p, w) ==
  LET i == work[<<p, w>>].prof
      kind == pools[p].kind
  IN /\ work[<<p, w>>].pc = "got"
     /\ \/ /\ i \in case.unfit   \* not loaded, or no configuration
           /\ Kept(p, w, "report")
           /\ UNCHANGED <<core, looper, upd, at, tag, total, fresh, h, case, pools, ui, icmp>>
        \/ /\ i \notin case.unfit
           /\ work' = [work EXCEPT ![<<p, w>>].pc = "sent", ![<<p, w>>].mode = EffectivePingMode(kind)]
           /\ IF kind \in {"url", "full"} /\ i \in DOMAIN StatsOf THEN Retag(StatsOf[i]) ELSE UNCHANGED <<tag, h>>
           /\ UNCHANGED <<core, looper, upd, at, total, saved, fresh, store, case, pools, ui, icmp, result>>
RetryWithTcp(mode, answer) == mode = "icmp" /\ answer = "local"
Answers(mode) == {"measured"} \cup IF mode = "icmp" THEN {"local"} ELSE {}   \* a latency, or why there is none
Answer(p, w) ==
  /\ work[<<p, w>>].pc = "sent"
  /\ \E answer \in Answers(work[<<p, w>>].mode) :
       /\ ~RetryWithTcp(work[<<p, w>>].mode, answer) /\ Kept(p, w, answer)
  /\ UNCHANGED <<core, looper, upd, at, tag, total, fresh, h, case, pools, ui, icmp>>
Notice == [down |-> TRUE, noticed |-> TRUE, notices |-> icmp.notices + IF icmp.noticed THEN 0 ELSE 1]
AnswerLocal(p, w) ==
  /\ work[<<p, w>>].pc = "sent" /\ RetryWithTcp(work[<<p, w>>].mode, "local")
  /\ icmp' = Notice
  /\ work' = [work EXCEPT ![<<p, w>>].mode = "tcp"]
  /\ UNCHANGED <<traffic, store, h, case, pools, ui, result>>
(* No answer: the worker returns, uncounted and still in the list. *)
RpcFails(p, w) ==
  /\ work[<<p, w>>].pc = "sent" /\ h.faults < MaxFaults
  /\ Becomes(p, w, "dead") /\ pools' = [pools EXCEPT ![p].broken = TRUE]
  /\ h' = [h EXCEPT !.faults = @ + 1]
  /\ UNCHANGED <<traffic, store, case, ui, icmp, result>>
Worker(p, w) ==
  \/ Register(p, w) \/ Take(p, w) \/ Finish(p, w) \/ Unlock(p, w) \/ Deregister(p, w)
  \/ Prepare(p, w) \/ Answer(p, w) \/ AnswerLocal(p, w)
Control(p) ==
  /\ pools[p].state = "live" /\ pools[p].ret
  /\ pools' = [pools EXCEPT ![p].state = "over"] /\ ui' = [ui EXCEPT !.testing = FALSE]
  /\ UNCHANGED <<traffic, store, h, case, work, icmp, result>>

(* DeleteProfile refuses only the running profile itself. *)
Delete(i) ==
  /\ i \in store /\ at.started # i /\ ui.deletes < case.deletes /\ ~ui.quit
  /\ store' = store \ {i} /\ ui' = [ui EXCEPT !.deletes = @ + 1]
  /\ h' = [h EXCEPT !.tested = IF i \in Range(ui.dialog) \cup UNION {Range(pools[p].list) : p \in Live} THEN @ \cup {i} ELSE @,
                    !.crossed = IF at.stop = "put" /\ i = Head(upd.todo) THEN @ \cup {i} ELSE @]
  /\ UNCHANGED <<traffic, case, pools, work, icmp, result>>

Window == (\E kind \in {"icmp", "url", "full"} : Test(kind)) \/ DialogOk \/ DialogCancel \/ OpenGivesUp \/ OpenTests \/ StopTests
Running ==
  /\ ~ui.quit /\ TrafficNext /\ UNCHANGED tests
  /\ at'.next \in case.runs \cup {None} /\ h'.starts <= case.starts /\ h'.passed <= case.bytes
Next ==
  \/ Window \/ Running
  \/ ~ui.quit /\ (\E p \in Pools : Control(p) \/ \E w \in Workers : Worker(p, w) \/ RpcFails(p, w))
  \/ \E i \in Ids : Delete(i)
(* Some thread of a pool that can go on does, a test is answered or fails, and the loop
   and a stop go on; where they can is spelled out. *)
Busy(p) == pools[p].state = "live" /\ (pools[p].ret \/ \E w \in Workers :
  \/ work[<<p, w>>].pc \in {"new", "got", "sent", "bye"} \/ (work[<<p, w>>].pc = "idle" /\ pools[p].lock = None))
LoopBusy == at.loop # "sleep" \/ at.stop \in {"off", "update", "save", "put"} \/ (~looper.enabled /\ looper.looping)
PoolStep(p) == Control(p) \/ \E w \in Workers : Worker(p, w)
LoopStep == Running /\ (Loop \/ Update \/ StopLocks \/ StopSaves)
Fairness ==
  /\ \A p \in Pools : []<>(ui.quit \/ ~Busy(p)) \/ []<><<PoolStep(p)>>_vars
  /\ []<>(ui.quit \/ ~LoopBusy) \/ []<><<LoopStep>>_vars
Spec == Init /\ [][Next]_vars /\ Fairness
-------------------------------------------------------------------------------
(* The flag that keeps a second pool away is true exactly while one pool lives - until
   Stop, which only clears it, or a pool that began behind the dialog of a full test. *)
FlagIsPool == ~ui.forced => Cardinality(Live) = (IF ui.testing THEN 1 ELSE 0)

(* A pool that ended has tested each of its profiles once, by one worker, and no pool
   tests one twice. *)
EachTestedOnce ==
  \A p \in Pools : \A i \in Range(pools[p].list) :
    pools[p].tries[i] <= 1 /\ (pools[p].state = "over" => pools[p].tries[i] = 1)

(* When the control thread has returned, and its locks and lists with it, no worker
   needs them but the last one, which still has to unlock lock_write. *)
LocalsAlive ==
  \A p \in Pools : pools[p].state = "over" =>
    /\ \A w \in Workers : work[<<p, w>>].pc \in {"none", "bye", "leaving", "gone"}
    /\ Cardinality({w \in Workers : work[<<p, w>>].pc = "bye"}) <= 1

(* A machine that cannot ping says so once, whatever the workers meet at the same time,
   and no profile is shown unavailable for it. *)
LocalFailureIsTold == icmp.notices <= 1 /\ (icmp.down => icmp.notices = 1) /\ \A i \in Ids : result[i] # "local"

(* A deleted profile stays deleted, unless a test of it was under way or a stop had just
   looked it up to save its traffic (SaveProfile, proxor_stop_stage2). *)
StaysDeleted == [][\A i \in Ids : i \notin store /\ i \in store' => i \in h.tested \cup h.crossed]_vars

(* A stopped profile's speed does not stay in the window. *)
StopIsShown == ~looper.enabled ~> (looper.status = "STOP" \/ looper.enabled \/ ui.quit)

(* The tests end, and the flag with them, if every one is answered. *)
PoolEnds == \A p \in Pools : (pools[p].state = "live") ~> (pools[p].state = "over" \/ pools[p].broken \/ ui.quit)

(* A pool is one, tests each profile once, outlives its workers and tells a failure of
   this machine once (speedtest_profiles). *)
PoolSound == FlagIsPool /\ EachTestedOnce /\ LocalsAlive /\ LocalFailureIsTold

(* Both ends come: of the tests, and of the speed that is shown. *)
BothEnd == PoolEnds /\ StopIsShown
=============================================================================
