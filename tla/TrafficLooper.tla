-------------------------------- MODULE TrafficLooper --------------------------------
(* The traffic of the running profile (traffic/TrafficLooper.cpp), with the parts of
   start and stop that feed it (ui/mainwindow_grpc.cpp) and the counters of the core
   (grpc_box.go). Three threads: the loop, the one that stops, the one that starts.

   One number stands for up and down. Only the outbound "proxy" of a profile is counted
   by the core, so tags are Proxy and the rest. A profile's TrafficData is one object,
   shared by every configuration built with it.                                       *)
EXTENDS Integers, Sequences, FiniteSets, SequencesExt

CONSTANTS Ids, None, Proxy,
          StatsOf,     \* id -> outboundStats of its configuration: a sequence of [id, tag]
          MaxBytes, MaxStarts, MaxFaults

VARIABLES core,    \* [up, unread]: the instance and the bytes of "proxy" since the last query
          looper,  \* [enabled, looping, items, mutex, status]
          upd,     \* [todo, diff, got]: the UpdateAll of the thread that holds the mutex
          at,      \* [loop, stop, start, next, started]: where the threads are
          tag, total, saved, fresh,   \* the TrafficData objects; fresh: last_update not yet set
          store,   \* the profiles the ProfileManager has
          h        \* what the properties remember
traffic == <<core, looper, upd, at, tag, total, saved, fresh>>

Nothing == [todo |-> <<>>, diff |-> <<>>, got |-> None]
TrafficInit ==
  /\ core = [up |-> FALSE, unread |-> 0]
  /\ looper = [enabled |-> FALSE, looping |-> FALSE, items |-> <<>>, mutex |-> None, status |-> "STOP"]
  /\ upd = Nothing
  /\ at = [loop |-> "sleep", stop |-> "idle", start |-> "idle", next |-> None, started |-> None]
  /\ tag = [i \in Ids |-> None] /\ total = [i \in Ids |-> 0] /\ saved = [i \in Ids |-> 0]
  /\ fresh = Ids /\ store = Ids
  /\ h = [passed |-> 0, before |-> 0, lost |-> 0, base |-> [i \in Ids |-> 0], own |-> <<>>, retag |-> {}, skip |-> {},
          late |-> FALSE, starts |-> 0, faults |-> 0, tested |-> {}, crossed |-> {}]

(* BuildConfig writes the tags, whatever the configuration is for. *)
Tags(stats) == FoldLeft(LAMBDA t, e : [t EXCEPT ![e.id] = e.tag], tag, stats)
Changed(stats) == {i \in Ids : Tags(stats)[i] # tag[i]}
Retag(stats) == tag' = Tags(stats) /\ h' = [h EXCEPT !.retag = @ \cup Changed(stats)]

Items(id) == [k \in DOMAIN StatsOf[id] |-> StatsOf[id][k].id]
(* None is no number, no thread and no profile; the statistics are of profiles. *)
ASSUME TrafficAssumption ==
  /\ None \notin Int /\ None \notin {"loop", "stop"} /\ None \notin DOMAIN StatsOf
  /\ \A id \in DOMAIN StatsOf : Items(id) \in Seq(Ids)
Times(s, i) == Cardinality({k \in DOMAIN s : s[k] = i})

(* proxor_start builds before it stops what runs. *)
StartBuild(id) ==
  /\ at.start = "idle" /\ id \in store /\ h.starts < MaxStarts
  /\ tag' = Tags(StatsOf[id])
  /\ h' = [h EXCEPT !.retag = @ \cup Changed(StatsOf[id]), !.starts = @ + 1]
  /\ at' = [at EXCEPT !.start = "built", !.next = id]
  /\ UNCHANGED <<core, looper, upd, total, saved, fresh, store>>
StartRpc ==
  /\ at.start = "built" /\ at.started = None /\ at.stop = "idle"
  /\ core' = [up |-> TRUE, unread |-> 0]
  /\ at' = [at EXCEPT !.start = "up"]
  /\ LET stats == StatsOf[at.next]
         own == [i \in {j \in Ids : Tags(stats)[j] = Proxy} |-> Times(Items(at.next), i)]
     IN h' = [h EXCEPT !.before = h.passed, !.lost = 0, !.base = total, !.own = own, !.retag = Changed(stats), !.skip = {}]
  /\ UNCHANGED <<looper, upd, tag, total, saved, fresh, store>>
StartFails ==
  /\ at.start = "built" /\ at.started = None /\ at.stop = "idle" /\ h.faults < MaxFaults
  /\ at' = [at EXCEPT !.start = "idle"] /\ h' = [h EXCEPT !.faults = @ + 1]
  /\ UNCHANGED <<core, looper, upd, tag, total, saved, fresh, store>>
(* proxy and items are assigned without loop_mutex. *)
StartAssign ==
  /\ at.start = "up"
  /\ looper' = [looper EXCEPT !.items = Items(at.next), !.enabled = TRUE]
  /\ at' = [at EXCEPT !.start = "idle", !.started = at.next]
  /\ UNCHANGED <<core, upd, tag, total, saved, fresh, store, h>>

(* Loop: it looks at loop_enabled before it asks for the mutex. *)
Looping == looper' = [looper EXCEPT !.looping = TRUE]
LoopChecks ==
  /\ at.loop = "sleep"
  /\ \/ /\ ~looper.enabled /\ looper.looping
        /\ looper' = [looper EXCEPT !.looping = FALSE, !.status = "STOP"] /\ UNCHANGED at
     \/ /\ looper.enabled /\ Looping
        /\ at' = [at EXCEPT !.loop = "want"]
  /\ UNCHANGED <<core, upd, tag, total, saved, fresh, store, h>>
\* mutant: without the mutex
LocksAnyway(u) == looper' = looper
Locks(u) == looper.mutex = None /\ looper' = [looper EXCEPT !.mutex = u]
LoopLocks ==
  /\ at.loop = "want" /\ Locks("loop")
  /\ upd' = [Nothing EXCEPT !.todo = looper.items]
  /\ at' = [at EXCEPT !.loop = "update"]
  /\ h' = [h EXCEPT !.late = @ \/ ~looper.enabled]
  /\ UNCHANGED <<core, tag, total, saved, fresh, store>>
LoopUnlocks ==
  /\ at.loop = "update" /\ looper.mutex = "loop" /\ upd.todo = <<>>
  /\ looper' = [looper EXCEPT !.mutex = None, !.status = "speed"]
  /\ at' = [at EXCEPT !.loop = "sleep"]
  /\ upd' = Nothing /\ UNCHANGED <<core, tag, total, saved, fresh, store, h>>

With(f, t, v) == [x \in DOMAIN f \cup {t} |-> IF x = t THEN v ELSE f[x]]

(* UpdateAll, item by item: one query for each tag, which reads and clears the counter.
   It asks nothing and leaves no answer for the others when the interval is not positive:
   last_update of a new object has no value, and the update of a stop and that of the loop
   may come in the same millisecond, whichever is first. *)
Query ==
  /\ upd.todo # <<>> /\ upd.got = None /\ at.stop \notin {"save", "put"}
  /\ LET i == Head(upd.todo)
         seen == core.up /\ tag[i] = Proxy
     IN /\ tag[i] \notin DOMAIN upd.diff
        /\ fresh' = fresh \ {i}
        /\ \/ /\ upd' = [upd EXCEPT !.got = IF seen THEN core.unread ELSE 0]
              /\ core' = [core EXCEPT !.unread = IF seen THEN 0 ELSE @] /\ UNCHANGED h
           \/ /\ seen /\ h.faults < MaxFaults   \* the answer comes after 500 ms
              /\ upd' = [upd EXCEPT !.got = 0] /\ core' = [core EXCEPT !.unread = 0]
              /\ h' = [h EXCEPT !.faults = @ + 1, !.lost = @ + core.unread]
           \/ /\ (i \in fresh \/ ~looper.enabled)
              /\ upd' = [upd EXCEPT !.todo = Tail(@)] /\ h' = [h EXCEPT !.skip = @ \cup {i}] /\ UNCHANGED core
  /\ UNCHANGED <<looper, at, tag, total, saved, store>>
AddOwn ==
  /\ upd.got # None
  /\ total' = [total EXCEPT ![Head(upd.todo)] = @ + upd.got]
  /\ upd' = [todo |-> Tail(upd.todo), diff |-> With(upd.diff, tag[Head(upd.todo)], upd.got), got |-> None]
  /\ UNCHANGED <<core, looper, at, tag, saved, fresh, store, h>>
Share(i) == total' = [total EXCEPT ![i] = @ + upd.diff[tag[i]]]
AddShared ==
  /\ upd.todo # <<>> /\ upd.got = None /\ tag[Head(upd.todo)] \in DOMAIN upd.diff
  /\ Share(Head(upd.todo))
  /\ upd' = [upd EXCEPT !.todo = Tail(@)]
  /\ UNCHANGED <<core, looper, at, tag, saved, fresh, store, h>>

(* proxor_stop_stage2: the last UpdateAll, then the profiles it finds are saved. *)
StopBegin ==
  /\ at.started # None /\ at.stop = "idle" /\ at.start \in {"idle", "built"}
  /\ looper' = [looper EXCEPT !.enabled = FALSE] /\ at' = [at EXCEPT !.stop = "off"]
  /\ UNCHANGED <<core, upd, tag, total, saved, fresh, store, h>>
StopLocks ==
  /\ at.stop = "off" /\ Locks("stop")
  /\ upd' = [Nothing EXCEPT !.todo = looper.items]
  /\ at' = [at EXCEPT !.stop = "update"]
  /\ UNCHANGED <<core, tag, total, saved, fresh, store, h>>
StopUpdated ==
  /\ at.stop = "update" /\ upd.todo = <<>>
  /\ upd' = [Nothing EXCEPT !.todo = looper.items] /\ at' = [at EXCEPT !.stop = "save"]
  /\ UNCHANGED <<core, looper, tag, total, saved, fresh, store, h>>
(* Item by item, GetProfile and then SaveProfile, which puts back a profile it does not
   know: two calls, and no lock that DeleteProfile would wait for. *)
\* mutant: what the looper has is saved, whether the profile is still there or not
Anyway(i) == TRUE
Found(i) == i \in store
StopGets ==
  /\ at.stop = "save" /\ upd.todo # <<>>
  /\ IF Found(Head(upd.todo)) THEN at' = [at EXCEPT !.stop = "put"] /\ UNCHANGED upd
     ELSE upd' = [upd EXCEPT !.todo = Tail(@)] /\ UNCHANGED at
  /\ UNCHANGED <<core, looper, tag, total, saved, fresh, store, h>>
StopPuts ==
  /\ at.stop = "put"
  /\ LET i == Head(upd.todo) IN store' = store \cup {i} /\ saved' = [saved EXCEPT ![i] = total[i]]
  /\ upd' = [upd EXCEPT !.todo = Tail(@)] /\ at' = [at EXCEPT !.stop = "save"]
  /\ UNCHANGED <<core, looper, tag, total, fresh, h>>
StopUnlocks ==
  /\ at.stop = "save" /\ upd.todo = <<>>
  /\ looper' = [looper EXCEPT !.mutex = None] /\ at' = [at EXCEPT !.stop = "rpc"]
  /\ UNCHANGED <<core, upd, tag, total, saved, fresh, store, h>>
StopSaves == StopUpdated \/ StopGets \/ StopPuts \/ StopUnlocks
StopRpc ==
  /\ at.stop = "rpc"
  /\ core' = [up |-> FALSE, unread |-> 0] /\ h' = [h EXCEPT !.lost = @ + core.unread]
  /\ at' = [at EXCEPT !.stop = "idle", !.started = None]
  /\ UNCHANGED <<looper, upd, tag, total, saved, fresh, store>>
StopFails ==   \* the profile goes on, uncounted
  /\ at.stop = "rpc" /\ h.faults < MaxFaults
  /\ at' = [at EXCEPT !.stop = "idle"] /\ h' = [h EXCEPT !.faults = @ + 1]
  /\ UNCHANGED <<core, looper, upd, tag, total, saved, fresh, store>>

Bytes ==
  /\ core.up /\ h.passed < MaxBytes
  /\ core' = [core EXCEPT !.unread = @ + 1] /\ h' = [h EXCEPT !.passed = @ + 1]
  /\ UNCHANGED <<looper, upd, at, tag, total, saved, fresh, store>>
CoreDies ==
  /\ core.up /\ h.faults < MaxFaults
  /\ core' = [up |-> FALSE, unread |-> 0] /\ h' = [h EXCEPT !.faults = @ + 1, !.lost = @ + core.unread]
  /\ UNCHANGED <<looper, upd, at, tag, total, saved, fresh, store>>

Loop == LoopChecks \/ LoopLocks \/ LoopUnlocks
Update == Query \/ AddOwn \/ AddShared
Starts == (\E id \in DOMAIN StatsOf : StartBuild(id)) \/ StartRpc \/ StartFails \/ StartAssign
Stops == StopBegin \/ StopLocks \/ StopSaves \/ StopRpc \/ StopFails
TrafficNext == Loop \/ Update \/ Starts \/ Stops \/ Bytes \/ CoreDies
-------------------------------------------------------------------------------
(* What an UpdateAll has read and still has to add to i. *)
Known == IF upd.got = None THEN upd.diff ELSE With(upd.diff, tag[Head(upd.todo)], upd.got)
Held(i) == IF tag[i] \in DOMAIN Known THEN Times(upd.todo, i) * Known[tag[i]] ELSE 0

(* Every byte the core counted for "proxy" and told of is credited to every profile that
   leaves by that tag, once for each time its configuration names it: once, but twice to
   a plain profile behind a front proxy, which counts for itself as a chain does. The loop,
   the stop and the shared answer of a query do not change that. The exceptions are named:
   a test or another start that renames one of the objects, an object that was skipped for
   its last_update, and a loop that waited for the mutex while the
   profile was stopped. *)
NoByteLost ==
  (~h.late /\ h.retag = {}) => \A i \in DOMAIN h.own \ h.skip :
    total[i] - h.base[i] + Held(i) = h.own[i] * (h.passed - h.before - core.unread - h.lost)

(* What a stop leaves behind is on disk: no update comes after the save, item by item. *)
SavedAtStop ==
  (at.started = None /\ at.stop = "idle" /\ at.start = "idle" /\ ~h.late) => \A i \in store : saved[i] = total[i]

(* Bytes are credited as often as the configuration says, to the right profile, and saved (UpdateAll, proxor_stop_stage2). *)
TrafficKept == NoByteLost /\ SavedAtStop
=============================================================================
