---------------------------- MODULE ProxyManager ----------------------------
(* Applying and restoring the macOS system proxy: sysproxy_manager.go with the
   plans of sysproxy_plan.go.

   The settings of a network service live in the system (svc); the helper changes
   them with networksetup commands that can fail one by one, and can itself crash
   between any two of them.  What must be put back is recorded in the snapshot, in
   memory (current) and on disk (disk), before the first write.

   Abstractions: the three proxies of a service are one setting, PAC and WPAD are
   another, and a bypass list is a model value.  Services run in parallel, each
   through its own commands in order; after that every failed service is retried
   once, one service at a time.  All of this happens under ProxyManager.mu, so one
   operation runs at a time.  The ports are left out: no restore depends on them. *)
EXTENDS Naturals, FiniteSets, Functions

CONSTANTS Services, Lists,
          Unknown,            \* a nil AppliedBypass
          NoSnap,             \* no snapshot
          MaxFaults, MaxApplies, MaxCrashes, MaxEdits,   \* bounds
          ClientLists,        \* the bypass lists clients send in this instance
          RollbackMayFail,    \* may networksetup fail while an apply is rolled back
          StoreMayFail,       \* may writing or removing the snapshot file fail
          AllReadable         \* is every service active and readable

Settings == [proxy : {"user", "ours"}, list : Lists, auto : {"on", "off"}]
Records  == UNION {[S -> Settings] : S \in SUBSET Services}
Snapshots == [rec : Records, list : Lists \cup {Unknown}]
Commands == {"proxy", "list", "auto"}

ASSUME ValuesDistinct == Unknown \notin Lists
ASSUME ClientListsKnown == ClientLists \subseteq Lists
ASSUME NoSnapDistinct == NoSnap \notin Snapshots
ASSUME BoundsNat == {MaxFaults, MaxApplies, MaxCrashes, MaxEdits} \subseteq Nat

VARIABLES
  svc,       \* the settings each service has now
  user,      \* history: the settings the user last gave it
  current,   \* ProxyManager.current
  disk,      \* the snapshot file
  pc,        \* "idle", "writing" (first attempts), "retrying", "down"
  op,        \* the operation under way: "apply", "rollback", "restore"
  fresh,     \* it is an apply that captured its own snapshot (~wasApplied)
  todo,      \* commands still to run for each service, in this attempt
  again,     \* failed services that still get their retry
  bad,       \* services whose latest attempt failed
  abandoned, \* history: services a rollback gave up on
  faults, applies, crashes, edits   \* counters for the bounds

fileVars  == <<current, disk>>
workVars  == <<pc, op, fresh, todo, again, bad>>
countVars == <<faults, applies, crashes, edits>>
vars == <<svc, user, fileVars, workVars, abandoned, countVars>>

Typed ==
  /\ svc \in [Services -> Settings] /\ user \in [Services -> Settings]
  /\ current \in Snapshots \cup {NoSnap} /\ disk \in Snapshots \cup {NoSnap}
  /\ pc \in {"idle", "writing", "retrying", "down"}
  /\ op \in {"apply", "rollback", "restore"}
  /\ todo \in [Services -> SUBSET Commands]
  /\ again \subseteq Services /\ bad \subseteq Services /\ abandoned \subseteq Services
  /\ faults \in 0..MaxFaults /\ applies \in 0..MaxApplies
  /\ crashes \in 0..MaxCrashes /\ edits \in 0..MaxEdits
TypeOK == Typed /\ fresh \in BOOLEAN

Init ==
  /\ user \in [Services -> {v \in Settings : v.proxy = "user"}]
  /\ svc = user
  /\ current = NoSnap /\ disk = NoSnap
  /\ pc = "idle" /\ op = "apply" /\ fresh = FALSE
  /\ todo = [s \in Services |-> {}] /\ again = {} /\ bad = {} /\ abandoned = {}
  /\ faults = 0 /\ applies = 0 /\ crashes = 0 /\ edits = 0

-----------------------------------------------------------------------------
(* Plans: the commands of one service, and the effect of each. *)

ApplyPlan(r) == {"proxy", "list"} \cup (IF r.auto = "on" THEN {"auto"} ELSE {})

NilMeansEqual(r, appliedList) ==   \* mutant: an unknown applied list counts as equal
  {"proxy"} \cup (IF appliedList \notin {Unknown, r.list} THEN {"list"} ELSE {})
            \cup (IF r.auto = "on" THEN {"auto"} ELSE {})
\* The bypass list is written back only when it differs from the one applied.
RestorePlan(r, appliedList) ==
  {"proxy"} \cup (IF appliedList = Unknown \/ appliedList # r.list THEN {"list"} ELSE {})
            \cup (IF r.auto = "on" THEN {"auto"} ELSE {})

Plan(s) == CASE op = "apply"    -> ApplyPlan(current.rec[s])
             [] op = "rollback" -> RestorePlan(current.rec[s], Unknown)
             [] op = "restore"  -> RestorePlan(current.rec[s], current.list)

\* The commands of a service run in this order.
First(cmds) == IF "proxy" \in cmds THEN "proxy" ELSE IF "list" \in cmds THEN "list" ELSE "auto"

\* What a command writes: ours when applying, the recorded state otherwise.
Written(s, cmd) ==
  LET value == IF op = "apply" THEN [proxy |-> "ours", list |-> current.list, auto |-> "off"]
                               ELSE current.rec[s]
  IN [svc[s] EXCEPT ![cmd] = value[cmd]]

-----------------------------------------------------------------------------
(* Operations. *)

Fault == faults < MaxFaults /\ faults' = faults + 1

\* A save or a removal of the snapshot file: atomic, or failed and without effect.
Store(snap) == \/ disk' = snap /\ UNCHANGED faults
               \/ StoreMayFail /\ Fault /\ UNCHANGED disk

\* The first attempts of an operation, run in parallel: plan gives the commands of each recorded service.
Begin(kind, plan) ==
  /\ op' = kind /\ pc' = "writing"
  /\ todo' = [s \in Services |-> IF s \in DOMAIN plan THEN plan[s] ELSE {}]
  /\ again' = {} /\ bad' = {}

Finish == pc' = "idle" /\ UNCHANGED <<op, fresh, todo, again, bad>>

\* The services capture() records: the active ones whose getters all answered.
Captured == IF AllReadable THEN {Services} ELSE (SUBSET Services) \ {{}}

\* The snapshot Apply works with: captured, or while applied the original one.
ApplySnapshots(list) ==
  IF current = NoSnap
    THEN {[rec |-> [s \in S |-> svc[s]], list |-> list] : S \in Captured}
    ELSE {[current EXCEPT !.list = list]}

\* Apply up to its first write.  If the snapshot cannot be saved nothing happens.
ApplyBegin(list) ==
  /\ pc = "idle" /\ applies < MaxApplies
  /\ applies' = applies + 1
  /\ \/ \E snap \in ApplySnapshots(list) :
          /\ disk' = snap /\ current' = snap
          /\ fresh' = (current = NoSnap)
          /\ Begin("apply", [s \in DOMAIN snap.rec |-> ApplyPlan(snap.rec[s])])
          /\ UNCHANGED faults
     \/ StoreMayFail /\ Fault /\ UNCHANGED <<fileVars, workVars>>
  /\ UNCHANGED <<svc, user, abandoned, crashes, edits>>

RestoreBegin ==
  /\ pc = "idle" /\ current # NoSnap
  /\ Begin("restore", [s \in DOMAIN current.rec |-> RestorePlan(current.rec[s], current.list)])
  /\ UNCHANGED <<svc, user, fileVars, fresh, abandoned, countVars>>

\* One networksetup command succeeds.
Write(s) ==
  /\ todo[s] # {}
  /\ svc' = [svc EXCEPT ![s] = Written(s, First(todo[s]))]
  /\ todo' = [todo EXCEPT ![s] = @ \ {First(todo[s])}]
  /\ UNCHANGED <<user, fileVars, pc, op, fresh, again, bad, abandoned, countVars>>

\* It fails, with or without effect.  runPlan stops the service's attempt there;
\* restoreServices goes on with its remaining commands.
WriteFails(s) ==
  /\ todo[s] # {} /\ Fault
  /\ op = "rollback" => RollbackMayFail
  /\ \/ svc' = [svc EXCEPT ![s] = Written(s, First(todo[s]))]
     \/ UNCHANGED svc
  /\ todo' = [todo EXCEPT ![s] = IF op = "apply" THEN {} ELSE @ \ {First(todo[s])}]
  /\ bad' = bad \cup {s}
  /\ UNCHANGED <<user, fileVars, pc, op, fresh, again, abandoned, applies, crashes, edits>>

Quiet == \A s \in Services : todo[s] = {}

\* All first attempts are over: the failed services are retried once, one by one.
RetryBegin ==
  /\ pc = "writing" /\ Quiet /\ bad # {}
  /\ pc' = "retrying" /\ again' = bad
  /\ UNCHANGED <<svc, user, fileVars, op, fresh, todo, bad, abandoned, countVars>>

Retry(s) ==
  /\ pc = "retrying" /\ Quiet /\ s \in again
  /\ again' = again \ {s}
  /\ bad' = bad \ {s}
  /\ todo' = [todo EXCEPT ![s] = Plan(s)]
  /\ UNCHANGED <<svc, user, fileVars, pc, op, fresh, abandoned, countVars>>

Done == /\ pc \in {"writing", "retrying"} /\ Quiet
        /\ again = {} /\ (bad = {} \/ pc = "retrying")
Targets == DOMAIN current.rec

PartialList == Unknown

\* Apply's end: all applied; or some, and the applied list is unknown from now on;
\* or none, which a fresh apply rolls back and a re-apply only reports.
ApplyDone ==
  /\ Done /\ op = "apply"
  /\ \/ bad = {} /\ Finish /\ UNCHANGED <<fileVars, faults>>
     \/ /\ bad # {} /\ bad # Targets
        /\ current' = [current EXCEPT !.list = PartialList]
        /\ Store(current') /\ Finish
     \/ bad = Targets /\ ~fresh /\ Finish /\ UNCHANGED <<fileVars, faults>>
     \/ /\ bad = Targets /\ fresh
        /\ Begin("rollback", [s \in DOMAIN current.rec |-> RestorePlan(current.rec[s], Unknown)])
        /\ UNCHANGED <<fileVars, fresh, faults>>
  /\ UNCHANGED <<svc, user, abandoned, applies, crashes, edits>>

\* The rollback's result is not looked at: the snapshot is forgotten either way.
RollbackDone ==
  /\ Done /\ op = "rollback"
  /\ current' = NoSnap /\ Store(NoSnap) /\ Finish
  /\ abandoned' = abandoned \cup bad
  /\ UNCHANGED <<svc, user, applies, crashes, edits>>

Remaining == IF bad = {} THEN NoSnap ELSE [current EXCEPT !.rec = Restrict(@, bad)]

\* finishRestore: forget the snapshot, or keep what did not restore cleanly.
RestoreDone ==
  /\ Done /\ op = "restore"
  /\ current' = Remaining
  /\ Store(current') /\ Finish
  /\ UNCHANGED <<svc, user, abandoned, applies, crashes, edits>>

\* The helper is killed, or the machine goes down, between any two steps.
Crash ==
  /\ pc # "down" /\ crashes < MaxCrashes
  /\ crashes' = crashes + 1
  /\ pc' = "down" /\ current' = NoSnap
  /\ todo' = [s \in Services |-> {}] /\ again' = {} /\ bad' = {}
  /\ UNCHANGED <<svc, user, disk, op, fresh, abandoned, faults, applies, edits>>

NeverRecovers == FALSE   \* mutant
NeedsRecovery == disk # NoSnap

\* RecoverAtStart, before anyone is served.  (A snapshot on disk is always applied.)
RecoverAtStart ==
  /\ pc = "down"
  /\ IF NeedsRecovery
       THEN /\ current' = disk
            /\ Begin("restore", [s \in DOMAIN disk.rec |-> RestorePlan(disk.rec[s], disk.list)])
            /\ UNCHANGED fresh
       ELSE pc' = "idle" /\ UNCHANGED <<current, op, fresh, todo, again, bad>>
  /\ UNCHANGED <<svc, user, disk, abandoned, countVars>>

\* The user changes the settings of a service.  Bound: only while nothing of ours is
\* recorded, in memory or on disk; an edit under a record is overwritten by its restore.
UserEdit(s) ==
  /\ pc = "idle" /\ current = NoSnap /\ disk = NoSnap /\ edits < MaxEdits
  /\ edits' = edits + 1
  /\ \E v \in {w \in Settings : w.proxy = "user"} :
       user' = [user EXCEPT ![s] = v] /\ svc' = [svc EXCEPT ![s] = v]
  /\ abandoned' = abandoned \ {s}
  /\ UNCHANGED <<fileVars, workVars, faults, applies, crashes>>

Work == \/ \E s \in Services : Write(s) \/ Retry(s)
        \/ RetryBegin \/ ApplyDone \/ RollbackDone \/ RestoreDone \/ RecoverAtStart

\* Nothing under way: the helper waits for the next request.
Idle == pc = "idle" /\ UNCHANGED vars

Next == \/ Work
        \/ \E list \in ClientLists : ApplyBegin(list)
        \/ \E s \in Services : WriteFails(s) \/ UserEdit(s)
        \/ RestoreBegin \/ Crash \/ Idle

(* Fairness: commands return and the operation runs on; launchd starts a helper
   that died (KeepAlive).  Requests, failures and crashes are never forced. *)
Spec == Init /\ [][Next]_vars
FairSpec == Spec /\ WF_vars(Work)

-----------------------------------------------------------------------------
(* Properties. *)

\* The services whose settings the record can be trusted to bring back: not those a
\* rollback gave up on, and not those whose user has as his own bypass list one of
\* several that clients send.  There a recorded list may be another client's: the
\* restore takes the service for unchanged.
Sure == {s \in Services \ abandoned : user[s].list \notin ClientLists \/ ClientLists = {user[s].list}}

\* In every state, so also if the helper dies right there: a service that does not
\* have the user's settings is recorded on disk with exactly those settings.
Recoverable ==
  \A s \in Sure : svc[s] # user[s] =>
    disk # NoSnap /\ s \in DOMAIN disk.rec /\ disk.rec[s] = user[s]

\* sysproxy_manager.go:155-156: recovery "compares against the list really on the
\* services".  What the restore plan of the file skips is already as recorded.
RecoverySuffices ==
  disk # NoSnap => \A s \in DOMAIN disk.rec \cap Sure :
    \A cmd \in Commands \ RestorePlan(disk.rec[s], disk.list) :
      svc[s][cmd] = disk.rec[s][cmd]

\* No snapshot in an idle helper means that every service has the user's settings.
CleanMeansRestored ==
  pc = "idle" /\ current = NoSnap => \A s \in Sure : svc[s] = user[s]

\* After a crash, if no command fails any more, every service gets the user's
\* settings back, however far the interrupted operation had come.
RecoveryCompletes ==
  pc = "down" /\ faults = MaxFaults ~> \A s \in Sure : svc[s] = user[s]

\* At every moment, so wherever the helper dies, what is recorded suffices to give the
\* user's settings back, and nothing is recorded only when they are back
\* (sysproxy_manager.go, Apply, rollback, finishRestore).
RecordSuffices == TypeOK /\ Recoverable /\ RecoverySuffices /\ CleanMeansRestored
=============================================================================
