-------------------------- MODULE ProxyManager_proofs --------------------------
(* Theorems about ProxyManager, for every set of services and of bypass lists, every
   set of lists that clients send, and every bound on faults, crashes and requests. *)
EXTENDS ProxyManager, TLAPS

-----------------------------------------------------------------------------
(* Settings and snapshots. *)

\* Settings are equal when each of their parts is.
LEMMA SettingsParts ==
  ASSUME NEW v \in Settings, NEW w \in Settings, \A cmd \in Commands : v[cmd] = w[cmd]
  PROVE v = w
BY DEF Settings, Commands

\* A command writes its own part of the settings and no other.
LEMMA PartWritten ==
  ASSUME NEW v \in Settings, NEW w \in Settings, NEW c \in Commands
  PROVE /\ [v EXCEPT ![c] = w[c]] \in Settings
        /\ [v EXCEPT ![c] = w[c]][c] = w[c]
        /\ \A d \in Commands : d # c => [v EXCEPT ![c] = w[c]][d] = v[d]
BY DEF Settings, Commands

\* What the restore plan of a record skips is on the service already: WPAD that was off
\* was never turned on, and the list applied is the recorded one, which no other
\* client's list has replaced.
LEMMA SkippedIsRestored ==
  ASSUME NEW v \in Settings, NEW r \in Settings, NEW list \in ClientLists \cup {Unknown},
         r.auto = "off" => v.auto = "off",
         v.list \in ClientLists \cup {r.list},
         r.list \notin ClientLists \/ ClientLists = {r.list},
         NEW cmd \in Commands \ RestorePlan(r, list)
  PROVE v[cmd] = r[cmd]
BY DEF Settings, Commands, RestorePlan

\* The parts of a snapshot.
LEMMA SnapshotParts ==
  ASSUME NEW snap \in Snapshots
  PROVE /\ snap # NoSnap
        /\ snap.list \in Lists \cup {Unknown}
        /\ DOMAIN snap.rec \subseteq Services
        /\ \A s \in DOMAIN snap.rec : snap.rec[s] \in Settings
BY NoSnapDistinct DEF Snapshots, Records

\* A snapshot as capture() makes it.
LEMMA SnapshotMade ==
  ASSUME NEW S \in SUBSET Services, NEW f \in [S -> Settings], NEW list \in Lists \cup {Unknown}
  PROVE [rec |-> f, list |-> list] \in Snapshots
BY DEF Snapshots, Records

\* The applied list of a snapshot changes, its records do not.
LEMMA SnapshotRelisted ==
  ASSUME NEW snap \in Snapshots, NEW list \in Lists \cup {Unknown}
  PROVE /\ [snap EXCEPT !.list = list] \in Snapshots
        /\ [snap EXCEPT !.list = list].rec = snap.rec
        /\ [snap EXCEPT !.list = list].list = list
BY DEF Snapshots, Records

\* What finishRestore keeps of a snapshot.
LEMMA SnapshotRestricted ==
  ASSUME NEW snap \in Snapshots, NEW S \in SUBSET DOMAIN snap.rec
  PROVE LET kept == [snap EXCEPT !.rec = Restrict(@, S)]
        IN /\ kept \in Snapshots
           /\ DOMAIN kept.rec = S
           /\ \A s \in S : kept.rec[s] = snap.rec[s]
           /\ kept.list = snap.list
<1>1. snap.rec \in [DOMAIN snap.rec -> Settings] /\ DOMAIN snap.rec \subseteq Services
  BY DEF Snapshots, Records
<1>2. Restrict(snap.rec, S) \in [S -> Settings]
  BY <1>1 DEF Restrict
<1>3. Restrict(snap.rec, S) \in Records
  BY <1>1, <1>2 DEF Records
<1> QED
  BY <1>1, <1>2, <1>3 DEF Snapshots, Restrict

-----------------------------------------------------------------------------
(* The inductive invariant. *)

Working == pc \in {"writing", "retrying"}

\* A record on disk is what the user set.
RecordsTrue ==
  disk # NoSnap => \A s \in DOMAIN disk.rec : s \in Sure => disk.rec[s] = user[s]

\* What the helper remembers is on disk, with at least the same services.
MemoryOnDisk ==
  current # NoSnap =>
    /\ disk # NoSnap
    /\ \A s \in DOMAIN current.rec : s \in DOMAIN disk.rec /\ disk.rec[s] = current.rec[s]

\* A changed service is remembered; once the helper died, it is on disk.
ChangedIsKept ==
  \A s \in Sure : svc[s] # user[s] =>
    IF pc = "down" THEN disk # NoSnap /\ s \in DOMAIN disk.rec
                   ELSE current # NoSnap /\ s \in DOMAIN current.rec

\* On a recorded service the helper never turns WPAD on where it was off, and the bypass
\* list is the recorded one or a client's.
SkippedIsSafe ==
  disk # NoSnap => \A s \in DOMAIN disk.rec :
    /\ disk.rec[s].auto = "off" => svc[s].auto = "off"
    /\ svc[s].list \in ClientLists \cup {disk.rec[s].list}

\* The applied list of a snapshot is a client's, or not known.
ListsKnown ==
  /\ current # NoSnap => current.list \in ClientLists \cup {Unknown}
  /\ disk # NoSnap => disk.list \in ClientLists \cup {Unknown}

\* Commands are run, and failures noted, only for the services of the snapshot under way.
Underway ==
  /\ Working => /\ current # NoSnap
                /\ bad \subseteq DOMAIN current.rec
                /\ op = "apply" => current.list \in ClientLists
  /\ again \subseteq bad /\ (~Working => again = {})
  /\ pc = "down" => current = NoSnap
  /\ \A s \in Services : todo[s] # {} => Working /\ s \in DOMAIN current.rec

\* Going back, what a service has no command left for is as it was recorded, unless its
\* attempt failed.
GoingBack ==
  Working /\ op # "apply" =>
    \A s \in DOMAIN current.rec : s \in Sure /\ s \notin bad =>
      \A cmd \in Commands : cmd \notin todo[s] => svc[s][cmd] = current.rec[s][cmd]

IInv == /\ Typed /\ RecordsTrue /\ MemoryOnDisk /\ ChangedIsKept /\ SkippedIsSafe
        /\ ListsKnown /\ Underway /\ GoingBack

-----------------------------------------------------------------------------
(* The steps. *)

USE ValuesDistinct, ClientListsKnown, NoSnapDistinct, BoundsNat
    DEF Working, fileVars, workVars, countVars

\* The services of the snapshot in use, and their settings.
LEMMA SnapshotsTyped ==
  ASSUME IInv
  PROVE /\ current # NoSnap => /\ current \in Snapshots
                               /\ current.list \in Lists \cup {Unknown}
                               /\ DOMAIN current.rec \subseteq Services
                               /\ \A s \in DOMAIN current.rec : current.rec[s] \in Settings
        /\ disk # NoSnap => /\ disk \in Snapshots
                            /\ disk.list \in Lists \cup {Unknown}
                            /\ DOMAIN disk.rec \subseteq Services
                            /\ \A s \in DOMAIN disk.rec : disk.rec[s] \in Settings
BY SnapshotParts DEF IInv, Typed

\* A command is one of the service's, and writes its part: ours when applying, what was
\* recorded when going back.
LEMMA WrittenValue ==
  ASSUME IInv, NEW s \in Services, todo[s] # {}
  PROVE LET c == First(todo[s])
            v == Written(s, c)
        IN /\ s \in DOMAIN current.rec /\ c \in todo[s] /\ c \in Commands
           /\ v \in Settings
           /\ \A d \in Commands : d # c => v[d] = svc[s][d]
           /\ op # "apply" => v[c] = current.rec[s][c]
           /\ v.auto \in {svc[s].auto, "off", current.rec[s].auto}
           /\ v.list \in ClientLists \cup {svc[s].list, current.rec[s].list}
<1> DEFINE c == First(todo[s])
           ours == [proxy |-> "ours", list |-> current.list, auto |-> "off"]
           value == IF op = "apply" THEN ours ELSE current.rec[s]
           v == [svc[s] EXCEPT ![c] = value[c]]
<1>1. s \in DOMAIN current.rec /\ current # NoSnap /\ current.rec[s] \in Settings /\ svc[s] \in Settings
  BY SnapshotsTyped DEF IInv, Underway, Typed
<1>2. c \in todo[s] /\ c \in Commands
  BY DEF IInv, Typed, First, Commands
<1>3. op = "apply" => ours \in Settings /\ current.list \in ClientLists
  BY DEF IInv, Underway, Settings
<1>4. value \in Settings
  BY <1>1, <1>3
<1> HIDE DEF ours, value
<1>5. v \in Settings /\ v[c] = value[c] /\ \A d \in Commands : d # c => v[d] = svc[s][d]
  BY <1>1, <1>2, <1>4, PartWritten
<1>6. v.auto = svc[s].auto \/ v.auto = value.auto
  BY <1>2, <1>5 DEF Commands
<1>7. v.list = svc[s].list \/ v.list = value.list
  BY <1>2, <1>5 DEF Commands
<1>8. v = Written(s, c)
  BY DEF Written, value, ours
<1> HIDE DEF v, c
<1> QED
  BY <1>1, <1>2, <1>3, <1>5, <1>6, <1>7, <1>8 DEF value, ours, v, c

\* Every plan is made of commands.
LEMMA PlansAreCommands ==
  /\ \A r, list : ApplyPlan(r) \subseteq Commands /\ RestorePlan(r, list) \subseteq Commands
  /\ \A s \in Services : op \in {"apply", "rollback", "restore"} => Plan(s) \subseteq Commands
BY DEF ApplyPlan, RestorePlan, Plan, Commands

\* The plan that goes back to a snapshot, in memory or on disk, skips only what is there.
LEMMA PlanSuffices ==
  ASSUME IInv, NEW snap \in {current, disk}, snap # NoSnap,
         NEW list \in {snap.list, Unknown},
         NEW s \in DOMAIN snap.rec, s \in Sure,
         NEW cmd \in Commands \ RestorePlan(snap.rec[s], list)
  PROVE svc[s][cmd] = snap.rec[s][cmd]
<1>1. disk # NoSnap /\ s \in DOMAIN disk.rec /\ snap.rec[s] = disk.rec[s]
  BY DEF IInv, MemoryOnDisk
<1>2. list \in ClientLists \cup {Unknown} /\ disk.rec[s] \in Settings /\ s \in Services
  BY <1>1, SnapshotsTyped DEF IInv, ListsKnown
<1>3. svc[s] \in Settings /\ disk.rec[s] = user[s]
  BY <1>1, <1>2 DEF IInv, Typed, RecordsTrue
<1>4. disk.rec[s].list \notin ClientLists \/ ClientLists = {disk.rec[s].list}
  BY <1>3 DEF Sure
<1>5. /\ disk.rec[s].auto = "off" => svc[s].auto = "off"
      /\ svc[s].list \in ClientLists \cup {disk.rec[s].list}
  BY <1>1 DEF IInv, SkippedIsSafe
<1> QED
  BY <1>1, <1>2, <1>3, <1>4, <1>5, SkippedIsRestored

\* Once its commands are over, a service that did not fail has the user's settings again.
LEMMA GoneBack ==
  ASSUME IInv, Done, op # "apply",
         NEW s \in DOMAIN current.rec, s \in Sure, s \notin bad
  PROVE svc[s] = user[s]
<1>1. current # NoSnap /\ s \in Services
  BY SnapshotsTyped DEF IInv, Underway, Done
<1>2. \A cmd \in Commands : svc[s][cmd] = current.rec[s][cmd]
  BY <1>1 DEF IInv, GoingBack, Done, Quiet
<1>3. svc[s] \in Settings /\ current.rec[s] \in Settings /\ current.rec[s] = user[s]
  BY <1>1, SnapshotsTyped DEF IInv, Typed, MemoryOnDisk, RecordsTrue
<1> QED
  BY <1>2, <1>3, SettingsParts

\* The snapshot of an apply: the one of the apply before, or what the services have
\* now, which is then what the user gave them.
LEMMA SnapshotApplied ==
  ASSUME IInv, pc = "idle", NEW list \in ClientLists, NEW snap \in ApplySnapshots(list)
  PROVE /\ snap \in Snapshots /\ snap # NoSnap /\ snap.list = list
        /\ \A s \in DOMAIN snap.rec :
             /\ s \in Services
             /\ s \in Sure => snap.rec[s] = user[s]
             /\ snap.rec[s].auto = "off" => svc[s].auto = "off"
             /\ svc[s].list \in ClientLists \cup {snap.rec[s].list}
        /\ \A s \in Sure : svc[s] # user[s] => s \in DOMAIN snap.rec
<1>1. CASE current = NoSnap
  <2>1. PICK S \in Captured : snap = [rec |-> [s \in S |-> svc[s]], list |-> list]
    BY <1>1 DEF ApplySnapshots
  <2>2. S \in SUBSET Services /\ [s \in S |-> svc[s]] \in [S -> Settings]
    BY <2>1 DEF Captured, IInv, Typed
  <2>3. snap \in Snapshots /\ snap # NoSnap
    BY <2>1, <2>2, SnapshotMade
  <2>4. snap.list = list /\ DOMAIN snap.rec = S /\ \A s \in S : snap.rec[s] = svc[s]
    BY <2>1
  <2>5. \A s \in Sure : svc[s] = user[s]
    BY <1>1 DEF IInv, ChangedIsKept
  <2> QED
    BY <2>2, <2>3, <2>4, <2>5
<1>2. CASE current # NoSnap
  <2>1. snap = [current EXCEPT !.list = list]
    BY <1>2 DEF ApplySnapshots
  <2>2. snap \in Snapshots /\ snap # NoSnap /\ snap.list = list /\ snap.rec = current.rec
    BY <1>2, <2>1, SnapshotsTyped, SnapshotRelisted
  <2> QED
    BY <1>2, <2>2, SnapshotsTyped DEF IInv, MemoryOnDisk, RecordsTrue, SkippedIsSafe, ChangedIsKept
<1> QED
  BY <1>1, <1>2

\* An apply records first; if it cannot, it does nothing.
LEMMA ApplyBeginKeeps ==
  ASSUME NEW list \in ClientLists, IInv, ApplyBegin(list)
  PROVE IInv'
<1> USE DEF IInv
<1>1. CASE Fault /\ UNCHANGED <<fileVars, workVars>>
  <2>1. applies < MaxApplies /\ applies' = applies + 1 /\ UNCHANGED <<svc, user, abandoned, crashes, edits>>
    BY DEF ApplyBegin
  <2>2. Typed'
    <3>1. faults' \in 0..MaxFaults /\ applies' \in 0..MaxApplies
      BY <1>1, <2>1 DEF Fault, Typed
    <3> QED
      BY <1>1, <2>1, <3>1 DEF Typed
  <2>3. RecordsTrue' /\ MemoryOnDisk' /\ ChangedIsKept' /\ SkippedIsSafe' /\ ListsKnown' /\ Underway' /\ GoingBack'
    BY <1>1 DEF ApplyBegin, RecordsTrue, MemoryOnDisk, ChangedIsKept, SkippedIsSafe, ListsKnown, Underway, GoingBack, Sure
  <2> QED
    BY <2>2, <2>3
<1>2. ASSUME NEW snap \in ApplySnapshots(list), disk' = snap, current' = snap,
             Begin("apply", [s \in DOMAIN snap.rec |-> ApplyPlan(snap.rec[s])]), UNCHANGED faults
      PROVE IInv'
  <2> USE <1>2 DEF ApplyBegin, Begin
  <2>1. /\ snap \in Snapshots /\ snap # NoSnap /\ snap.list = list
        /\ \A s \in DOMAIN snap.rec :
             /\ s \in Services
             /\ s \in Sure => snap.rec[s] = user[s]
             /\ snap.rec[s].auto = "off" => svc[s].auto = "off"
             /\ svc[s].list \in ClientLists \cup {snap.rec[s].list}
        /\ \A s \in Sure : svc[s] # user[s] => s \in DOMAIN snap.rec
    BY SnapshotApplied
  <2>2. Typed'
    <3>1. todo' \in [Services -> SUBSET Commands]
      BY PlansAreCommands
    <3>2. applies' \in 0..MaxApplies
      BY DEF Typed
    <3> QED
      BY <2>1, <3>1, <3>2 DEF Typed
  <2>3. RecordsTrue' /\ MemoryOnDisk' /\ SkippedIsSafe' /\ ListsKnown'
    BY <2>1 DEF RecordsTrue, MemoryOnDisk, SkippedIsSafe, ListsKnown, Sure
  <2>4. ChangedIsKept'
    BY <2>1 DEF ChangedIsKept, Sure
  <2>5. Underway' /\ GoingBack'
    BY <2>1 DEF Underway, GoingBack
  <2> QED
    BY <2>2, <2>3, <2>4, <2>5
<1> QED
  BY <1>1, <1>2 DEF ApplyBegin

\* Restore plans from the snapshot in memory.
LEMMA RestoreBeginKeeps ==
  ASSUME IInv, RestoreBegin
  PROVE IInv'
<1> USE DEF RestoreBegin, Begin, IInv
<1>1. Typed'
  BY SnapshotsTyped, PlansAreCommands DEF Typed
<1>2. RecordsTrue'
  BY DEF RecordsTrue, Sure
<1>3. MemoryOnDisk'
  BY DEF MemoryOnDisk
<1>4. ChangedIsKept'
  BY DEF ChangedIsKept, Sure
<1>5. SkippedIsSafe'
  BY DEF SkippedIsSafe
<1>6. ListsKnown'
  BY DEF ListsKnown
<1>7. Underway'
  BY DEF Underway
<1>8. GoingBack'
  <2> SUFFICES ASSUME NEW s \in DOMAIN current.rec, s \in Sure, NEW cmd \in Commands,
                      cmd \notin RestorePlan(current.rec[s], current.list)
               PROVE svc[s][cmd] = current.rec[s][cmd]
    BY SnapshotsTyped DEF GoingBack, Sure
  <2> QED
    BY PlanSuffices
<1> QED
  BY <1>1, <1>2, <1>3, <1>4, <1>5, <1>6, <1>7, <1>8 DEF IInv

\* A command that succeeds changes one part of one recorded service.
LEMMA WriteKeeps ==
  ASSUME NEW s \in Services, IInv, Write(s)
  PROVE IInv'
<1> USE DEF Write, IInv
<1>1. Typed'
  <2>1. svc' \in [Services -> Settings]
    BY WrittenValue DEF Typed
  <2> QED
    BY <2>1 DEF Typed
<1>2. RecordsTrue'
  BY DEF RecordsTrue, Sure
<1>3. MemoryOnDisk'
  BY DEF MemoryOnDisk
<1>4. ChangedIsKept'
  BY DEF ChangedIsKept, Underway, Sure
<1>5. SkippedIsSafe'
  <2> DEFINE v == Written(s, First(todo[s]))
  <2>1. /\ s \in DOMAIN current.rec
        /\ v.auto \in {svc[s].auto, "off", current.rec[s].auto}
        /\ v.list \in ClientLists \cup {svc[s].list, current.rec[s].list}
    BY WrittenValue
  <2> HIDE DEF v
  <2>2. svc' = [svc EXCEPT ![s] = v]
    BY DEF v
  <2>3. current # NoSnap
    BY DEF Underway
  <2> QED
    BY <2>1, <2>2, <2>3, SnapshotsTyped DEF Typed, MemoryOnDisk, SkippedIsSafe
<1>6. ListsKnown'
  BY DEF ListsKnown
<1>7. Underway'
  BY DEF Underway
<1>8. GoingBack'
  <2> SUFFICES ASSUME op # "apply", NEW t \in DOMAIN current.rec, t \in Sure, t \notin bad,
                      NEW cmd \in Commands, cmd \notin todo'[t]
               PROVE svc'[t][cmd] = current.rec[t][cmd]
    BY DEF GoingBack, Sure
  <2>1. CASE t # s
    BY <2>1, SnapshotsTyped DEF Typed, Underway, GoingBack
  <2>2. CASE t = s /\ cmd = First(todo[s])
    BY <2>2, WrittenValue DEF Typed
  <2>3. CASE t = s /\ cmd # First(todo[s])
    <3>1. svc'[t][cmd] = svc[t][cmd] /\ cmd \notin todo[t]
      BY <2>3, WrittenValue DEF Typed
    <3> QED
      BY <2>3, <3>1 DEF Underway, GoingBack
  <2> QED
    BY <2>1, <2>2, <2>3
<1> QED
  BY <1>1, <1>2, <1>3, <1>4, <1>5, <1>6, <1>7, <1>8 DEF IInv

\* One that fails may have changed it too; the service is then noted as failed.
LEMMA WriteFailsKeeps ==
  ASSUME NEW s \in Services, IInv, WriteFails(s)
  PROVE IInv'
<1> USE DEF WriteFails, Fault, IInv
<1>1. Typed'
  <2>1. svc' \in [Services -> Settings]
    BY WrittenValue DEF Typed
  <2>2. todo' \in [Services -> SUBSET Commands]
    BY DEF Typed
  <2>3. faults' \in 0..MaxFaults
    BY DEF Typed
  <2> QED
    BY <2>1, <2>2, <2>3 DEF Typed
<1>2. RecordsTrue'
  BY DEF RecordsTrue, Sure
<1>3. MemoryOnDisk'
  BY DEF MemoryOnDisk
<1>4. ChangedIsKept'
  BY DEF ChangedIsKept, Typed, Underway, Sure
<1>5. SkippedIsSafe'
  <2> DEFINE v == Written(s, First(todo[s]))
  <2>1. /\ s \in DOMAIN current.rec
        /\ v.auto \in {svc[s].auto, "off", current.rec[s].auto}
        /\ v.list \in ClientLists \cup {svc[s].list, current.rec[s].list}
    BY WrittenValue
  <2> HIDE DEF v
  <2>2. svc' = [svc EXCEPT ![s] = v] \/ svc' = svc
    BY DEF v
  <2>3. current # NoSnap
    BY DEF Underway
  <2> QED
    BY <2>1, <2>2, <2>3, SnapshotsTyped DEF Typed, MemoryOnDisk, SkippedIsSafe
<1>6. ListsKnown'
  BY DEF ListsKnown
<1>7. Underway'
  BY DEF Underway
<1>8. GoingBack'
  BY DEF GoingBack, Typed, Sure
<1> QED
  BY <1>1, <1>2, <1>3, <1>4, <1>5, <1>6, <1>7, <1>8 DEF IInv

\* The failed services are to be tried again.
LEMMA RetryBeginKeeps ==
  ASSUME IInv, RetryBegin
  PROVE IInv'
<1> USE DEF RetryBegin, Quiet, IInv
<1>1. Typed'
  BY DEF Typed
<1>2. RecordsTrue'
  BY DEF RecordsTrue, Sure
<1>3. MemoryOnDisk'
  BY DEF MemoryOnDisk
<1>4. ChangedIsKept'
  BY DEF ChangedIsKept, Sure
<1>5. SkippedIsSafe'
  BY DEF SkippedIsSafe
<1>6. ListsKnown'
  BY DEF ListsKnown
<1>7. Underway'
  BY DEF Underway
<1>8. GoingBack'
  BY DEF GoingBack, Sure
<1> QED
  BY <1>1, <1>2, <1>3, <1>4, <1>5, <1>6, <1>7, <1>8 DEF IInv

\* A service that is tried again gets its whole plan.
LEMMA RetryKeeps ==
  ASSUME NEW s \in Services, IInv, Retry(s)
  PROVE IInv'
<1> USE DEF Retry, Quiet, IInv
<1>1. Typed'
  BY PlansAreCommands DEF Typed
<1>2. RecordsTrue'
  BY DEF RecordsTrue, Sure
<1>3. MemoryOnDisk'
  BY DEF MemoryOnDisk
<1>4. ChangedIsKept'
  BY DEF ChangedIsKept, Sure
<1>5. SkippedIsSafe'
  BY DEF SkippedIsSafe
<1>6. ListsKnown'
  BY DEF ListsKnown
<1>7. Underway'
  BY DEF Underway
<1>8. GoingBack'
  <2> SUFFICES ASSUME op # "apply", s \in DOMAIN current.rec, s \in Sure, NEW cmd \in Commands, cmd \notin Plan(s)
               PROVE svc[s][cmd] = current.rec[s][cmd]
    BY SnapshotsTyped DEF Typed, Underway, GoingBack, Sure
  <2>1. PICK list \in {current.list, Unknown} : Plan(s) = RestorePlan(current.rec[s], list)
    BY DEF Plan, Typed
  <2> QED
    BY <2>1, PlanSuffices DEF Underway
<1> QED
  BY <1>1, <1>2, <1>3, <1>4, <1>5, <1>6, <1>7, <1>8 DEF IInv

\* An apply ends with its snapshot kept, or goes back to it.
LEMMA ApplyDoneKeeps ==
  ASSUME IInv, ApplyDone
  PROVE IInv'
<1> USE DEF ApplyDone, IInv
<1>1. current # NoSnap /\ current \in Snapshots /\ bad \subseteq DOMAIN current.rec /\ Quiet /\ again = {}
  BY SnapshotsTyped DEF Done, Underway
<1>2. CASE Finish /\ UNCHANGED <<fileVars, faults>>
  <2> USE <1>1, <1>2 DEF Finish
  <2>1. Typed'
    BY DEF Typed
  <2>2. RecordsTrue' /\ MemoryOnDisk' /\ SkippedIsSafe' /\ ListsKnown'
    BY DEF RecordsTrue, MemoryOnDisk, SkippedIsSafe, ListsKnown, Sure
  <2>3. ChangedIsKept' /\ Underway' /\ GoingBack'
    BY DEF ChangedIsKept, Underway, GoingBack, Sure, Done, Quiet
  <2> QED
    BY <2>1, <2>2, <2>3
<1>3. CASE current' = [current EXCEPT !.list = PartialList] /\ Store(current') /\ Finish
  <2> USE <1>1, <1>3 DEF Finish, PartialList
  <2>1. current' \in Snapshots /\ current' # NoSnap /\ current'.rec = current.rec /\ current'.list = Unknown
    BY SnapshotRelisted
  <2>2. (disk' = current' \/ disk' = disk) /\ faults' \in 0..MaxFaults
    BY DEF Store, Fault, Typed
  <2>3. Typed'
    BY <2>1, <2>2 DEF Typed
  <2>4. RecordsTrue' /\ MemoryOnDisk'
    BY <2>1, <2>2 DEF RecordsTrue, MemoryOnDisk, Sure
  <2>5. SkippedIsSafe' /\ ListsKnown'
    BY <2>1, <2>2 DEF MemoryOnDisk, SkippedIsSafe, ListsKnown
  <2>6. ChangedIsKept' /\ Underway' /\ GoingBack'
    BY <2>1 DEF ChangedIsKept, Underway, GoingBack, Sure, Done, Quiet
  <2> QED
    BY <2>3, <2>4, <2>5, <2>6
<1>4. CASE /\ Begin("rollback", [s \in DOMAIN current.rec |-> RestorePlan(current.rec[s], Unknown)])
           /\ UNCHANGED <<fileVars, fresh, faults>>
  <2> USE <1>1, <1>4 DEF Begin
  <2>1. Typed'
    <3>1. todo' \in [Services -> SUBSET Commands]
      BY PlansAreCommands
    <3> QED
      BY <3>1 DEF Typed
  <2>2. RecordsTrue' /\ MemoryOnDisk' /\ SkippedIsSafe' /\ ListsKnown'
    BY DEF RecordsTrue, MemoryOnDisk, SkippedIsSafe, ListsKnown, Sure
  <2>3. ChangedIsKept' /\ Underway'
    BY DEF ChangedIsKept, Underway, Sure, Done
  <2>4. GoingBack'
    <3> SUFFICES ASSUME NEW s \in DOMAIN current.rec, s \in Sure, NEW cmd \in Commands,
                        cmd \notin RestorePlan(current.rec[s], Unknown)
                 PROVE svc[s][cmd] = current.rec[s][cmd]
      BY SnapshotsTyped DEF GoingBack, Sure
    <3> QED
      BY PlanSuffices
  <2> QED
    BY <2>1, <2>2, <2>3, <2>4
<1> QED
  BY <1>2, <1>3, <1>4

\* A rollback forgets the snapshot: what did not fail is back, the rest is given up.
LEMMA RollbackDoneKeeps ==
  ASSUME IInv, RollbackDone
  PROVE IInv'
<1> USE DEF RollbackDone, Done, Quiet, Finish, Store, Fault, IInv
<1>1. Typed'
  BY DEF Typed
<1>2. RecordsTrue'
  BY DEF RecordsTrue, Sure
<1>3. MemoryOnDisk'
  BY DEF MemoryOnDisk
<1>4. ChangedIsKept'
  <2> SUFFICES ASSUME NEW s \in Sure', svc[s] # user[s] PROVE FALSE
    BY DEF ChangedIsKept
  <2>1. s \in Sure /\ s \notin bad
    BY DEF Sure
  <2>2. s \in DOMAIN current.rec
    BY <2>1 DEF ChangedIsKept, Done
  <2> QED
    BY <2>1, <2>2, GoneBack DEF Done, Quiet
<1>5. SkippedIsSafe'
  BY DEF SkippedIsSafe
<1>6. ListsKnown'
  BY DEF ListsKnown
<1>7. Underway'
  BY DEF Underway
<1>8. GoingBack'
  BY DEF GoingBack
<1> QED
  BY <1>1, <1>2, <1>3, <1>4, <1>5, <1>6, <1>7, <1>8 DEF IInv

\* A restore keeps the snapshot of what did not come back; the file may be left larger.
LEMMA RestoreDoneKeeps ==
  ASSUME IInv, RestoreDone
  PROVE IInv'
<1> USE DEF RestoreDone, Finish, IInv
<1>1. current # NoSnap /\ current \in Snapshots /\ bad \subseteq DOMAIN current.rec /\ Done
  BY SnapshotsTyped DEF Done, Underway
<1>2. /\ current' = NoSnap <=> bad = {}
      /\ current' # NoSnap => /\ current' \in Snapshots /\ current'.list = current.list
                              /\ DOMAIN current'.rec = bad
                              /\ \A s \in bad : current'.rec[s] = current.rec[s]
  <2>1. CASE bad = {}
    BY <2>1 DEF Remaining
  <2>2. CASE bad # {}
    <3> DEFINE kept == [current EXCEPT !.rec = Restrict(@, bad)]
    <3>1. /\ kept \in Snapshots /\ DOMAIN kept.rec = bad /\ kept.list = current.list
          /\ \A s \in bad : kept.rec[s] = current.rec[s]
      BY <1>1, SnapshotRestricted
    <3>2. current' = kept
      BY <2>2 DEF Remaining
    <3> HIDE DEF kept
    <3> QED
      BY <2>2, <3>1, <3>2, SnapshotParts
  <2> QED
    BY <2>1, <2>2
<1>3. (disk' = current' \/ disk' = disk) /\ faults' \in 0..MaxFaults
  BY DEF Store, Fault, Typed
<1>4. Typed'
  BY <1>2, <1>3 DEF Typed
<1>5. RecordsTrue' /\ MemoryOnDisk'
  BY <1>1, <1>2, <1>3 DEF RecordsTrue, MemoryOnDisk, Sure
<1>6. SkippedIsSafe' /\ ListsKnown'
  BY <1>1, <1>2, <1>3 DEF MemoryOnDisk, SkippedIsSafe, ListsKnown
<1>7. ChangedIsKept'
  <2> SUFFICES ASSUME NEW s \in Sure, svc[s] # user[s] PROVE s \in bad
    BY <1>2, SnapshotsTyped DEF ChangedIsKept, Sure
  <2> QED
    BY <1>1, GoneBack DEF ChangedIsKept, Done
<1>8. Underway' /\ GoingBack'
  BY <1>1 DEF Underway, GoingBack, Done, Quiet
<1> QED
  BY <1>4, <1>5, <1>6, <1>7, <1>8

\* What the helper remembered is on disk.
LEMMA CrashKeeps ==
  ASSUME IInv, Crash
  PROVE IInv'
<1> USE DEF Crash, IInv
<1>1. Typed'
  BY DEF Typed
<1>2. RecordsTrue'
  BY DEF RecordsTrue, Sure
<1>3. MemoryOnDisk'
  BY DEF MemoryOnDisk
<1>4. ChangedIsKept'
  BY DEF ChangedIsKept, MemoryOnDisk, Sure
<1>5. SkippedIsSafe'
  BY DEF SkippedIsSafe
<1>6. ListsKnown'
  BY DEF ListsKnown
<1>7. Underway'
  BY DEF Underway
<1>8. GoingBack'
  BY DEF GoingBack
<1> QED
  BY <1>1, <1>2, <1>3, <1>4, <1>5, <1>6, <1>7, <1>8 DEF IInv

\* Recovery plans from the file.
LEMMA RecoverAtStartKeeps ==
  ASSUME IInv, RecoverAtStart
  PROVE IInv'
<1> USE DEF IInv
<1>1. pc = "down" /\ current = NoSnap /\ UNCHANGED <<svc, user, disk, abandoned, countVars>>
  BY DEF RecoverAtStart, Underway
<1>2. CASE ~NeedsRecovery
  <2>1. pc' = "idle" /\ UNCHANGED <<current, op, fresh, todo, again, bad>>
    BY <1>2 DEF RecoverAtStart
  <2>2. Typed'
    BY <1>1, <2>1 DEF Typed
  <2>3. RecordsTrue' /\ MemoryOnDisk' /\ ChangedIsKept' /\ SkippedIsSafe'
    BY <1>1, <1>2, <2>1 DEF NeedsRecovery, RecordsTrue, MemoryOnDisk, ChangedIsKept, SkippedIsSafe, Sure
  <2>4. ListsKnown' /\ Underway' /\ GoingBack'
    BY <1>1, <2>1 DEF ListsKnown, Underway, GoingBack
  <2> QED
    BY <2>2, <2>3, <2>4
<1>3. CASE NeedsRecovery
  <2>1. disk # NoSnap /\ current' = disk /\ Begin("restore", [s \in DOMAIN disk.rec |-> RestorePlan(disk.rec[s], disk.list)])
    BY <1>3 DEF RecoverAtStart, NeedsRecovery
  <2> USE <1>1, <2>1 DEF Begin
  <2>2. Typed'
    <3>1. todo' \in [Services -> SUBSET Commands]
      BY PlansAreCommands
    <3> QED
      BY <3>1 DEF Typed
  <2>3. RecordsTrue' /\ MemoryOnDisk' /\ SkippedIsSafe' /\ ListsKnown'
    BY DEF RecordsTrue, MemoryOnDisk, SkippedIsSafe, ListsKnown, Sure
  <2>4. ChangedIsKept' /\ Underway'
    BY DEF ChangedIsKept, Underway, Sure
  <2>5. GoingBack'
    <3> SUFFICES ASSUME NEW s \in DOMAIN disk.rec, s \in Sure, NEW cmd \in Commands,
                        cmd \notin RestorePlan(disk.rec[s], disk.list)
                 PROVE svc[s][cmd] = disk.rec[s][cmd]
      BY SnapshotsTyped DEF GoingBack, Sure
    <3> QED
      BY PlanSuffices
  <2> QED
    BY <2>2, <2>3, <2>4, <2>5
<1> QED
  BY <1>2, <1>3

\* The user's settings are his own again.
LEMMA UserEditKeeps ==
  ASSUME NEW s \in Services, IInv, UserEdit(s)
  PROVE IInv'
<1> USE DEF UserEdit, IInv
<1>1. Typed'
  BY DEF Typed
<1>2. RecordsTrue'
  BY DEF RecordsTrue
<1>3. MemoryOnDisk'
  BY DEF MemoryOnDisk
<1>4. ChangedIsKept'
  BY DEF ChangedIsKept, Typed, Sure
<1>5. SkippedIsSafe'
  BY DEF SkippedIsSafe
<1>6. ListsKnown'
  BY DEF ListsKnown
<1>7. Underway'
  BY DEF Underway
<1>8. GoingBack'
  BY DEF GoingBack
<1> QED
  BY <1>1, <1>2, <1>3, <1>4, <1>5, <1>6, <1>7, <1>8 DEF IInv

\* Nothing changes.
LEMMA StutterKeeps ==
  ASSUME IInv, UNCHANGED vars
  PROVE IInv'
<1> USE DEF vars, IInv
<1>1. Typed' /\ RecordsTrue' /\ MemoryOnDisk' /\ ChangedIsKept'
  BY DEF Typed, RecordsTrue, MemoryOnDisk, ChangedIsKept, Sure
<1>2. SkippedIsSafe' /\ ListsKnown' /\ Underway' /\ GoingBack'
  BY DEF SkippedIsSafe, ListsKnown, Underway, GoingBack, Sure
<1> QED
  BY <1>1, <1>2

\* Nothing is recorded, and nothing is changed yet.
LEMMA InitHolds == Init => IInv
<1> SUFFICES ASSUME Init PROVE IInv
  OBVIOUS
<1> USE DEF Init, IInv
<1>1. Typed
  <2>1. user \in [Services -> Settings]
    OBVIOUS
  <2> QED
    BY <2>1 DEF Typed
<1>2. RecordsTrue /\ MemoryOnDisk /\ ChangedIsKept /\ SkippedIsSafe
  BY DEF RecordsTrue, MemoryOnDisk, ChangedIsKept, SkippedIsSafe, Sure
<1>3. ListsKnown /\ Underway /\ GoingBack
  BY DEF ListsKnown, Underway, GoingBack
<1> QED
  BY <1>1, <1>2, <1>3

\* Every step keeps the invariant.
LEMMA NextKeeps ==
  ASSUME IInv, [Next]_vars
  PROVE IInv'
<1>1. CASE UNCHANGED vars
  BY <1>1, StutterKeeps
<1>2. CASE Idle
  BY <1>2, StutterKeeps DEF Idle
<1>3. ASSUME NEW s \in Services, Write(s) \/ Retry(s) \/ WriteFails(s) \/ UserEdit(s) PROVE IInv'
  BY <1>3, WriteKeeps, RetryKeeps, WriteFailsKeeps, UserEditKeeps
<1>4. ASSUME NEW list \in ClientLists, ApplyBegin(list) PROVE IInv'
  BY <1>4, ApplyBeginKeeps
<1>5. CASE RetryBegin \/ ApplyDone \/ RollbackDone \/ RestoreDone \/ RecoverAtStart \/ RestoreBegin \/ Crash
  BY <1>5, RetryBeginKeeps, ApplyDoneKeeps, RollbackDoneKeeps, RestoreDoneKeeps, RecoverAtStartKeeps,
     RestoreBeginKeeps, CrashKeeps
<1> QED
  BY <1>1, <1>2, <1>3, <1>4, <1>5 DEF Next, Work

-----------------------------------------------------------------------------
(* The record suffices. *)

\* fresh is set only when an apply begins.
LEMMA FreshIsBoolean ==
  ASSUME fresh \in BOOLEAN, [Next]_vars
  PROVE fresh' \in BOOLEAN
<1>1. fresh' = fresh \/ fresh' = (current = NoSnap)
  BY DEF Next, Work, vars, Idle, ApplyBegin, RestoreBegin, Write, WriteFails, RetryBegin, Retry, ApplyDone, RollbackDone,
     RestoreDone, Crash, RecoverAtStart, UserEdit, Finish
<1> QED
  BY <1>1, Zenon

\* The invariant says what the record must: what is changed is on disk as the user had
\* it, what a recovery skips is restored, and an idle helper without a snapshot is clean.
LEMMA RecordSufficesNow ==
  ASSUME IInv
  PROVE Recoverable /\ RecoverySuffices /\ CleanMeansRestored
<1> USE DEF IInv
<1>1. Recoverable
  BY DEF ChangedIsKept, MemoryOnDisk, RecordsTrue, Recoverable
<1>2. RecoverySuffices
  BY PlanSuffices DEF RecoverySuffices
<1>3. CleanMeansRestored
  BY DEF ChangedIsKept, CleanMeansRestored
<1> QED
  BY <1>1, <1>2, <1>3

\* In every reachable state, so wherever the helper dies, the snapshot file suffices to
\* give the user's settings back (RecordSuffices), for every set of services and of
\* clients' lists and any number of failures, crashes and requests.
THEOREM RecordAlwaysSuffices == Spec => []RecordSuffices
<1>1. Init => IInv /\ fresh \in BOOLEAN
  BY InitHolds, Zenon DEF Init
<1>2. IInv /\ fresh \in BOOLEAN /\ [Next]_vars => (IInv /\ fresh \in BOOLEAN)'
  BY NextKeeps, FreshIsBoolean, Zenon
<1>3. IInv /\ fresh \in BOOLEAN => RecordSuffices
  BY RecordSufficesNow, Zenon DEF IInv, TypeOK, RecordSuffices
<1> QED
  BY <1>1, <1>2, <1>3, PTL DEF Spec
=============================================================================
