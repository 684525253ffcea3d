------------------------ MODULE HelperServer_proofs ------------------------
(* Theorems about HelperServer, for every set of connections and every bound. *)
EXTENDS HelperServer, TLAPS

\* Every step keeps the state in its ranges.
LEMMA StateTyped == TypeState /\ [Next]_vars => TypeState'
<1> SUFFICES ASSUME TypeState, [Next]_vars PROVE TypeState'
  OBVIOUS
<1> USE NamesDistinct, CommandsKnown
        DEF Procs, Holding, Open, Emitting, TypeState, Goto, Notify, OwnerAfterRestore,
            Eof, CurrentGeneration, RouteMayRun, Refusing,
            clientVars, tableVars, doorVars, localVars, runVars
<1>1. ASSUME NEW c \in Conns, Accept(c) PROVE TypeState'
  BY <1>1 DEF Accept
<1>2. ASSUME NEW c \in Conns, Conn(c) PROVE TypeState'
  <2> USE DEF Leave
  <2>1. CASE Hello(c)
    BY <2>1 DEF Hello
  <2>2. CASE ReadFails(c)
    BY <2>2 DEF ReadFails
  <2>3. CASE Reply(c)
    BY <2>3 DEF Reply
  <2>4. CASE Tell(c)
    BY <2>4 DEF Tell
  <2>5. CASE Claim(c)
    BY <2>5 DEF Claim
  <2>6. CASE Start(c)
    BY <2>6 DEF Start
  <2>7. CASE Apply(c)
    BY <2>7 DEF Apply
  <2> QED
    BY <1>2, <2>1, <2>2, <2>3, <2>4, <2>5, <2>6, <2>7 DEF Conn
<1>3. ASSUME NEW c \in Conns, Disconnect(c) PROVE TypeState'
  BY <1>3 DEF Disconnect
<1>4. ASSUME NEW c \in Conns, NEW cmd \in Commands, Request(c, cmd) PROVE TypeState'
  BY <1>4 DEF Request
<1>5. ASSUME NEW p \in Procs, Lock(p) PROVE TypeState'
  <2> USE DEF Lock, Enter, Leave, TakeTun
  <2>1. CASE p \in Conns /\ LockRefused(p)
    BY <1>5, <2>1 DEF LockRefused
  <2>2. CASE p \in Conns /\ LockTunStart(p)
    BY <1>5, <2>2 DEF LockTunStart
  <2>3. CASE p \in Conns /\ LockCommand(p)
    BY <1>5, <2>3 DEF LockCommand
  <2>4. CASE p \in Conns /\ LockRelease(p)
    BY <1>5, <2>4 DEF LockRelease
  <2>5. CASE LockTeardown(p)
    BY <1>5, <2>5 DEF LockTeardown
  <2> QED
    BY <1>5, <2>1, <2>2, <2>3, <2>4, <2>5
<1>6. ASSUME NEW p \in Procs, Section(p) PROVE TypeState'
  <2> USE DEF Leave, Silence
  <2>1. CASE StopCall(p)
    BY <2>1 DEF StopCall
  <2>2. CASE StopDone(p)
    BY <2>2 DEF StopDone
  <2>3. CASE Restore(p)
    BY <2>3 DEF Restore, OwnerAfterRestore
  <2>4. CASE Drop(p)
    BY <2>4 DEF Drop
  <2>5. CASE Exit(p)
    BY <2>5 DEF Exit
  <2> QED
    BY <1>6, <2>1, <2>2, <2>3, <2>4, <2>5 DEF Section
<1>7. CASE Terminate \/ OrphanCheck \/ OrphanRemove
  BY <1>7 DEF Terminate, OrphanCheck, OrphanRemove
<1>8. CASE Runner
  BY <1>8 DEF Runner, RunnerUp, RunnerFails, SendReady, Route, WriteEvent
<1>9. CASE Exited \/ UNCHANGED vars
  BY <1>9 DEF Exited, vars
<1> QED
  BY <1>1, <1>2, <1>3, <1>4, <1>5, <1>6, <1>7, <1>8, <1>9 DEF Next

\* The same for the flags (their proofs are first-order, without data).
LEMMA FlagsTyped == TypeFlags /\ [Next]_vars => TypeFlags'
<1> SUFFICES ASSUME TypeFlags, [Next]_vars PROVE TypeFlags'
  OBVIOUS
<1> USE DEF TypeFlags, Notify, clientVars, tableVars, doorVars, localVars, runVars, Goto
<1>1. ASSUME NEW c \in Conns, Accept(c) PROVE TypeFlags'
  BY <1>1 DEF Accept
<1>2. ASSUME NEW c \in Conns, Conn(c) PROVE TypeFlags'
  <2> USE DEF Leave
  <2>1. CASE Hello(c)
    BY <2>1 DEF Hello
  <2>2. CASE ReadFails(c)
    BY <2>2 DEF ReadFails
  <2>3. CASE Reply(c)
    BY <2>3 DEF Reply
  <2>4. CASE Tell(c)
    BY <2>4 DEF Tell
  <2>5. CASE Claim(c)
    BY <2>5 DEF Claim
  <2>6. CASE Start(c)
    BY <2>6 DEF Start
  <2>7. CASE Apply(c)
    BY <2>7 DEF Apply
  <2> QED
    BY <1>2, <2>1, <2>2, <2>3, <2>4, <2>5, <2>6, <2>7 DEF Conn
<1>3. ASSUME NEW c \in Conns, Disconnect(c) PROVE TypeFlags'
  BY <1>3 DEF Disconnect
<1>4. ASSUME NEW c \in Conns, NEW cmd \in Commands, Request(c, cmd) PROVE TypeFlags'
  BY <1>4 DEF Request
<1>5. ASSUME NEW p \in Procs, Lock(p) PROVE TypeFlags'
  <2> USE DEF Lock, Enter, Leave, TakeTun
  <2>1. CASE p \in Conns /\ LockRefused(p)
    BY <1>5, <2>1 DEF LockRefused
  <2>2. CASE p \in Conns /\ LockTunStart(p)
    BY <1>5, <2>2 DEF LockTunStart
  <2>3. CASE p \in Conns /\ LockCommand(p)
    BY <1>5, <2>3 DEF LockCommand
  <2>4. CASE p \in Conns /\ LockRelease(p)
    BY <1>5, <2>4, Zenon DEF LockRelease, RestoresProxy
  <2>5. CASE LockTeardown(p)
    <3>1. CASE job[p] = "shutdown"
      BY <1>5, <2>5, <3>1, Zenon DEF LockTeardown
    <3>2. CASE job[p] # "shutdown"
      BY <1>5, <2>5, <3>2, Zenon DEF LockTeardown
    <3> QED
      BY <3>1, <3>2
  <2> QED
    BY <1>5, <2>1, <2>2, <2>3, <2>4, <2>5
<1>6. ASSUME NEW p \in Procs, Section(p) PROVE TypeFlags'
  <2> USE DEF Leave, Silence
  <2>1. CASE StopCall(p)
    BY <2>1 DEF StopCall
  <2>2. CASE StopDone(p)
    BY <2>2 DEF StopDone
  <2>3. CASE Restore(p)
    BY <2>3 DEF Restore, OwnerAfterRestore
  <2>4. CASE Drop(p)
    BY <2>4 DEF Drop
  <2>5. CASE Exit(p)
    BY <2>5 DEF Exit
  <2> QED
    BY <1>6, <2>1, <2>2, <2>3, <2>4, <2>5 DEF Section
<1>7. CASE Terminate \/ OrphanCheck \/ OrphanRemove
  BY <1>7 DEF Terminate, OrphanCheck, OrphanRemove
<1>8. CASE Runner
  BY <1>8 DEF Runner, RunnerUp, RunnerFails, SendReady, Route, WriteEvent
<1>9. CASE Exited \/ UNCHANGED vars
  BY <1>9 DEF Exited, vars
<1> QED
  BY <1>1, <1>2, <1>3, <1>4, <1>5, <1>6, <1>7, <1>8, <1>9 DEF Next

\* The type invariant of the helper: all its variables stay in their ranges.
THEOREM TypeCorrect == Spec => []TypeOK
<1>1. Init => TypeState
  BY DEF Init, TypeState, Procs
<1>2. Init => TypeFlags
  BY Zenon DEF Init, TypeFlags
<1> QED
  BY <1>1, <1>2, StateTyped, FlagsTyped, PTL DEF Spec, TypeOK

-----------------------------------------------------------------------------
(* The dead-man switch for Tun.  TunHasLiveOwner speaks of the states in which
   Server.mu is free; it is inductive only with what holds inside the sections:
   who holds the lock, where a running instance may be without an owner (between
   the loss of the ownership and Stop), and when an event of the old instance may
   still be on its way to route. *)

\* A goroutine is inside a section exactly when it holds Server.mu.
Mutex == \A p \in Procs : pc[p] \in Holding <=> mu = p

\* Places of a section belong to the commands that reach them, commands and
\* releases to connections, and Shutdown to the two goroutines that end the helper.
PlaceJobs ==
  /\ \A c \in Conns : /\ pc[c] \in {"tell", "claim", "start"} => job[c] = "tun_start"
                      /\ pc[c] = "apply" => job[c] = "apply"
                      /\ job[c] # "shutdown"
  /\ \A p \in {Sig, Self} : /\ job[p] \in {"none", "shutdown"}
                            /\ pc[p] \notin {"tell", "claim", "start", "apply"}

\* An instance without an owner is about to be stopped by the holder of the lock.
Unowned == active /\ tunOwner = None => mu # None /\ pc[mu] = "stop"

\* Past Stop, and until Start, nothing is up or coming up.
Stopped == mu # None /\ pc[mu] \in {"wait", "tell", "claim", "start"} => ~active

\* The instance that Start will bring up has its owner already, and no older
\* instance can take it away: no tun_stopped is on its way to route.
Claimed == /\ mu # None /\ pc[mu] = "start" => tunOwner = mu
           /\ mu # None /\ pc[mu] \in {"tell", "claim", "start"} => go # "fail_route"

\* The start goroutine agrees with the runner's flag.
RunnerAgrees == /\ go = "starting" => active
                /\ go = "fail_route" => ~active
                /\ go = "fail_route" /\ tunOwner = None =>
                     mu # None /\ pc[mu] \in {"stop", "wait"}

\* An owner's connection is not released, and a release has given up what it owned.
OwnerOpen == /\ helper = "running" /\ tunOwner # None => pc[tunOwner] \in Open
             /\ \A c \in Conns : pc[c] \in Holding /\ job[c] = "release" => tunOwner # c

Ended == helper = "exited" => ~active /\ \A p \in Procs : pc[p] = "gone"

TunInv == /\ Mutex /\ PlaceJobs /\ Unowned /\ Stopped /\ Claimed
          /\ RunnerAgrees /\ OwnerOpen /\ Ended

LEMMA TunInvStep == TypeState /\ TunInv /\ [Next]_vars => TunInv'
<1> SUFFICES ASSUME TypeState, TunInv, [Next]_vars PROVE TunInv'
  OBVIOUS
<1> USE NamesDistinct, CommandsKnown
        DEF Procs, Holding, Open, Emitting, TypeState, Goto, Notify, OwnerAfterRestore,
            Eof, CurrentGeneration, RouteMayRun, Refusing,
            clientVars, tableVars, doorVars, localVars, runVars,
            TunInv, Mutex, PlaceJobs, Unowned, Stopped, Claimed, RunnerAgrees,
            OwnerOpen, Ended
<1>1. ASSUME NEW c \in Conns, Accept(c) PROVE TunInv'
  BY <1>1 DEF Accept
<1>2. ASSUME NEW c \in Conns, Conn(c) PROVE TunInv'
  <2> USE DEF Leave
  <2>1. CASE Hello(c)
    BY <2>1 DEF Hello
  <2>2. CASE ReadFails(c)
    BY <2>2 DEF ReadFails
  <2>3. CASE Reply(c)
    BY <2>3 DEF Reply
  <2>4. CASE Tell(c)
    BY <2>4 DEF Tell
  <2>5. CASE Claim(c)
    BY <2>5 DEF Claim
  <2>6. CASE Start(c)
    BY <2>6 DEF Start
  <2>7. CASE Apply(c)
    BY <2>7 DEF Apply
  <2> QED
    BY <1>2, <2>1, <2>2, <2>3, <2>4, <2>5, <2>6, <2>7 DEF Conn
<1>3. ASSUME NEW c \in Conns, Disconnect(c) PROVE TunInv'
  BY <1>3 DEF Disconnect
<1>4. ASSUME NEW c \in Conns, NEW cmd \in Commands, Request(c, cmd) PROVE TunInv'
  BY <1>4 DEF Request
<1>5. ASSUME NEW p \in Procs, Lock(p) PROVE TunInv'
  <2> USE DEF Lock, Enter, Leave, TakeTun
  <2>1. CASE p \in Conns /\ LockRefused(p)
    BY <1>5, <2>1 DEF LockRefused
  <2>2. CASE p \in Conns /\ LockTunStart(p)
    BY <1>5, <2>2 DEF LockTunStart
  <2>3. CASE p \in Conns /\ LockCommand(p)
    BY <1>5, <2>3 DEF LockCommand
  <2>4. CASE p \in Conns /\ LockRelease(p)
    BY <1>5, <2>4 DEF LockRelease, StopsTun, RestoresProxy
  <2>5. CASE LockTeardown(p)
    BY <1>5, <2>5 DEF LockTeardown
  <2> QED
    BY <1>5, <2>1, <2>2, <2>3, <2>4, <2>5
<1>6. ASSUME NEW p \in Procs, Section(p) PROVE TunInv'
  <2> USE DEF Leave, Silence
  <2>1. CASE StopCall(p)
    BY <2>1 DEF StopCall
  <2>2. CASE StopDone(p)
    BY <2>2 DEF StopDone
  <2>3. CASE Restore(p)
    BY <2>3 DEF Restore, OwnerAfterRestore
  <2>4. CASE Drop(p)
    BY <2>4 DEF Drop
  <2>5. CASE Exit(p)
    BY <2>5 DEF Exit
  <2> QED
    BY <1>6, <2>1, <2>2, <2>3, <2>4, <2>5 DEF Section
<1>7. CASE Terminate \/ OrphanCheck \/ OrphanRemove
  BY <1>7 DEF Terminate, OrphanCheck, OrphanRemove
<1>8. CASE Runner
  <2>1. CASE RunnerUp
    BY <2>1 DEF RunnerUp
  <2>2. CASE RunnerFails
    BY <2>2 DEF RunnerFails
  <2>3. CASE SendReady
    BY <2>3 DEF SendReady
  <2>4. CASE Route
    BY <2>4 DEF Route
  <2>5. CASE WriteEvent
    BY <2>5 DEF WriteEvent
  <2> QED
    BY <1>8, <2>1, <2>2, <2>3, <2>4, <2>5 DEF Runner
<1>9. CASE Exited \/ UNCHANGED vars
  BY <1>9 DEF Exited, vars
<1> QED
  BY <1>1, <1>2, <1>3, <1>4, <1>5, <1>6, <1>7, <1>8, <1>9 DEF Next

\* The dead-man switch for Tun holds for every number of connections: whenever no
\* section is running, an instance that is up has an owner still to be released.
THEOREM TunAlwaysOwned == Spec => []TunHasLiveOwner
<1>1. Init => TypeState /\ TunInv
  BY NamesDistinct DEF Init, TypeState, TunInv, Procs, Holding, Mutex, PlaceJobs, Unowned,
         Stopped, Claimed, RunnerAgrees, OwnerOpen, Ended
<1>2. TypeState /\ TunInv => TunHasLiveOwner
  BY DEF TypeState, TunInv, Unowned, OwnerOpen, Ended, TunHasLiveOwner
<1> QED
  BY <1>1, <1>2, StateTyped, TunInvStep, PTL DEF Spec

-----------------------------------------------------------------------------
(* Shutdown is final: what must be known of the sections to see that no start and
   no apply can slip in behind the teardown. *)

ShutInv ==
  /\ \A p \in {Sig, Self} :
       /\ pc[p] \in Holding \cup {"drop", "gone"} => down \/ helper = "exited"
       /\ pc[p] \in {"stop", "wait", "restore", "drop", "gone"} => tunOwner = None
       /\ pc[p] \in {"restore", "drop", "gone"} => ~active
       /\ pc[p] \in {"drop", "gone"} => (applied => RestoreMayFail)
  \* A start or an apply under way has seen Server.down false.
  /\ \A c \in Conns :
       \/ pc[c] \in {"tell", "claim", "start", "apply"}
       \/ pc[c] \in {"stop", "wait"} /\ job[c] = "tun_start"
       => ~down

LEMMA ShutInvStep == TypeState /\ TunInv /\ ShutInv /\ [Next]_vars => ShutInv'
<1> SUFFICES ASSUME TypeState, TunInv, ShutInv, [Next]_vars PROVE ShutInv'
  OBVIOUS
<1> USE NamesDistinct, CommandsKnown
        DEF Procs, Holding, Open, Emitting, TypeState, Goto, Notify, OwnerAfterRestore,
            Eof, CurrentGeneration, RouteMayRun, Refusing,
            clientVars, tableVars, doorVars, localVars, runVars,
            TunInv, Mutex, PlaceJobs, Stopped, RunnerAgrees, Ended, ShutInv
<1>1. ASSUME NEW c \in Conns, Accept(c) PROVE ShutInv'
  BY <1>1 DEF Accept
<1>2. ASSUME NEW c \in Conns, Conn(c) PROVE ShutInv'
  <2> USE DEF Leave
  <2>1. CASE Hello(c)
    BY <2>1 DEF Hello
  <2>2. CASE ReadFails(c)
    BY <2>2 DEF ReadFails
  <2>3. CASE Reply(c)
    BY <2>3 DEF Reply
  <2>4. CASE Tell(c)
    BY <2>4 DEF Tell
  <2>5. CASE Claim(c)
    BY <2>5 DEF Claim
  <2>6. CASE Start(c)
    BY <2>6 DEF Start
  <2>7. CASE Apply(c)
    BY <2>7 DEF Apply
  <2> QED
    BY <1>2, <2>1, <2>2, <2>3, <2>4, <2>5, <2>6, <2>7 DEF Conn
<1>3. ASSUME NEW c \in Conns, Disconnect(c) PROVE ShutInv'
  BY <1>3 DEF Disconnect
<1>4. ASSUME NEW c \in Conns, NEW cmd \in Commands, Request(c, cmd) PROVE ShutInv'
  BY <1>4 DEF Request
<1>5. ASSUME NEW p \in Procs, Lock(p) PROVE ShutInv'
  <2> USE DEF Lock, Refusing, Enter, Leave, TakeTun
  <2>1. CASE p \in Conns /\ LockRefused(p)
    BY <1>5, <2>1 DEF LockRefused
  <2>2. CASE p \in Conns /\ LockTunStart(p)
    BY <1>5, <2>2 DEF LockTunStart
  <2>3. CASE p \in Conns /\ LockCommand(p)
    BY <1>5, <2>3 DEF LockCommand
  <2>4. CASE p \in Conns /\ LockRelease(p)
    BY <1>5, <2>4 DEF LockRelease, StopsTun, RestoresProxy
  <2>5. CASE LockTeardown(p)
    BY <1>5, <2>5 DEF LockTeardown
  <2> QED
    BY <1>5, <2>1, <2>2, <2>3, <2>4, <2>5
<1>6. ASSUME NEW p \in Procs, Section(p) PROVE ShutInv'
  <2> USE DEF Leave, Silence
  <2>1. CASE StopCall(p)
    BY <2>1 DEF StopCall
  <2>2. CASE StopDone(p)
    BY <2>2 DEF StopDone
  <2>3. CASE Restore(p)
    <3>1. applied' => RestoreMayFail
      BY <2>3, Zenon DEF Restore, OwnerAfterRestore
    <3>2. /\ pc[p] = "restore" /\ mu = p
          /\ pc' = [pc EXCEPT ![p] = CASE job[p] = "release"  -> "gone"
                                       [] job[p] = "shutdown" -> "drop"
                                       [] OTHER               -> "reply"]
          /\ UNCHANGED <<job, tunOwner, active, helper>>
      BY <2>3 DEF Restore, OwnerAfterRestore
    <3>3. down => down'
      BY <2>3 DEF Restore, OwnerAfterRestore
    <3>4. \A c \in Conns : pc'[c] \notin {"stop", "wait", "tell", "claim", "start", "apply"}
      BY <3>2
    <3>5. \A q \in {Sig, Self} :
            /\ pc'[q] \in Holding \cup {"drop", "gone"} =>
                 pc[q] \in {"restore", "drop", "gone"}
            /\ pc'[q] \in {"stop", "wait", "restore", "drop", "gone"} =>
                 pc[q] \in {"restore", "drop", "gone"}
      BY <3>2
    <3> QED
      BY <3>1, <3>2, <3>3, <3>4, <3>5
  <2>4. CASE Drop(p)
    BY <2>4 DEF Drop
  <2>5. CASE Exit(p)
    BY <2>5 DEF Exit
  <2> QED
    BY <1>6, <2>1, <2>2, <2>3, <2>4, <2>5 DEF Section
<1>7. CASE Terminate \/ OrphanCheck \/ OrphanRemove
  BY <1>7 DEF Terminate, OrphanCheck, OrphanRemove
<1>8. CASE Runner
  <2>1. CASE RunnerUp
    BY <2>1 DEF RunnerUp
  <2>2. CASE RunnerFails
    BY <2>2 DEF RunnerFails
  <2>3. CASE SendReady
    BY <2>3 DEF SendReady
  <2>4. CASE Route
    BY <2>4 DEF Route
  <2>5. CASE WriteEvent
    BY <2>5 DEF WriteEvent
  <2> QED
    BY <1>8, <2>1, <2>2, <2>3, <2>4, <2>5 DEF Runner
<1>9. CASE Exited \/ UNCHANGED vars
  BY <1>9 DEF Exited, vars
<1> QED
  BY <1>1, <1>2, <1>3, <1>4, <1>5, <1>6, <1>7, <1>8, <1>9 DEF Next

\* Once Shutdown has torn down, Tun stays down and unowned, and the proxy is
\* restored unless networksetup failed, whatever open sessions still ask for.
THEOREM ShutdownStaysFinal == Spec => []ShutdownIsFinal
<1>1. Init => TypeState /\ TunInv /\ ShutInv
  BY NamesDistinct DEF Init, TypeState, TunInv, Procs, Holding, Mutex, PlaceJobs, Unowned,
         Stopped, Claimed, RunnerAgrees, OwnerOpen, Ended, ShutInv
<1>2. ShutInv => ShutdownIsFinal
  BY DEF ShutInv, ShutdownIsFinal
<1> QED
  BY <1>1, <1>2, StateTyped, TunInvStep, ShutInvStep, PTL DEF Spec

-----------------------------------------------------------------------------
(* The lease table: what applied settings and a client's belief in its Tun rest on
   inside the sections, and while an event is on its way. *)

\* A connection has a job from a request to its reply, and for its release; a start has
\* taken the Tun until it claims it; nothing was ever said to a connection that is new.
Served ==
  /\ \A c \in Conns : pc[c] \in {"new", "hello", "ready"} => job[c] = "none"
  /\ \A c \in Conns : pc[c] = "reply" => job[c] # "release"
  /\ \A p \in {Sig, Self} : pc[p] # "ready"
  /\ \A c \in Conns : pc[c] \in {"stop", "wait", "tell", "claim"} /\ job[c] = "tun_start" => tunOwner = None
  /\ \A c \in Conns : pc[c] = "new" => bel[c] = "no" /\ (go = "none" \/ inst.lease # c)

\* Applied settings without an owner are about to be restored by the release that gave
\* them up; an owner's connection is not released.
ProxyKept ==
  /\ helper = "running" /\ applied /\ ~stray /\ proxyOwner = None =>
       /\ mu # None /\ job[mu] = "release"
       /\ pc[mu] = "restore" \/ (pc[mu] \in {"stop", "wait"} /\ owes)
  /\ helper = "running" /\ proxyOwner # None => pc[proxyOwner] \in Open
  /\ \A c \in Conns : pc[c] \in Holding /\ job[c] = "release" => proxyOwner # c

\* An instance belongs to the owner of the Tun, also while that owner's release stops it.
InstanceOfOwner ==
  /\ active /\ tunOwner # None => inst.lease = tunOwner
  /\ ReleaseStopsOwnTun

\* Stop leaves no event of an older instance behind but the one it waits for.
EventsOfCurrent ==
  /\ go = "readying" => active
  /\ go \in {"ready_route", "ready_write"} /\ ~active => mu # None /\ pc[mu] = "wait"
  /\ go \in {"starting", "readying", "ready_route"} /\ CurrentGeneration => tunOwner = inst.lease
  /\ inst.gen <= tunGen
  /\ go # "none" => inst.lease \in Conns

\* The holder of the lock has taken the Tun from c, and will tell it or note its silence.
Superseding(c) ==
  /\ mu # None /\ prev = c
  /\ \/ job[mu] = "tun_start" /\ pc[mu] \in {"stop", "wait", "tell"}
     \/ job[mu] = "uninstall" /\ pc[mu] \in {"stop", "wait"}

\* The answer that c waits for says that it has no Tun.
Answering(c) ==
  \/ job[c] = "tun_start" /\ pc[c] \in {"lock", "stop", "wait", "tell", "claim", "start"}
  \/ pc[c] = "reply" /\ <<job[c], answer[c]>> \in {<<"tun_start", "error">>, <<"tun_stop", "ok">>}

Listening(c) == ~tableDown /\ c \in up /\ job[c] # "release"

\* A tun_ready that is being written goes to the owner, or to one that will be told after it.
ReadyIsTrue == go = "ready_write" /\ Listening(inst.lease) => tunOwner = inst.lease \/ Superseding(inst.lease)

\* A client that believes in its Tun owns it, or will hear that it is over, or is silenced.
Told == \A c \in Conns : Listening(c) /\ bel[c] # "no" =>
          \/ tunOwner = c \/ c \in silenced
          \/ go = "fail_write" /\ inst.lease = c
          \/ Answering(c) \/ Superseding(c)

LeaseInv == Served /\ ProxyKept /\ InstanceOfOwner /\ EventsOfCurrent /\ ReadyIsTrue /\ Told

\* The sections, and the instance they stop or start.
LEMMA SectionsStep == TypeState /\ TunInv /\ Served /\ InstanceOfOwner /\ EventsOfCurrent /\ [Next]_vars => (Served /\ InstanceOfOwner /\ EventsOfCurrent)'
<1> SUFFICES ASSUME TypeState, TunInv, Served, InstanceOfOwner, EventsOfCurrent, [Next]_vars PROVE (Served /\ InstanceOfOwner /\ EventsOfCurrent)'
  OBVIOUS
<1> USE NamesDistinct, CommandsKnown
        DEF Procs, Holding, Open, Emitting, TypeState, Goto, Notify, OwnerAfterRestore,
            Eof, CurrentGeneration, RouteMayRun, Refusing,
            clientVars, tableVars, doorVars, localVars, runVars,
            TunInv, Mutex, PlaceJobs, Unowned, Stopped, Claimed, RunnerAgrees, OwnerOpen, Ended, Served,
            InstanceOfOwner, EventsOfCurrent, ReleaseStopsOwnTun
<1>1. ASSUME NEW c \in Conns, Accept(c) PROVE (Served /\ InstanceOfOwner /\ EventsOfCurrent)'
  BY <1>1 DEF Accept
<1>2. ASSUME NEW c \in Conns, Conn(c) PROVE (Served /\ InstanceOfOwner /\ EventsOfCurrent)'
  <2> USE DEF Leave
  <2>1. CASE Hello(c)
    BY <2>1 DEF Hello
  <2>2. CASE ReadFails(c)
    BY <2>2 DEF ReadFails
  <2>3. CASE Reply(c)
    BY <2>3 DEF Reply
  <2>4. CASE Tell(c)
    BY <2>4 DEF Tell
  <2>5. CASE Claim(c)
    BY <2>5 DEF Claim
  <2>6. CASE Start(c)
    BY <2>6 DEF Start
  <2>7. CASE Apply(c)
    BY <2>7 DEF Apply
  <2> QED
    BY <1>2, <2>1, <2>2, <2>3, <2>4, <2>5, <2>6, <2>7 DEF Conn
<1>3. ASSUME NEW c \in Conns, Disconnect(c) PROVE (Served /\ InstanceOfOwner /\ EventsOfCurrent)'
  BY <1>3 DEF Disconnect
<1>4. ASSUME NEW c \in Conns, NEW cmd \in Commands, Request(c, cmd) PROVE (Served /\ InstanceOfOwner /\ EventsOfCurrent)'
  BY <1>4 DEF Request
<1>5. ASSUME NEW p \in Procs, Lock(p) PROVE (Served /\ InstanceOfOwner /\ EventsOfCurrent)'
  <2> USE DEF Lock, Enter, Leave, TakeTun
  <2>1. CASE p \in Conns /\ LockRefused(p)
    BY <1>5, <2>1 DEF LockRefused
  <2>2. CASE p \in Conns /\ LockTunStart(p)
    BY <1>5, <2>2 DEF LockTunStart
  <2>3. CASE p \in Conns /\ LockCommand(p)
    BY <1>5, <2>3 DEF LockCommand
  <2>4. CASE p \in Conns /\ LockRelease(p)
    BY <1>5, <2>4 DEF LockRelease, StopsTun, RestoresProxy
  <2>5. CASE LockTeardown(p)
    BY <1>5, <2>5 DEF LockTeardown
  <2> QED
    BY <1>5, <2>1, <2>2, <2>3, <2>4, <2>5
<1>6. ASSUME NEW p \in Procs, Section(p) PROVE (Served /\ InstanceOfOwner /\ EventsOfCurrent)'
  <2> USE DEF Leave, Silence
  <2>1. CASE StopCall(p)
    BY <2>1 DEF StopCall
  <2>2. CASE StopDone(p)
    BY <2>2 DEF StopDone
  <2>3. CASE Restore(p)
    BY <2>3 DEF Restore, OwnerAfterRestore
  <2>4. CASE Drop(p)
    BY <2>4 DEF Drop
  <2>5. CASE Exit(p)
    BY <2>5 DEF Exit
  <2> QED
    BY <1>6, <2>1, <2>2, <2>3, <2>4, <2>5 DEF Section
<1>7. CASE Terminate \/ OrphanCheck \/ OrphanRemove
  BY <1>7 DEF Terminate, OrphanCheck, OrphanRemove
<1>8. CASE Runner
  <2>1. CASE RunnerUp
    BY <2>1 DEF RunnerUp
  <2>2. CASE RunnerFails
    BY <2>2 DEF RunnerFails
  <2>3. CASE SendReady
    BY <2>3 DEF SendReady
  <2>4. CASE Route
    BY <2>4 DEF Route
  <2>5. CASE WriteEvent
    BY <2>5 DEF WriteEvent
  <2> QED
    BY <1>8, <2>1, <2>2, <2>3, <2>4, <2>5 DEF Runner
<1>9. CASE Exited \/ UNCHANGED vars
  BY <1>9 DEF Exited, vars
<1> QED
  BY <1>1, <1>2, <1>3, <1>4, <1>5, <1>6, <1>7, <1>8, <1>9 DEF Next

\* The proxy: a release gives it up and restores it in one section.
LEMMA ProxyKeptStep == TypeState /\ TunInv /\ ProxyKept /\ [Next]_vars => ProxyKept'
<1> SUFFICES ASSUME TypeState, TunInv, ProxyKept, [Next]_vars PROVE ProxyKept'
  OBVIOUS
<1> USE NamesDistinct, CommandsKnown
        DEF Procs, Holding, Open, Emitting, TypeState, Goto, Notify, OwnerAfterRestore,
            Eof, CurrentGeneration, RouteMayRun, Refusing,
            clientVars, tableVars, doorVars, localVars, runVars,
            TunInv, Mutex, PlaceJobs, Ended, ProxyKept
<1>1. ASSUME NEW c \in Conns, Accept(c) PROVE ProxyKept'
  BY <1>1 DEF Accept
<1>2. ASSUME NEW c \in Conns, Conn(c) PROVE ProxyKept'
  <2> USE DEF Leave
  <2>1. CASE Hello(c)
    BY <2>1 DEF Hello
  <2>2. CASE ReadFails(c)
    BY <2>2 DEF ReadFails
  <2>3. CASE Reply(c)
    BY <2>3 DEF Reply
  <2>4. CASE Tell(c)
    BY <2>4 DEF Tell
  <2>5. CASE Claim(c)
    BY <2>5 DEF Claim
  <2>6. CASE Start(c)
    BY <2>6 DEF Start
  <2>7. CASE Apply(c)
    BY <2>7 DEF Apply
  <2> QED
    BY <1>2, <2>1, <2>2, <2>3, <2>4, <2>5, <2>6, <2>7 DEF Conn
<1>3. ASSUME NEW c \in Conns, Disconnect(c) PROVE ProxyKept'
  BY <1>3 DEF Disconnect
<1>4. ASSUME NEW c \in Conns, NEW cmd \in Commands, Request(c, cmd) PROVE ProxyKept'
  BY <1>4 DEF Request
<1>5. ASSUME NEW p \in Procs, Lock(p) PROVE ProxyKept'
  <2> USE DEF Lock, Enter, Leave, TakeTun
  <2>1. CASE p \in Conns /\ LockRefused(p)
    BY <1>5, <2>1 DEF LockRefused
  <2>2. CASE p \in Conns /\ LockTunStart(p)
    BY <1>5, <2>2 DEF LockTunStart
  <2>3. CASE p \in Conns /\ LockCommand(p)
    BY <1>5, <2>3 DEF LockCommand
  <2>4. CASE p \in Conns /\ LockRelease(p)
    <3>1. CASE proxyOwner = p
      <4>1. owes' = TRUE /\ proxyOwner' = None /\ mu' = p /\ pc' \in {[pc EXCEPT ![p] = "stop"], [pc EXCEPT ![p] = "restore"]}
        BY <2>4, <3>1 DEF LockRelease, StopsTun, RestoresProxy
      <4> QED
        BY <1>5, <2>4, <3>1, <4>1 DEF LockRelease
    <3>2. CASE proxyOwner # p
      <4>1. /\ proxyOwner' = proxyOwner
            /\ pc' \in {[pc EXCEPT ![p] = "stop"], [pc EXCEPT ![p] = "gone"]}
            /\ mu' = p \/ mu' = None
        BY <2>4, <3>2 DEF LockRelease, StopsTun, RestoresProxy
      <4> QED
        BY <1>5, <2>4, <3>2, <4>1 DEF LockRelease
    <3> QED
      BY <3>1, <3>2
  <2>5. CASE LockTeardown(p)
    BY <1>5, <2>5 DEF LockTeardown
  <2> QED
    BY <1>5, <2>1, <2>2, <2>3, <2>4, <2>5
<1>6. ASSUME NEW p \in Procs, Section(p) PROVE ProxyKept'
  <2> USE DEF Leave, Silence
  <2>1. CASE StopCall(p)
    BY <2>1 DEF StopCall
  <2>2. CASE StopDone(p)
    BY <2>2 DEF StopDone
  <2>3. CASE Restore(p)
    <3>1. /\ pc[p] = "restore" /\ mu = p /\ mu' = None /\ UNCHANGED <<job, helper>>
          /\ pc' = [pc EXCEPT ![p] = CASE job[p] = "release"  -> "gone"
                                       [] job[p] = "shutdown" -> "drop"
                                       [] OTHER               -> "reply"]
      BY <2>3 DEF Restore
    <3>2. PICK left \in BOOLEAN, uncleared \in BOOLEAN :
             /\ applied' = left /\ stray' = (left /\ (stray \/ job[p] = "release"))
             /\ proxyOwner' = OwnerAfterRestore(p, left \/ uncleared) /\ (left => applied)
      BY <2>3, Zenon DEF Restore
    <3>3. CASE left
      <4>1. proxyOwner' = proxyOwner /\ applied /\ (stray \/ job[p] = "release" => stray')
        BY <3>2, <3>3, Zenon DEF OwnerAfterRestore
      <4> QED
        BY <3>1, <4>1
    <3>4. CASE ~left
      <4>1. ~applied' /\ (proxyOwner' = None \/ proxyOwner' = proxyOwner)
        BY <3>2, <3>4, Zenon DEF OwnerAfterRestore
      <4> QED
        BY <3>1, <4>1
    <3> QED
      BY <3>3, <3>4
  <2>4. CASE Drop(p)
    BY <2>4 DEF Drop
  <2>5. CASE Exit(p)
    BY <2>5 DEF Exit
  <2> QED
    BY <1>6, <2>1, <2>2, <2>3, <2>4, <2>5 DEF Section
<1>7. CASE Terminate \/ OrphanCheck \/ OrphanRemove
  BY <1>7 DEF Terminate, OrphanCheck, OrphanRemove
<1>8. CASE Runner
  <2>1. CASE RunnerUp
    BY <2>1 DEF RunnerUp
  <2>2. CASE RunnerFails
    BY <2>2 DEF RunnerFails
  <2>3. CASE SendReady
    BY <2>3 DEF SendReady
  <2>4. CASE Route
    BY <2>4 DEF Route
  <2>5. CASE WriteEvent
    BY <2>5 DEF WriteEvent
  <2> QED
    BY <1>8, <2>1, <2>2, <2>3, <2>4, <2>5 DEF Runner
<1>9. CASE Exited \/ UNCHANGED vars
  BY <1>9 DEF Exited, vars
<1> QED
  BY <1>1, <1>2, <1>3, <1>4, <1>5, <1>6, <1>7, <1>8, <1>9 DEF Next

\* The events and answers that end what a client believes.
LEMMA ToldStep == TypeState /\ TunInv /\ Served /\ EventsOfCurrent /\ ReadyIsTrue /\ Told /\ [Next]_vars => (ReadyIsTrue /\ Told)'
<1> SUFFICES ASSUME TypeState, TunInv, Served, EventsOfCurrent, ReadyIsTrue, Told, [Next]_vars PROVE (ReadyIsTrue /\ Told)'
  OBVIOUS
<1> USE NamesDistinct, CommandsKnown
        DEF Procs, Holding, Open, Emitting, TypeState, Goto, Notify, OwnerAfterRestore,
            Eof, CurrentGeneration, RouteMayRun, Refusing,
            clientVars, tableVars, doorVars, localVars, runVars,
            TunInv, Mutex, PlaceJobs, Unowned, Stopped, Claimed, RunnerAgrees, OwnerOpen, Ended,
            Served, EventsOfCurrent, ReadyIsTrue, Superseding, Listening, Told, Answering
<1>1. ASSUME NEW c \in Conns, Accept(c) PROVE (ReadyIsTrue /\ Told)'
  BY <1>1 DEF Accept
<1>2. ASSUME NEW c \in Conns, Conn(c) PROVE (ReadyIsTrue /\ Told)'
  <2> USE DEF Leave
  <2>1. CASE Hello(c)
    BY <2>1 DEF Hello
  <2>2. CASE ReadFails(c)
    BY <2>2 DEF ReadFails
  <2>3. CASE Reply(c)
    <3>1. /\ pc[c] = "reply" /\ mu # c
          /\ pc'[c] \in {"lock", "ready"} /\ job'[c] \in {"release", "none"}
          /\ pc'[c] = "ready" => job'[c] = "none"
      BY <2>3 DEF Reply
    <3>2. \A d \in Conns : d # c => pc'[d] = pc[d] /\ job'[d] = job[d] /\ bel'[d] = bel[d]
      BY <2>3 DEF Reply
    <3>3. mu # None => pc'[mu] = pc[mu] /\ job'[mu] = job[mu]
      BY <2>3 DEF Reply
    <3>4. /\ UNCHANGED <<answer, mu, prev, up, tunOwner, tableDown, silenced, go, inst, tunGen>>
          /\ bel'[c] # "no" => bel[c] # "no" /\ (c \in up => ~Answering(c))
      BY <2>3 DEF Reply, Answering
    <3>5. \A d \in Conns : Superseding(d) <=> Superseding(d)'
      BY <3>3, <3>4 DEF Superseding
    <3>6. \A d \in Conns : Listening(d)' => Listening(d)
      BY <3>1, <3>2, <3>4 DEF Listening
    <3>7. /\ bel'[c] # "no" /\ Listening(c)' => bel[c] # "no" /\ ~Answering(c)
          /\ \A d \in Conns : d # c => (Answering(d) <=> Answering(d)')
      BY <3>2, <3>4 DEF Answering, Listening
    <3> HIDE DEF Superseding, Listening, Answering
    <3> QED
      BY <3>2, <3>4, <3>5, <3>6, <3>7
  <2>4. CASE Tell(c)
    BY <2>4 DEF Tell
  <2>5. CASE Claim(c)
    BY <2>5 DEF Claim
  <2>6. CASE Start(c)
    BY <2>6 DEF Start
  <2>7. CASE Apply(c)
    BY <2>7 DEF Apply
  <2> QED
    BY <1>2, <2>1, <2>2, <2>3, <2>4, <2>5, <2>6, <2>7 DEF Conn
<1>3. ASSUME NEW c \in Conns, Disconnect(c) PROVE (ReadyIsTrue /\ Told)'
  BY <1>3 DEF Disconnect
<1>4. ASSUME NEW c \in Conns, NEW cmd \in Commands, Request(c, cmd) PROVE (ReadyIsTrue /\ Told)'
  BY <1>4 DEF Request
<1>5. ASSUME NEW p \in Procs, Lock(p) PROVE (ReadyIsTrue /\ Told)'
  <2> USE DEF Lock, Enter, Leave, TakeTun
  <2>1. CASE p \in Conns /\ LockRefused(p)
    BY <1>5, <2>1 DEF LockRefused
  <2>2. CASE p \in Conns /\ LockTunStart(p)
    BY <1>5, <2>2 DEF LockTunStart
  <2>3. CASE p \in Conns /\ LockCommand(p)
    BY <1>5, <2>3 DEF LockCommand
  <2>4. CASE p \in Conns /\ LockRelease(p)
    BY <1>5, <2>4 DEF LockRelease, StopsTun, RestoresProxy
  <2>5. CASE LockTeardown(p)
    BY <1>5, <2>5 DEF LockTeardown
  <2> QED
    BY <1>5, <2>1, <2>2, <2>3, <2>4, <2>5
<1>6. ASSUME NEW p \in Procs, Section(p) PROVE (ReadyIsTrue /\ Told)'
  <2> USE DEF Leave, Silence
  <2>1. CASE StopCall(p)
    BY <2>1 DEF StopCall
  <2>2. CASE StopDone(p)
    BY <2>2 DEF StopDone
  <2>3. CASE Restore(p)
    BY <2>3 DEF Restore, OwnerAfterRestore
  <2>4. CASE Drop(p)
    BY <2>4 DEF Drop
  <2>5. CASE Exit(p)
    BY <2>5 DEF Exit
  <2> QED
    BY <1>6, <2>1, <2>2, <2>3, <2>4, <2>5 DEF Section
<1>7. CASE Terminate \/ OrphanCheck \/ OrphanRemove
  BY <1>7 DEF Terminate, OrphanCheck, OrphanRemove
<1>8. CASE Runner
  <2>1. CASE RunnerUp
    BY <2>1 DEF RunnerUp
  <2>2. CASE RunnerFails
    BY <2>2 DEF RunnerFails
  <2>3. CASE SendReady
    BY <2>3 DEF SendReady
  <2>4. CASE Route
    BY <2>4 DEF Route
  <2>5. CASE WriteEvent
    BY <2>5 DEF WriteEvent
  <2> QED
    BY <1>8, <2>1, <2>2, <2>3, <2>4, <2>5 DEF Runner
<1>9. CASE Exited \/ UNCHANGED vars
  BY <1>9 DEF Exited, vars
<1> QED
  BY <1>1, <1>2, <1>3, <1>4, <1>5, <1>6, <1>7, <1>8, <1>9 DEF Next

\* Whatever connections do, applied settings keep a living owner, a release stops no other
\* connection's Tun, and a client whose Tun was taken is told (LeasesHold).
THEOREM LeasesAlwaysHold == Spec => []LeasesHold
<1>1. Init => TypeState /\ TunInv /\ LeaseInv
  BY NamesDistinct DEF Init, TypeState, TunInv, Procs, Holding, Mutex, PlaceJobs, Unowned,
         Stopped, Claimed, RunnerAgrees, OwnerOpen, Ended, LeaseInv, Served, ProxyKept,
         InstanceOfOwner, EventsOfCurrent, ReleaseStopsOwnTun, ReadyIsTrue, Told, Listening
<1>2. TypeState /\ TunInv /\ LeaseInv /\ [Next]_vars => LeaseInv'
  BY SectionsStep, ProxyKeptStep, ToldStep, Zenon DEF LeaseInv
<1>3. TypeState /\ LeaseInv => ProxyHasLiveOwner /\ ReleaseStopsOwnTun /\ TakeoverIsTold
  BY DEF LeaseInv, Served, ProxyKept, InstanceOfOwner, Told, Listening, Answering, Superseding,
         Emitting, ProxyHasLiveOwner, TakeoverIsTold, Settled
<1> QED
  BY <1>1, <1>2, <1>3, TypeCorrect, StateTyped, TunInvStep, PTL DEF Spec, LeasesHold
=============================================================================
