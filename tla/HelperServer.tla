---------------------------- MODULE HelperServer ----------------------------
(* The request loop of the macOS privileged helper: server.go and lease.go,
   with the two ends of its life in run_darwin.go and selfclean_darwin.go.

   Every connection has a goroutine (handle) that reads one request at a time
   and runs it; tun_*, sysproxy_*, uninstall and the release of a lease run
   under Server.mu.  Whatever a connection started is stopped or restored when
   the connection ends: the dead-man switch.  Events of the Tun instance come
   from a goroutine of their own and take only the lease table's mutex, so they
   interleave with a request that holds Server.mu.

   The two backends appear by what they promise.  The Tun backend is the start
   goroutine and the locked sections of BoxTunRunner (module TunRunner has its
   timeouts and superseded starts); the proxy backend is one atomic Apply or
   Restore (module ProxyManager has its commands, crashes and snapshot). *)
EXTENDS Naturals, FiniteSets

CONSTANTS Conns,          \* connections; each is used once, as a net.Conn is
          None,           \* no lease, no holder of Server.mu
          Sig,            \* the goroutine that serves SIGTERM (Main)
          Self,           \* the goroutine that removes the helper (selfUninstall)
          Commands,       \* the commands clients send in this instance
          Enders,         \* of Sig and Self, those that may act in this instance
          MaxReqs,        \* bound: requests sent in a behaviour
          CloseMayFail,   \* may closing the sing-box instance return an error
          RestoreMayFail  \* may ProxyManager.Restore return an error

ASSUME NamesDistinct == /\ None \notin Conns \cup {Sig, Self}
                        /\ Sig \notin Conns \cup {Self}
                        /\ Self \notin Conns
ASSUME CommandsKnown ==
         Commands \subseteq {"tun_start", "tun_stop", "apply", "restore", "uninstall"}
ASSUME EndersKnown == Enders \subseteq {Sig, Self}
ASSUME MaxReqsNat == MaxReqs \in Nat
ASSUME FailuresBoolean == CloseMayFail \in BOOLEAN /\ RestoreMayFail \in BOOLEAN

VARIABLES
  pc,          \* where each goroutine is
  job,         \* what a goroutine is serving
  answer,      \* the reply it will write
  up,          \* the connections whose client end is open
  bel,         \* what a client knows of the Tun it asked for
  mu,          \* the goroutine that holds Server.mu
  down,        \* Server.down
  tableDown,   \* leaseTable.down
  conns,       \* leaseTable.conns
  tunOwner, tunGen, proxyOwner,          \* leaseTable: who owns what
  prev, owes, errs,  \* locals of the section under Server.mu: the superseded
                     \* owner, restoreProxy, the error of Tun.Stop or of the teardown
  active,      \* BoxTunRunner.active
  closer,      \* BoxTunRunner.closer: an instance is up
  go,          \* BoxTunRunner.run: where the start goroutine is
  inst,        \* the lease and generation its emit function carries
  applied,     \* ProxyManager.Applied()
  reqs,        \* requests sent so far
  silenced,    \* history: leases that lost the Tun to another goroutine without an event
  stray,       \* history: a release could not restore the proxy
  orphan,      \* orphanLoop has decided to remove the helper, not yet acted
  helper       \* "running" or "exited"

clientVars == <<up, bel, reqs>>
tableVars  == <<tunOwner, tunGen, proxyOwner>>
doorVars   == <<down, tableDown, conns>>
localVars  == <<prev, owes, errs>>
runVars    == <<active, closer, go, inst>>
vars == <<pc, job, answer, mu, applied, silenced, stray, orphan, helper,
          clientVars, tableVars, doorVars, localVars, runVars>>

Procs == Conns \cup {Sig, Self}

\* Places of a goroutine that runs a section under Server.mu.
Holding == {"stop", "wait", "tell", "claim", "start", "apply", "restore"}
\* Places of a connection whose lease exists and is not released yet.
Open == {"ready", "lock", "reply"} \cup Holding
\* The start goroutine is delivering an event: Stop waits for it.
Emitting == {"fail_route", "fail_write", "ready_route", "ready_write"}

TypeState ==
  /\ pc \in [Procs -> {"new", "hello", "drop", "gone"} \cup Open]
  /\ job \in [Procs -> {"none", "release", "shutdown"} \cup
                        {"tun_start", "tun_stop", "apply", "restore", "uninstall"}]
  /\ answer \in [Procs -> {"ok", "error"}]
  /\ up \in SUBSET Conns
  /\ bel \in [Conns -> {"no", "asked", "ready"}]
  /\ mu \in Procs \cup {None}
  /\ conns \in SUBSET Conns
  /\ tunOwner \in Conns \cup {None} /\ proxyOwner \in Conns \cup {None}
  /\ tunGen \in Nat /\ reqs \in Nat
  /\ prev \in Conns \cup {None}
  /\ go \in {"none", "starting", "readying", "up"} \cup Emitting
  /\ inst \in [lease : Conns \cup {None}, gen : Nat]
  /\ silenced \in SUBSET Conns
  /\ helper \in {"running", "exited"}

TypeFlags ==
  /\ down \in BOOLEAN /\ tableDown \in BOOLEAN /\ owes \in BOOLEAN /\ errs \in BOOLEAN
  /\ active \in BOOLEAN /\ closer \in BOOLEAN /\ applied \in BOOLEAN
  /\ stray \in BOOLEAN /\ orphan \in BOOLEAN

TypeOK == TypeState /\ TypeFlags

Init ==
  /\ pc = [p \in Procs |-> "new"]
  /\ job = [p \in Procs |-> "none"]
  /\ answer = [p \in Procs |-> "error"]
  /\ up = {}
  /\ bel = [c \in Conns |-> "no"]
  /\ mu = None
  /\ down = FALSE /\ tableDown = FALSE /\ conns = {}
  /\ tunOwner = None /\ tunGen = 0 /\ proxyOwner = None
  /\ prev = None /\ owes = FALSE /\ errs = FALSE
  /\ active = FALSE /\ closer = FALSE /\ go = "none"
  /\ inst = [lease |-> None, gen |-> 0]
  /\ applied = FALSE /\ stray = FALSE
  /\ reqs = 0 /\ silenced = {} /\ orphan = FALSE
  /\ helper = "running"

-----------------------------------------------------------------------------
(* Connections. *)

Goto(p, place) == pc' = [pc EXCEPT ![p] = place]

\* Serve and the head of handle: the connection is registered, or dropped when
\* the helper is shutting down or the peer is not allowed.
Accept(c) ==
  /\ pc[c] = "new"
  /\ \/ /\ ~tableDown
        /\ conns' = conns \cup {c}
        /\ up' = up \cup {c}
        /\ Goto(c, "hello")
     \/ /\ Goto(c, "gone")
        /\ UNCHANGED <<conns, up>>
  /\ UNCHANGED <<job, answer, mu, applied, silenced, stray, orphan, helper, bel, reqs,
                 down, tableDown, tableVars, localVars, runVars>>

\* The handshake: a lease exists only after the hello reply was written.
Hello(c) ==
  /\ pc[c] = "hello"
  /\ \/ c \in up /\ Goto(c, "ready") /\ UNCHANGED <<conns, up>>
     \/ /\ Goto(c, "gone")
        /\ conns' = conns \ {c}
        /\ up' = up \ {c}
  /\ UNCHANGED <<job, answer, mu, applied, silenced, stray, orphan, helper, bel, reqs,
                 down, tableDown, tableVars, localVars, runVars>>

\* The client sends a command and dispatch reads it.  Invalid arguments (port,
\* bypass list, empty config) are answered before Server.mu is taken.
Request(c, cmd) ==
  /\ pc[c] = "ready" /\ c \in up
  /\ reqs < MaxReqs
  /\ reqs' = reqs + 1
  /\ job' = [job EXCEPT ![c] = cmd]
  /\ answer' = [answer EXCEPT ![c] = "error"]
  /\ \/ Goto(c, "lock")
     \/ cmd \in {"tun_start", "apply"} /\ Goto(c, "reply")
  /\ bel' = IF cmd = "tun_start" THEN [bel EXCEPT ![c] = "asked"] ELSE bel
  /\ UNCHANGED <<mu, applied, silenced, stray, orphan, helper, up,
                 doorVars, tableVars, localVars, runVars>>

\* The client quits, crashes or is killed, at any point.
Disconnect(c) ==
  /\ c \in up
  /\ up' = up \ {c}
  /\ UNCHANGED <<pc, job, answer, mu, applied, silenced, stray, orphan, helper, bel, reqs,
                 doorVars, tableVars, localVars, runVars>>

\* What ReadRequest sees of a client that is gone, or that Shutdown closed.
EofIgnored(c) == FALSE        \* mutant: the read loop goes on after an EOF
Eof(c) == c \notin up

\* ReadRequest fails: the deferred release comes next.
ReadFails(c) ==
  /\ pc[c] = "ready" /\ Eof(c)
  /\ Goto(c, "lock")
  /\ job' = [job EXCEPT ![c] = "release"]
  /\ UNCHANGED <<answer, mu, applied, silenced, stray, orphan, helper,
                 clientVars, doorVars, tableVars, localVars, runVars>>

\* dispatch writes the reply, after Server.mu was unlocked.  A failed write, and
\* a completed uninstall (which also does "go selfUninstall"), end the session.
Reply(c) ==
  /\ pc[c] = "reply"
  /\ bel' = IF c \in up /\ <<job[c], answer[c]>> \in {<<"tun_start", "error">>, <<"tun_stop", "ok">>}
              THEN [bel EXCEPT ![c] = "no"] ELSE bel
  /\ LET removed == job[c] = "uninstall" /\ answer[c] = "ok"
         ends    == removed \/ c \notin up
         self    == removed /\ pc[Self] = "new"
     IN /\ job' = [p \in Procs |-> IF p = c THEN IF ends THEN "release" ELSE "none"
                                   ELSE IF p = Self /\ self THEN "shutdown" ELSE job[p]]
        /\ pc' = [p \in Procs |-> IF p = c THEN IF ends THEN "lock" ELSE "ready"
                                  ELSE IF p = Self /\ self THEN "lock" ELSE pc[p]]
  /\ UNCHANGED <<answer, mu, applied, silenced, stray, orphan, helper, up, reqs,
                 doorVars, tableVars, localVars, runVars>>

-----------------------------------------------------------------------------
(* Sections under Server.mu: one Lock action per kind of job, then the steps. *)

RefusingNever == FALSE        \* mutant: tunStart and sysproxyApply do not look at s.down
\* "if s.down": no start and no apply once the helper is shutting down.
Refusing == down

\* leaseTable.takeTun
TakeTun ==
  /\ prev' = tunOwner
  /\ tunOwner' = None
  /\ tunGen' = tunGen + 1

\* An instance that stops without its owner being written to.
Silence(l, p) == silenced' = silenced \cup ({l} \ {None, p})

Enter(p, place) == Goto(p, place) /\ mu' = p

\* The section returns: a request is answered, a release ends the goroutine.
Leave(p, result) ==
  /\ mu' = None
  /\ answer' = [answer EXCEPT ![p] = result]
  /\ Goto(p, CASE job[p] = "release"  -> "gone"
               [] job[p] = "shutdown" -> "drop"
               [] OTHER               -> "reply")

LockRefused(c) ==  \* tunStart and sysproxyApply: "helper is shutting down"
  /\ Refusing /\ job[c] \in {"tun_start", "apply"}
  /\ Leave(c, "error")
  /\ UNCHANGED <<down, tableDown, tableVars, localVars>>

LockTunStart(c) ==
  /\ ~Refusing /\ job[c] = "tun_start"
  /\ TakeTun
  /\ Enter(c, IF tunOwner # None \/ active THEN "stop" ELSE "claim")
  /\ UNCHANGED <<answer, down, tableDown, proxyOwner, owes, errs>>

LockCommand(c) ==  \* tun_stop, sysproxy_apply, sysproxy_restore
  /\ \/ job[c] = "tun_stop" /\ Enter(c, "stop")
     \/ job[c] = "apply" /\ ~Refusing /\ Enter(c, "apply")
     \/ job[c] = "restore" /\ Enter(c, "restore")
  /\ UNCHANGED <<answer, down, tableDown, tableVars, localVars>>

\* uninstall and Shutdown: teardownLocked up to the call of Tun.Stop.
LockTeardown(p) ==
  /\ job[p] \in {"uninstall", "shutdown"}
  /\ IF job[p] = "shutdown" THEN down' = TRUE /\ tableDown' = TRUE
                            ELSE UNCHANGED <<down, tableDown>>
  /\ TakeTun
  /\ errs' = FALSE
  /\ Enter(p, IF tunOwner # None \/ active THEN "stop" ELSE "restore")
  /\ UNCHANGED <<answer, proxyOwner, owes>>

StopsAnyTun(c) == tunOwner # None   \* mutant: any owner counts
StopsNoTun(c) == FALSE              \* mutant: the Tun outlives its connection
\* releaseLocked: stopTun and restoreProxy.
StopsTun(c) == tunOwner = c
RestoresProxy(c) == proxyOwner = c

\* releaseLocked up to its calls: what the lease owned, it owns no more.
LockRelease(c) ==
  /\ job[c] = "release"
  /\ IF StopsTun(c) THEN tunOwner' = None /\ tunGen' = tunGen + 1
                    ELSE UNCHANGED <<tunOwner, tunGen>>
  /\ proxyOwner' = IF RestoresProxy(c) THEN None ELSE proxyOwner
  /\ owes' = RestoresProxy(c)
  /\ IF StopsTun(c) \/ RestoresProxy(c)
       THEN Enter(c, IF StopsTun(c) THEN "stop" ELSE "restore") /\ UNCHANGED answer
       ELSE Leave(c, "ok")
  /\ UNCHANGED <<down, tableDown, prev, errs>>

Lock(p) ==
  /\ pc[p] = "lock" /\ mu = None
  /\ \/ p \in Conns /\ (LockRefused(p) \/ LockTunStart(p) \/ LockCommand(p) \/ LockRelease(p))
     \/ LockTeardown(p)
  /\ conns' = IF p \in Conns /\ pc'[p] = "gone" THEN conns \ {p} ELSE conns
  /\ UNCHANGED <<job, applied, silenced, stray, orphan, helper, clientVars, runVars>>

\* BoxTunRunner.Stop, its locked section and the close of the instance.  A start
\* goroutine that is not delivering an event ends without a word.
StopCall(p) ==
  /\ pc[p] = "stop"
  /\ active' = FALSE /\ closer' = FALSE
  /\ errs' \in IF closer /\ CloseMayFail THEN BOOLEAN ELSE {FALSE}
  /\ go' = IF go \in Emitting THEN go ELSE "none"
  /\ Goto(p, "wait")
  /\ UNCHANGED <<job, answer, mu, applied, silenced, stray, orphan, helper, inst, prev, owes,
                 clientVars, doorVars, tableVars>>

\* Stop has waited for the start goroutine and returns to its caller.
StopDone(p) ==
  /\ pc[p] = "wait" /\ go \notin Emitting
  /\ \/ /\ job[p] = "tun_start" /\ errs
        /\ Leave(p, "error") /\ Silence(prev, p)
        /\ UNCHANGED tunOwner
     \/ /\ job[p] = "tun_start" /\ ~errs
        /\ Goto(p, IF prev \in {None, p} THEN "claim" ELSE "tell")
        /\ UNCHANGED <<mu, answer, silenced, tunOwner>>
     \/ \* tun_stop: clearTun, or on an error the ownership is kept
        /\ job[p] = "tun_stop"
        /\ tunOwner' = IF errs THEN tunOwner ELSE None
        /\ Leave(p, IF errs THEN "error" ELSE "ok") /\ Silence(tunOwner, p)
     \/ /\ job[p] \in {"uninstall", "shutdown"}
        /\ Goto(p, "restore") /\ Silence(prev, None)
        /\ UNCHANGED <<mu, answer, tunOwner>>
     \/ /\ job[p] = "release"
        /\ IF owes THEN Goto(p, "restore") /\ UNCHANGED <<mu, answer>> ELSE Leave(p, "ok")
        /\ UNCHANGED <<tunOwner, silenced>>
  /\ conns' = IF pc'[p] = "gone" THEN conns \ {p} ELSE conns
  /\ UNCHANGED <<job, applied, stray, orphan, helper, tunGen, proxyOwner, down, tableDown,
                 clientVars, localVars, runVars>>

Notify(l) == bel' = IF l \in up THEN [bel EXCEPT ![l] = "no"] ELSE bel

\* tunStart writes tun_stopped to the owner it superseded.
Tell(c) ==
  /\ pc[c] = "tell"
  /\ Notify(prev)
  /\ Goto(c, "claim")
  /\ UNCHANGED <<job, answer, mu, applied, silenced, stray, orphan, helper, up, reqs,
                 doorVars, tableVars, localVars, runVars>>

\* leaseTable.claimTun
Claim(c) ==
  /\ pc[c] = "claim"
  /\ tunOwner' = c
  /\ Goto(c, "start")
  /\ UNCHANGED <<job, answer, mu, applied, silenced, stray, orphan, helper, tunGen, proxyOwner,
                 clientVars, doorVars, localVars, runVars>>

\* Tun.Start and dropTun: it first runs Stop, which finds nothing to close but
\* waits for a start goroutine still writing its tun_stopped.
Start(c) ==
  /\ pc[c] = "start" /\ go \notin Emitting
  /\ \/ /\ active' = TRUE /\ go' = "starting"
        /\ inst' = [lease |-> c, gen |-> tunGen]
        /\ silenced' = silenced \ {c}
        /\ Leave(c, "ok")
        /\ UNCHANGED tunOwner
     \/ /\ tunOwner' = IF tunOwner = c THEN None ELSE tunOwner
        /\ Leave(c, "error")
        /\ UNCHANGED <<active, go, inst, silenced>>
  /\ UNCHANGED <<job, applied, stray, orphan, helper, closer, tunGen, proxyOwner,
                 clientVars, doorVars, localVars>>

\* ProxyManager.Apply and setProxyOwner: it fails when no service could be set.
Apply(c) ==
  /\ pc[c] = "apply"
  /\ \/ applied' = TRUE /\ stray' = FALSE /\ proxyOwner' = c /\ Leave(c, "ok")
     \/ UNCHANGED <<applied, stray, proxyOwner>> /\ Leave(c, "error")
  /\ UNCHANGED <<job, silenced, orphan, helper, tunOwner, tunGen,
                 clientVars, doorVars, localVars, runVars>>

OwnerAfterRestore(p, fails) == IF fails \/ job[p] = "release" THEN proxyOwner ELSE None

\* ProxyManager.Restore, and clearProxy unless a release asked (it has dropped
\* the ownership already).  It is a no-op when nothing is applied.  A service may be
\* left as it was; or all are restored and the file with the snapshot cannot be cleared.
Restore(p) ==
  /\ pc[p] = "restore"
  /\ \E left, uncleared \in IF applied /\ RestoreMayFail THEN BOOLEAN ELSE {FALSE} :
       LET fails  == left \/ uncleared
           failed == fails \/ (job[p] = "uninstall" /\ errs)
       IN /\ applied' = left
          /\ stray' = (left /\ (stray \/ job[p] = "release"))
          /\ proxyOwner' = OwnerAfterRestore(p, fails)
          /\ Leave(p, IF failed THEN "error" ELSE "ok")
          /\ down' = (down \/ (job[p] = "uninstall" /\ ~failed))
  /\ conns' = IF pc'[p] = "gone" THEN conns \ {p} ELSE conns
  /\ UNCHANGED <<job, silenced, orphan, helper, tunOwner, tunGen, tableDown,
                 clientVars, localVars, runVars>>

-----------------------------------------------------------------------------
(* The end of the helper. *)

\* SIGTERM, or Serve returned: Main calls Shutdown.
Terminate ==
  /\ pc[Sig] = "new" /\ Sig \in Enders
  /\ Goto(Sig, "lock")
  /\ job' = [job EXCEPT ![Sig] = "shutdown"]
  /\ UNCHANGED <<answer, mu, applied, silenced, stray, orphan, helper,
                 clientVars, doorVars, tableVars, localVars, runVars>>

\* orphanLoop: the app is gone, and neither Tun nor the proxy is in use.
OrphanCheck ==
  /\ pc[Self] = "new" /\ Self \in Enders /\ ~orphan
  /\ ~active /\ ~applied
  /\ orphan' = TRUE
  /\ UNCHANGED <<pc, job, answer, mu, applied, silenced, stray, helper,
                 clientVars, doorVars, tableVars, localVars, runVars>>

OrphanRemove ==
  /\ pc[Self] = "new" /\ orphan
  /\ Goto(Self, "lock")
  /\ job' = [job EXCEPT ![Self] = "shutdown"]
  /\ UNCHANGED <<answer, mu, applied, silenced, stray, orphan, helper,
                 clientVars, doorVars, tableVars, localVars, runVars>>

\* Shutdown closes the connections that were registered when it began; none can
\* be added after that.
Drop(p) ==
  /\ pc[p] = "drop"
  /\ up' = up \ conns
  /\ Goto(p, "gone")
  /\ UNCHANGED <<job, answer, mu, applied, silenced, stray, orphan, helper, bel, reqs,
                 doorVars, tableVars, localVars, runVars>>

\* Main returns, or selfUninstall exits: every goroutine ends with the process, the
\* sockets close and the utun is gone.
Exit(p) ==
  /\ pc[p] = "gone" /\ p \in {Sig, Self} /\ helper = "running"
  /\ helper' = "exited"
  /\ pc' = [q \in Procs |-> "gone"]
  /\ up' = {}
  /\ mu' = None
  /\ active' = FALSE /\ closer' = FALSE /\ go' = "none"
  /\ UNCHANGED <<job, answer, applied, silenced, stray, orphan, inst, bel, reqs,
                 doorVars, tableVars, localVars>>

-----------------------------------------------------------------------------
(* The Tun instance's own goroutine. *)

RunnerUp ==
  /\ go = "starting"
  /\ go' = "readying" /\ closer' = TRUE
  /\ UNCHANGED <<pc, job, answer, mu, applied, silenced, stray, orphan, helper, active, inst,
                 clientVars, doorVars, tableVars, localVars>>

RunnerFails ==  \* fail(): the core's port never opened, or create failed
  /\ go = "starting"
  /\ go' = "fail_route" /\ active' = FALSE
  /\ UNCHANGED <<pc, job, answer, mu, applied, silenced, stray, orphan, helper, closer, inst,
                 clientVars, doorVars, tableVars, localVars>>

SendReady ==  \* send(): the instance is still the runner's current one
  /\ go = "readying"
  /\ go' = "ready_route"
  /\ UNCHANGED <<pc, job, answer, mu, applied, silenced, stray, orphan, helper, active, closer, inst,
                 clientVars, doorVars, tableVars, localVars>>

CurrentGeneration == tunGen = inst.gen

RouteTakesServerMutex == go \in {"fail_route", "ready_route"} /\ mu = None   \* mutant
\* route needs the lease table's mutex only, which is "separate from Server.mu on purpose".
RouteMayRun == go \in {"fail_route", "ready_route"}

\* leaseTable.route, under its own mutex; the write follows outside it.
Route ==
  /\ RouteMayRun
  /\ LET current == CurrentGeneration
         failed  == go = "fail_route"
     IN /\ tunOwner' = IF current /\ failed /\ tunOwner = inst.lease THEN None ELSE tunOwner
        /\ go' = CASE current /\ failed   -> "fail_write"
                   [] current /\ ~failed  -> "ready_write"
                   [] ~current /\ failed  -> "none"
                   [] ~current /\ ~failed -> IF active THEN "up" ELSE "none"
  /\ UNCHANGED <<pc, job, answer, mu, applied, silenced, stray, orphan, helper, active, closer, inst,
                 tunGen, proxyOwner, clientVars, doorVars, localVars>>

WriteEvent ==
  /\ go \in {"fail_write", "ready_write"}
  /\ bel' = IF inst.lease \in up
              THEN [bel EXCEPT ![inst.lease] = IF go = "fail_write" THEN "no" ELSE "ready"]
              ELSE bel
  /\ go' = IF active THEN "up" ELSE "none"
  /\ UNCHANGED <<pc, job, answer, mu, applied, silenced, stray, orphan, helper, active, closer, inst,
                 up, reqs, doorVars, tableVars, localVars>>

Runner == RunnerUp \/ RunnerFails \/ SendReady \/ Route \/ WriteEvent

-----------------------------------------------------------------------------

Conn(c) == \/ Hello(c) \/ ReadFails(c) \/ Reply(c)
           \/ Tell(c) \/ Claim(c) \/ Start(c) \/ Apply(c)
Section(p) == StopCall(p) \/ StopDone(p) \/ Restore(p) \/ Drop(p) \/ Exit(p)

\* The process is gone; launchd may start another one, which begins in Init.
Exited == helper = "exited" /\ UNCHANGED vars

Next ==
  \/ \E c \in Conns : Accept(c) \/ Conn(c) \/ Disconnect(c)
  \/ \E c \in Conns, cmd \in Commands : Request(c, cmd)
  \/ \E p \in Procs : Lock(p) \/ Section(p)
  \/ Terminate \/ OrphanCheck \/ OrphanRemove
  \/ Runner
  \/ Exited

(* Fairness.  Goroutines that can run do run, calls on the backends and socket
   writes return (they are bounded by deadlines), and sync.Mutex hands itself to
   a waiter after a millisecond of starvation, hence SF for Lock.  Clients,
   SIGTERM and the orphan check are never forced to act. *)
Fairness ==
  /\ \A c \in Conns : WF_vars(Conn(c))
  /\ \A p \in Procs : SF_vars(Lock(p)) /\ WF_vars(Section(p))
  /\ WF_vars(Runner)

Spec == Init /\ [][Next]_vars
FairSpec == Spec /\ Fairness

-----------------------------------------------------------------------------
(* Properties. *)

\* The dead-man switch, Tun: whenever no request is being run, an instance that is
\* up or coming up has an owner whose connection is not yet released (lease.go:8-12).
TunHasLiveOwner ==
  mu = None /\ active => tunOwner # None /\ pc[tunOwner] \in Open

\* The dead-man switch, system proxy: whenever no request is being run, applied
\* settings have an owner whose connection is not yet released - unless the restore
\* of a release failed, which nobody retries before the next command or start.
ProxyHasLiveOwner ==
  helper = "running" /\ mu = None /\ applied => stray \/ (proxyOwner # None /\ pc[proxyOwner] \in Open)

\* The end of one connection never stops the Tun another connection has started
\* since (releaseLocked compares the owner under the table's mutex).
ReleaseStopsOwnTun ==
  \A c \in Conns : pc[c] = "stop" /\ job[c] = "release" /\ active => inst.lease = c

\* A client with nothing outstanding, which asked for a Tun and was not told it is
\* over, does own it - unless its Tun was ended by another goroutine in one of the
\* three ways that write no event (tun_stop of another connection, a refused
\* uninstall, a takeover whose Stop failed).
Settled(c) == /\ mu = None /\ ~tableDown /\ go \notin Emitting
              /\ c \in up /\ pc[c] = "ready" /\ bel[c] # "no"
TakeoverIsTold == \A c \in Conns : Settled(c) => tunOwner = c \/ c \in silenced

\* Once Shutdown has torn down, nothing comes up again: sessions that are still
\* open are refused, and the process exits with Tun down and the proxy restored.
ShutdownIsFinal ==
  \A p \in {Sig, Self} : pc[p] \in {"drop", "gone"} =>
    /\ ~active /\ tunOwner = None
    /\ applied => RestoreMayFail

\* A client that is gone, however it went, has its lease released.
DeadManFires ==
  \A c \in Conns : pc[c] \in Open /\ c \notin up ~> pc[c] = "gone" \/ helper = "exited"

\* Every request is answered: the section under Server.mu never blocks on an event
\* that is being delivered while it waits for the start goroutine.
RequestsAreAnswered ==
  \A c \in Conns : pc[c] = "lock" ~> pc[c] \in {"ready", "gone"} \/ helper = "exited"

\* A client that asked for a Tun learns what became of it, unless it is gone, was
\* silenced, or the helper exits.
AskedIsAnswered ==
  \A c \in Conns : bel[c] = "asked" ~>
     bel[c] # "asked" \/ c \notin up \/ c \in silenced \/ helper = "exited"

\* The lease table, as one: an owner that lives, a release that harms nobody else, a
\* loser that is told (handle, release, takeTun, route).
LeasesHold == TypeOK /\ ProxyHasLiveOwner /\ ReleaseStopsOwnTun /\ TakeoverIsTold

\* No request hangs, and the answer to it comes in the end (handle, tunStart, route).
Answered == RequestsAreAnswered /\ AskedIsAnswered
=============================================================================
