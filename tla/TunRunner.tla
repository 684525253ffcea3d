----------------------------- MODULE TunRunner -----------------------------
(* BoxTunRunner (tun_runner.go): the Tun sing-box instance of the helper.

   Start bumps the generation and leaves the work to a start goroutine (run):
   wait for the core's SOCKS port, create the instance, register it.  Stop
   bumps the generation too, closes what is registered, cancels the goroutine
   and waits for it, but only for stopWaitBound: a goroutine inside create may
   outlive its Stop, and even the next Start, and must then undo its own work.
   The goroutine runs create and emit without r.mu. *)
EXTENDS Naturals

CONSTANTS Starters,      \* callers of Start and Stop: the server, under Server.mu
          Stoppers,      \* callers that only call Stop, at any time
          MaxGen,        \* bound: generations in a behaviour
          SlowCreate,    \* may create outlive stopWaitBound
          CloseMayFail   \* may closing an instance fail and leave it up

ASSUME StartersStoppers == Starters \cap Stoppers = {}
ASSUME OneStarter == \A s, t \in Starters : s = t   \* Start is called under Server.mu
ASSUME MaxGenNat == MaxGen \in Nat
ASSUME SwitchesBoolean == SlowCreate \in BOOLEAN /\ CloseMayFail \in BOOLEAN

VARIABLES
  gen, active,             \* BoxTunRunner.gen, active
  stopWait, done, closer,  \* the start they belong to, 0 for nil
  logTo,                   \* the start whose lineWriter sing-box logs to, 0 for none
  run,                     \* where the goroutine of each start is
  cancelled,               \* starts whose context is cancelled
  live,                    \* starts whose instance exists: the utun and its routes
  logging,                 \* starts with a log line between its check and its emit
  pc, op, held, err,       \* callers: place, operation, Stop's locals, its result
  unclosed,                \* history: instances whose Close failed
  accepted                 \* history: starts accepted so far

runnerVars == <<gen, active, stopWait, done, closer>>
threadVars == <<run, cancelled, live, logging>>
callerVars == <<pc, op, held, err>>
history    == <<unclosed, accepted>>
vars == <<runnerVars, logTo, threadVars, callerVars, history>>

Callers == Starters \cup Stoppers
Gens == 1..MaxGen
NoHeld == [closer |-> 0, stopWait |-> 0, done |-> 0]

Typed ==
  /\ gen \in 0..MaxGen
  /\ {stopWait, done, closer, logTo} \subseteq 0..MaxGen
  /\ run \in [Gens -> {"none", "waiting", "dialled", "creating", "created", "failing",
                       "discard", "ready", "tell_ready", "tell_stopped", "done"}]
  /\ cancelled \subseteq Gens /\ live \subseteq Gens /\ logging \subseteq Gens
  /\ pc \in [Callers -> {"idle", "teardown", "await", "unlog", "accept"}]
  /\ op \in [Callers -> {"start", "stop"}]
  /\ held \in [Callers -> [closer : 0..MaxGen, stopWait : 0..MaxGen, done : 0..MaxGen]]
  /\ err \in [Callers -> {"none", "ok", "error"}]
  /\ unclosed \subseteq Gens /\ accepted \in Nat
TypeOK == active \in BOOLEAN /\ Typed

Init ==
  /\ gen = 0 /\ active = FALSE /\ stopWait = 0 /\ done = 0 /\ closer = 0 /\ logTo = 0
  /\ run = [g \in Gens |-> "none"] /\ cancelled = {} /\ live = {} /\ logging = {}
  /\ pc = [c \in Callers |-> "idle"] /\ op = [c \in Callers |-> "stop"]
  /\ held = [c \in Callers |-> NoHeld] /\ err = [c \in Callers |-> "none"]
  /\ unclosed = {} /\ accepted = 0

At(c, place) == pc[c] = place
To(c, place) == pc' = [pc EXCEPT ![c] = place]
In(g, place) == run[g] = place
Go(g, place) == run' = [run EXCEPT ![g] = place]

-----------------------------------------------------------------------------
(* Stop, and the Stop at the head of Start. *)

\* The locked section of Stop: take everything over and bump the generation.
StopLocked(c, kind) ==
  /\ At(c, "idle") /\ gen + 1 < MaxGen
  /\ kind = "start" => c \in Starters
  /\ gen' = gen + 1
  /\ held' = [held EXCEPT ![c] = [closer |-> closer, stopWait |-> stopWait, done |-> done]]
  /\ stopWait' = 0 /\ done' = 0 /\ closer' = 0 /\ active' = FALSE
  /\ op' = [op EXCEPT ![c] = kind] /\ err' = [err EXCEPT ![c] = "none"]
  /\ To(c, "teardown") /\ UNCHANGED <<logTo, threadVars, history>>

\* Closing an instance takes the utun away, or fails and leaves it.
Close(g) ==
  \/ live' = live \ {g} /\ UNCHANGED unclosed
  \/ CloseMayFail /\ unclosed' = unclosed \cup {g} /\ UNCHANGED live

KeepsInstance(c) ==   \* mutant: only the goroutine is cancelled
  /\ At(c, "teardown") /\ To(c, "await") /\ err' = [err EXCEPT ![c] = "ok"]
  /\ cancelled' = cancelled \cup ({held[c].stopWait} \ {0})
  /\ UNCHANGED <<runnerVars, logTo, run, live, logging, op, held, history>>
\* Close what was registered, then cancel the goroutine.
StopTeardown(c) ==
  /\ At(c, "teardown")
  /\ IF held[c].closer # 0
       THEN /\ Close(held[c].closer)
            /\ err' = [err EXCEPT ![c] = IF unclosed' = unclosed THEN "ok" ELSE "error"]
       ELSE err' = [err EXCEPT ![c] = "ok"] /\ UNCHANGED <<live, unclosed>>
  /\ cancelled' = IF held[c].stopWait # 0 THEN cancelled \cup {held[c].stopWait} ELSE cancelled
  /\ To(c, "await")
  /\ UNCHANGED <<runnerVars, logTo, run, logging, op, held, accepted>>

Outlasts(g) == SlowCreate /\ run[g] \in {"creating", "created", "discard"}

\* Stop waits for the goroutine; only create or its undoing can exceed the bound.
StopAwait(c) ==
  /\ At(c, "await")
  /\ LET g == held[c].done IN g # 0 => In(g, "done") \/ Outlasts(g)
  /\ To(c, "unlog")
  /\ UNCHANGED <<runnerVars, logTo, threadVars, op, held, err, history>>

\* The log writer is reset outside r.mu; then Stop returns, to Start if that called it.
StopReturns(c) ==
  /\ At(c, "unlog")
  /\ logTo' = 0
  /\ To(c, IF op[c] = "start" /\ err[c] = "ok" THEN "accept" ELSE "idle")
  /\ held' = [held EXCEPT ![c] = NoHeld]
  /\ UNCHANGED <<runnerVars, threadVars, op, err, history>>

-----------------------------------------------------------------------------
(* Start, after its Stop. *)

\* ValidateTunConfig or the configuration check refuses: nothing was started.
StartRefused(c) ==
  /\ At(c, "accept") /\ To(c, "idle") /\ err' = [err EXCEPT ![c] = "error"]
  /\ UNCHANGED <<runnerVars, logTo, threadVars, op, held, history>>

StartAccepted(c) ==
  /\ At(c, "accept") /\ gen < MaxGen
  /\ gen' = gen + 1 /\ active' = TRUE /\ stopWait' = gen + 1 /\ done' = gen + 1
  /\ Go(gen + 1, "waiting") /\ To(c, "idle") /\ accepted' = accepted + 1
  /\ UNCHANGED <<closer, logTo, cancelled, live, logging, op, held, err, unclosed>>

-----------------------------------------------------------------------------
(* The start goroutine (run). *)

Moves(g) == UNCHANGED <<runnerVars, logTo, cancelled, live, logging, callerVars, history>>

\* waitForSocks: the port answers, the wait times out, or the context is cancelled.
WaitForSocks(g) ==
  /\ In(g, "waiting")
  /\ \/ Go(g, "dialled")
     \/ Go(g, IF g \in cancelled THEN "done" ELSE "failing")
  /\ Moves(g)

\* A start that Stop superseded returns; the current one takes the log.
TakeLog(g) ==
  /\ In(g, "dialled")
  /\ IF gen # g THEN Go(g, "done") /\ UNCHANGED logTo
                ELSE Go(g, "creating") /\ logTo' = g
  /\ UNCHANGED <<runnerVars, cancelled, live, logging, callerVars, history>>

\* create returns an instance, also after the cancel, or an error.
Create(g) ==
  /\ In(g, "creating")
  /\ \/ Go(g, "created") /\ live' = live \cup {g}
     \/ Go(g, IF g \in cancelled THEN "done" ELSE "failing") /\ UNCHANGED live
  /\ UNCHANGED <<runnerVars, logTo, cancelled, logging, callerVars, history>>

\* fail: the current start empties the slot and tells the client.
Fail(g) ==
  /\ In(g, "failing")
  /\ IF gen # g
       THEN Go(g, "done") /\ UNCHANGED <<active, stopWait, logTo>>
       ELSE Go(g, "tell_stopped") /\ active' = FALSE /\ stopWait' = 0 /\ logTo' = 0
  /\ UNCHANGED <<gen, done, closer, cancelled, live, logging, callerVars, history>>

RegisterAnyway(g) ==   \* mutant: no look at the generation
  In(g, "created") /\ closer' = g /\ Go(g, "ready")
  /\ UNCHANGED <<gen, active, stopWait, done, logTo, cancelled, live, logging, callerVars, history>>
\* Stop may have won while the instance was starting.
Register(g) ==
  /\ In(g, "created")
  /\ IF gen # g THEN Go(g, "discard") /\ UNCHANGED closer
                ELSE Go(g, "ready") /\ closer' = g
  /\ UNCHANGED <<gen, active, stopWait, done, logTo, cancelled, live, logging, callerVars, history>>

DiscardForgotten(g) ==   \* mutant: the instance is not closed
  In(g, "discard") /\ Go(g, "done") /\ Moves(g)
\* The goroutine tears its own instance down; an error of Close is dropped.
Discard(g) ==
  /\ In(g, "discard") /\ Close(g) /\ Go(g, "done")
  /\ UNCHANGED <<runnerVars, logTo, cancelled, logging, callerVars, accepted>>

\* send: look at the generation, then emit without the lock.
SendReady(g) ==
  /\ In(g, "ready") /\ Go(g, IF gen = g THEN "tell_ready" ELSE "done") /\ Moves(g)

Emit(g) ==
  /\ run[g] \in {"tell_ready", "tell_stopped"} /\ Go(g, "done")
  /\ UNCHANGED <<runnerVars, logTo, cancelled, live, logging, callerVars, history>>

\* A complete line of the sing-box log goes through send as well.
LogLine(g) ==
  /\ logTo = g /\ (g \in live \/ In(g, "creating")) /\ g \notin logging /\ gen = g
  /\ logging' = logging \cup {g}
  /\ UNCHANGED <<runnerVars, logTo, run, cancelled, live, callerVars, history>>

EmitLine(g) ==
  /\ g \in logging /\ logging' = logging \ {g}
  /\ UNCHANGED <<runnerVars, logTo, run, cancelled, live, callerVars, history>>

-----------------------------------------------------------------------------
StartGoroutine(g) == \/ WaitForSocks(g) \/ TakeLog(g) \/ Create(g) \/ Fail(g)
                     \/ Register(g) \/ Discard(g) \/ SendReady(g) \/ Emit(g)
Finish(c) == StopTeardown(c) \/ StopAwait(c) \/ StopReturns(c)
             \/ StartRefused(c) \/ StartAccepted(c)

\* Nobody calls and every goroutine has returned: the runner rests.
Rest == /\ \A c \in Callers : At(c, "idle")
        /\ \A g \in Gens : run[g] \in {"none", "done"}
        /\ UNCHANGED vars

Next == \/ Rest
        \/ \E c \in Callers : \E kind \in {"start", "stop"} : StopLocked(c, kind)
        \/ \E c \in Callers : Finish(c)
        \/ \E g \in Gens : StartGoroutine(g) \/ LogLine(g) \/ EmitLine(g)

Spec == Init /\ [][Next]_vars

\* Goroutines are scheduled, and create, Close and emit return.
FairSpec == /\ Spec
            /\ \A c \in Callers : WF_vars(Finish(c))
            /\ \A g \in Gens : WF_vars(StartGoroutine(g)) /\ WF_vars(EmitLine(g))

-----------------------------------------------------------------------------
(* Safety. *)

\* The instances somebody is about to close or can close.
Owned == {closer} \cup {held[c].closer : c \in Callers}
                  \cup {g \in Gens : run[g] \in {"created", "discard"}}

\* No utun is leaked: whatever exists is registered, held by a Stop, or in the
\* hands of its start goroutine; except when Close itself failed (run, Stop).
NoOrphanInstance == live \subseteq Owned \cup unclosed

\* The slot is never taken for nothing: once its goroutine has returned, an
\* active runner has an instance (Running, fail, run).
ActiveMeansInstance ==
  active => \/ closer = gen /\ gen \in live \cup unclosed
            \/ closer = 0 /\ run[gen] \notin {"none", "done", "discard"}

\* Once the Stop that ended a start has returned, that start never reports tun_ready
\* or tun_stopped any more: Stop has waited for it (send, fail, Stop).
SilentAfterStop ==
  \A g \in Gens : run[g] \in {"tell_ready", "tell_stopped"} =>
     g = gen \/ \E c \in Callers : held[c].done = g

(* Liveness. *)

\* After a Stop with no newer start the utun goes away, even if create outlived
\* the Stop (run, Stop).
StopTakesDown == ~active ~> (active \/ live \subseteq unclosed)

\* The runner implements the slot its server relies on.
Slot == INSTANCE TunSlot WITH
          phase <- IF ~active THEN "off" ELSE IF closer # 0 THEN "up" ELSE "starting",
          start <- accepted
SlotSpec == Slot!Spec

\* The slot, its instance and its events belong to one start, whatever Stop gave up
\* waiting for (run, Stop, send).
SlotSound == TypeOK /\ NoOrphanInstance /\ ActiveMeansInstance /\ SilentAfterStop
=============================================================================
