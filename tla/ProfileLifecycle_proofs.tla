---------------------- MODULE ProfileLifecycle_proofs ----------------------
(* mu_starting, mu_stopping and sem_stopped (ProfileLifecycle) in every reachable
   state, for any number of profiles, threads, actions and deaths of the core: one
   owner of mu_starting, and as many permits given and promised as there are waiters.
   The rest of what the runs check of this component is only model-checked. *)
EXTENDS ProfileLifecycle, FiniteSetTheorems, FunctionTheorems, SequenceTheorems, TLAPS

-----------------------------------------------------------------------------
(* The posted stops of a queue. *)

\* A queue holds finitely many stops that let a waiter go.
LEMMA ReleasesFinite ==
  ASSUME NEW q \in Seq(Messages)
  PROVE IsFiniteSet(Releases(q)) /\ Cardinality(Releases(q)) \in Nat
<1>1. Len(q) \in Nat /\ IsFiniteSet(1..Len(q))
  BY FS_Interval
<1>2. Releases(q) \in SUBSET (1..Len(q))
  BY DEF Releases
<1> QED
  BY <1>1, <1>2, FS_Subset, FS_CardinalityType

\* A message posted at the end counts when it is a stop with the semaphore.
LEMMA QueueGrows ==
  ASSUME NEW q \in Seq(Messages), NEW msg \in Messages
  PROVE /\ Append(q, msg) \in Seq(Messages)
        /\ Cardinality(Releases(Append(q, msg))) =
             Cardinality(Releases(q)) + (IF msg.m = "stop" /\ msg.sem THEN 1 ELSE 0)
<1> DEFINE r == Append(q, msg)  n == Len(q) + 1
<1>1. /\ r \in Seq(Messages) /\ Len(r) = n /\ n \in Nat /\ Len(q) \in Nat
      /\ \A i \in 1..Len(q) : r[i] = q[i]
      /\ r[n] = msg
  BY AppendProperties
<1>2. n \notin Releases(q)
  BY <1>1 DEF Releases
<1>3. CASE msg.m = "stop" /\ msg.sem
  <2>1. Releases(r) = Releases(q) \cup {n}
    BY <1>1, <1>3 DEF Releases
  <2>2. IsFiniteSet(Releases(q)) /\ Cardinality(Releases(q)) \in Nat
    BY ReleasesFinite
  <2>3. Cardinality(Releases(q) \cup {n}) = Cardinality(Releases(q)) + 1
    BY <1>2, <2>2, FS_AddElement
  <2> QED
    BY <1>1, <1>3, <2>1, <2>3
<1>4. CASE ~(msg.m = "stop" /\ msg.sem)
  <2>1. Releases(r) = Releases(q)
    BY <1>1, <1>4 DEF Releases
  <2> QED
    BY <1>1, <1>4, <2>1, ReleasesFinite
<1> QED
  BY <1>3, <1>4

\* The message taken from the front counted when it was a stop with the semaphore.
LEMMA QueueShrinks ==
  ASSUME NEW q \in Seq(Messages), q # <<>>
  PROVE /\ Head(q) \in Messages /\ Tail(q) \in Seq(Messages)
        /\ Cardinality(Releases(q)) =
             Cardinality(Releases(Tail(q))) + (IF Head(q).m = "stop" /\ Head(q).sem THEN 1 ELSE 0)
<1> DEFINE r == Tail(q)
           Moved == [i \in Releases(r) |-> i + 1]
           Others == Releases(q) \ {1}
<1>1. /\ Head(q) \in Messages /\ r \in Seq(Messages) /\ Len(r) = Len(q) - 1 /\ Len(q) \in Nat \ {0}
      /\ Head(q) = q[1]
      /\ \A i \in 1..Len(r) : r[i] = q[i + 1]
  BY HeadTailProperties
<1>2. Moved \in Bijection(Releases(r), Others)
  <2>1. \A i \in Releases(r) : i \in Int /\ i + 1 \in Others
    BY <1>1 DEF Releases
  <2>2. \A j \in Others : j - 1 \in Releases(r) /\ j = (j - 1) + 1
    BY <1>1 DEF Releases
  <2>3. Moved \in Injection(Releases(r), Others)
    BY <2>1 DEF Injection, IsInjective
  <2>4. \A j \in Others : \E i \in Releases(r) : Moved[i] = j
    BY <2>2
  <2> QED
    BY <2>3, <2>4 DEF Bijection, Injection, Surjection
<1>3. IsFiniteSet(Others) /\ Cardinality(Others) = Cardinality(Releases(r)) /\ IsFiniteSet(Releases(q))
  <2>1. ExistsBijection(Releases(r), Others)
    BY <1>2 DEF ExistsBijection
  <2> HIDE DEF r, Others
  <2> QED
    BY <1>1, <2>1, ReleasesFinite, FS_Bijection
<1>4. CASE Head(q).m = "stop" /\ Head(q).sem
  <2>1. 1 \in Releases(q)
    BY <1>1, <1>4 DEF Releases
  <2>2. Cardinality(Others) = Cardinality(Releases(q)) - 1
    BY <1>3, <2>1, FS_RemoveElement
  <2>3. Cardinality(Releases(q)) \in Nat
    BY ReleasesFinite
  <2> QED
    BY <1>1, <1>3, <1>4, <2>2, <2>3
<1>5. CASE ~(Head(q).m = "stop" /\ Head(q).sem)
  <2>1. Others = Releases(q)
    BY <1>1, <1>5 DEF Releases
  <2>2. Cardinality(Releases(q)) = Cardinality(Releases(r)) /\ Cardinality(Releases(q)) \in Nat
    BY <1>3, <2>1, ReleasesFinite
  <2> QED
    BY <1>5, <2>2
<1> QED
  BY <1>1, <1>4, <1>5

-----------------------------------------------------------------------------
(* The inductive invariant. *)

\* At most one start thread has work to do, and it holds mu_starting.
OneStart ==
  /\ \A t, u \in Threads : pc[t] \in Locked /\ pc[u] \in Locked => t = u
  /\ \A t \in Threads : pc[t] \in Locked => starting
  /\ starting => \E t \in Threads : pc[t] \in Locked

\* A thread at work has a profile and attempts left; the core serves it only while it waits.
AtWork ==
  /\ \A t \in Threads : pc[t] # "idle" => prof[t] \in Profiles
  /\ \A t \in Threads : handler[t] # "none" => pc[t] = "loading"
  /\ \A t \in Threads : tries[t] < Attempts

\* Without mu_stopping there is no stop thread, so none is overwritten with its waiter.
StopOwned == ~stopping => stopper = Idle

\* A start thread waits for a stop.
Waiting == \E t \in Threads : pc[t] = "acquire"
\* The one thread that waits for a stop, and the exit.
Owed == (IF Waiting THEN 1 ELSE 0) + (IF exit = "acquire" THEN 1 ELSE 0)
\* The stops that will let a waiter go: posted, about to take mu_stopping, or running.
AtLock == IF ui.at = "lock" /\ ui.sem THEN 1 ELSE 0
AtStop == IF stopper.sem THEN 1 ELSE 0
Due == Cardinality(Releases(uiq)) + AtLock + AtStop
Permits == Alive => sem + Due = Owed

\* The parts of the type invariant.
TypedJobs == /\ ui \in Jobs({"idle", "lock", "crashed"}) /\ sem \in Nat
             /\ stopper \in Jobs({"idle", "begin", "send", "sent", "commit", "clear", "release"})
TypedQueues == uiq \in Seq(Messages) /\ coreq \in Seq(Profiles) /\ calls \in Seq(Callers)
TypedStarts ==
  /\ pc \in [Threads -> {"idle", "validate", "check", "current", "acquire", "load", "loading",
                         "commit", "show", "failed", "tail"}]
  /\ prof \in [Threads -> Maybe] /\ tries \in [Threads -> 0..Attempts]
TypedCore == /\ instance \in Maybe /\ boxes \subseteq Profiles
             /\ handler \in [Callers -> {"none", "check", "create", "close", "clear", "ok", "error", "bind", "lost"}]
TypedRest ==
  /\ started \in Maybe /\ running \in Maybe \cup {"null"}
  /\ exit \in {"no", "acquire", "daemon", "done"}
  /\ proc \in {"launching", "up", "dead", "down"}
  /\ whenUp \in Maybe /\ timers \in Nat
  /\ acts \in 0..MaxEvents /\ deaths \in 0..MaxDeaths /\ wish \in {"none", "run", "stop"}

(* The steps. *)

USE NoneIsNoProfile, StopIsNoStart, BoundsNat
    DEF Jobs, Job, Idle, Maybe, Callers, Go, Post, Then, Alive,
        Ends, Note, StartKeepsSlips, StopKeepsSlips, StopFails,
        guiVars, flagVars, lockVars, uiVars, startVars, coreVars, boxVars, rpcVars, userVars

\* The parts of a message.
LEMMA MessageParts ==
  ASSUME NEW msg \in Messages
  PROVE /\ msg.m \in {"stop", "start", "started"}
        /\ msg.m = "stop" => msg.crash \in BOOLEAN /\ msg.sem \in BOOLEAN
        /\ msg.m = "start" => msg.id \in Profiles
BY DEF Messages

\* proxor_start leaves the start to DS_cores, or to a thread that takes mu_starting, or does nothing.
LEMMA StartEffects ==
  ASSUME NEW p \in Profiles, StartRequest(p)
  PROVE /\ coreq' = coreq \/ coreq' = Append(coreq, p)
        /\ \/ UNCHANGED <<starting, pc, prof, tries>>
           \/ /\ ~starting /\ starting'
              /\ \E t \in Threads : /\ pc[t] = "idle" /\ pc' = [pc EXCEPT ![t] = "validate"]
                                    /\ prof' = [prof EXCEPT ![t] = p] /\ UNCHANGED tries
BY DEF StartRequest, ProxorStart, BuildFails

\* proxor_stop lets the waiter go at once, or hands it to the stop that follows.
LEMMA StopEffects ==
  ASSUME NEW crash \in BOOLEAN, NEW s \in BOOLEAN, ProxorStop(crash, s)
  PROVE /\ whenUp' = whenUp \/ whenUp' = None
        /\ \/ ui' = ui /\ sem' = sem + (IF s THEN 1 ELSE 0)
           \/ ui' = Job("lock", crash, s) /\ sem' = sem
BY DEF ProxorStop, StopNothing

\* The innermost call returns.
LEMMA CallReturns ==
  ASSUME NEW S, NEW q \in Seq(S), q # <<>>
  PROVE SubSeq(q, 1, Len(q) - 1) \in Seq(S)
<1>1. Len(q) \in Nat \ {0} /\ \A k \in 1..Len(q) : q[k] \in S
  BY EmptySeq, LenProperties, ElementOfSeq
<1> QED
  BY <1>1, SubSeqProperties

\* A callback is one of three kinds.
LEMMA CallbackEffects ==
  ASSUME UiCallback, uiq \in Seq(Messages)
  PROVE /\ ui.at = "idle" /\ uiq # <<>> /\ uiq' = Tail(uiq) /\ UNCHANGED <<acts, wish, exit>>
        /\ Head(uiq) \in Messages
        /\ \/ Head(uiq).m = "stop" /\ ProxorStop(Head(uiq).crash, Head(uiq).sem) /\ StopKeeps
           \/ Head(uiq).m = "start" /\ StartRequest(Head(uiq).id) /\ StartKeeps
           \/ Head(uiq).m = "started" /\ UNCHANGED <<cancel, sem, ui, whenUp>> /\ StopKeeps
<1>1. Head(uiq) \in Messages /\ Head(uiq).m \in {"stop", "start", "started"}
  BY QueueShrinks, MessageParts DEF UiCallback
<1> QED
  BY <1>1 DEF UiCallback

\* The jobs of the UI thread and of the stop thread, and the semaphore, stay in their ranges.
LEMMA JobsTyped ==
  ASSUME TypedJobs, TypedQueues, [Next]_vars
  PROVE TypedJobs'
<1> USE DEF TypedJobs, TypedQueues
<1>1. ASSUME NEW p \in Profiles, UserStart(p) \/ UserRestart(p) PROVE TypedJobs'
  BY <1>1 DEF UserStart, UserRestart, StartRequest, ProxorStart, BuildFails, StartKeeps, Act
<1>2. CASE UserStop
  <2>1. ProxorStop(FALSE, FALSE) /\ StopKeeps
    BY <1>2 DEF UserStop
  <2>2. ui' = ui \/ ui' = Job("lock", FALSE, FALSE)
    BY <2>1 DEF ProxorStop, StopNothing
  <2>3. Job("lock", FALSE, FALSE) \in Jobs({"idle", "lock", "crashed"})
    OBVIOUS
  <2>4. ui' \in Jobs({"idle", "lock", "crashed"})
    BY <2>2, <2>3
  <2>5. sem' = sem \/ sem' = sem + 1 \/ sem' = sem + 0
    BY <2>1 DEF ProxorStop, StopNothing
  <2> QED
    BY <2>1, <2>4, <2>5 DEF StopKeeps
<1>3. CASE UserExit
  <2>1. ProxorStop(FALSE, TRUE) /\ StopKeeps
    BY <1>3 DEF UserExit
  <2>2. ui' = ui \/ ui' = Job("lock", FALSE, TRUE)
    BY <2>1 DEF ProxorStop, StopNothing
  <2>3. Job("lock", FALSE, TRUE) \in Jobs({"idle", "lock", "crashed"})
    OBVIOUS
  <2>4. ui' \in Jobs({"idle", "lock", "crashed"})
    BY <2>2, <2>3
  <2>5. sem' = sem \/ sem' = sem + 1 \/ sem' = sem + 0
    BY <2>1 DEF ProxorStop, StopNothing
  <2> QED
    BY <2>1, <2>4, <2>5 DEF StopKeeps
<1>4. CASE UiCallback
  <2>0. uiq \in Seq(Messages)
    BY DEF TypedQueues
  <2>1. CASE Head(uiq).m = "stop" /\ ProxorStop(Head(uiq).crash, Head(uiq).sem) /\ StopKeeps
    <3>1. Head(uiq).crash \in BOOLEAN /\ Head(uiq).sem \in BOOLEAN
      BY <1>4, <2>0, <2>1, CallbackEffects, MessageParts
    <3>2. \/ ui' = ui /\ sem' = sem + (IF Head(uiq).sem THEN 1 ELSE 0)
          \/ ui' = Job("lock", Head(uiq).crash, Head(uiq).sem) /\ sem' = sem
      BY <2>1, <3>1, StopEffects
    <3> QED
      BY <2>1, <3>1, <3>2 DEF StopKeeps
  <2>2. CASE Head(uiq).m = "start" /\ StartRequest(Head(uiq).id) /\ StartKeeps
    BY <2>2 DEF StartKeeps
  <2>3. CASE Head(uiq).m = "started" /\ UNCHANGED <<cancel, sem, ui, whenUp>> /\ StopKeeps
    BY <2>3 DEF StopKeeps
  <2> QED
    BY <1>4, <2>0, <2>1, <2>2, <2>3, CallbackEffects
<1>5. CASE StopLock
  BY <1>5 DEF StopLock
<1>6. CASE StopBegin
  <2>1. ui' = ui \/ ui' = Job("crashed", FALSE, FALSE)
    BY <1>6 DEF StopBegin
  <2>2. stopper' \in {stopper, [stopper EXCEPT !.at = "commit"], [stopper EXCEPT !.at = "send"]}
    BY <1>6 DEF StopBegin, StopTo
  <2>3. Job("crashed", FALSE, FALSE) \in Jobs({"idle", "lock", "crashed"})
    OBVIOUS
  <2>4. ui' \in Jobs({"idle", "lock", "crashed"})
    BY <2>1, <2>3
  <2>5. stopper' \in Jobs({"idle", "begin", "send", "sent", "commit", "clear", "release"})
    BY <2>2
  <2> QED
    BY <1>6, <2>4, <2>5 DEF StopBegin
<1>7. CASE StopSend
  BY <1>7 DEF StopSend, StopThreadKeeps, StopTo, Send
<1>8. CASE StopSent
  BY <1>8 DEF StopSent, StopThreadKeeps, StopTo, Answered
<1>9. CASE StopCommit \/ StopClear
  BY <1>9 DEF StopCommit, StopClear, StopThreadKeeps, StopTo
<1>10. CASE StopRelease
  BY <1>10 DEF StopRelease, StopThreadKeeps
<1>11. CASE CoreStopCheck \/ CoreStopClose \/ CoreStopClear
  BY <1>11 DEF CoreStopCheck, CoreStopClose, CoreStopClear, CoreKeeps, Serves
<1>12. CASE CoreStopPanics
  BY <1>12 DEF CoreStopPanics, CoreLost, Serves
<1>13. CASE Listening
  BY <1>13 DEF Listening, ProcKeeps
<1>14. CASE Notice \/ LaunchFails
  BY <1>14 DEF Notice, LaunchFails, TellCrash, SayNothing, Dies, ProcKeeps
<1>15. CASE RestartTimer \/ RestartForProfile
  BY <1>15 DEF RestartTimer, RestartForProfile, ProcKeeps, Relaunch, CoreLost
<1>16. CASE Die
  BY <1>16 DEF Die, Dies, ProcKeeps, CoreLost
<1>17. CASE ExitAcquired
  BY <1>17 DEF ExitAcquired
<1>18. CASE ExitDone
  BY <1>18 DEF ExitDone, ProcKeeps, CoreLost
<1>19. ASSUME NEW t \in Threads, Validate(t) PROVE TypedJobs'
  BY <1>19 DEF Validate, StartThreadKeeps, GiveUp, Unlock
<1>20. ASSUME NEW t \in Threads, CheckCancel(t) PROVE TypedJobs'
  BY <1>20 DEF CheckCancel, StartThreadKeeps, GiveUp, Unlock
<1>21. ASSUME NEW t \in Threads, StopCurrent(t) PROVE TypedJobs'
  BY <1>21 DEF StopCurrent, StartThreadKeeps
<1>22. ASSUME NEW t \in Threads, Acquire(t) PROVE TypedJobs'
  BY <1>22 DEF Acquire, StartThreadKeeps
<1>23. ASSUME NEW t \in Threads, LoadConfig(t) PROVE TypedJobs'
  BY <1>23 DEF LoadConfig, StartThreadKeeps, Send
<1>24. ASSUME NEW t \in Threads, Loaded(t) PROVE TypedJobs'
  BY <1>24 DEF Loaded, StartThreadKeeps, Answered, MayRetry
<1>25. ASSUME NEW t \in Threads, LoadFailed(t) \/ Commit(t) PROVE TypedJobs'
  BY <1>25 DEF LoadFailed, Commit, StartThreadKeeps, Unlock
<1>26. ASSUME NEW t \in Threads, Show(t) PROVE TypedJobs'
  BY <1>26 DEF Show, Unlock
<1>27. ASSUME NEW t \in Threads, LateCancel(t) PROVE TypedJobs'
  BY <1>27 DEF LateCancel, StartThreadKeeps
<1>28. ASSUME NEW t \in Threads, CoreStartCheck(t) \/ CoreStartCreate(t) PROVE TypedJobs'
  BY <1>28 DEF CoreStartCheck, CoreStartCreate, CoreKeeps, Serves
<1>29. CASE Rest \/ UNCHANGED vars
  BY <1>29 DEF Rest, vars
<1> QED
  BY <1>1, <1>2, <1>3, <1>4, <1>5, <1>6, <1>7, <1>8, <1>9, <1>10, <1>11, <1>12, <1>13, <1>14, <1>15, <1>16,
     <1>17, <1>18, <1>19, <1>20, <1>21, <1>22, <1>23, <1>24, <1>25, <1>26, <1>27, <1>28, <1>29
     DEF Next, User, StopThread, CoreStops, DsCores, ExitThread, StartThread, CoreServes

\* Only messages, profiles and callers are queued.
LEMMA QueuesTyped ==
  ASSUME TypedQueues, TypedStarts, TypedRest, [Next]_vars
  PROVE TypedQueues'
<1> USE DEF TypedQueues, TypedStarts, TypedRest
<1>1. ASSUME NEW p \in Profiles, UserStart(p) \/ UserRestart(p) PROVE TypedQueues'
  <2>1. StartRequest(p) /\ StartKeeps /\ uiq' = uiq
    BY <1>1 DEF UserStart, UserRestart
  <2>2. Append(coreq, p) \in Seq(Profiles)
    BY AppendProperties
  <2>3. coreq' \in {coreq, Append(coreq, p)}
    BY <2>1, StartEffects
  <2> QED
    BY <2>1, <2>2, <2>3 DEF StartKeeps
<1>2. CASE UserStop
  BY <1>2 DEF UserStop, ProxorStop, StopNothing, StopKeeps, Act
<1>3. CASE UserExit
  BY <1>3 DEF UserExit, ProxorStop, StopNothing, StopKeeps, Act
<1>4. CASE UiCallback
  <2>0. uiq \in Seq(Messages)
    BY DEF TypedQueues
  <2>a. uiq' \in Seq(Messages)
    BY <1>4, <2>0, CallbackEffects, QueueShrinks
  <2>1. CASE Head(uiq).m = "stop" /\ ProxorStop(Head(uiq).crash, Head(uiq).sem) /\ StopKeeps
    BY <2>1, <2>a DEF StopKeeps
  <2>2. CASE Head(uiq).m = "start" /\ StartRequest(Head(uiq).id) /\ StartKeeps
    <3>1. Head(uiq).id \in Profiles
      BY <1>4, <2>0, <2>2, CallbackEffects, MessageParts
    <3>2. Append(coreq, Head(uiq).id) \in Seq(Profiles)
      BY <3>1, AppendProperties
    <3>3. coreq' \in {coreq, Append(coreq, Head(uiq).id)}
      BY <2>2, <3>1, StartEffects
    <3> QED
      BY <2>2, <2>a, <3>2, <3>3 DEF StartKeeps
  <2>3. CASE Head(uiq).m = "started" /\ UNCHANGED <<cancel, sem, ui, whenUp>> /\ StopKeeps
    BY <2>3, <2>a DEF StopKeeps
  <2> QED
    BY <1>4, <2>0, <2>1, <2>2, <2>3, CallbackEffects
<1>5. CASE StopLock
  BY <1>5 DEF StopLock
<1>6. CASE StopBegin
  BY <1>6 DEF StopBegin, StopThreadKeeps, StopTo
<1>7. CASE StopSend
  <2>1. Append(calls, Stop) \in Seq(Callers)
    BY AppendProperties
  <2> QED
    BY <1>7, <2>1 DEF StopSend, StopThreadKeeps, Send
<1>8. CASE StopSent
  <2>1. calls # <<>> /\ calls' = SubSeq(calls, 1, Len(calls) - 1) /\ UNCHANGED <<uiq, coreq>>
    BY <1>8 DEF StopSent, StopThreadKeeps, Answered
  <2>2. SubSeq(calls, 1, Len(calls) - 1) \in Seq(Callers)
    BY <2>1, CallReturns
  <2> QED
    BY <2>1, <2>2
<1>9. CASE StopCommit \/ StopClear
  BY <1>9 DEF StopCommit, StopClear, StopThreadKeeps, StopTo
<1>10. CASE StopRelease
  BY <1>10 DEF StopRelease, StopThreadKeeps
<1>11. CASE CoreStopCheck \/ CoreStopClose \/ CoreStopClear
  BY <1>11 DEF CoreStopCheck, CoreStopClose, CoreStopClear, CoreKeeps, Serves
<1>12. CASE CoreStopPanics
  BY <1>12 DEF CoreStopPanics, CoreLost, Serves
<1>13. CASE Listening
  <2>1. whenUp # None => [m |-> "start", id |-> whenUp] \in Messages
    BY DEF Messages
  <2>2. whenUp # None => Append(uiq, [m |-> "start", id |-> whenUp]) \in Seq(Messages)
    BY <2>1, AppendProperties
  <2> QED
    BY <1>13, <2>2 DEF Listening, ProcKeeps
<1>14. CASE Notice \/ LaunchFails
  <2>1. [m |-> "stop", crash |-> TRUE, sem |-> FALSE] \in Messages
    BY DEF Messages
  <2>2. Append(uiq, [m |-> "stop", crash |-> TRUE, sem |-> FALSE]) \in Seq(Messages)
    BY <2>1, AppendProperties
  <2> QED
    BY <1>14, <2>2 DEF Notice, LaunchFails, TellCrash, SayNothing, Dies, ProcKeeps
<1>15. CASE RestartTimer
  BY <1>15 DEF RestartTimer, ProcKeeps, Relaunch, CoreLost
<1>16. CASE RestartForProfile
  BY <1>16 DEF RestartForProfile, ProcKeeps, Relaunch, CoreLost
<1>17. CASE Die
  BY <1>17 DEF Die, Dies, ProcKeeps, CoreLost
<1>18. CASE ExitAcquired
  BY <1>18 DEF ExitAcquired
<1>19. CASE ExitDone
  BY <1>19 DEF ExitDone, ProcKeeps, CoreLost
<1>20. ASSUME NEW t \in Threads, Validate(t) PROVE TypedQueues'
  BY <1>20 DEF Validate, StartThreadKeeps, GiveUp, Unlock
<1>21. ASSUME NEW t \in Threads, CheckCancel(t) PROVE TypedQueues'
  BY <1>21 DEF CheckCancel, StartThreadKeeps, GiveUp, Unlock
<1>22. ASSUME NEW t \in Threads, StopCurrent(t) PROVE TypedQueues'
  <2>1. [m |-> "stop", crash |-> FALSE, sem |-> TRUE] \in Messages
    BY DEF Messages
  <2>2. Append(uiq, [m |-> "stop", crash |-> FALSE, sem |-> TRUE]) \in Seq(Messages)
    BY <2>1, AppendProperties
  <2> QED
    BY <1>22, <2>2 DEF StopCurrent, StartThreadKeeps
<1>23. ASSUME NEW t \in Threads, Acquire(t) PROVE TypedQueues'
  BY <1>23 DEF Acquire, StartThreadKeeps
<1>24. ASSUME NEW t \in Threads, LoadConfig(t) PROVE TypedQueues'
  <2>1. Append(calls, t) \in Seq(Callers)
    BY AppendProperties
  <2> QED
    BY <1>24, <2>1 DEF LoadConfig, StartThreadKeeps, Send
<1>25. ASSUME NEW t \in Threads, Loaded(t) PROVE TypedQueues'
  <2>1. calls # <<>> /\ calls' = SubSeq(calls, 1, Len(calls) - 1) /\ UNCHANGED <<uiq, coreq>>
    BY <1>25 DEF Loaded, StartThreadKeeps, Answered
  <2>2. SubSeq(calls, 1, Len(calls) - 1) \in Seq(Callers)
    BY <2>1, CallReturns
  <2> QED
    BY <2>1, <2>2
<1>26. ASSUME NEW t \in Threads, LoadFailed(t) \/ Commit(t) PROVE TypedQueues'
  BY <1>26 DEF LoadFailed, Commit, StartThreadKeeps, Unlock
<1>27. ASSUME NEW t \in Threads, Show(t) PROVE TypedQueues'
  <2>1. [m |-> "started"] \in Messages
    BY DEF Messages
  <2>2. Append(uiq, [m |-> "started"]) \in Seq(Messages)
    BY <2>1, AppendProperties
  <2> QED
    BY <1>27, <2>2 DEF Show
<1>28. ASSUME NEW t \in Threads, LateCancel(t) PROVE TypedQueues'
  <2>1. [m |-> "stop", crash |-> FALSE, sem |-> FALSE] \in Messages
    BY DEF Messages
  <2>2. Append(uiq, [m |-> "stop", crash |-> FALSE, sem |-> FALSE]) \in Seq(Messages)
    BY <2>1, AppendProperties
  <2> QED
    BY <1>28, <2>2 DEF LateCancel, StartThreadKeeps
<1>29. ASSUME NEW t \in Threads, CoreStartCheck(t) \/ CoreStartCreate(t) PROVE TypedQueues'
  BY <1>29 DEF CoreStartCheck, CoreStartCreate, CoreKeeps, Serves
<1>30. CASE Rest \/ UNCHANGED vars
  BY <1>30 DEF Rest, vars
<1> QED
  BY <1>1, <1>2, <1>3, <1>4, <1>5, <1>6, <1>7, <1>8, <1>9, <1>10, <1>11, <1>12, <1>13, <1>14, <1>15, <1>16,
     <1>17, <1>18, <1>19, <1>20, <1>21, <1>22, <1>23, <1>24, <1>25, <1>26, <1>27, <1>28, <1>29, <1>30
     DEF Next, User, StopThread, CoreStops, DsCores, ExitThread, StartThread, CoreServes

\* The start threads stay at the places of proxor_start, with a profile of their own.
LEMMA StartsTyped ==
  ASSUME TypedStarts, TypedQueues, AtWork, [Next]_vars
  PROVE TypedStarts'
<1> USE DEF TypedStarts, TypedQueues, AtWork
<1>1. ASSUME NEW p \in Profiles, UserStart(p) \/ UserRestart(p) PROVE TypedStarts'
  <2>1. StartRequest(p)
    BY <1>1 DEF UserStart, UserRestart
  <2>2. UNCHANGED <<pc, prof, tries>> \/ \E t \in Threads : /\ pc' = [pc EXCEPT ![t] = "validate"]
                                    /\ prof' = [prof EXCEPT ![t] = p] /\ UNCHANGED tries
    BY <2>1, StartEffects
  <2>3. ASSUME NEW u \in Threads, pc' = [pc EXCEPT ![u] = "validate"],
               prof' = [prof EXCEPT ![u] = p], UNCHANGED tries
        PROVE TypedStarts'
    <3>1. pc' \in [Threads -> {"idle", "validate", "check", "current", "acquire", "load", "loading",
                         "commit", "show", "failed", "tail"}]
      BY <2>3
    <3>2. prof' \in [Threads -> Maybe]
      BY <2>3
    <3>3. tries' \in [Threads -> 0..Attempts]
      BY <2>3
    <3> QED
      BY <3>1, <3>2, <3>3
  <2>4. CASE UNCHANGED <<pc, prof, tries>>
    BY <2>4
  <2> QED
    BY <2>2, <2>3, <2>4
<1>2. CASE UserStop
  BY <1>2 DEF UserStop, ProxorStop, StopNothing, StopKeeps, Act
<1>3. CASE UserExit
  BY <1>3 DEF UserExit, ProxorStop, StopNothing, StopKeeps, Act
<1>4. CASE UiCallback
  <2>0. uiq \in Seq(Messages)
    BY DEF TypedQueues
  <2>1. CASE Head(uiq).m = "stop" /\ ProxorStop(Head(uiq).crash, Head(uiq).sem) /\ StopKeeps
    BY <2>1 DEF StopKeeps
  <2>2. CASE Head(uiq).m = "start" /\ StartRequest(Head(uiq).id) /\ StartKeeps
    <3>1. Head(uiq).id \in Profiles
      BY <1>4, <2>0, <2>2, CallbackEffects, MessageParts
    <3>2. UNCHANGED <<pc, prof, tries>> \/ \E t \in Threads : /\ pc' = [pc EXCEPT ![t] = "validate"]
                 /\ prof' = [prof EXCEPT ![t] = Head(uiq).id] /\ UNCHANGED tries
      BY <2>2, <3>1, StartEffects
    <3>3. ASSUME NEW u \in Threads, pc' = [pc EXCEPT ![u] = "validate"],
                 prof' = [prof EXCEPT ![u] = Head(uiq).id], UNCHANGED tries
          PROVE TypedStarts'
      <4>1. pc' \in [Threads -> {"idle", "validate", "check", "current", "acquire", "load", "loading",
                         "commit", "show", "failed", "tail"}]
        BY <3>3
      <4>2. prof' \in [Threads -> Maybe]
        BY <3>1, <3>3
      <4>3. tries' \in [Threads -> 0..Attempts]
        BY <3>3
      <4> QED
        BY <4>1, <4>2, <4>3
    <3>4. CASE UNCHANGED <<pc, prof, tries>>
      BY <3>4
    <3> QED
      BY <3>2, <3>3, <3>4
  <2>3. CASE Head(uiq).m = "started" /\ UNCHANGED <<cancel, sem, ui, whenUp>> /\ StopKeeps
    BY <2>3 DEF StopKeeps
  <2> QED
    BY <1>4, <2>0, <2>1, <2>2, <2>3, CallbackEffects
<1>5. CASE StopLock
  BY <1>5 DEF StopLock
<1>6. CASE StopBegin
  BY <1>6 DEF StopBegin, StopThreadKeeps, StopTo
<1>7. CASE StopSend
  BY <1>7 DEF StopSend, StopThreadKeeps, StopTo, Send
<1>8. CASE StopSent
  BY <1>8 DEF StopSent, StopThreadKeeps, StopTo, Answered
<1>9. CASE StopCommit \/ StopClear
  BY <1>9 DEF StopCommit, StopClear, StopThreadKeeps, StopTo
<1>10. CASE StopRelease
  BY <1>10 DEF StopRelease, StopThreadKeeps
<1>11. CASE CoreStopCheck \/ CoreStopClose \/ CoreStopClear
  BY <1>11 DEF CoreStopCheck, CoreStopClose, CoreStopClear, CoreKeeps, Serves
<1>12. CASE CoreStopPanics
  BY <1>12 DEF CoreStopPanics, CoreLost, Serves
<1>13. CASE Listening
  BY <1>13 DEF Listening, ProcKeeps
<1>14. CASE Notice \/ LaunchFails
  BY <1>14 DEF Notice, LaunchFails, TellCrash, SayNothing, Dies, ProcKeeps
<1>15. CASE RestartTimer \/ RestartForProfile
  BY <1>15 DEF RestartTimer, RestartForProfile, ProcKeeps, Relaunch, CoreLost
<1>16. CASE Die
  BY <1>16 DEF Die, Dies, ProcKeeps, CoreLost
<1>17. CASE ExitAcquired
  BY <1>17 DEF ExitAcquired
<1>18. CASE ExitDone
  BY <1>18 DEF ExitDone, ProcKeeps, CoreLost
<1>19. ASSUME NEW t \in Threads, Validate(t) PROVE TypedStarts'
  <2>1. CASE Go(t, "check")
    BY <2>1
  <2>2. CASE GiveUp(t)
    <3>1. pc' = [pc EXCEPT ![t] = "idle"] /\ prof' = [prof EXCEPT ![t] = None] /\ tries' = [tries EXCEPT ![t] = 0]
      BY <2>2 DEF GiveUp
    <3>2. pc' \in [Threads -> {"idle", "validate", "check", "current", "acquire", "load", "loading",
                         "commit", "show", "failed", "tail"}]
      BY <3>1
    <3>3. prof' \in [Threads -> Maybe]
      BY <3>1
    <3>4. tries' \in [Threads -> 0..Attempts]
      BY <3>1
    <3> QED
      BY <3>2, <3>3, <3>4
  <2> QED
    BY <1>19, <2>1, <2>2 DEF Validate
<1>20. ASSUME NEW t \in Threads, CheckCancel(t) PROVE TypedStarts'
  <2>1. CASE Go(t, "current")
    BY <2>1
  <2>2. CASE GiveUp(t)
    <3>1. pc' = [pc EXCEPT ![t] = "idle"] /\ prof' = [prof EXCEPT ![t] = None] /\ tries' = [tries EXCEPT ![t] = 0]
      BY <2>2 DEF GiveUp
    <3>2. pc' \in [Threads -> {"idle", "validate", "check", "current", "acquire", "load", "loading",
                         "commit", "show", "failed", "tail"}]
      BY <3>1
    <3>3. prof' \in [Threads -> Maybe]
      BY <3>1
    <3>4. tries' \in [Threads -> 0..Attempts]
      BY <3>1
    <3> QED
      BY <3>2, <3>3, <3>4
  <2> QED
    BY <1>20, <2>1, <2>2 DEF CheckCancel
<1>21. ASSUME NEW t \in Threads, StopCurrent(t) PROVE TypedStarts'
  BY <1>21 DEF StopCurrent, StartThreadKeeps
<1>22. ASSUME NEW t \in Threads, Acquire(t) PROVE TypedStarts'
  BY <1>22 DEF Acquire, StartThreadKeeps
<1>23. ASSUME NEW t \in Threads, LoadConfig(t) PROVE TypedStarts'
  BY <1>23 DEF LoadConfig, StartThreadKeeps, Send
<1>24. ASSUME NEW t \in Threads, Loaded(t) PROVE TypedStarts'
  <2>1. tries[t] \in Nat /\ tries[t] + 1 \in 0..Attempts
    BY <1>24 DEF Loaded
  <2>2. UNCHANGED prof /\ tries' \in {tries, [tries EXCEPT ![t] = tries[t] + 1]}
    BY <1>24 DEF Loaded, StartThreadKeeps
  <2>3. pc' \in {[pc EXCEPT ![t] = "commit"], [pc EXCEPT ![t] = "failed"], [pc EXCEPT ![t] = "load"]}
    BY <1>24 DEF Loaded
  <2> QED
    BY <2>1, <2>2, <2>3
<1>25. ASSUME NEW t \in Threads, LoadFailed(t) \/ Commit(t) PROVE TypedStarts'
  BY <1>25 DEF LoadFailed, Commit, StartThreadKeeps, Unlock
<1>26. ASSUME NEW t \in Threads, Show(t) PROVE TypedStarts'
  BY <1>26 DEF Show, Unlock
<1>27. ASSUME NEW t \in Threads, LateCancel(t) PROVE TypedStarts'
  BY <1>27 DEF LateCancel, StartThreadKeeps
<1>28. ASSUME NEW t \in Threads, CoreStartCheck(t) \/ CoreStartCreate(t) PROVE TypedStarts'
  BY <1>28 DEF CoreStartCheck, CoreStartCreate, CoreKeeps, Serves
<1>29. CASE Rest \/ UNCHANGED vars
  BY <1>29 DEF Rest, vars
<1> QED
  BY <1>1, <1>2, <1>3, <1>4, <1>5, <1>6, <1>7, <1>8, <1>9, <1>10, <1>11, <1>12, <1>13, <1>14, <1>15, <1>16,
     <1>17, <1>18, <1>19, <1>20, <1>21, <1>22, <1>23, <1>24, <1>25, <1>26, <1>27, <1>28, <1>29
     DEF Next, User, StopThread, CoreStops, DsCores, ExitThread, StartThread, CoreServes

\* The core serves calls of known threads, with an instance of a known profile.
LEMMA CoreTyped ==
  ASSUME TypedCore, TypedStarts, TypedQueues, AtWork, [Next]_vars
  PROVE TypedCore'
<1> USE DEF TypedCore, TypedStarts, TypedQueues, AtWork
<1>1. ASSUME NEW p \in Profiles, UserStart(p) \/ UserRestart(p) PROVE TypedCore'
  BY <1>1 DEF UserStart, UserRestart, StartRequest, ProxorStart, BuildFails, StartKeeps, Act
<1>2. CASE UserStop
  BY <1>2 DEF UserStop, ProxorStop, StopNothing, StopKeeps, Act
<1>3. CASE UserExit
  BY <1>3 DEF UserExit, ProxorStop, StopNothing, StopKeeps, Act
<1>4. CASE UiCallback
  <2>0. uiq \in Seq(Messages)
    BY DEF TypedQueues
  <2>1. CASE Head(uiq).m = "stop" /\ ProxorStop(Head(uiq).crash, Head(uiq).sem) /\ StopKeeps
    BY <2>1 DEF StopKeeps
  <2>2. CASE Head(uiq).m = "start" /\ StartRequest(Head(uiq).id) /\ StartKeeps
    BY <2>2 DEF StartKeeps
  <2>3. CASE Head(uiq).m = "started" /\ UNCHANGED <<cancel, sem, ui, whenUp>> /\ StopKeeps
    BY <2>3 DEF StopKeeps
  <2> QED
    BY <1>4, <2>0, <2>1, <2>2, <2>3, CallbackEffects
<1>5. CASE StopLock
  BY <1>5 DEF StopLock
<1>6. CASE StopBegin
  BY <1>6 DEF StopBegin, StopThreadKeeps, StopTo
<1>7. CASE StopSend
  BY <1>7 DEF StopSend, StopThreadKeeps, StopTo, Send
<1>8. CASE StopSent
  BY <1>8 DEF StopSent, StopThreadKeeps, StopTo, Answered
<1>9. CASE StopCommit \/ StopClear
  BY <1>9 DEF StopCommit, StopClear, StopThreadKeeps, StopTo
<1>10. CASE StopRelease
  BY <1>10 DEF StopRelease, StopThreadKeeps
<1>11. CASE CoreStopCheck \/ CoreStopClose \/ CoreStopClear
  BY <1>11 DEF CoreStopCheck, CoreStopClose, CoreStopClear, CoreKeeps, Serves
<1>12. CASE CoreStopPanics
  BY <1>12 DEF CoreStopPanics, CoreLost, Serves
<1>13. CASE Listening
  BY <1>13 DEF Listening, ProcKeeps
<1>14. CASE Notice \/ LaunchFails
  BY <1>14 DEF Notice, LaunchFails, TellCrash, SayNothing, Dies, ProcKeeps
<1>15. CASE RestartTimer \/ RestartForProfile
  BY <1>15 DEF RestartTimer, RestartForProfile, ProcKeeps, Relaunch, CoreLost
<1>16. CASE Die
  BY <1>16 DEF Die, Dies, ProcKeeps, CoreLost
<1>17. CASE ExitAcquired
  BY <1>17 DEF ExitAcquired
<1>18. CASE ExitDone
  BY <1>18 DEF ExitDone, ProcKeeps, CoreLost
<1>19. ASSUME NEW t \in Threads, Validate(t) PROVE TypedCore'
  BY <1>19 DEF Validate, StartThreadKeeps, GiveUp, Unlock
<1>20. ASSUME NEW t \in Threads, CheckCancel(t) PROVE TypedCore'
  BY <1>20 DEF CheckCancel, StartThreadKeeps, GiveUp, Unlock
<1>21. ASSUME NEW t \in Threads, StopCurrent(t) PROVE TypedCore'
  BY <1>21 DEF StopCurrent, StartThreadKeeps
<1>22. ASSUME NEW t \in Threads, Acquire(t) PROVE TypedCore'
  BY <1>22 DEF Acquire, StartThreadKeeps
<1>23. ASSUME NEW t \in Threads, LoadConfig(t) PROVE TypedCore'
  BY <1>23 DEF LoadConfig, StartThreadKeeps, Send
<1>24. ASSUME NEW t \in Threads, Loaded(t) PROVE TypedCore'
  BY <1>24 DEF Loaded, StartThreadKeeps, Answered, MayRetry
<1>25. ASSUME NEW t \in Threads, LoadFailed(t) \/ Commit(t) PROVE TypedCore'
  BY <1>25 DEF LoadFailed, Commit, StartThreadKeeps, Unlock
<1>26. ASSUME NEW t \in Threads, Show(t) PROVE TypedCore'
  BY <1>26 DEF Show, Unlock
<1>27. ASSUME NEW t \in Threads, LateCancel(t) PROVE TypedCore'
  BY <1>27 DEF LateCancel, StartThreadKeeps
<1>28. ASSUME NEW t \in Threads, CoreStartCheck(t) \/ CoreStartCreate(t) PROVE TypedCore'
  BY <1>28 DEF CoreStartCheck, CoreStartCreate, CoreKeeps, Serves
<1>29. CASE Rest \/ UNCHANGED vars
  BY <1>29 DEF Rest, vars
<1> QED
  BY <1>1, <1>2, <1>3, <1>4, <1>5, <1>6, <1>7, <1>8, <1>9, <1>10, <1>11, <1>12, <1>13, <1>14, <1>15, <1>16,
     <1>17, <1>18, <1>19, <1>20, <1>21, <1>22, <1>23, <1>24, <1>25, <1>26, <1>27, <1>28, <1>29
     DEF Next, User, StopThread, CoreStops, DsCores, ExitThread, StartThread, CoreServes

\* What is started, the core process, the exit and the counters stay in their ranges.
LEMMA RestTyped ==
  ASSUME TypedRest, TypedStarts, TypedQueues, [Next]_vars
  PROVE TypedRest'
<1> USE DEF TypedRest, TypedStarts, TypedQueues
<1>1. ASSUME NEW p \in Profiles, UserStart(p) \/ UserRestart(p) PROVE TypedRest'
  BY <1>1 DEF UserStart, UserRestart, StartRequest, ProxorStart, BuildFails, StartKeeps, Act
<1>2. CASE UserStop
  BY <1>2 DEF UserStop, ProxorStop, StopNothing, StopKeeps, Act
<1>3. CASE UserExit
  BY <1>3 DEF UserExit, ProxorStop, StopNothing, StopKeeps, Act
<1>4. CASE UiCallback
  <2>0. uiq \in Seq(Messages)
    BY DEF TypedQueues
  <2>a. UNCHANGED <<acts, wish, exit>>
    BY <1>4, <2>0, CallbackEffects
  <2>1. CASE Head(uiq).m = "stop" /\ ProxorStop(Head(uiq).crash, Head(uiq).sem) /\ StopKeeps
    <3>1. Head(uiq).crash \in BOOLEAN /\ Head(uiq).sem \in BOOLEAN
      BY <1>4, <2>0, <2>1, CallbackEffects, MessageParts
    <3>2. whenUp' \in {whenUp, None}
      BY <2>1, <3>1, StopEffects
    <3> QED
      BY <2>1, <2>a, <3>2 DEF StopKeeps
  <2>2. CASE Head(uiq).m = "start" /\ StartRequest(Head(uiq).id) /\ StartKeeps
    BY <2>2, <2>a DEF StartKeeps
  <2>3. CASE Head(uiq).m = "started" /\ UNCHANGED <<cancel, sem, ui, whenUp>> /\ StopKeeps
    BY <2>3, <2>a DEF StopKeeps
  <2> QED
    BY <1>4, <2>0, <2>1, <2>2, <2>3, CallbackEffects
<1>5. CASE StopLock
  BY <1>5 DEF StopLock
<1>6. CASE StopBegin
  BY <1>6 DEF StopBegin, StopThreadKeeps, StopTo
<1>7. CASE StopSend
  BY <1>7 DEF StopSend, StopThreadKeeps, StopTo, Send
<1>8. CASE StopSent
  BY <1>8 DEF StopSent, StopThreadKeeps, StopTo, Answered
<1>9. CASE StopCommit \/ StopClear
  BY <1>9 DEF StopCommit, StopClear, StopThreadKeeps, StopTo
<1>10. CASE StopRelease
  BY <1>10 DEF StopRelease, StopThreadKeeps
<1>11. CASE CoreStopCheck \/ CoreStopClose \/ CoreStopClear
  BY <1>11 DEF CoreStopCheck, CoreStopClose, CoreStopClear, CoreKeeps, Serves
<1>12. CASE CoreStopPanics
  BY <1>12 DEF CoreStopPanics, CoreLost, Serves
<1>13. CASE Listening
  BY <1>13 DEF Listening, ProcKeeps
<1>14. CASE Notice \/ LaunchFails
  BY <1>14 DEF Notice, LaunchFails, TellCrash, SayNothing, Dies, ProcKeeps
<1>15. CASE RestartTimer \/ RestartForProfile
  BY <1>15 DEF RestartTimer, RestartForProfile, ProcKeeps, Relaunch, CoreLost
<1>16. CASE Die
  BY <1>16 DEF Die, Dies, ProcKeeps, CoreLost
<1>17. CASE ExitAcquired
  BY <1>17 DEF ExitAcquired
<1>18. CASE ExitDone
  BY <1>18 DEF ExitDone, ProcKeeps, CoreLost
<1>19. ASSUME NEW t \in Threads, Validate(t) PROVE TypedRest'
  BY <1>19 DEF Validate, StartThreadKeeps, GiveUp, Unlock
<1>20. ASSUME NEW t \in Threads, CheckCancel(t) PROVE TypedRest'
  BY <1>20 DEF CheckCancel, StartThreadKeeps, GiveUp, Unlock
<1>21. ASSUME NEW t \in Threads, StopCurrent(t) PROVE TypedRest'
  BY <1>21 DEF StopCurrent, StartThreadKeeps
<1>22. ASSUME NEW t \in Threads, Acquire(t) PROVE TypedRest'
  BY <1>22 DEF Acquire, StartThreadKeeps
<1>23. ASSUME NEW t \in Threads, LoadConfig(t) PROVE TypedRest'
  BY <1>23 DEF LoadConfig, StartThreadKeeps, Send
<1>24. ASSUME NEW t \in Threads, Loaded(t) PROVE TypedRest'
  BY <1>24 DEF Loaded, StartThreadKeeps, Answered, MayRetry
<1>25. ASSUME NEW t \in Threads, LoadFailed(t) \/ Commit(t) PROVE TypedRest'
  BY <1>25 DEF LoadFailed, Commit, StartThreadKeeps, Unlock
<1>26. ASSUME NEW t \in Threads, Show(t) PROVE TypedRest'
  BY <1>26 DEF Show, Unlock
<1>27. ASSUME NEW t \in Threads, LateCancel(t) PROVE TypedRest'
  BY <1>27 DEF LateCancel, StartThreadKeeps
<1>28. ASSUME NEW t \in Threads, CoreStartCheck(t) \/ CoreStartCreate(t) PROVE TypedRest'
  BY <1>28 DEF CoreStartCheck, CoreStartCreate, CoreKeeps, Serves
<1>29. CASE Rest \/ UNCHANGED vars
  BY <1>29 DEF Rest, vars
<1> QED
  BY <1>1, <1>2, <1>3, <1>4, <1>5, <1>6, <1>7, <1>8, <1>9, <1>10, <1>11, <1>12, <1>13, <1>14, <1>15, <1>16,
     <1>17, <1>18, <1>19, <1>20, <1>21, <1>22, <1>23, <1>24, <1>25, <1>26, <1>27, <1>28, <1>29
     DEF Next, User, StopThread, CoreStops, DsCores, ExitThread, StartThread, CoreServes

\* Only what the README names is noted.
LEMMA SlipsTyped ==
  ASSUME slips \subseteq Slips, TypedQueues, [Next]_vars
  PROVE slips' \subseteq Slips
<1> USE DEF Slips
<1>1. ASSUME NEW p \in Profiles, UserStart(p) \/ UserRestart(p) PROVE slips' \subseteq Slips
  BY <1>1 DEF UserStart, UserRestart, StartSlips
<1>2. CASE UserStop \/ UserExit
  BY <1>2 DEF UserStop, UserExit
<1>3. CASE UiCallback
  <2>1. Head(uiq).m \in {"stop", "start", "started"}
    BY <1>3, CallbackEffects, MessageParts DEF TypedQueues
  <2>2. CASE Head(uiq).m = "stop"
    BY <1>3, <2>2 DEF UiCallback
  <2>3. CASE Head(uiq).m = "start"
    BY <1>3, <2>3 DEF UiCallback, StartSlips
  <2>4. CASE Head(uiq).m = "started"
    BY <1>3, <2>4 DEF UiCallback
  <2> QED
    BY <2>1, <2>2, <2>3, <2>4
<1>4. CASE StopLock \/ StopThread
  BY <1>4 DEF StopLock, StopThread, StopBegin, StopSend, StopSent, StopCommit, StopClear, StopRelease,
              StopThreadKeeps
<1>5. CASE CoreStops
  BY <1>5 DEF CoreStops, CoreStopCheck, CoreStopClose, CoreStopPanics, CoreStopClear, CoreKeeps
<1>6. CASE DsCores \/ Die \/ LaunchFails
  BY <1>6 DEF DsCores, Listening, Notice, TellCrash, RestartTimer, RestartForProfile, Relaunch, Die, LaunchFails
<1>7. CASE ExitThread
  BY <1>7 DEF ExitThread, ExitAcquired, ExitDone
<1>8. ASSUME NEW t \in Threads, StartThread(t) PROVE slips' \subseteq Slips
  BY <1>8 DEF StartThread, Validate, CheckCancel, StopCurrent, Acquire, LoadConfig, Loaded, LoadFailed, Commit,
              Show, LateCancel, StartThreadKeeps
<1>9. ASSUME NEW t \in Threads, CoreServes(t) PROVE slips' \subseteq Slips
  BY <1>9 DEF CoreServes, CoreStartCheck, CoreStartCreate, CoreKeeps
<1>10. CASE Rest \/ UNCHANGED vars
  BY <1>10 DEF Rest, vars
<1> QED
  BY <1>1, <1>2, <1>3, <1>4, <1>5, <1>6, <1>7, <1>8, <1>9, <1>10 DEF Next, User

\* The flags stay Boolean.
LEMMA FlagsTyped ==
  ASSUME TypeFlags, TypedQueues, [Next]_vars
  PROVE TypeFlags'
<1> USE DEF TypeFlags, TypedQueues
<1>1. ASSUME NEW p \in Profiles, UserStart(p) \/ UserRestart(p) PROVE TypeFlags'
  BY <1>1 DEF UserStart, UserRestart, StartRequest, ProxorStart, BuildFails, StartKeeps, Act
<1>2. CASE UserStop
  BY <1>2 DEF UserStop, ProxorStop, StopNothing, StopKeeps, Act
<1>3. CASE UserExit
  BY <1>3 DEF UserExit, ProxorStop, StopNothing, StopKeeps, Act
<1>4. CASE UiCallback
  <2>0. uiq \in Seq(Messages)
    BY DEF TypedQueues
  <2>1. CASE Head(uiq).m = "stop" /\ ProxorStop(Head(uiq).crash, Head(uiq).sem) /\ StopKeeps
    BY <2>1 DEF StopKeeps, ProxorStop, StopNothing
  <2>2. CASE Head(uiq).m = "start" /\ StartRequest(Head(uiq).id) /\ StartKeeps
    BY <2>2 DEF StartKeeps, StartRequest, ProxorStart, BuildFails
  <2>3. CASE Head(uiq).m = "started" /\ UNCHANGED <<cancel, sem, ui, whenUp>> /\ StopKeeps
    <3>1. pending' = FALSE
      BY <1>4, <2>3 DEF UiCallback
    <3> QED
      BY <2>3, <3>1 DEF StopKeeps
  <2> QED
    BY <1>4, <2>0, <2>1, <2>2, <2>3, CallbackEffects
<1>5. CASE StopLock
  BY <1>5 DEF StopLock
<1>6. CASE StopBegin
  BY <1>6 DEF StopBegin, StopThreadKeeps, StopTo
<1>7. CASE StopSend
  BY <1>7 DEF StopSend, StopThreadKeeps, StopTo, Send
<1>8. CASE StopSent
  BY <1>8 DEF StopSent, StopThreadKeeps, StopTo, Answered
<1>9. CASE StopCommit \/ StopClear
  BY <1>9 DEF StopCommit, StopClear, StopThreadKeeps, StopTo
<1>10. CASE StopRelease
  BY <1>10 DEF StopRelease, StopThreadKeeps
<1>11. CASE CoreStopCheck \/ CoreStopClose \/ CoreStopClear
  BY <1>11 DEF CoreStopCheck, CoreStopClose, CoreStopClear, CoreKeeps, Serves
<1>12. CASE CoreStopPanics
  BY <1>12 DEF CoreStopPanics, CoreLost, Serves
<1>13. CASE Listening
  BY <1>13 DEF Listening, ProcKeeps
<1>14. CASE Notice \/ LaunchFails
  BY <1>14 DEF Notice, LaunchFails, TellCrash, SayNothing, Dies, ProcKeeps
<1>15. CASE RestartTimer \/ RestartForProfile
  BY <1>15 DEF RestartTimer, RestartForProfile, ProcKeeps, Relaunch, CoreLost
<1>16. CASE Die
  BY <1>16 DEF Die, Dies, ProcKeeps, CoreLost
<1>17. CASE ExitAcquired
  BY <1>17 DEF ExitAcquired
<1>18. CASE ExitDone
  BY <1>18 DEF ExitDone, ProcKeeps, CoreLost
<1>19. ASSUME NEW t \in Threads, Validate(t) PROVE TypeFlags'
  BY <1>19 DEF Validate, StartThreadKeeps, GiveUp, Unlock
<1>20. ASSUME NEW t \in Threads, CheckCancel(t) PROVE TypeFlags'
  BY <1>20 DEF CheckCancel, StartThreadKeeps, GiveUp, Unlock
<1>21. ASSUME NEW t \in Threads, StopCurrent(t) PROVE TypeFlags'
  BY <1>21 DEF StopCurrent, StartThreadKeeps
<1>22. ASSUME NEW t \in Threads, Acquire(t) PROVE TypeFlags'
  BY <1>22 DEF Acquire, StartThreadKeeps
<1>23. ASSUME NEW t \in Threads, LoadConfig(t) PROVE TypeFlags'
  BY <1>23 DEF LoadConfig, StartThreadKeeps, Send
<1>24. ASSUME NEW t \in Threads, Loaded(t) PROVE TypeFlags'
  BY <1>24 DEF Loaded, StartThreadKeeps, Answered, MayRetry
<1>25. ASSUME NEW t \in Threads, LoadFailed(t) \/ Commit(t) PROVE TypeFlags'
  BY <1>25 DEF LoadFailed, Commit, StartThreadKeeps, Unlock
<1>26. ASSUME NEW t \in Threads, Show(t) PROVE TypeFlags'
  BY <1>26 DEF Show, Unlock
<1>27. ASSUME NEW t \in Threads, LateCancel(t) PROVE TypeFlags'
  BY <1>27 DEF LateCancel, StartThreadKeeps
<1>28. ASSUME NEW t \in Threads, CoreStartCheck(t) \/ CoreStartCreate(t) PROVE TypeFlags'
  BY <1>28 DEF CoreStartCheck, CoreStartCreate, CoreKeeps, Serves
<1>29. CASE Rest \/ UNCHANGED vars
  BY <1>29 DEF Rest, vars
<1> QED
  BY <1>1, <1>2, <1>3, <1>4, <1>5, <1>6, <1>7, <1>8, <1>9, <1>10, <1>11, <1>12, <1>13, <1>14, <1>15, <1>16,
     <1>17, <1>18, <1>19, <1>20, <1>21, <1>22, <1>23, <1>24, <1>25, <1>26, <1>27, <1>28, <1>29
     DEF Next, User, StopThread, CoreStops, DsCores, ExitThread, StartThread, CoreServes

\* No step takes mu_starting twice, and none frees it while its owner is at work.
LEMMA StartKept ==
  ASSUME TypedStarts, TypedQueues, OneStart, [Next]_vars
  PROVE OneStart'
<1> USE DEF TypedStarts, TypedQueues, OneStart, Locked
<1>1. ASSUME NEW p \in Profiles, UserStart(p) \/ UserRestart(p) PROVE OneStart'
  BY <1>1 DEF UserStart, UserRestart, StartRequest, ProxorStart, BuildFails, StartKeeps, Act
<1>2. CASE UserStop
  BY <1>2 DEF UserStop, ProxorStop, StopNothing, StopKeeps, Act
<1>3. CASE UserExit
  BY <1>3 DEF UserExit, ProxorStop, StopNothing, StopKeeps, Act
<1>4. CASE UiCallback
  <2>0. uiq \in Seq(Messages)
    BY DEF TypedQueues
  <2>1. CASE Head(uiq).m = "stop" /\ ProxorStop(Head(uiq).crash, Head(uiq).sem) /\ StopKeeps
    BY <2>1 DEF StopKeeps
  <2>2. CASE Head(uiq).m = "start" /\ StartRequest(Head(uiq).id) /\ StartKeeps
    BY <2>2 DEF StartKeeps, StartRequest, ProxorStart, BuildFails
  <2>3. CASE Head(uiq).m = "started" /\ UNCHANGED <<cancel, sem, ui, whenUp>> /\ StopKeeps
    BY <2>3 DEF StopKeeps
  <2> QED
    BY <1>4, <2>0, <2>1, <2>2, <2>3, CallbackEffects
<1>5. CASE StopLock
  BY <1>5 DEF StopLock
<1>6. CASE StopBegin
  BY <1>6 DEF StopBegin, StopThreadKeeps, StopTo
<1>7. CASE StopSend
  BY <1>7 DEF StopSend, StopThreadKeeps, StopTo, Send
<1>8. CASE StopSent
  BY <1>8 DEF StopSent, StopThreadKeeps, StopTo, Answered
<1>9. CASE StopCommit \/ StopClear
  BY <1>9 DEF StopCommit, StopClear, StopThreadKeeps, StopTo
<1>10. CASE StopRelease
  BY <1>10 DEF StopRelease, StopThreadKeeps
<1>11. CASE CoreStopCheck \/ CoreStopClose \/ CoreStopClear
  BY <1>11 DEF CoreStopCheck, CoreStopClose, CoreStopClear, CoreKeeps, Serves
<1>12. CASE CoreStopPanics
  BY <1>12 DEF CoreStopPanics, CoreLost, Serves
<1>13. CASE Listening
  BY <1>13 DEF Listening, ProcKeeps
<1>14. CASE Notice \/ LaunchFails
  BY <1>14 DEF Notice, LaunchFails, TellCrash, SayNothing, Dies, ProcKeeps
<1>15. CASE RestartTimer \/ RestartForProfile
  BY <1>15 DEF RestartTimer, RestartForProfile, ProcKeeps, Relaunch, CoreLost
<1>16. CASE Die
  BY <1>16 DEF Die, Dies, ProcKeeps, CoreLost
<1>17. CASE ExitAcquired
  BY <1>17 DEF ExitAcquired
<1>18. CASE ExitDone
  BY <1>18 DEF ExitDone, ProcKeeps, CoreLost
<1>19. ASSUME NEW t \in Threads, Validate(t) PROVE OneStart'
  <2>1. CASE Go(t, "check") /\ UNCHANGED starting
    BY <1>19, <2>1 DEF Validate
  <2>2. CASE GiveUp(t)
    <3>1. starting' = FALSE /\ pc' = [pc EXCEPT ![t] = "idle"]
      BY <2>2 DEF GiveUp, Unlock
    <3>2. \A u \in Threads : pc'[u] \notin Locked
      BY <1>19, <3>1 DEF Validate
    <3> QED
      BY <3>1, <3>2
  <2> QED
    BY <1>19, <2>1, <2>2 DEF Validate
<1>20. ASSUME NEW t \in Threads, CheckCancel(t) PROVE OneStart'
  <2>1. CASE Go(t, "current") /\ UNCHANGED starting
    BY <1>20, <2>1 DEF CheckCancel
  <2>2. CASE GiveUp(t)
    <3>1. starting' = FALSE /\ pc' = [pc EXCEPT ![t] = "idle"]
      BY <2>2 DEF GiveUp, Unlock
    <3>2. \A u \in Threads : pc'[u] \notin Locked
      BY <1>20, <3>1 DEF CheckCancel
    <3> QED
      BY <3>1, <3>2
  <2> QED
    BY <1>20, <2>1, <2>2 DEF CheckCancel
<1>21. ASSUME NEW t \in Threads, StopCurrent(t) PROVE OneStart'
  BY <1>21 DEF StopCurrent, StartThreadKeeps
<1>22. ASSUME NEW t \in Threads, Acquire(t) PROVE OneStart'
  BY <1>22 DEF Acquire, StartThreadKeeps
<1>23. ASSUME NEW t \in Threads, LoadConfig(t) PROVE OneStart'
  BY <1>23 DEF LoadConfig, StartThreadKeeps, Send
<1>24. ASSUME NEW t \in Threads, Loaded(t) PROVE OneStart'
  BY <1>24 DEF Loaded, StartThreadKeeps, Answered, MayRetry
<1>25. ASSUME NEW t \in Threads, LoadFailed(t) PROVE OneStart'
  BY <1>25 DEF LoadFailed, StartThreadKeeps, Unlock
<1>26. ASSUME NEW t \in Threads, Commit(t) PROVE OneStart'
  BY <1>26 DEF Commit
<1>27. ASSUME NEW t \in Threads, Show(t) PROVE OneStart'
  BY <1>27 DEF Show, Unlock
<1>28. ASSUME NEW t \in Threads, LateCancel(t) PROVE OneStart'
  BY <1>28 DEF LateCancel, StartThreadKeeps
<1>29. ASSUME NEW t \in Threads, CoreStartCheck(t) \/ CoreStartCreate(t) PROVE OneStart'
  BY <1>29 DEF CoreStartCheck, CoreStartCreate, CoreKeeps, Serves
<1>30. CASE Rest \/ UNCHANGED vars
  BY <1>30 DEF Rest, vars
<1> QED
  BY <1>1, <1>2, <1>3, <1>4, <1>5, <1>6, <1>7, <1>8, <1>9, <1>10, <1>11, <1>12, <1>13, <1>14, <1>15, <1>16,
     <1>17, <1>18, <1>19, <1>20, <1>21, <1>22, <1>23, <1>24, <1>25, <1>26, <1>27, <1>28, <1>29, <1>30
     DEF Next, User, StopThread, CoreStops, DsCores, ExitThread, StartThread, CoreServes

\* A thread keeps its profile, and its attempts stay below the limit.
LEMMA WorkKept ==
  ASSUME TypedStarts, TypedQueues, TypedCore, AtWork, [Next]_vars
  PROVE AtWork'
<1> USE DEF TypedStarts, TypedQueues, TypedCore, AtWork
<1>1. ASSUME NEW p \in Profiles, UserStart(p) \/ UserRestart(p) PROVE AtWork'
  <2>1. StartRequest(p) /\ UNCHANGED handler
    BY <1>1 DEF UserStart, UserRestart, StartKeeps
  <2>2. \/ UNCHANGED <<pc, prof, tries>>
        \/ \E u \in Threads : /\ pc[u] = "idle" /\ pc' = [pc EXCEPT ![u] = "validate"]
                              /\ prof' = [prof EXCEPT ![u] = p] /\ UNCHANGED tries
    BY <2>1, StartEffects
  <2>3. ASSUME NEW u \in Threads, pc[u] = "idle", pc' = [pc EXCEPT ![u] = "validate"],
               prof' = [prof EXCEPT ![u] = p], UNCHANGED tries
        PROVE AtWork'
    BY <2>1, <2>3
  <2>4. CASE UNCHANGED <<pc, prof, tries>>
    BY <2>1, <2>4
  <2> QED
    BY <2>2, <2>3, <2>4
<1>2. CASE UserStop
  BY <1>2 DEF UserStop, ProxorStop, StopNothing, StopKeeps, Act
<1>3. CASE UserExit
  BY <1>3 DEF UserExit, ProxorStop, StopNothing, StopKeeps, Act
<1>4. CASE UiCallback
  <2>0. uiq \in Seq(Messages)
    BY DEF TypedQueues
  <2>1. CASE Head(uiq).m = "stop" /\ ProxorStop(Head(uiq).crash, Head(uiq).sem) /\ StopKeeps
    BY <2>1 DEF StopKeeps
  <2>2. CASE Head(uiq).m = "start" /\ StartRequest(Head(uiq).id) /\ StartKeeps
    <3>1. Head(uiq).id \in Profiles
      BY <1>4, <2>0, <2>2, CallbackEffects, MessageParts
    <3>2. \/ UNCHANGED <<pc, prof, tries>>
          \/ \E u \in Threads : /\ pc[u] = "idle" /\ pc' = [pc EXCEPT ![u] = "validate"]
                                /\ prof' = [prof EXCEPT ![u] = Head(uiq).id] /\ UNCHANGED tries
      BY <2>2, <3>1, StartEffects
    <3>3. UNCHANGED handler
      BY <2>2 DEF StartKeeps
    <3>4. ASSUME NEW u \in Threads, pc[u] = "idle", pc' = [pc EXCEPT ![u] = "validate"],
                 prof' = [prof EXCEPT ![u] = Head(uiq).id], UNCHANGED tries
          PROVE AtWork'
      BY <3>1, <3>3, <3>4
    <3>5. CASE UNCHANGED <<pc, prof, tries>>
      BY <3>3, <3>5
    <3> QED
      BY <3>2, <3>4, <3>5
  <2>3. CASE Head(uiq).m = "started" /\ UNCHANGED <<cancel, sem, ui, whenUp>> /\ StopKeeps
    BY <2>3 DEF StopKeeps
  <2> QED
    BY <1>4, <2>0, <2>1, <2>2, <2>3, CallbackEffects
<1>5. CASE StopLock
  BY <1>5 DEF StopLock
<1>6. CASE StopBegin
  BY <1>6 DEF StopBegin, StopThreadKeeps, StopTo
<1>7. CASE StopSend
  BY <1>7 DEF StopSend, StopThreadKeeps, StopTo, Send
<1>8. CASE StopSent
  BY <1>8 DEF StopSent, StopThreadKeeps, StopTo, Answered
<1>9. CASE StopCommit \/ StopClear
  BY <1>9 DEF StopCommit, StopClear, StopThreadKeeps, StopTo
<1>10. CASE StopRelease
  BY <1>10 DEF StopRelease, StopThreadKeeps
<1>11. CASE CoreStopCheck \/ CoreStopClose \/ CoreStopClear
  BY <1>11 DEF CoreStopCheck, CoreStopClose, CoreStopClear, CoreKeeps, Serves
<1>12. CASE CoreStopPanics
  BY <1>12 DEF CoreStopPanics, CoreLost, Serves
<1>13. CASE Listening
  BY <1>13 DEF Listening, ProcKeeps
<1>14. CASE Notice \/ LaunchFails
  BY <1>14 DEF Notice, LaunchFails, TellCrash, SayNothing, Dies, ProcKeeps
<1>15. CASE RestartTimer \/ RestartForProfile
  BY <1>15 DEF RestartTimer, RestartForProfile, ProcKeeps, Relaunch, CoreLost
<1>16. CASE Die
  BY <1>16 DEF Die, Dies, ProcKeeps, CoreLost
<1>17. CASE ExitAcquired
  BY <1>17 DEF ExitAcquired
<1>18. CASE ExitDone
  BY <1>18 DEF ExitDone, ProcKeeps, CoreLost
<1>19. ASSUME NEW t \in Threads, Validate(t) PROVE AtWork'
  <2>0. UNCHANGED handler /\ pc[t] \in {"validate", "check"}
    BY <1>19 DEF Validate
  <2>1. CASE Go(t, "check")
    BY <2>0, <2>1
  <2>2. CASE GiveUp(t)
    <3>1. pc' = [pc EXCEPT ![t] = "idle"] /\ prof' = [prof EXCEPT ![t] = None] /\ tries' = [tries EXCEPT ![t] = 0]
      BY <2>2 DEF GiveUp
    <3>2. \A u \in Threads : pc'[u] # "idle" => u # t /\ pc'[u] = pc[u] /\ prof'[u] = prof[u]
      BY <3>1
    <3>3. handler[t] = "none"
      BY <2>0
    <3>4. \A u \in Threads : tries'[u] \in {tries[u], 0}
      BY <3>1
    <3> QED
      BY <2>0, <3>1, <3>2, <3>3, <3>4
  <2> QED
    BY <1>19, <2>1, <2>2 DEF Validate
<1>20. ASSUME NEW t \in Threads, CheckCancel(t) PROVE AtWork'
  <2>0. UNCHANGED handler /\ pc[t] \in {"validate", "check"}
    BY <1>20 DEF CheckCancel
  <2>1. CASE Go(t, "current")
    BY <2>0, <2>1
  <2>2. CASE GiveUp(t)
    <3>1. pc' = [pc EXCEPT ![t] = "idle"] /\ prof' = [prof EXCEPT ![t] = None] /\ tries' = [tries EXCEPT ![t] = 0]
      BY <2>2 DEF GiveUp
    <3>2. \A u \in Threads : pc'[u] # "idle" => u # t /\ pc'[u] = pc[u] /\ prof'[u] = prof[u]
      BY <3>1
    <3>3. handler[t] = "none"
      BY <2>0
    <3>4. \A u \in Threads : tries'[u] \in {tries[u], 0}
      BY <3>1
    <3> QED
      BY <2>0, <3>1, <3>2, <3>3, <3>4
  <2> QED
    BY <1>20, <2>1, <2>2 DEF CheckCancel
<1>21. ASSUME NEW t \in Threads, StopCurrent(t) PROVE AtWork'
  BY <1>21 DEF StopCurrent, StartThreadKeeps
<1>22. ASSUME NEW t \in Threads, Acquire(t) PROVE AtWork'
  BY <1>22 DEF Acquire, StartThreadKeeps
<1>23. ASSUME NEW t \in Threads, LoadConfig(t) PROVE AtWork'
  BY <1>23 DEF LoadConfig, StartThreadKeeps, Send
<1>24. ASSUME NEW t \in Threads, Loaded(t) PROVE AtWork'
  <2>1. pc[t] = "loading" /\ handler' = [handler EXCEPT ![t] = "none"] /\ UNCHANGED prof
    BY <1>24 DEF Loaded, StartThreadKeeps, Answered
  <2>2. CASE pc' \in {[pc EXCEPT ![t] = "commit"], [pc EXCEPT ![t] = "failed"]} /\ UNCHANGED tries
    BY <2>1, <2>2
  <2>3. CASE MayRetry(t) /\ tries' = [tries EXCEPT ![t] = tries[t] + 1] /\ pc' = [pc EXCEPT ![t] = "load"]
    BY <2>1, <2>3 DEF MayRetry
  <2> QED
    BY <1>24, <2>2, <2>3 DEF Loaded
<1>25. ASSUME NEW t \in Threads, LoadFailed(t) \/ Commit(t) PROVE AtWork'
  BY <1>25 DEF LoadFailed, Commit, StartThreadKeeps, Unlock
<1>26. ASSUME NEW t \in Threads, Show(t) PROVE AtWork'
  BY <1>26 DEF Show, Unlock
<1>27. ASSUME NEW t \in Threads, LateCancel(t) PROVE AtWork'
  BY <1>27 DEF LateCancel, StartThreadKeeps
<1>28. ASSUME NEW t \in Threads, CoreStartCheck(t) \/ CoreStartCreate(t) PROVE AtWork'
  BY <1>28 DEF CoreStartCheck, CoreStartCreate, CoreKeeps, Serves
<1>29. CASE Rest \/ UNCHANGED vars
  BY <1>29 DEF Rest, vars
<1> QED
  BY <1>1, <1>2, <1>3, <1>4, <1>5, <1>6, <1>7, <1>8, <1>9, <1>10, <1>11, <1>12, <1>13, <1>14, <1>15, <1>16,
     <1>17, <1>18, <1>19, <1>20, <1>21, <1>22, <1>23, <1>24, <1>25, <1>26, <1>27, <1>28, <1>29
     DEF Next, User, StopThread, CoreStops, DsCores, ExitThread, StartThread, CoreServes

\* The stop thread holds mu_stopping as long as it lives.
LEMMA StopKept ==
  ASSUME TypeFlags, TypedQueues, StopOwned, [Next]_vars
  PROVE StopOwned'
<1> USE DEF TypeFlags, TypedQueues, StopOwned
<1>1. ASSUME NEW p \in Profiles, UserStart(p) \/ UserRestart(p) PROVE StopOwned'
  BY <1>1 DEF UserStart, UserRestart, StartRequest, ProxorStart, BuildFails, StartKeeps, Act
<1>2. CASE UserStop
  BY <1>2 DEF UserStop, ProxorStop, StopNothing, StopKeeps, Act
<1>3. CASE UserExit
  BY <1>3 DEF UserExit, ProxorStop, StopNothing, StopKeeps, Act
<1>4. CASE UiCallback
  <2>0. uiq \in Seq(Messages)
    BY DEF TypedQueues
  <2>1. CASE Head(uiq).m = "stop" /\ ProxorStop(Head(uiq).crash, Head(uiq).sem) /\ StopKeeps
    BY <2>1 DEF StopKeeps
  <2>2. CASE Head(uiq).m = "start" /\ StartRequest(Head(uiq).id) /\ StartKeeps
    BY <2>2 DEF StartKeeps
  <2>3. CASE Head(uiq).m = "started" /\ UNCHANGED <<cancel, sem, ui, whenUp>> /\ StopKeeps
    BY <2>3 DEF StopKeeps
  <2> QED
    BY <1>4, <2>0, <2>1, <2>2, <2>3, CallbackEffects
<1>5. CASE StopLock
  BY <1>5 DEF StopLock
<1>6. CASE StopBegin
  BY <1>6 DEF StopBegin, StopThreadKeeps, StopTo
<1>7. CASE StopSend \/ StopSent
  <2>1. stopping' = stopping /\ stopper.at # "idle"
    BY <1>7, Zenon DEF StopSend, StopSent
  <2>2. stopper # Idle
    BY <2>1
  <2> QED
    BY <2>1, <2>2, Zenon
<1>8. CASE StopCommit \/ StopClear
  BY <1>8 DEF StopCommit, StopClear, StopThreadKeeps, StopTo
<1>9. CASE StopRelease
  BY <1>9 DEF StopRelease, StopThreadKeeps
<1>10. CASE CoreStopCheck \/ CoreStopClose \/ CoreStopClear
  BY <1>10 DEF CoreStopCheck, CoreStopClose, CoreStopClear, CoreKeeps, Serves
<1>11. CASE CoreStopPanics
  BY <1>11 DEF CoreStopPanics, CoreLost, Serves
<1>12. CASE Listening
  BY <1>12 DEF Listening, ProcKeeps
<1>13. CASE Notice \/ LaunchFails
  BY <1>13 DEF Notice, LaunchFails, TellCrash, SayNothing, Dies, ProcKeeps
<1>14. CASE RestartTimer \/ RestartForProfile
  BY <1>14 DEF RestartTimer, RestartForProfile, ProcKeeps, Relaunch, CoreLost
<1>15. CASE Die
  BY <1>15 DEF Die, Dies, ProcKeeps, CoreLost
<1>16. CASE ExitAcquired
  BY <1>16 DEF ExitAcquired
<1>17. CASE ExitDone
  BY <1>17 DEF ExitDone, ProcKeeps, CoreLost
<1>18. ASSUME NEW t \in Threads, Validate(t) PROVE StopOwned'
  BY <1>18 DEF Validate, StartThreadKeeps, GiveUp, Unlock
<1>19. ASSUME NEW t \in Threads, CheckCancel(t) PROVE StopOwned'
  BY <1>19 DEF CheckCancel, StartThreadKeeps, GiveUp, Unlock
<1>20. ASSUME NEW t \in Threads, StopCurrent(t) PROVE StopOwned'
  BY <1>20 DEF StopCurrent, StartThreadKeeps
<1>21. ASSUME NEW t \in Threads, Acquire(t) PROVE StopOwned'
  BY <1>21 DEF Acquire, StartThreadKeeps
<1>22. ASSUME NEW t \in Threads, LoadConfig(t) PROVE StopOwned'
  BY <1>22 DEF LoadConfig, StartThreadKeeps, Send
<1>23. ASSUME NEW t \in Threads, Loaded(t) PROVE StopOwned'
  BY <1>23 DEF Loaded, StartThreadKeeps, Answered, MayRetry
<1>24. ASSUME NEW t \in Threads, LoadFailed(t) \/ Commit(t) PROVE StopOwned'
  BY <1>24 DEF LoadFailed, Commit, StartThreadKeeps, Unlock
<1>25. ASSUME NEW t \in Threads, Show(t) PROVE StopOwned'
  BY <1>25 DEF Show, Unlock
<1>26. ASSUME NEW t \in Threads, LateCancel(t) PROVE StopOwned'
  BY <1>26 DEF LateCancel, StartThreadKeeps
<1>27. ASSUME NEW t \in Threads, CoreStartCheck(t) \/ CoreStartCreate(t) PROVE StopOwned'
  BY <1>27 DEF CoreStartCheck, CoreStartCreate, CoreKeeps, Serves
<1>28. CASE Rest \/ UNCHANGED vars
  BY <1>28 DEF Rest, vars
<1> QED
  BY <1>1, <1>2, <1>3, <1>4, <1>5, <1>6, <1>7, <1>8, <1>9, <1>10, <1>11, <1>12, <1>13, <1>14, <1>15,
     <1>16, <1>17, <1>18, <1>19, <1>20, <1>21, <1>22, <1>23, <1>24, <1>25, <1>26, <1>27, <1>28
     DEF Next, User, StopThread, CoreStops, DsCores, ExitThread, StartThread, CoreServes

\* Every permit is promised by the step that makes a thread wait, and given or passed on by
\* every later one.
LEMMA PermitsKept ==
  ASSUME TypedJobs, TypedQueues, TypedStarts, TypedRest, OneStart, StopOwned, Permits, [Next]_vars
  PROVE Permits'
<1> USE DEF TypedJobs, TypedQueues, Permits, Owed, Due, AtLock, AtStop
<1>1. ASSUME NEW p \in Profiles, UserStart(p) \/ UserRestart(p) PROVE Permits'
  <2>1. UNCHANGED <<sem, uiq, ui, stopper, exit>>
    BY <1>1 DEF UserStart, UserRestart, StartKeeps
  <2>2. Waiting' <=> Waiting
    BY <1>1 DEF UserStart, UserRestart, StartRequest, ProxorStart, BuildFails, Waiting, TypedStarts
  <2> QED
    BY <2>1, <2>2
<1>2. CASE UserStop
  <2>1. ui.at = "idle" /\ UNCHANGED <<uiq, stopper, exit, pc>> /\ ProxorStop(FALSE, FALSE)
    BY <1>2 DEF UserStop, Act, StopKeeps
  <2>2. CASE started = None
    <3>1. ui' = ui /\ sem' = sem + 0
      BY <2>1, <2>2 DEF ProxorStop, StopNothing
    <3> QED
      BY <2>1, <3>1 DEF Waiting
  <2>3. CASE started # None
    <3>1. ui' = Job("lock", FALSE, FALSE) /\ sem' = sem
      BY <2>1, <2>3 DEF ProxorStop
    <3>2. ~ui'.sem
      BY <3>1
    <3> QED
      BY <2>1, <3>1, <3>2 DEF Waiting
  <2> QED
    BY <2>2, <2>3
<1>3. CASE UserExit
  <2>1. Cardinality(Releases(uiq)) \in Nat
    BY ReleasesFinite
  <2>2. AtLock \in Nat /\ AtStop \in Nat
    OBVIOUS
  <2>3. Owed' = Owed + 1
    BY <1>3 DEF UserExit, Act, StopKeeps, Waiting, Owed
  <2>4. sem' + Due' = sem + Due + 1
    <3>1. ui.at = "idle" /\ UNCHANGED <<uiq, stopper>> /\ ProxorStop(FALSE, TRUE)
      BY <1>3 DEF UserExit, Act, StopKeeps
    <3>2. CASE started = None
      <4>1. ui' = ui /\ sem' = sem + 1
        BY <3>1, <3>2 DEF ProxorStop, StopNothing
      <4> QED
        <5>1. AtLock = 0 /\ AtLock' = 0 /\ AtStop' = AtStop
          BY <3>1, <4>1
        <5>2. uiq' = uiq /\ sem' = sem + 1 /\ sem \in Nat
          BY <3>1, <4>1
        <5>3. Due' = Due /\ Due \in Nat
          BY <2>1, <2>2, <5>1, <5>2
        <5> HIDE DEF Due, AtLock, AtStop, TypedJobs, TypedQueues, Permits
        <5> QED
          BY <5>2, <5>3
    <3>3. CASE started # None
      <4>1. ui' = Job("lock", FALSE, TRUE) /\ sem' = sem
        BY <3>1, <3>3 DEF ProxorStop
      <4>2. ui'.at = "lock" /\ ui'.sem
        BY <4>1
      <4> QED
        <5>1. AtLock = 0 /\ AtLock' = 1 /\ AtStop' = AtStop
          BY <3>1, <4>1, <4>2
        <5> HIDE DEF AtLock, AtStop
        <5> QED
          BY <2>1, <2>2, <3>1, <4>1, <5>1
    <3> QED
      BY <3>2, <3>3
  <2>5. Alive => sem' + Due' = Owed'
    <3>1. Due \in Nat /\ Owed \in Nat /\ sem \in Nat
      BY <2>1
    <3>2. Alive => sem + Due = Owed
      OBVIOUS
    <3> HIDE DEF Due, Owed, Alive, Permits, TypedJobs, TypedQueues
    <3> QED
      BY <2>3, <2>4, <3>1, <3>2
  <2> QED
    BY <2>5, <1>3 DEF UserExit, Act
<1>4. CASE UiCallback
  <2>0. uiq \in Seq(Messages)
    BY DEF TypedQueues
  <2>a. /\ Cardinality(Releases(uiq)) =
             Cardinality(Releases(uiq')) + (IF Head(uiq).m = "stop" /\ Head(uiq).sem THEN 1 ELSE 0)
        /\ Cardinality(Releases(uiq')) \in Nat /\ exit' = exit /\ ui.at = "idle"
    BY <1>4, <2>0, CallbackEffects, QueueShrinks, ReleasesFinite
  <2>1. CASE Head(uiq).m = "stop" /\ ProxorStop(Head(uiq).crash, Head(uiq).sem) /\ StopKeeps
    <3>1. Head(uiq).crash \in BOOLEAN /\ Head(uiq).sem \in BOOLEAN
      BY <1>4, <2>0, <2>1, CallbackEffects, MessageParts
    <3>2. \/ ui' = ui /\ sem' = sem + (IF Head(uiq).sem THEN 1 ELSE 0)
          \/ ui' = Job("lock", Head(uiq).crash, Head(uiq).sem) /\ sem' = sem
      BY <2>1, <3>1, StopEffects
    <3>3. UNCHANGED <<stopper, pc>> /\ (Waiting' <=> Waiting)
      BY <2>1 DEF StopKeeps, Waiting
    <3>4. CASE Head(uiq).sem
      <4>1. Cardinality(Releases(uiq)) = Cardinality(Releases(uiq')) + 1
        BY <2>1, <2>a, <3>4
      <4>2. CASE ui' = ui /\ sem' = sem + 1
        BY <2>a, <3>3, <4>1, <4>2
      <4>3. CASE ui' = Job("lock", Head(uiq).crash, Head(uiq).sem) /\ sem' = sem
        <5>1. ui'.at = "lock" /\ ui'.sem
          BY <3>4, <4>3
        <5> QED
          BY <2>a, <3>3, <4>1, <4>3, <5>1
      <4> QED
        BY <3>2, <3>4, <4>2, <4>3
    <3>5. CASE ~Head(uiq).sem
      <4>1. Cardinality(Releases(uiq)) = Cardinality(Releases(uiq'))
        BY <2>1, <2>a, <3>5
      <4>2. CASE ui' = ui /\ sem' = sem + 0
        BY <2>a, <3>3, <4>1, <4>2
      <4>3. CASE ui' = Job("lock", Head(uiq).crash, Head(uiq).sem) /\ sem' = sem
        <5>1. ui'.at = "lock" /\ ~ui'.sem
          BY <3>5, <4>3
        <5> QED
          BY <2>a, <3>3, <4>1, <4>3, <5>1
      <4> QED
        BY <3>2, <3>5, <4>2, <4>3
    <3> QED
      BY <3>4, <3>5
  <2>2. CASE Head(uiq).m = "start" /\ StartRequest(Head(uiq).id) /\ StartKeeps
    <3>1. UNCHANGED <<sem, ui, stopper>>
      BY <2>2 DEF StartKeeps
    <3>2. Waiting' <=> Waiting
      BY <2>2 DEF StartRequest, ProxorStart, BuildFails, Waiting, TypedStarts
    <3>3. Cardinality(Releases(uiq)) = Cardinality(Releases(uiq'))
      BY <2>2, <2>a
    <3> QED
      BY <2>a, <3>1, <3>2, <3>3
  <2>3. CASE Head(uiq).m = "started" /\ UNCHANGED <<cancel, sem, ui, whenUp>> /\ StopKeeps
    <3>1. UNCHANGED <<sem, ui, stopper>> /\ (Waiting' <=> Waiting)
      BY <2>3 DEF StopKeeps, Waiting
    <3>2. Cardinality(Releases(uiq)) = Cardinality(Releases(uiq'))
      BY <2>3, <2>a
    <3> QED
      BY <2>a, <3>1, <3>2
  <2> QED
    BY <1>4, <2>0, <2>1, <2>2, <2>3, CallbackEffects
<1>5. CASE StopLock
  <2>1. Cardinality(Releases(uiq)) \in Nat
    BY ReleasesFinite
  <2>2. AtLock \in Nat /\ AtStop \in Nat
    OBVIOUS
  <2>3. Owed' = Owed
    BY <1>5 DEF StopLock, Waiting, Owed
  <2>4. sem' + Due' = sem + Due
    <3>1. ui.at = "lock" /\ ui' = Idle /\ uiq' = uiq
      BY <1>5 DEF StopLock
    <3>2. CASE stopping
      <4>1. stopper' = stopper /\ sem' = sem + (IF ui.sem THEN 1 ELSE 0)
        BY <1>5, <3>2 DEF StopLock
      <4> QED
        <5>1. sem' = sem + AtLock /\ AtLock' = 0 /\ AtStop' = AtStop
          BY <3>1, <4>1
        <5> HIDE DEF AtLock, AtStop
        <5> QED
          BY <2>1, <2>2, <3>1, <5>1
    <3>3. CASE ~stopping
      <4>1. stopper = Idle /\ stopper' = Job("begin", ui.crash, ui.sem) /\ sem' = sem
        BY <1>5, <3>3 DEF StopLock, StopOwned
      <4>2. ~stopper.sem /\ (stopper'.sem <=> ui.sem)
        BY <4>1
      <4> QED
        BY <2>1, <3>1, <4>1, <4>2
    <3> QED
      BY <3>2, <3>3
  <2>5. Alive => sem' + Due' = Owed'
    <3>1. Due \in Nat /\ Owed \in Nat /\ sem \in Nat
      BY <2>1
    <3>2. Alive => sem + Due = Owed
      OBVIOUS
    <3> HIDE DEF Due, Owed, Alive, Permits, TypedJobs, TypedQueues
    <3> QED
      BY <2>3, <2>4, <3>1, <3>2
  <2> QED
    BY <2>5, <1>5 DEF StopLock
<1>6. CASE StopBegin
  <2>1. CASE running = None
    <3>1. ui' = Job("crashed", FALSE, FALSE)
      BY <1>6, <2>1 DEF StopBegin
    <3>2. ~Alive'
      BY <3>1
    <3> QED
      BY <3>2
  <2>2. CASE running # None
    <3>1. UNCHANGED <<sem, ui, uiq, exit, pc>> /\ \E place : stopper' = [stopper EXCEPT !.at = place]
      BY <1>6, <2>2 DEF StopBegin, StopTo, StopThreadKeeps
    <3>2. stopper'.sem = stopper.sem
      BY <3>1
    <3>3. Waiting' = Waiting
      BY <3>1 DEF Waiting
    <3> QED
      BY <3>1, <3>2, <3>3
  <2> QED
    BY <2>1, <2>2
<1>7. CASE StopSend
  <2>1. Cardinality(Releases(uiq)) \in Nat
    BY ReleasesFinite
  <2>3. Owed' = Owed
    BY <1>7 DEF StopSend, StopThreadKeeps, Waiting, Owed
  <2>4. sem' + Due' = sem + Due
    <3>1. UNCHANGED <<sem, ui, uiq>> /\ \E place : stopper' = [stopper EXCEPT !.at = place]
      BY <1>7 DEF StopSend, StopTo, StopThreadKeeps
    <3>2. stopper'.sem = stopper.sem
      BY <3>1
    <3> QED
      BY <2>1, <3>1, <3>2
  <2>5. Alive => sem' + Due' = Owed'
    <3>1. Due \in Nat /\ Owed \in Nat /\ sem \in Nat
      BY <2>1
    <3>2. Alive => sem + Due = Owed
      OBVIOUS
    <3> HIDE DEF Due, Owed, Alive, Permits, TypedJobs, TypedQueues
    <3> QED
      BY <2>3, <2>4, <3>1, <3>2
  <2> QED
    BY <2>5, <1>7 DEF StopSend, StopThreadKeeps
<1>8. CASE StopSent
  <2>1. Cardinality(Releases(uiq)) \in Nat
    BY ReleasesFinite
  <2>3. Owed' = Owed
    BY <1>8 DEF StopSent, StopThreadKeeps, Waiting, Owed
  <2>4. sem' + Due' = sem + Due
    <3>1. UNCHANGED <<sem, ui, uiq>> /\ \E place : stopper' = [stopper EXCEPT !.at = place]
      BY <1>8 DEF StopSent, StopTo, StopThreadKeeps
    <3>2. stopper'.sem = stopper.sem
      BY <3>1
    <3> QED
      BY <2>1, <3>1, <3>2
  <2>5. Alive => sem' + Due' = Owed'
    <3>1. Due \in Nat /\ Owed \in Nat /\ sem \in Nat
      BY <2>1
    <3>2. Alive => sem + Due = Owed
      OBVIOUS
    <3> HIDE DEF Due, Owed, Alive, Permits, TypedJobs, TypedQueues
    <3> QED
      BY <2>3, <2>4, <3>1, <3>2
  <2> QED
    BY <2>5, <1>8 DEF StopSent, StopThreadKeeps
<1>9. CASE StopCommit \/ StopClear
  <2>1. UNCHANGED <<sem, uiq, ui, exit, pc>> /\ \E place : stopper' = [stopper EXCEPT !.at = place]
    BY <1>9 DEF StopCommit, StopClear, StopTo, StopThreadKeeps
  <2>2. stopper'.sem = stopper.sem
    BY <2>1
  <2> QED
    BY <2>1, <2>2 DEF Waiting
<1>10. CASE StopRelease
  <2>1. Cardinality(Releases(uiq)) \in Nat
    BY ReleasesFinite
  <2>2. AtLock \in Nat /\ AtStop \in Nat
    OBVIOUS
  <2>3. Owed' = Owed
    BY <1>10 DEF StopRelease, StopThreadKeeps, Waiting, Owed
  <2>4. sem' + Due' = sem + Due
    <3>1. UNCHANGED <<ui, uiq>> /\ stopper' = Idle /\ sem' = sem + (IF stopper.sem THEN 1 ELSE 0)
      BY <1>10 DEF StopRelease, StopThreadKeeps
    <3>2. ~stopper'.sem
      BY <3>1
    <3> QED
      <4>1. sem' = sem + AtStop /\ AtStop' = 0 /\ AtLock' = AtLock
        BY <3>1, <3>2
      <4> HIDE DEF AtLock, AtStop
      <4> QED
        BY <2>1, <2>2, <3>1, <4>1
  <2>5. Alive => sem' + Due' = Owed'
    <3>1. Due \in Nat /\ Owed \in Nat /\ sem \in Nat
      BY <2>1
    <3>2. Alive => sem + Due = Owed
      OBVIOUS
    <3> HIDE DEF Due, Owed, Alive, Permits, TypedJobs, TypedQueues
    <3> QED
      BY <2>3, <2>4, <3>1, <3>2
  <2> QED
    BY <2>5, <1>10 DEF StopRelease, StopThreadKeeps
<1>11. CASE CoreStopCheck \/ CoreStopClose \/ CoreStopClear
  <2>1. UNCHANGED <<sem, uiq, ui, stopper, exit, pc>>
    BY <1>11 DEF CoreStopCheck, CoreStopClose, CoreStopClear, CoreKeeps, Serves
  <2> QED
    BY <2>1 DEF Waiting
<1>12. CASE CoreStopPanics
  <2>1. UNCHANGED <<sem, uiq, ui, stopper, exit, pc>>
    BY <1>12 DEF CoreStopPanics, CoreLost, Serves
  <2> QED
    BY <2>1 DEF Waiting
<1>13. CASE Listening
  <2>1. Cardinality(Releases(uiq)) \in Nat
    BY ReleasesFinite
  <2>3. Owed' = Owed
    BY <1>13 DEF Listening, ProcKeeps, Waiting, Owed
  <2>4. sem' + Due' = sem + Due
    <3>1. /\ UNCHANGED <<sem, ui, stopper>>
          /\ uiq' \in {uiq, Append(uiq, [m |-> "start", id |-> whenUp])}
          /\ whenUp = None => uiq' = uiq
      BY <1>13 DEF Listening, ProcKeeps
    <3>2. whenUp # None =>
           Cardinality(Releases(Append(uiq, [m |-> "start", id |-> whenUp]))) = Cardinality(Releases(uiq))
      <4>1. whenUp # None => [m |-> "start", id |-> whenUp] \in Messages
        BY DEF Messages, TypedRest
      <4> QED
        BY <2>1, <4>1, QueueGrows
    <3> QED
      BY <2>1, <3>1, <3>2
  <2>5. Alive => sem' + Due' = Owed'
    <3>1. Due \in Nat /\ Owed \in Nat /\ sem \in Nat
      BY <2>1
    <3>2. Alive => sem + Due = Owed
      OBVIOUS
    <3> HIDE DEF Due, Owed, Alive, Permits, TypedJobs, TypedQueues
    <3> QED
      BY <2>3, <2>4, <3>1, <3>2
  <2> QED
    BY <2>5, <1>13 DEF Listening, ProcKeeps
<1>14. CASE Notice \/ LaunchFails
  <2>1. Cardinality(Releases(uiq)) \in Nat
    BY ReleasesFinite
  <2>3. Owed' = Owed
    BY <1>14 DEF Notice, LaunchFails, TellCrash, SayNothing, Dies, ProcKeeps, Waiting, Owed
  <2>4. sem' + Due' = sem + Due
    <3>1. /\ UNCHANGED <<sem, ui, stopper>>
          /\ uiq' \in {uiq, Append(uiq, [m |-> "stop", crash |-> TRUE, sem |-> FALSE])}
          /\ exit # "no" => uiq' = uiq
      BY <1>14 DEF Notice, LaunchFails, TellCrash, SayNothing, Dies, ProcKeeps
    <3>2. exit = "no" =>
           Cardinality(Releases(Append(uiq, [m |-> "stop", crash |-> TRUE, sem |-> FALSE]))) = Cardinality(Releases(uiq))
      <4>1. exit = "no" => [m |-> "stop", crash |-> TRUE, sem |-> FALSE] \in Messages
        BY DEF Messages, TypedRest
      <4> QED
        BY <2>1, <4>1, QueueGrows
    <3> QED
      BY <2>1, <3>1, <3>2
  <2>5. Alive => sem' + Due' = Owed'
    <3>1. Due \in Nat /\ Owed \in Nat /\ sem \in Nat
      BY <2>1
    <3>2. Alive => sem + Due = Owed
      OBVIOUS
    <3> HIDE DEF Due, Owed, Alive, Permits, TypedJobs, TypedQueues
    <3> QED
      BY <2>3, <2>4, <3>1, <3>2
  <2> QED
    BY <2>5, <1>14 DEF Notice, LaunchFails, TellCrash, SayNothing, Dies, ProcKeeps
<1>15. CASE RestartTimer \/ RestartForProfile
  <2>1. UNCHANGED <<sem, uiq, ui, stopper, exit, pc>>
    BY <1>15 DEF RestartTimer, RestartForProfile, ProcKeeps, Relaunch, CoreLost
  <2> QED
    BY <2>1 DEF Waiting
<1>16. CASE Die
  <2>1. UNCHANGED <<sem, uiq, ui, stopper, exit, pc>>
    BY <1>16 DEF Die, Dies, ProcKeeps, CoreLost
  <2> QED
    BY <2>1 DEF Waiting
<1>17. CASE ExitAcquired
  <2>1. Cardinality(Releases(uiq)) \in Nat
    BY ReleasesFinite
  <2>3. Owed' = Owed - 1
    BY <1>17 DEF ExitAcquired, Waiting, Owed
  <2>4. sem' + Due' = sem + Due - 1
    BY <1>17, <2>1 DEF ExitAcquired
  <2>5. Alive => sem' + Due' = Owed'
    <3>1. Due \in Nat /\ Owed \in Nat /\ sem \in Nat
      BY <2>1
    <3>2. Alive => sem + Due = Owed
      OBVIOUS
    <3> HIDE DEF Due, Owed, Alive, Permits, TypedJobs, TypedQueues
    <3> QED
      BY <2>3, <2>4, <3>1, <3>2
  <2> QED
    BY <2>5, <1>17 DEF ExitAcquired
<1>18. CASE ExitDone
  <2>1. ~Alive'
    BY <1>18 DEF ExitDone
  <2> QED
    BY <2>1
<1>19. ASSUME NEW t \in Threads, Validate(t) PROVE Permits'
  <2>1. UNCHANGED <<sem, uiq, ui, stopper, exit>>
    BY <1>19 DEF Validate, StartThreadKeeps, GiveUp, Unlock
  <2>2. Waiting' <=> Waiting
    BY <1>19 DEF Validate, StartThreadKeeps, GiveUp, Unlock, Waiting, TypedStarts
  <2> QED
    BY <2>1, <2>2
<1>20. ASSUME NEW t \in Threads, CheckCancel(t) PROVE Permits'
  <2>1. UNCHANGED <<sem, uiq, ui, stopper, exit>>
    BY <1>20 DEF CheckCancel, StartThreadKeeps, GiveUp, Unlock
  <2>2. Waiting' <=> Waiting
    BY <1>20 DEF CheckCancel, StartThreadKeeps, GiveUp, Unlock, Waiting, TypedStarts
  <2> QED
    BY <2>1, <2>2
<1>21. ASSUME NEW t \in Threads, StopCurrent(t) PROVE Permits'
  <2>1. Cardinality(Releases(uiq)) \in Nat
    BY ReleasesFinite
  <2>2. pc[t] = "current" /\ ~Waiting /\ UNCHANGED <<sem, ui, stopper, exit>>
    BY <1>21 DEF StopCurrent, StartThreadKeeps, Waiting, OneStart, Locked
  <2>3. CASE started # None
    <3>1. pc' = [pc EXCEPT ![t] = "acquire"] /\ uiq' = Append(uiq, [m |-> "stop", crash |-> FALSE, sem |-> TRUE])
      BY <1>21, <2>3 DEF StopCurrent
    <3>2. Waiting'
      BY <3>1 DEF Waiting, TypedStarts
    <3>3. Cardinality(Releases(uiq')) = Cardinality(Releases(uiq)) + 1
      <4>1. [m |-> "stop", crash |-> FALSE, sem |-> TRUE] \in Messages
        BY DEF Messages
      <4> DEFINE msg == [m |-> "stop", crash |-> FALSE, sem |-> TRUE]
      <4>2. msg.m = "stop" /\ msg.sem
        OBVIOUS
      <4> HIDE DEF msg
      <4> QED
        BY <2>1, <3>1, <4>1, <4>2, QueueGrows DEF msg
    <3> QED
      BY <2>1, <2>2, <3>2, <3>3
  <2>4. CASE started = None
    <3>1. pc' = [pc EXCEPT ![t] = "load"] /\ uiq' = uiq
      BY <1>21, <2>4 DEF StopCurrent
    <3>2. ~Waiting'
      BY <2>2, <3>1 DEF Waiting, TypedStarts
    <3> QED
      BY <2>2, <3>1, <3>2
  <2> QED
    BY <2>3, <2>4
<1>22. ASSUME NEW t \in Threads, Acquire(t) PROVE Permits'
  <2>1. Cardinality(Releases(uiq)) \in Nat
    BY ReleasesFinite
  <2>3. Owed' = Owed - 1
    <3>1. Waiting /\ ~Waiting'
      BY <1>22 DEF Acquire, StartThreadKeeps, Waiting, OneStart, Locked, TypedStarts
    <3> QED
      BY <1>22, <3>1 DEF Acquire, StartThreadKeeps
  <2>4. sem' + Due' = sem + Due - 1
    BY <1>22, <2>1 DEF Acquire, StartThreadKeeps
  <2>5. Alive => sem' + Due' = Owed'
    <3>1. Due \in Nat /\ Owed \in Nat /\ sem \in Nat
      BY <2>1
    <3>2. Alive => sem + Due = Owed
      OBVIOUS
    <3> HIDE DEF Due, Owed, Alive, Permits, TypedJobs, TypedQueues
    <3> QED
      BY <2>3, <2>4, <3>1, <3>2
  <2> QED
    BY <2>5, <1>22 DEF Acquire, StartThreadKeeps
<1>23. ASSUME NEW t \in Threads, LoadConfig(t) PROVE Permits'
  <2>1. UNCHANGED <<sem, uiq, ui, stopper, exit>>
    BY <1>23 DEF LoadConfig, StartThreadKeeps, Send
  <2>2. Waiting' <=> Waiting
    BY <1>23 DEF LoadConfig, StartThreadKeeps, Send, Waiting, TypedStarts
  <2> QED
    BY <2>1, <2>2
<1>24. ASSUME NEW t \in Threads, Loaded(t) PROVE Permits'
  <2>1. UNCHANGED <<sem, uiq, ui, stopper, exit>>
    BY <1>24 DEF Loaded, StartThreadKeeps, Answered, MayRetry
  <2>2. Waiting' <=> Waiting
    BY <1>24 DEF Loaded, StartThreadKeeps, Answered, MayRetry, Waiting, TypedStarts
  <2> QED
    BY <2>1, <2>2
<1>25. ASSUME NEW t \in Threads, LoadFailed(t) \/ Commit(t) PROVE Permits'
  <2>1. UNCHANGED <<sem, uiq, ui, stopper, exit>>
    BY <1>25 DEF LoadFailed, Commit, StartThreadKeeps, Unlock
  <2>2. Waiting' <=> Waiting
    BY <1>25 DEF LoadFailed, Commit, StartThreadKeeps, Unlock, Waiting, TypedStarts
  <2> QED
    BY <2>1, <2>2
<1>26. ASSUME NEW t \in Threads, Show(t) PROVE Permits'
  <2>1. Cardinality(Releases(uiq)) \in Nat
    BY ReleasesFinite
  <2>3. Owed' = Owed
    BY <1>26 DEF Show, Waiting, Owed
  <2>4. sem' + Due' = sem + Due
    <3>1. UNCHANGED <<sem, ui, stopper>> /\ uiq' = Append(uiq, [m |-> "started"])
      BY <1>26 DEF Show
    <3>2. Cardinality(Releases(Append(uiq, [m |-> "started"]))) = Cardinality(Releases(uiq))
      <4>1. [m |-> "started"] \in Messages
        BY DEF Messages, TypedRest
      <4> QED
        BY <2>1, <4>1, QueueGrows
    <3> QED
      BY <2>1, <3>1, <3>2
  <2>5. Alive => sem' + Due' = Owed'
    <3>1. Due \in Nat /\ Owed \in Nat /\ sem \in Nat
      BY <2>1
    <3>2. Alive => sem + Due = Owed
      OBVIOUS
    <3> HIDE DEF Due, Owed, Alive, Permits, TypedJobs, TypedQueues
    <3> QED
      BY <2>3, <2>4, <3>1, <3>2
  <2> QED
    BY <2>5, <1>26 DEF Show
<1>27. ASSUME NEW t \in Threads, LateCancel(t) PROVE Permits'
  <2>1. Cardinality(Releases(uiq)) \in Nat
    BY ReleasesFinite
  <2>3. Owed' = Owed
    BY <1>27 DEF LateCancel, StartThreadKeeps, Waiting, Owed
  <2>4. sem' + Due' = sem + Due
    <3>1. /\ UNCHANGED <<sem, ui, stopper>>
          /\ uiq' \in {uiq, Append(uiq, [m |-> "stop", crash |-> FALSE, sem |-> FALSE])}
          /\ ~(cancel /\ started # None) => uiq' = uiq
      BY <1>27 DEF LateCancel, StartThreadKeeps
    <3>2. cancel /\ started # None =>
           Cardinality(Releases(Append(uiq, [m |-> "stop", crash |-> FALSE, sem |-> FALSE]))) = Cardinality(Releases(uiq))
      <4>1. cancel /\ started # None => [m |-> "stop", crash |-> FALSE, sem |-> FALSE] \in Messages
        BY DEF Messages, TypedRest
      <4> QED
        BY <2>1, <4>1, QueueGrows
    <3> QED
      BY <2>1, <3>1, <3>2
  <2>5. Alive => sem' + Due' = Owed'
    <3>1. Due \in Nat /\ Owed \in Nat /\ sem \in Nat
      BY <2>1
    <3>2. Alive => sem + Due = Owed
      OBVIOUS
    <3> HIDE DEF Due, Owed, Alive, Permits, TypedJobs, TypedQueues
    <3> QED
      BY <2>3, <2>4, <3>1, <3>2
  <2> QED
    BY <2>5, <1>27 DEF LateCancel, StartThreadKeeps
<1>28. ASSUME NEW t \in Threads, CoreStartCheck(t) \/ CoreStartCreate(t) PROVE Permits'
  <2>1. UNCHANGED <<sem, uiq, ui, stopper, exit>>
    BY <1>28 DEF CoreStartCheck, CoreStartCreate, CoreKeeps, Serves
  <2>2. Waiting' <=> Waiting
    BY <1>28 DEF CoreStartCheck, CoreStartCreate, CoreKeeps, Serves, Waiting, TypedStarts
  <2> QED
    BY <2>1, <2>2
<1>29. CASE Rest \/ UNCHANGED vars
  BY <1>29 DEF Rest, vars, Waiting
<1> QED
  BY <1>1, <1>2, <1>3, <1>4, <1>5, <1>6, <1>7, <1>8, <1>9, <1>10, <1>11, <1>12, <1>13, <1>14, <1>15, <1>16,
     <1>17, <1>18, <1>19, <1>20, <1>21, <1>22, <1>23, <1>24, <1>25, <1>26, <1>27, <1>28, <1>29
     DEF Next, User, StopThread, CoreStops, DsCores, ExitThread, StartThread, CoreServes

-----------------------------------------------------------------------------
(* The invariant. *)

IInv == /\ TypedJobs /\ TypedQueues /\ TypedStarts /\ TypedCore /\ TypedRest /\ TypeFlags
        /\ slips \subseteq Slips
        /\ OneStart /\ AtWork /\ StopOwned /\ Permits

\* When the program starts, nobody waits and nothing is locked.
LEMMA InitHolds == Init => IInv
<1> SUFFICES ASSUME Init PROVE IInv
  OBVIOUS
<1> USE DEF Init
<1>1. TypedJobs /\ TypedStarts
  BY DEF TypedJobs, TypedStarts
<1>2. TypedCore /\ TypedRest
  BY RememberedMaybe DEF TypedCore, TypedRest, Slips
<1>3. TypeFlags
  BY DEF TypeFlags
<1>4. TypedQueues
  BY EmptySeq DEF TypedQueues
<1>5. OneStart /\ AtWork /\ StopOwned
  BY DEF OneStart, AtWork, StopOwned, Locked
<1>6. Permits
  <2>1. Releases(uiq) = {}
    BY EmptySeq DEF Releases
  <2>2. Cardinality(Releases(uiq)) = 0
    BY <2>1, FS_EmptySet
  <2>3. Owed = 0 /\ AtLock = 0 /\ AtStop = 0
    BY DEF Owed, Waiting, AtLock, AtStop
  <2> QED
    BY <2>2, <2>3 DEF Permits, Due
<1> QED
  BY <1>1, <1>2, <1>3, <1>4, <1>5, <1>6 DEF IInv

\* Every step keeps it.
LEMMA StepKeeps ==
  ASSUME IInv, [Next]_vars
  PROVE IInv'
BY JobsTyped, QueuesTyped, StartsTyped, CoreTyped, RestTyped, SlipsTyped, FlagsTyped, StartKept, WorkKept, StopKept,
   PermitsKept DEF IInv

\* It gives what the model checker counts: one owner, and as many permits as waiters.
LEMMA Suffices ==
  ASSUME IInv
  PROVE LocksPair
<1>1. TypeOK
  BY DEF IInv, TypeOK, TypeState, TypedJobs, TypedQueues, TypedStarts, TypedCore, TypedRest
<1>2. StartLockOwned
  <2>1. CASE starting
    <3>1. PICK t \in Threads : pc[t] \in Locked
      BY <2>1 DEF IInv, OneStart
    <3>2. {u \in Threads : pc[u] \in Locked} = {t}
      BY <3>1 DEF IInv, OneStart
    <3> QED
      BY <2>1, <3>2, FS_Singleton DEF StartLockOwned
  <2>2. CASE ~starting
    <3>1. {u \in Threads : pc[u] \in Locked} = {}
      BY <2>2 DEF IInv, OneStart
    <3> QED
      BY <2>2, <3>1, FS_EmptySet DEF StartLockOwned
  <2> QED
    BY <2>1, <2>2
<1>3. PermitsBalance
  <2> DEFINE Waiters == {t \in Threads : pc[t] = "acquire"}
  <2>1. Cardinality(Waiters) = IF Waiting THEN 1 ELSE 0
    <3>1. CASE Waiting
      <4>1. PICK t \in Threads : pc[t] = "acquire"
        BY <3>1 DEF Waiting
      <4>2. Waiters = {t}
        BY <4>1 DEF IInv, OneStart, Locked
      <4> QED
        BY <3>1, <4>2, FS_Singleton
    <3>2. CASE ~Waiting
      <4>1. Waiters = {}
        BY <3>2 DEF Waiting
      <4> QED
        BY <3>2, <4>1, FS_EmptySet
    <3> QED
      BY <3>1, <3>2
  <2>2. Alive => sem + Due = Owed
    BY DEF IInv, Permits
  <2> QED
    BY <2>1, <2>2 DEF PermitsBalance, Due, Owed, AtLock, AtStop
<1> QED
  BY <1>1, <1>2, <1>3 DEF LocksPair

\* Whatever path a start or a stop takes, and however often the core dies meanwhile,
\* mu_starting has at most one owner, which frees it, and sem_stopped gets one permit
\* for every waiter: a switch and the exit are neither left waiting nor let through
\* by a permit of another (proxor_start, proxor_stop, on_menu_exit_triggered).
THEOREM LocksAlwaysPair == Spec => []LocksPair
<1>1. Init => IInv
  BY InitHolds
<1>2. IInv /\ [Next]_vars => IInv'
  BY StepKeeps
<1>3. IInv => LocksPair
  BY Suffices
<1> QED
  BY <1>1, <1>2, <1>3, PTL DEF Spec

=============================================================================
