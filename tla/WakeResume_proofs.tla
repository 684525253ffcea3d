-------------------------- MODULE WakeResume_proofs --------------------------
(* Theorems about WakeResume, for every set of profiles, every table of delays
   and every choice of the intervals. *)
EXTENDS WakeResume, TLAPS

-----------------------------------------------------------------------------
(* The subscription retry. *)

\* What the type does not say of a retry r: between its attempts, the time to the next
\* one and the time since the last one ended make up the delay of the table.
Spaced(r) ==
  /\ r.inFlight => r.attempts > 0 /\ (updating # "retry" => r.ended # Off)
  /\ ~r.inFlight /\ r.attempts > 0 =>
       /\ r.attempts < MaxAttempts /\ r.ended # Off
       /\ \/ r.next + r.ended >= RetryDelays[r.attempts]
          \/ r.ended = Longest

RetrySound == /\ TypeSubs
              /\ retry # None => Spaced(retry) /\ subsTimer # Off
              /\ updating = "retry" => retry \in RetryStates /\ retry.inFlight

\* The delay of a retry that is not used up.
LEMMA DelayTyped ==
  ASSUME NEW r \in RetryStates, Spaced(r), ~(r.inFlight /\ r.attempts >= MaxAttempts)
  PROVE  /\ DelayNow(r) \in 0..Longest
         /\ r.inFlight => DelayNow(r) = RetryDelays[r.attempts] /\ DelayNow(r) > 0
         /\ ~r.inFlight => DelayNow(r) = r.next
<1>1. CASE r.inFlight
  <2>1. r.attempts \in 1..Len(RetryDelays)
    BY <1>1, DelaysPositive DEF Spaced, RetryStates, MaxAttempts
  <2>2. RetryDelays[r.attempts] \in Nat \ {0} /\ RetryDelays[r.attempts] <= Longest
    BY <2>1, DelaysPositive, LongestIsBound
  <2> QED
    BY <1>1, <2>2, LongestIsBound DEF DelayNow
<1>2. CASE ~r.inFlight
  BY <1>2 DEF DelayNow, RetryStates
<1> QED
  BY <1>1, <1>2

\* A step of the retry leaves a retry, typed and spaced, with its timer set, or none.
LEMMA RetryStepKeeps ==
  ASSUME NEW r \in RetryStates, Spaced(r), updating = "retry" => r.inFlight, TypeSubs, RetryStep(r)
  PROVE  RetrySound'
<1> USE LongestIsBound DEF RetrySound, TypeSubs, Upper, Poll, Off, Retry
<1>1. CASE RetryIsOver
  BY <1>1 DEF RetryIsOver
<1>2. CASE retry' = r /\ subsTimer' = Poll /\ UNCHANGED updating
  BY <1>2 DEF Spaced
<1> DEFINE unused == ~(r.inFlight /\ r.attempts >= MaxAttempts)
<1>3. CASE /\ unused /\ DelayNow(r) > 0 /\ updating = "no"
           /\ retry' = Retry(FALSE, r.attempts, r.age, DelayNow(r), r.ended)
           /\ subsTimer' = DelayNow(r) /\ UNCHANGED updating
  <2>1. DelayNow(r) \in 0..Longest
    BY <1>3, DelayTyped
  <2>2. TypeSubs' /\ subsTimer' # Off
    BY <1>3, <2>1 DEF RetryStates
  <2>3. Spaced(retry)'
    BY <1>3, <2>1, DelayTyped DEF Spaced, RetryStates, MaxAttempts
  <2> QED
    BY <1>3, <2>2, <2>3
<1>4. CASE /\ unused /\ ~(DelayNow(r) > 0) /\ updating = "no"
           /\ retry' = Retry(TRUE, r.attempts + 1, r.age, 0, Off)
           /\ subsTimer' = Poll /\ updating' = "retry"
  <2>1. ~r.inFlight /\ r.attempts < MaxAttempts
    BY <1>4, DelayTyped DEF Spaced, RetryStates, MaxAttempts
  <2>2. retry' \in RetryStates
    BY <1>4, <2>1 DEF RetryStates, MaxAttempts
  <2>3. Spaced(retry)' /\ retry'.inFlight
    BY <1>4, <2>1 DEF Spaced, RetryStates
  <2> QED
    BY <1>4, <2>2, <2>3
<1> QED
  BY <1>1, <1>2, <1>3, <1>4 DEF RetryStep

\* An update of the retry starts with its next attempt, when the delay has passed.
LEMMA BeginsInTime ==
  ASSUME NEW r \in RetryStates, Spaced(r), updating # "retry", RetryStep(r), updating' = "retry"
  PROVE  /\ retry'.attempts = r.attempts + 1
         /\ r.attempts > 0 => r.ended >= RetryDelays[r.attempts]
<1>1. /\ ~(r.inFlight /\ r.attempts >= MaxAttempts) /\ ~(DelayNow(r) > 0)
      /\ retry' = Retry(TRUE, r.attempts + 1, r.age, 0, Off)
  BY DEF RetryStep, RetryIsOver
<1>2. ~r.inFlight /\ r.next = 0
  BY <1>1, DelayTyped, LongestIsBound DEF RetryStates
<1>3. ASSUME r.attempts > 0 PROVE r.ended >= RetryDelays[r.attempts]
  <2>1. r.attempts \in 1..Len(RetryDelays)
    BY <1>2, <1>3, DelaysPositive DEF Spaced, RetryStates, MaxAttempts
  <2>2. RetryDelays[r.attempts] \in Nat /\ RetryDelays[r.attempts] <= Longest
    BY <2>1, DelaysPositive, LongestIsBound
  <2> QED
    BY <1>2, <1>3, <2>2, LongestIsBound DEF Spaced, RetryStates, Off
<1> QED
  BY <1>1, <1>3 DEF Retry

\* A new retry is as sound.
LEMMA FreshRetry ==
  LET r == Retry(FALSE, 0, 0, 0, Off)
  IN r \in RetryStates /\ Spaced(r) /\ ~r.inFlight
  BY IntervalsNat, LongestIsBound, DelaysPositive DEF Retry, RetryStates, Spaced, MaxAttempts, Off

\* The retry stays sound.
LEMMA RetryStaysSound == RetrySound /\ OneOwner /\ [Next]_vars => RetrySound'
<1> SUFFICES ASSUME RetrySound, OneOwner, [Next]_vars PROVE RetrySound'
  OBVIOUS
<1> USE LongestIsBound DEF RetrySound, TypeSubs, Upper, Poll, Off
<1>1. CASE UNCHANGED subsVars
  BY <1>1 DEF subsVars, Spaced
<1>2. CASE RetryIsOver
  BY <1>2 DEF RetryIsOver
<1>3. CASE Tick
  <2>1. Less(subsTimer) \in -1..Upper(1, Longest) /\ (subsTimer # -1 => Less(subsTimer) # -1)
    BY DEF Less
  <2>2. CASE retry = None
    BY <1>3, <2>1, <2>2 DEF Tick
  <2>3. CASE retry # None
    <3> DEFINE r == Retry(retry.inFlight, retry.attempts, Older(retry.age, SubsMax), Less(retry.next), Older(retry.ended, Longest))
    <3>1. retry' = r /\ subsTimer' = Less(subsTimer) /\ updating' = updating
      BY <1>3, <2>3 DEF Tick
    <3>2. r \in RetryStates
      BY <2>3, IntervalsNat DEF Retry, RetryStates, Older, Less
    <3>3. Spaced(retry)'
      BY <2>3, <3>1, DelaysPositive DEF Retry, RetryStates, Older, Less, Spaced, MaxAttempts
    <3>4. updating = "retry" => r.inFlight
      BY DEF Retry
    <3> QED
      BY <2>1, <3>1, <3>2, <3>3, <3>4, <2>3
  <2> QED
    BY <2>2, <2>3
<1>4. CASE WakeSubsStep
  <2>1. retry \in RetryStates /\ Spaced(retry) /\ RetryStep(retry) /\ (updating = "retry" => retry.inFlight)
    BY <1>4 DEF WakeSubsStep
  <2> QED
    BY <2>1, RetryStepKeeps
<1>5. CASE UpdateEnds
  <2>1. CASE updating = "retry"
    <3>1. /\ retry' = Retry(retry.inFlight, retry.attempts, retry.age, retry.next, 0)
          /\ retry' \in RetryStates /\ updating' = "no" /\ subsTimer' = subsTimer
      BY <1>5, <2>1 DEF UpdateEnds, RetryStates, Retry
    <3>2. Spaced(retry)'
      BY <3>1, <2>1, NoneIsNoState DEF RetryStates, Retry, Spaced
    <3> QED
      BY <3>1, <3>2, <2>1, NoneIsNoState
  <2>2. CASE updating # "retry"
    BY <1>5, <2>2 DEF UpdateEnds, Spaced
  <2> QED
    BY <2>1, <2>2
<1>6. CASE OtherUpdate
  BY <1>6 DEF OtherUpdate, Spaced
<1>7. CASE \E net \in Reachability : RunHandsOver(net)
  <2>1. run # None
    BY <1>7 DEF RunHandsOver, Called, GivesUp
  <2>2. updating # "retry"
    BY <2>1, NoneIsNoState DEF OneOwner
  <2>3. CASE UNCHANGED subsVars
    BY <2>3, <1>1
  <2>4. CASE RetryStep(Retry(FALSE, 0, 0, 0, Off))
    BY <2>2, <2>4, FreshRetry, RetryStepKeeps
  <2> QED
    BY <1>7, <2>3, <2>4 DEF RunHandsOver
<1> QED
  BY <1>1, <1>2, <1>3, <1>4, <1>5, <1>6, <1>7
  DEF Next, vars, NoteSleep, NoteWake, CancelRetry, WakeRunStep, RunOver, RunWaits, RunRestarts, RunChecksModes,
      DialogClosed, UserStop, OtherNetwork, UserStart, TriggerNetwork, StartSucceeds, StartFails, CoreDies, CoreComesUp,
      ProfileKeeps

-----------------------------------------------------------------------------
(* The run. *)

\* What was stopped during the run is no longer in its snapshot.
StopHeard == run # None /\ stop = "during" => before.id = None

\* TypeOK, RetrySound, NoStuckRun and OneOwner hold together with this.
RunSound == TypeWake /\ StopHeard /\ (run # None => wakeTimer # Off \/ dialog)

LEMMA ClockTyped ==
  ASSUME NEW n \in Nat, NEW t \in Off..n
  PROVE  /\ Less(t) \in Off..n /\ (t # Off => Less(t) # Off)
         /\ Older(t, n) \in Off..n /\ (t # Off => Older(t, n) # Off)
  BY DEF Less, Older, Off

LEMMA Lengths == Far \in Nat /\ Upper(Poll, NoReachDelay) \in Nat /\ CoreGrace \in Nat
  BY IntervalsNat DEF Far, Upper, Poll

LEMMA SnapshotTyped == TypeProfile => \A m \in BOOLEAN : SnapshotNow(m) \in Snapshots
<1> SUFFICES ASSUME TypeProfile, NEW m \in BOOLEAN PROVE SnapshotNow(m) \in Snapshots
  OBVIOUS
<1>1. (started # None /\ via) \in BOOLEAN
  OBVIOUS
<1> QED
  BY <1>1 DEF TypeProfile, Snapshots, SnapshotNow

LEMMA RunStaysSound ==
  TypeProfile /\ TypeFlags /\ RunSound /\ [Next]_vars => RunSound'
<1> SUFFICES ASSUME TypeProfile, TypeFlags, RunSound, [Next]_vars PROVE RunSound'
  OBVIOUS
<1> USE BoundsNat DEF RunSound, StopHeard, TypeWake, before
<1>1. CASE UNCHANGED <<wakeVars, wakes, stop>>
  BY <1>1 DEF wakeVars
<1>2. CASE Tick
  <2>1. sinceWake' \in 0..Far
    <3>1. sinceWake \in Off..Far /\ sinceWake # Off
      BY Lengths DEF Off
    <3>2. Older(sinceWake, Far) \in Off..Far /\ Older(sinceWake, Far) # Off
      BY <3>1, ClockTyped, Lengths
    <3> QED
      BY <1>2, <3>2, Lengths DEF Tick, Off
  <2>2. wakeTimer' \in Off..Upper(Poll, NoReachDelay) /\ (wakeTimer # Off => wakeTimer' # Off)
    BY <1>2, ClockTyped, Lengths DEF Tick
  <2>3. CASE run = None
    BY <1>2, <2>1, <2>2, <2>3 DEF Tick, OthersKeep
  <2>4. CASE run # None
    <3>1. run.dead \in Off..CoreGrace
      BY <2>4 DEF RunStates
    <3>2. Older(run.dead, CoreGrace) \in Off..CoreGrace
      BY <3>1, ClockTyped, Lengths
    <3>3. run' \in RunStates /\ run'.before = run.before
      BY <1>2, <2>4, <3>2 DEF Tick, RunStates
    <3> QED
      BY <1>2, <2>1, <2>2, <2>4, <3>3 DEF Tick, OthersKeep
  <2> QED
    BY <2>3, <2>4
<1>3. CASE NoteSleep
  <2>1. sleepSnapshot' \in Snapshots
    BY <1>3, SnapshotTyped DEF NoteSleep
  <2>2. wakeTimer' \in Off..Upper(Poll, NoReachDelay)
    BY <1>3, Lengths DEF NoteSleep, Off
  <2> QED
    BY <1>3, <2>1, <2>2 DEF NoteSleep
<1>4. CASE NoteWake
  <2>1. PICK b \in Snapshots : run' = [phase |-> "network", ready |-> FALSE, dead |-> Off, before |-> b]
    BY <1>4, SnapshotTyped DEF NoteWake
  <2>2. run' \in RunStates
    BY <2>1, Lengths DEF RunStates, Off
  <2>3. wakeTimer' # Off /\ wakeTimer' \in Off..Upper(Poll, NoReachDelay) /\ sinceWake' \in 0..Far
    BY <1>4, Lengths DEF NoteWake, Off
  <2> QED
    BY <1>4, <2>2, <2>3 DEF NoteWake, SignalKeeps
<1>5. CASE DropRestore /\ WantsStop /\ ProfileKeeps
  BY <1>5 DEF DropRestore, WantsStop, ProfileKeeps, RunStates, Snapshots, Nothing, Maybe
<1>6. CASE UNCHANGED run /\ WantsStart /\ ProfileKeeps
  BY <1>6 DEF WantsStart, ProfileKeeps
<1>7. CASE WakeRunStep
  <2>1. CASE \E blocked \in BOOLEAN : RunOver(blocked)
    BY <1>7, <2>1, Lengths DEF RunOver, RunKeeps, Off
  <2> SUFFICES ASSUME NEW net \in Reachability, Called,
                      RunWaits(net) \/ RunRestarts(net) \/ RunChecksModes(net) \/ RunHandsOver(net)
               PROVE  RunSound'
    BY <1>7, <2>1 DEF WakeRunStep, RunWaits, RunRestarts, RunChecksModes, RunHandsOver
  <2>2. run \in RunStates /\ run # None /\ UNCHANGED <<sinceWake, sleepSnapshot, wakes, stop>>
    BY DEF Called, GivesUp, RunWaits, RunRestarts, RunChecksModes, RunHandsOver, RunKeeps
  <2>3. Dead \in Off..CoreGrace /\ run.dead \in Off..CoreGrace
    BY <2>2, Lengths DEF Dead, RunStates, Off
  <2>4. ASSUME NEW place \in {"core", "modes", "subs"}, NEW dead \in Off..CoreGrace, Goes(place, net, dead)
        PROVE  run' \in RunStates /\ run'.before = run.before
    <3>1. ReadyNow(net) \in BOOLEAN
      BY <2>2 DEF ReadyNow, RunStates
    <3> QED
      BY <2>2, <2>4, <3>1 DEF Goes, RunStates
  <2>5. Poll \in Off..Upper(Poll, NoReachDelay) /\ 0 \in Off..Upper(Poll, NoReachDelay) /\ Poll # Off
    BY IntervalsNat DEF Upper, Poll, Off
  <2>6. ASSUME AtNetwork("unknown") PROVE UnknownWait \in Off..Upper(Poll, NoReachDelay) /\ UnknownWait # Off
    BY <2>6, IntervalsNat, Lengths DEF AtNetwork, Settled, UnknownWait, Upper, Poll, Off
  <2> DEFINE same == run' \in RunStates /\ run'.before = run.before
             timed == wakeTimer' \in Off..Upper(Poll, NoReachDelay) /\ (wakeTimer' # Off \/ dialog')
  <2> HIDE DEF same, timed
  <2>s. ASSUME same, timed PROVE RunSound'
    BY <2>s, <2>2 DEF same, timed
  <2>7. CASE RunWaits(net)
    <3>1. timed
      BY <2>7, <2>5, <2>6 DEF RunWaits, timed
    <3>2. same
      BY <2>7, <2>2, <2>3, <2>4 DEF RunWaits, same
    <3> QED
      BY <3>1, <3>2, <2>s
  <2>8. CASE RunRestarts(net)
    <3>1. same
      BY <2>8, <2>3, <2>4 DEF RunRestarts, same
    <3>2. Off \in Off..Upper(Poll, NoReachDelay)
      BY Lengths DEF Off
    <3>3. timed
      BY <2>8, <2>5, <3>2 DEF RunRestarts, CalledAgain, timed
    <3> QED
      BY <3>1, <3>3, <2>s
  <2>9. CASE RunChecksModes(net)
    <3>1. same
      BY <2>9, <2>3, <2>4 DEF RunChecksModes, same
    <3>2. 0 # Off
      BY DEF Off
    <3>3. timed
      BY <2>9, <2>5, <3>2 DEF RunChecksModes, timed
    <3> QED
      BY <3>1, <3>3, <2>s
  <2>10. CASE RunHandsOver(net)
    <3>1. run' = None /\ wakeTimer' = Off
      BY <2>10 DEF RunHandsOver, RunEnds
    <3>2. Off \in Off..Upper(Poll, NoReachDelay)
      BY Lengths DEF Off
    <3> QED
      BY <3>1, <3>2, <2>2
  <2> QED
    BY <2>7, <2>8, <2>9, <2>10
<1>8. CASE DialogClosed
  BY <1>8, IntervalsNat DEF Upper, Poll, Off, DialogClosed, CalledAgain, RunKeeps
<1> QED
  BY <1>1, <1>2, <1>3, <1>4, <1>5, <1>6, <1>7, <1>8
  DEF Next, vars, wakeVars, OthersKeep, WakeSubsStep, UpdateEnds, OtherUpdate,
      UserStop, OtherNetwork, UserStart, TriggerNetwork, StartSucceeds, StartFails, CoreDies, CoreComesUp, ProfileKeeps

\* A run and a retry are never active together.
LEMMA OneOwnerKept == OneOwner /\ RetrySound /\ [Next]_vars => OneOwner'
<1> SUFFICES ASSUME OneOwner, RetrySound, [Next]_vars PROVE OneOwner'
  OBVIOUS
<1> USE DEF OneOwner
<1>1. CASE UNCHANGED run /\ UNCHANGED retry
  BY <1>1
<1>2. CASE retry' = None
  BY <1>2
<1>3. CASE run' = None
  BY <1>3
<1>4. CASE DropRestore /\ ProfileKeeps
  BY <1>4 DEF DropRestore, ProfileKeeps, subsVars
<1>5. CASE Tick
  BY <1>5 DEF Tick
<1>6. CASE WakeSubsStep \/ UpdateEnds
  BY <1>6, NoneIsNoState DEF RetrySound, WakeSubsStep, UpdateEnds, wakeVars
<1>7. CASE WakeRunStep
  BY <1>7 DEF WakeRunStep, RunOver, RunWaits, RunRestarts, RunChecksModes, RunHandsOver, RunEnds, Called, GivesUp, subsVars
<1> QED
  BY <1>1, <1>2, <1>3, <1>4, <1>5, <1>6, <1>7
  DEF Next, vars, wakeVars, subsVars, NoteSleep, NoteWake, CancelRetry, RetryIsOver, DialogClosed, OtherUpdate,
      UserStop, OtherNetwork, UserStart, TriggerNetwork, StartSucceeds, StartFails, CoreDies, CoreComesUp, ProfileKeeps

-----------------------------------------------------------------------------
(* The profile. *)

LEMMA StartTyped ==
  ASSUME NEW p \in Profiles, NEW trigger \in BOOLEAN, TypeProfile, ProxorStart(p, trigger)
  PROVE  thread' \in [p : Profiles, via : BOOLEAN, cancel : BOOLEAN] \cup {None} /\ whenUp' \in Maybe
<1>1. CASE UNCHANGED <<thread, whenUp>>
  BY <1>1 DEF TypeProfile
<1>2. CASE thread' = [p |-> p, via |-> trigger, cancel |-> FALSE] /\ whenUp' = whenUp
  BY <1>2 DEF TypeProfile
<1>3. CASE whenUp' = p /\ thread' = thread
  BY <1>3 DEF TypeProfile, Maybe
<1> QED
  BY <1>1, <1>2, <1>3 DEF ProxorStart

LEMMA ProfileStaysTyped == TypeWake /\ TypeProfile /\ [Next]_vars => TypeProfile'
<1> SUFFICES ASSUME TypeWake, TypeProfile, [Next]_vars PROVE TypeProfile'
  OBVIOUS
<1> USE BoundsNat DEF TypeProfile
<1>1. CASE UNCHANGED <<profVars, deaths>> /\ restored' \in {restored, "no"}
  BY <1>1 DEF profVars
<1>2. ASSUME NEW p \in Profiles, NEW trigger \in BOOLEAN, StartRequest(p, trigger), WantsStart, UNCHANGED deaths
      PROVE  TypeProfile'
  BY <1>2, StartTyped DEF StartRequest, WantsStart, Refused, Held
<1>3. CASE ProxorStop /\ WantsStop /\ UNCHANGED deaths
  BY <1>3 DEF ProxorStop, WantsStop, Maybe
<1>4. CASE StartSucceeds \/ StartFails
  BY <1>4 DEF StartSucceeds, StartFails, Maybe
<1>5. CASE CoreDies
  <2>1. thread' \in [p : Profiles, via : BOOLEAN, cancel : BOOLEAN] \cup {None}
    <3>1. CASE thread' = thread
      BY <3>1
    <3>2. CASE thread # None /\ thread' = [thread EXCEPT !.cancel = TRUE]
      BY <3>2
    <3> QED
      BY <1>5, <3>1, <3>2 DEF CoreDies
  <2>2. deaths' \in 0..MaxDeaths
    BY <1>5 DEF CoreDies
  <2>3. started' \in Maybe /\ whenUp' \in Maybe /\ restored' = "no"
    BY <1>5 DEF CoreDies, Maybe
  <2> QED
    BY <2>1, <2>2, <2>3
<1>6. CASE CoreComesUp
  <2>1. CASE thread' = thread
    BY <1>6, <2>1 DEF CoreComesUp, Maybe
  <2>2. CASE whenUp # None /\ thread' = [p |-> whenUp, via |-> FALSE, cancel |-> FALSE]
    BY <1>6, <2>2 DEF CoreComesUp, Maybe
  <2> QED
    BY <1>6, <2>1, <2>2 DEF CoreComesUp
<1>7. CASE WakeRunStep
  <2>1. ASSUME NEW net \in Reachability, RunRestarts(net) PROVE TypeProfile'
    <3>1. before.id \in Profiles /\ before.via \in BOOLEAN
      BY <2>1 DEF TypeWake, RunRestarts, Called, GivesUp, CoreStaysDown, RunStates, Snapshots, Maybe, before
    <3>2. CASE ProxorStart(before.id, before.via) /\ restored' = "yes"
      BY <2>1, <3>1, <3>2, StartTyped DEF RunRestarts, RunKeeps
    <3>3. CASE UNCHANGED <<thread, whenUp, restored>>
      BY <2>1, <3>3 DEF RunRestarts, RunKeeps
    <3> QED
      BY <2>1, <3>2, <3>3 DEF RunRestarts, Refused, NoStart
  <2> QED
    BY <1>7, <1>1, <2>1 DEF WakeRunStep, RunOver, RunWaits, RunChecksModes, RunHandsOver, NoStart, RunKeeps, profVars
<1>8. CASE DialogClosed
  BY <1>8 DEF DialogClosed, RunKeeps
<1> QED
  BY <1>1, <1>2, <1>3, <1>4, <1>5, <1>6, <1>7, <1>8
  DEF Next, vars, NoteSleep, NoteWake, SignalKeeps, Tick, WakeSubsStep, UpdateEnds, OtherUpdate, OthersKeep,
      UserStop, OtherNetwork, UserStart, TriggerNetwork

LEMMA FlagsStayTyped == TypeProfile /\ TypeFlags /\ [Next]_vars => TypeFlags'
<1> SUFFICES ASSUME TypeProfile, TypeFlags, [Next]_vars PROVE TypeFlags'
  OBVIOUS
<1> USE DEF TypeFlags
<1>1. CASE UNCHANGED <<dialog, via, pending, coreUp, relaunch>>
  BY <1>1
<1>2. ASSUME NEW p, NEW trigger, StartRequest(p, trigger), UNCHANGED <<dialog, coreUp>>
      PROVE  TypeFlags'
  BY <1>2, Zenon DEF StartRequest, ProxorStart, Refused, Held
<1>3. CASE ProxorStop /\ UNCHANGED <<dialog, coreUp>>
  <2>1. CASE started # None
    BY <1>3, <2>1 DEF ProxorStop
  <2>2. CASE started = None
    BY <1>3, <2>2, Zenon DEF ProxorStop
  <2> QED
    BY <2>1, <2>2
<1>4. CASE StartSucceeds
  <2>1. thread.via \in BOOLEAN
    BY <1>4 DEF StartSucceeds, TypeProfile
  <2> QED
    BY <1>4, <2>1, Zenon DEF StartSucceeds, ProfileKeeps
<1>5. CASE StartFails
  BY <1>5 DEF StartFails, ProfileKeeps
<1>6. CASE CoreDies
  BY <1>6, Zenon DEF CoreDies, ProfileKeeps
<1>7. CASE CoreComesUp
  BY <1>7, Zenon DEF CoreComesUp, ProfileKeeps
<1>8. CASE WakeRunStep
  BY <1>8, Zenon DEF WakeRunStep, RunOver, RunWaits, RunChecksModes, RunHandsOver, NoStart, RunKeeps, RunRestarts, ProxorStart, Refused
<1>9. CASE DialogClosed
  BY <1>9, Zenon DEF DialogClosed, RunKeeps
<1> QED
  BY <1>1, <1>2, <1>3, <1>4, <1>5, <1>6, <1>7, <1>8, <1>9
  DEF Next, vars, wakeVars, profVars, NoteSleep, NoteWake, SignalKeeps, Tick, WakeSubsStep, UpdateEnds, OtherUpdate, OthersKeep,
      UserStop, OtherNetwork, UserStart, TriggerNetwork, ProfileKeeps

-----------------------------------------------------------------------------
(* The invariant and the theorems. *)

IInv == TypeProfile /\ TypeFlags /\ RunSound /\ RetrySound /\ OneOwner

LEMMA IInvHolds == Spec => []IInv
<1>1. Init => IInv
  <2> SUFFICES ASSUME Init PROVE IInv
    OBVIOUS
  <2> USE DEF Init
  <2>1. TypeProfile /\ TypeFlags /\ OneOwner
    <3>1. TypeFlags
      BY Zenon DEF TypeFlags
    <3> QED
      BY <3>1, BoundsNat DEF TypeProfile, OneOwner, Maybe
  <2>2. Off \in Off..Upper(Poll, NoReachDelay) /\ Off \in Off..Upper(Poll, Longest)
    BY IntervalsNat, LongestIsBound DEF Off, Upper, Poll
  <2>3. RunSound
    BY <2>2, BoundsNat, Lengths DEF RunSound, TypeWake, StopHeard
  <2>4. RetrySound
    BY <2>2 DEF RetrySound, TypeSubs
  <2> QED
    BY <2>1, <2>3, <2>4 DEF IInv
<1>2. IInv /\ [Next]_vars => IInv'
  BY RetryStaysSound, RunStaysSound, OneOwnerKept, ProfileStaysTyped, FlagsStayTyped DEF IInv, RunSound
<1> QED
  BY <1>1, <1>2, PTL DEF Spec

\* Every variable stays in its range: the ages of the clocks, the timers, the number of
\* attempts (WakeCoordinator, WakeSubscriptionRetry).
THEOREM TypeCorrect == Spec => []TypeOK
<1>1. IInv => TypeOK
  BY DEF IInv, RunSound, RetrySound, TypeOK
<1> QED
  BY <1>1, IInvHolds, PTL

\* The subscription updates are never left without a timer that brings the wake back
\* to them, message boxes inside wakeRunStep included.
THEOREM OwnersAreCalledAgain == Spec => []NoStuckRun
<1>1. IInv => NoStuckRun
  BY DEF IInv, RunSound, RetrySound, NoStuckRun
<1> QED
  BY <1>1, IInvHolds, PTL

\* wakeDetected and wakeOnSleepEvent never let a run and a retry of another wake coexist.
THEOREM OwnersExclude == Spec => []OneOwner
<1>1. IInv => OneOwner
  BY DEF IInv
<1> QED
  BY <1>1, IInvHolds, PTL

\* What wakeDetected, wakeRunStep and wakeSubsStep keep between them: one owner of the
\* updates at most, and a timer that calls it again.
THEOREM OwnersHold == Spec => []Owners
<1>1. TypeOK /\ NoStuckRun /\ OneOwner => Owners
  BY DEF Owners
<1> QED
  BY <1>1, TypeCorrect, OwnersAreCalledAgain, OwnersExclude, PTL

\* dropRestore is enough for a Stop that comes while the run is active: the run does not
\* start the profile again.
THEOREM StopInRunSticks == Spec => StopDuringRunSticks
<1>1. IInv /\ [Next]_vars => [WakeRestarts => stop # "during"]_vars
  <2> SUFFICES ASSUME IInv, Next, WakeRestarts PROVE stop # "during"
    BY DEF vars, wakeVars, WakeRestarts
  <2>1. PICK net \in Reachability : RunRestarts(net)
    BY DEF WakeRestarts, Next, Tick, NoteSleep, NoteWake, WakeRunStep, WakeSubsStep, DialogClosed, UpdateEnds, OtherUpdate,
           OthersKeep, UserStop, OtherNetwork, UserStart, TriggerNetwork, WantsStart, WantsStop,
           StartSucceeds, StartFails, CoreDies, CoreComesUp, RunOver, RunWaits, RunChecksModes, RunHandsOver, NoStart
  <2>2. run # None /\ before.id # None
    BY <2>1 DEF RunRestarts, Called, GivesUp, CoreStaysDown
  <2> QED
    BY <2>2 DEF IInv, RunSound, StopHeard
<1> QED
  BY <1>1, IInvHolds, PTL DEF Spec, StopDuringRunSticks

\* Between two attempts of a retry the delay of the table passes in full.
THEOREM DelaysAreKept == Spec => AttemptsAreSpaced
<1> DEFINE Begins == updating # "retry" /\ updating' = "retry" /\ retry'.attempts > 1
           Waited == retry.ended >= RetryDelays[retry.attempts]
<1>1. IInv /\ [Next]_vars => [Begins => Waited]_vars
  <2> SUFFICES ASSUME IInv, Next, Begins PROVE Waited
    BY DEF vars, subsVars
  <2>1. WakeSubsStep \/ \E net \in Reachability : RunHandsOver(net)
    BY DEF Next, Tick, NoteSleep, NoteWake, CancelRetry, RetryIsOver, WakeRunStep, DialogClosed, UpdateEnds, OtherUpdate,
           UserStop, OtherNetwork, UserStart, TriggerNetwork, StartSucceeds, StartFails, CoreDies, CoreComesUp,
           ProfileKeeps, subsVars, RunOver, RunWaits, RunRestarts, RunChecksModes
  <2>2. CASE WakeSubsStep
    <3>1. retry \in RetryStates /\ Spaced(retry) /\ RetryStep(retry)
      BY <2>2 DEF WakeSubsStep, IInv, RetrySound, TypeSubs
    <3>2. retry'.attempts = retry.attempts + 1 /\ (retry.attempts > 0 => Waited)
      BY <3>1, BeginsInTime
    <3> QED
      BY <3>1, <3>2 DEF RetryStates, MaxAttempts
  <2>3. CASE \E net \in Reachability : RunHandsOver(net)
    <3> DEFINE r == Retry(FALSE, 0, 0, 0, Off)
    <3>1. RetryStep(r)
      BY <2>3 DEF RunHandsOver, subsVars
    <3>2. r.attempts = 0
      BY DEF Retry
    <3>3. retry'.attempts = r.attempts + 1
      BY <3>1, FreshRetry, BeginsInTime
    <3> HIDE DEF r
    <3> QED
      BY <3>2, <3>3
  <2> QED
    BY <2>1, <2>2, <2>3
<1> QED
  BY <1>1, IInvHolds, PTL DEF Spec, AttemptsAreSpaced
=============================================================================
