----------------------------- MODULE WakeResume -----------------------------
(* What Proxor does after the system woke up: WakeCoordinator and
   WakeSubscriptionRetry (src/platform), driven by the two single-shot timers of
   mainwindow_wake.cpp, all on the UI thread.  A run waits for the network and
   for the core's own restart, restarts the profile that ran before the sleep if
   the core is still down, has the macOS modes checked, and hands over to the
   subscription retry.

   The profile is taken as those two see it (started_id, start_pending,
   core_running), callbacks posted to the UI thread as run at once;
   ProfileLifecycle has the steps inside proxor_start and proxor_stop.  What a
   step samples and nothing here owns is its input: the network, the startup Tun
   hold, whether groups are due.  Clock readings are kept as the time passed
   since, in units of the poll interval; beyond the longest interval compared
   they stay put. *)
EXTENDS Integers, Sequences

CONSTANTS Profiles, None,
          NoReachDelay, NetworkMax, CoreGrace, RunMax, Dedupe,   \* kWake...
          RetryDelays,   \* kWakeSubscriptionRetryDelaysMs, after attempt 1, 2, ...
          Longest,       \* the longest of them
          SubsMax,       \* kWakeSubscriptionMaxMs
          MaxWakes,      \* bound: runs begun
          MaxDeaths      \* bound: deaths of the core

Poll == 1            \* kWakePollMs, kWakeSubscriptionPollMs
Off == -1            \* a timer that does not run; a clock reading that is not set
MaxAttempts == Len(RetryDelays) + 1

ASSUME NoneIsNoProfile == None \notin Profiles
ASSUME IntervalsNat == {NoReachDelay, NetworkMax, CoreGrace, RunMax, Dedupe, SubsMax} \subseteq Nat
ASSUME DelaysPositive == RetryDelays \in Seq(Nat \ {0})
ASSUME LongestIsBound == Longest \in Nat /\ \A i \in 1..Len(RetryDelays) : RetryDelays[i] <= Longest
ASSUME BoundsNat == MaxWakes \in Nat /\ MaxDeaths \in Nat

VARIABLES
  run,            \* WakeCoordinator while active_, with its snapshot; else None
  sleepSnapshot,  \* the snapshot of a noted sleep, or None
  sinceWake,      \* now - lastWakeMs_ (= wakeAtMs_)
  wakeTimer, subsTimer,   \* time left
  dialog,         \* proxor_start, called by wakeRunStep, shows a message box
  retry,          \* WakeSubscriptionRetry while active_, else None
  updating,       \* UI_subscription_updates_running, and whose update it is
  started, via,   \* started_id, started_via_ssid_trigger
  pending,        \* start_pending
  thread,         \* the start in progress, or None
  coreUp, relaunch, whenUp,   \* core_running; a new core is coming; its profile
  wakes, deaths,  \* counters of the bounds
  stop,           \* history: did a deliberate stop come in this run
  restored        \* history: the run has restarted a profile, until the next event about it

wakeVars == <<run, sinceWake, sleepSnapshot, wakeTimer, dialog>>
subsVars == <<retry, subsTimer, updating>>
profVars == <<started, via, pending, thread, whenUp, relaunch>>
vars == <<wakeVars, subsVars, profVars, coreUp, wakes, deaths, stop, restored>>

Maybe == Profiles \cup {None}
Upper(a, b) == IF a > b THEN a ELSE b
Far == Upper(RunMax, Dedupe)
Snapshots == [id : Maybe, modes : BOOLEAN, via : BOOLEAN]
Nothing == [id |-> None, modes |-> FALSE, via |-> FALSE]   \* WakeSnapshot{}
Reachability == {"unknown", "online", "offline"}
\* age: now - beganMs_; next: nextAtMs_ - now; ended: history, since its last update ended
Retry(flying, n, age, next, ended) ==
  [inFlight |-> flying, attempts |-> n, age |-> age, next |-> next, ended |-> ended]

RunStates == [phase : {"network", "core", "modes", "subs"}, ready : BOOLEAN,
              dead : Off..CoreGrace,   \* now - coreDeadSinceMs_
              before : Snapshots]
RetryStates == [inFlight : BOOLEAN, attempts : 0..MaxAttempts, age : 0..SubsMax, next : 0..Longest,
                ended : Off..Longest]

ASSUME NoneIsNoState == None \notin RunStates \cup RetryStates

TypeWake ==
  /\ run \in RunStates \cup {None} /\ sleepSnapshot \in Snapshots \cup {None}
  /\ sinceWake \in 0..Far /\ wakeTimer \in Off..Upper(Poll, NoReachDelay)
  /\ wakes \in 0..MaxWakes /\ stop \in {"no", "during"}
TypeSubs ==
  /\ retry \in RetryStates \cup {None} /\ subsTimer \in Off..Upper(Poll, Longest)
  /\ updating \in {"no", "retry", "other"}
TypeProfile ==
  /\ started \in Maybe /\ thread \in [p : Profiles, via : BOOLEAN, cancel : BOOLEAN] \cup {None}
  /\ whenUp \in Maybe /\ deaths \in 0..MaxDeaths /\ restored \in {"no", "yes"}
TypeFlags == /\ dialog \in BOOLEAN /\ via \in BOOLEAN /\ pending \in BOOLEAN
             /\ coreUp \in BOOLEAN /\ relaunch \in BOOLEAN
TypeOK == TypeWake /\ TypeSubs /\ TypeProfile /\ TypeFlags

Init ==
  /\ run = None /\ sleepSnapshot = None /\ sinceWake = Far
  /\ wakeTimer = Off /\ subsTimer = Off /\ dialog = FALSE
  /\ retry = None /\ updating = "no"
  /\ started = None /\ via = FALSE /\ pending = FALSE /\ thread = None
  /\ coreUp = TRUE /\ relaunch = FALSE /\ whenUp = None
  /\ wakes = 0 /\ deaths = 0 /\ stop = "no" /\ restored = "no"

-----------------------------------------------------------------------------
(* The profile. *)

\* proxor_start: nothing while another start is in progress; else it is handed to the
\* start thread, or left to CoreProcess - which is told the id only.
ProxorStart(p, trigger) ==
  IF thread # None THEN UNCHANGED <<pending, thread, whenUp, relaunch>>
  ELSE /\ pending' = TRUE
       /\ IF coreUp THEN thread' = [p |-> p, via |-> trigger, cancel |-> FALSE] /\ UNCHANGED <<whenUp, relaunch>>
                    ELSE whenUp' = p /\ relaunch' = TRUE /\ UNCHANGED thread
\* BuildConfig refuses the profile.
Refused == pending' = FALSE /\ UNCHANGED <<thread, whenUp, relaunch>>
\* The startup Tun holds starts back.
Held == UNCHANGED <<pending, thread, whenUp, relaunch>>
StartRequest(p, trigger) == (ProxorStart(p, trigger) \/ Refused \/ Held) /\ UNCHANGED <<started, via>>

\* proxor_stop: a running profile is stopped, or a pending start cancelled.
ProxorStop ==
  /\ UNCHANGED relaunch
  /\ \/ started # None /\ started' = None /\ via' = FALSE /\ UNCHANGED <<pending, thread, whenUp>>
     \/ started = None /\ UNCHANGED <<started, via>>
        /\ IF ~pending THEN UNCHANGED <<pending, thread, whenUp>>
           ELSE IF thread = None THEN pending' = FALSE /\ whenUp' = None /\ UNCHANGED thread
           ELSE thread' = [thread EXCEPT !.cancel = TRUE] /\ UNCHANGED <<pending, whenUp>>

ProfileKeeps == UNCHANGED <<sinceWake, sleepSnapshot, wakeTimer, dialog, subsVars, wakes>>

WantsStart == stop' = "no" /\ restored' = "no"
WantsStop == stop' = (IF run = None THEN "no" ELSE "during") /\ restored' = "no"

UserStart(p) ==
  /\ StartRequest(p, FALSE) /\ WantsStart
  /\ UNCHANGED <<run, coreUp, deaths>> /\ ProfileKeeps

DropNothing == UNCHANGED run   \* mutant: the run still restores what was stopped
DropRestore == run' = (IF run = None THEN None ELSE [run EXCEPT !.before = Nothing])

\* The toggle button, when it shows Stop, or Stop in the menu, at any time.
UserStop ==
  /\ DropRestore /\ ProxorStop /\ WantsStop
  /\ UNCHANGED <<coreUp, deaths>> /\ ProfileKeeps

\* applyOnDemandForSsid: a trigger network starts a profile, another one stops what a
\* trigger network has started.  (There may be several; auto_start_consumed_ssid
\* excludes the last one only.)
TriggerNetwork(p) ==
  /\ started = None
  /\ StartRequest(p, TRUE) /\ WantsStart
  /\ UNCHANGED <<run, coreUp, deaths>> /\ ProfileKeeps

OtherNetwork ==
  /\ via /\ started # None
  /\ DropRestore /\ ProxorStop /\ WantsStop
  /\ UNCHANGED <<coreUp, deaths>> /\ ProfileKeeps

\* The start thread ends.  When it was to replace a profile, that one may be gone.
StartSucceeds ==
  /\ thread # None /\ ~thread.cancel /\ coreUp
  /\ started' = thread.p /\ via' = thread.via
  /\ thread' = None /\ pending' = FALSE /\ UNCHANGED <<whenUp, relaunch>>
  /\ UNCHANGED <<run, coreUp, deaths, stop, restored>> /\ ProfileKeeps

StartFails ==
  /\ thread # None /\ thread' = None /\ pending' = FALSE /\ UNCHANGED <<whenUp, relaunch>>
  /\ \/ UNCHANGED <<started, via>>
     \/ started # None /\ started' = None /\ via' = FALSE
  /\ UNCHANGED <<run, coreUp, deaths, stop, restored>> /\ ProfileKeeps

\* The core ends: what was started is stopped ("CoreCrashed"), and CoreProcess
\* restarts the core with it, unless that happens too often.
CoreDies ==
  /\ coreUp \/ relaunch
  /\ deaths < MaxDeaths /\ deaths' = deaths + 1 /\ coreUp' = FALSE /\ restored' = "no"
  /\ \/ relaunch' = TRUE /\ whenUp' = started
     \/ deaths > 0 /\ relaunch' = FALSE /\ whenUp' = None
  /\ started' = None /\ via' = FALSE
  /\ IF started = None /\ thread # None
       THEN thread' = [thread EXCEPT !.cancel = TRUE] /\ UNCHANGED pending
       ELSE UNCHANGED thread /\ pending' = (pending /\ started # None)
  /\ UNCHANGED <<stop, run>> /\ ProfileKeeps

\* "grpc server listening": the profile that waits for the core ("CoreStarted").
CoreComesUp ==
  /\ relaunch /\ relaunch' = FALSE /\ coreUp' = TRUE /\ whenUp' = None
  /\ \/ UNCHANGED <<pending, thread>>   \* none, a start in progress, or held back
     \/ /\ whenUp # None /\ thread = None
        /\ \/ pending' = TRUE /\ thread' = [p |-> whenUp, via |-> FALSE, cancel |-> FALSE]
           \/ pending' = FALSE /\ UNCHANGED thread
  /\ UNCHANGED <<started, via, run, deaths, stop, restored>> /\ ProfileKeeps

-----------------------------------------------------------------------------
(* Sleep and wake signals. *)

\* wakeSnapshotNow.  The modes exist on macOS only.
SnapshotNow(m) == [id |-> started, modes |-> m, via |-> started # None /\ via]

\* The retry ends; an update it has started goes on.
RetryIsOver == /\ retry' = None /\ subsTimer' = Off
               /\ updating' = (IF updating = "retry" THEN "other" ELSE updating)

RetryLeftAlone == UNCHANGED subsVars   \* mutant: the last wake's retry goes on
\* wake_subs.cancel() and its timer.
CancelRetry == RetryIsOver

SignalKeeps == UNCHANGED <<dialog, profVars, coreUp, deaths>>

NoteSleep ==
  /\ wakes < MaxWakes
  /\ run' = None /\ wakeTimer' = Off /\ CancelRetry
  /\ \E m \in BOOLEAN : sleepSnapshot' = SnapshotNow(m)
  /\ UNCHANGED <<sinceWake, wakes, stop, restored>> /\ SignalKeeps

\* From the system, or from the regular timer that found a gap; a run in progress
\* and, when no sleep was noted, a recent wake make it a duplicate.
NoteWake ==
  /\ wakes < MaxWakes /\ wakes' = wakes + 1
  /\ run = None /\ (sleepSnapshot = None => sinceWake >= Dedupe)
  /\ \E b \in IF sleepSnapshot = None THEN {SnapshotNow(m) : m \in BOOLEAN} ELSE {sleepSnapshot} :
       run' = [phase |-> "network", ready |-> FALSE, dead |-> Off, before |-> b]
  /\ sleepSnapshot' = None /\ sinceWake' = 0 /\ wakeTimer' = 0 /\ CancelRetry
  /\ stop' = "no" /\ restored' = "no" /\ SignalKeeps

-----------------------------------------------------------------------------
(* WakeSubscriptionRetry::step, for the state r: it runs on the timer and, from
   wakeRunStep, right after begin. *)

DelayAfterBegin(r) == r.next   \* mutant: the delay after an attempt is not set
\* Until the next attempt; counted from the step that sees that the last one has ended.
DelayNow(r) == IF r.inFlight THEN RetryDelays[r.attempts] ELSE r.next

RetryStep(r) ==
  LET stops == r.age >= SubsMax
      busy  == pending \/ updating # "no"
      done  == r.inFlight /\ r.attempts >= MaxAttempts
  IN \/ RetryIsOver   \* the startup Tun holds, no group has a schedule
     \/ ~stops /\ ~busy /\ RetryIsOver   \* nothing is due
     \/ stops /\ RetryIsOver
     \/ ~stops /\ busy /\ retry' = r /\ subsTimer' = Poll /\ UNCHANGED updating
     \/ ~stops /\ ~busy /\ done /\ RetryIsOver
     \/ /\ ~stops /\ ~busy /\ ~done
        /\ IF DelayNow(r) > 0
             THEN /\ retry' = Retry(FALSE, r.attempts, r.age, DelayNow(r), r.ended)
                  /\ subsTimer' = DelayNow(r) /\ UNCHANGED updating
             ELSE /\ retry' = Retry(TRUE, r.attempts + 1, r.age, 0, Off)
                  /\ subsTimer' = Poll /\ updating' = "retry"   \* UI_update_due_groups_on_timer

OthersKeep == UNCHANGED <<profVars, coreUp, wakes, deaths, stop, restored>>

WakeSubsStep == subsTimer = 0 /\ retry # None /\ RetryStep(retry) /\ UNCHANGED wakeVars /\ OthersKeep

UpdateEnds ==
  /\ updating # "no" /\ updating' = "no"
  /\ retry' = (IF updating = "retry" THEN [retry EXCEPT !.ended = 0] ELSE retry)
  /\ UNCHANGED <<wakeVars, subsTimer>> /\ OthersKeep

\* By the user at any time, or by the regular timer, which leaves it to an active wake.
OtherUpdate ==
  /\ updating = "no" /\ updating' = "other"
  /\ UNCHANGED <<wakeVars, retry, subsTimer>> /\ OthersKeep

-----------------------------------------------------------------------------
(* WakeCoordinator::step and what wakeRunStep does with it.  One call passes the
   phases that have nothing to do. *)

Settled(net) == \/ net = "online"
                \/ net = "unknown" /\ sinceWake >= NoReachDelay
                \/ net = "offline" /\ sinceWake >= NetworkMax
AtNetwork(net) == run.phase = "network" /\ ~Settled(net)
ReadyNow(net) == IF run.phase = "network" THEN net # "offline" ELSE run.ready

before == run.before
AtCore(net) == run.phase = "core" \/ (run.phase = "network" /\ Settled(net))
Dead == IF run.dead = Off THEN 0 ELSE run.dead
CoreWaits(net) == AtCore(net) /\ before.id # None /\ (pending \/ (~coreUp /\ Dead < CoreGrace))
CoreStaysDown(net) == AtCore(net) /\ before.id # None /\ ~pending /\ ~coreUp /\ Dead >= CoreGrace
PastCore(net) == \/ run.phase \in {"modes", "subs"}
                 \/ AtCore(net) /\ (before.id = None \/ (~pending /\ coreUp))
AtModes(net) == PastCore(net) /\ run.phase # "subs" /\ before.modes
PastModes(net) == PastCore(net) /\ (run.phase = "subs" \/ ~before.modes \/ (~pending /\ started = None))

Goes(place, net, dead) == run' = [phase |-> place, ready |-> ReadyNow(net), dead |-> dead, before |-> before]
RunKeeps == UNCHANGED <<sinceWake, sleepSnapshot, started, via, coreUp, wakes, deaths, stop>>
NoStart == UNCHANGED <<pending, thread, whenUp, relaunch, dialog, restored>>

NoLimit == run = None   \* mutant: a run that waits for a start waits forever
\* The run takes too long; or a timer left by a run that is over.
GivesUp == run = None \/ sinceWake >= RunMax
Called == wakeTimer = 0 /\ ~GivesUp

RunOver(blocked) ==   \* blocked: the startup Tun holds, or Proxor exits
  /\ wakeTimer = 0 /\ (GivesUp \/ blocked) /\ run' = None /\ wakeTimer' = Off
  /\ NoStart /\ UNCHANGED subsVars /\ RunKeeps

UnknownWait == NoReachDelay - sinceWake

RunWaits(net) ==
  /\ Called
  /\ \/ AtNetwork(net) /\ UNCHANGED run
        /\ wakeTimer' = (IF net = "unknown" THEN UnknownWait ELSE Poll)
     \/ CoreWaits(net) /\ Goes("core", net, IF pending THEN run.dead ELSE Dead) /\ wakeTimer' = Poll
     \/ AtModes(net) /\ pending /\ Goes("modes", net, run.dead) /\ wakeTimer' = Poll
  /\ NoStart /\ UNCHANGED subsVars /\ RunKeeps

CalledAgain == wakeTimer' = Poll

\* The profile is started again.  A message box of proxor_start runs an event loop
\* before the timer is set; the profile may be gone by now.
RunRestarts(net) ==
  /\ Called /\ CoreStaysDown(net) /\ Goes("modes", net, run.dead)
  /\ \/ /\ ProxorStart(before.id, before.via) /\ CalledAgain /\ UNCHANGED dialog
        /\ restored' = "yes"
     \/ Refused /\ ~dialog /\ dialog' = TRUE /\ wakeTimer' = Off /\ UNCHANGED restored
     \/ NoStart /\ CalledAgain
  /\ UNCHANGED subsVars /\ RunKeeps

DialogClosed ==
  /\ dialog /\ dialog' = FALSE /\ CalledAgain
  /\ UNCHANGED <<run, pending, thread, whenUp, relaunch, restored, subsVars>> /\ RunKeeps

\* macWakeCheckModes asks the helper; what follows from its answer is not part of this module.
RunChecksModes(net) ==
  /\ Called /\ AtModes(net) /\ ~pending /\ started # None
  /\ Goes("subs", net, run.dead) /\ wakeTimer' = 0
  /\ NoStart /\ UNCHANGED subsVars /\ RunKeeps

RunEnds == run' = None

\* With a network the subscriptions are next, in the same call.
RunHandsOver(net) ==
  /\ Called /\ PastModes(net) /\ RunEnds /\ wakeTimer' = Off
  /\ IF ReadyNow(net) THEN RetryStep(Retry(FALSE, 0, 0, 0, Off)) ELSE UNCHANGED subsVars
  /\ NoStart /\ RunKeeps

WakeRunStep ==
  \/ \E blocked \in BOOLEAN : RunOver(blocked)
  \/ \E net \in Reachability : RunWaits(net) \/ RunRestarts(net) \/ RunChecksModes(net) \/ RunHandsOver(net)

-----------------------------------------------------------------------------
(* Time. *)

Older(t, cap) == IF t = Off \/ t = cap THEN t ELSE t + 1
Less(t) == IF t > 0 THEN t - 1 ELSE t

\* A unit passes, whether or not a timer that is due has been served.
Tick ==
  /\ sinceWake' = Older(sinceWake, Far)
  /\ wakeTimer' = Less(wakeTimer) /\ subsTimer' = Less(subsTimer)
  /\ run' = (IF run = None THEN None ELSE [run EXCEPT !.dead = Older(@, CoreGrace)])
  /\ retry' = (IF retry = None THEN None
               ELSE Retry(retry.inFlight, retry.attempts, Older(retry.age, SubsMax),
                          Less(retry.next), Older(retry.ended, Longest)))
  /\ UNCHANGED <<sleepSnapshot, dialog, updating>> /\ OthersKeep

Next == \/ Tick \/ NoteSleep \/ NoteWake
        \/ WakeRunStep \/ WakeSubsStep \/ DialogClosed \/ UpdateEnds \/ OtherUpdate
        \/ UserStop \/ OtherNetwork \/ \E p \in Profiles : UserStart(p) \/ TriggerNetwork(p)
        \/ StartSucceeds \/ StartFails \/ CoreDies \/ CoreComesUp

Spec == Init /\ [][Next]_vars

\* Time passes, due timers are served, the user closes a message box.
FairSpec == Spec /\ WF_vars(Tick) /\ WF_vars(WakeRunStep) /\ WF_vars(WakeSubsStep) /\ WF_vars(DialogClosed)

-----------------------------------------------------------------------------
(* Properties. *)

Owns == run # None \/ retry # None   \* wakeOwnsSubscriptions

\* Whoever owns the subscription updates will be called again: the regular timer
\* keeps its hands off as long as one of the two is active, so a run without a timer
\* would end the updates for good (wakeRunStep, wakeSubsStep, wakeOnSleepEvent).
NoStuckRun == /\ run # None => wakeTimer # Off \/ dialog
              /\ retry # None => subsTimer # Off

\* A run and the retry of an earlier one are never active together (wakeDetected, wakeRunStep).
OneOwner == run = None \/ retry = None

WakeRestarts == restored = "no" /\ restored' # "no"

\* mainwindow.h:300, "a deliberate Stop must survive a wake that is still running":
\* the run does not start again what was stopped in it (dropRestore, step).
StopDuringRunSticks == [][WakeRestarts => stop # "during"]_vars

\* The retry leaves the delay of the table between the end of an update of its own
\* and the next one, however late the end is noticed (WakeSubscriptionRetry::step).
AttemptsAreSpaced ==
  [][updating # "retry" /\ updating' = "retry" /\ retry'.attempts > 1
       => retry.ended >= RetryDelays[retry.attempts]]_vars

\* The wake lets go of the subscriptions: a run and its retry end, whatever the
\* network, the core, pending starts and running updates do (step, both classes).
HandedBack == Owns ~> ~Owns

\* The subscriptions have one owner at most, and it will be called again (wakeDetected,
\* wakeRunStep, wakeSubsStep).
Owners == TypeOK /\ NoStuckRun /\ OneOwner
=============================================================================
