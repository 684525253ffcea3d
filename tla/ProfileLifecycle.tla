-------------------------- MODULE ProfileLifecycle --------------------------
(* Starting and stopping a profile: MainWindow::proxor_start and proxor_stop
   (mainwindow_grpc.cpp), the core process beside the GUI (ExternalProcess.cpp)
   and the Start and Stop handlers inside it (grpc_box.go).

   The UI thread handles user actions and posted callbacks one at a time.
   proxor_start hands over to a start thread, which owns mu_starting;
   proxor_stop to a stop thread, which owns mu_stopping.  A start thread that
   replaces a running profile posts proxor_stop(false, true) and waits on
   sem_stopped.  The DS_cores thread watches the core process.  The core runs
   its gRPC handlers concurrently, on a global instance without a lock. *)
EXTENDS Naturals, Sequences, FiniteSets

CONSTANTS Profiles, None,
          Threads,      \* start threads; bounds how many are alive at once
          Remembered,   \* what may be remembered at startup: profiles, or None
          UserActions,  \* what the user does in this instance
          MaxEvents,    \* bound: user actions, with the remembered start, and deaths
          MaxDeaths,    \* bound: deaths and failed launches of the core among them
          Attempts      \* Start attempts on a "bind:" error (4 in the code)

ASSUME NoneIsNoProfile == None \notin Profiles
ASSUME RememberedMaybe == Remembered \subseteq Profiles \cup {None}
ASSUME ActionsKnown == UserActions \subseteq {"start", "restart", "stop", "exit"}
ASSUME BoundsNat == MaxEvents \in Nat \ {0} /\ MaxDeaths \in Nat /\ Attempts \in Nat \ {0}

VARIABLES
  started,      \* dataStore.started_id
  running,      \* MainWindow.running
  pending,      \* start_pending
  cancel,       \* start_cancel
  starting,     \* mu_starting is locked
  stopping,     \* mu_stopping is locked
  sem,          \* sem_stopped
  uiq,          \* callbacks posted to the UI thread
  ui,           \* the UI thread: idle, or between two steps of proxor_stop
  pc, prof, tries,   \* start threads: place, profile, attempts made
  stopper,      \* the stop thread: its place and its arguments
  exit,         \* on_menu_exit_triggered
  proc,         \* the core process as the system has it
  failedToStart, \* CoreProcess.failed_to_start: a launch failed once
  coreRunning,  \* dataStore.core_running
  whenUp,       \* CoreProcess.start_profile_when_core_is_up
  coreq,        \* callbacks posted to DS_cores
  timers,       \* restart timers running
  limited,      \* coreRestartTimer.isValid()
  instance,     \* the core's global instance
  boxes,        \* sing-box instances alive in the core: they hold the port
  calls,        \* RPCs in flight, innermost event loop last
  handler,      \* what the core does for the call of a thread
  acts, deaths, \* counters of the bounds
  wish,         \* history: the last thing the user asked for
  slips         \* history: what happened of the ways the README calls disagreements

guiVars  == <<started, running>>
flagVars == <<pending, cancel>>
lockVars == <<starting, stopping, sem>>
uiVars   == <<uiq, ui>>
startVars == <<pc, prof, tries>>
coreVars == <<proc, coreRunning, failedToStart, whenUp, coreq, timers, limited>>
boxVars  == <<instance, boxes>>
rpcVars  == <<calls, handler>>
userVars == <<acts, wish, slips>>
vars == <<guiVars, flagVars, lockVars, uiVars, startVars, stopper, exit, coreVars, boxVars,
          rpcVars, userVars, deaths>>

Stop == "stop thread"    \* the stop thread as a caller
Callers == Threads \cup {Stop}
ASSUME StopIsNoStart == Stop \notin Threads
Maybe == Profiles \cup {None}
Idle == [at |-> "idle", crash |-> FALSE, sem |-> FALSE]
Job(at, crash, s) == [at |-> at, crash |-> crash, sem |-> s]

Jobs(places) == [at : places, crash : BOOLEAN, sem : BOOLEAN]
\* A Stop that did not reach the start in progress, a stop that failed, a profile that is
\* started again after a death, a core that was killed or died unnoticed, a death that
\* was told before the start it ended was shown, or when the next core was up, a cancel
\* that the next start took back, a start that loaded its profile beside a stop.
Slips == {"unheard", "failed stop", "revived", "untold", "too early", "too late", "taken back", "met"}
\* What is posted to the UI thread.
Messages == [m : {"stop"}, crash : BOOLEAN, sem : BOOLEAN] \cup [m : {"start"}, id : Profiles] \cup [m : {"started"}]

TypeState ==
  /\ started \in Maybe /\ running \in Maybe \cup {"null"}
  /\ sem \in Nat /\ uiq \in Seq(Messages) /\ ui \in Jobs({"idle", "lock", "crashed"})
  /\ pc \in [Threads -> {"idle", "validate", "check", "current", "acquire", "load", "loading",
                         "commit", "show", "failed", "tail"}]
  /\ prof \in [Threads -> Maybe] /\ tries \in [Threads -> 0..Attempts]
  /\ stopper \in Jobs({"idle", "begin", "send", "sent", "commit", "clear", "release"})
  /\ exit \in {"no", "acquire", "daemon", "done"}
  /\ proc \in {"launching", "up", "dead", "down"}
  /\ whenUp \in Maybe /\ coreq \in Seq(Profiles) /\ timers \in Nat
  /\ instance \in Maybe /\ boxes \subseteq Profiles
  /\ calls \in Seq(Callers)
  /\ handler \in [Callers -> {"none", "check", "create", "close", "clear", "ok", "error", "bind", "lost"}]
  /\ acts \in 0..MaxEvents /\ deaths \in 0..MaxDeaths
  /\ wish \in {"none", "run", "stop"} /\ slips \subseteq Slips

TypeFlags == /\ pending \in BOOLEAN /\ cancel \in BOOLEAN /\ starting \in BOOLEAN /\ stopping \in BOOLEAN
             /\ coreRunning \in BOOLEAN /\ limited \in BOOLEAN /\ failedToStart \in BOOLEAN

TypeOK == TypeState /\ TypeFlags

Init ==
  /\ started = None /\ running = None /\ pending = FALSE /\ cancel = FALSE
  /\ starting = FALSE /\ stopping = FALSE /\ sem = 0
  /\ uiq = <<>> /\ ui = Idle
  /\ pc = [t \in Threads |-> "idle"] /\ prof = [t \in Threads |-> None]
  /\ tries = [t \in Threads |-> 0] /\ stopper = Idle /\ exit = "no"
  /\ proc = "launching" /\ coreRunning = FALSE /\ failedToStart = FALSE /\ coreq = <<>>
  /\ whenUp \in Remembered   \* remember_id
  /\ timers = 0 /\ limited = FALSE
  /\ instance = None /\ boxes = {} /\ calls = <<>> /\ handler = [c \in Callers |-> "none"]
  /\ acts = (IF whenUp = None THEN 0 ELSE 1) /\ deaths = 0 /\ wish = "none" /\ slips = {}

Alive == ui.at # "crashed" /\ exit # "done"
Go(t, place) == pc' = [pc EXCEPT ![t] = place] /\ UNCHANGED <<prof, tries>>
Ends(t) == pc' = [pc EXCEPT ![t] = "idle"] /\ prof' = [prof EXCEPT ![t] = None] /\ tries' = [tries EXCEPT ![t] = 0]
Post(msg) == uiq' = Append(uiq, msg)
Note(slip) == slips' = slips \cup {slip}

-----------------------------------------------------------------------------
(* proxor_start, on the UI thread: one event handler. *)

\* Stop is in progress, or the core is not up: the start is left to CoreProcess.
ProxorStart(p) ==
  IF exit # "no" \/ starting
    THEN UNCHANGED <<flagVars, starting, startVars, coreq>>
  ELSE IF stopping
    THEN pending' = FALSE /\ UNCHANGED <<cancel, starting, startVars, coreq>>
  ELSE /\ pending' = TRUE /\ cancel' = FALSE
       /\ IF ~coreRunning
            THEN coreq' = Append(coreq, p) /\ UNCHANGED <<starting, startVars>>
            ELSE \E t \in Threads :
                   /\ pc[t] = "idle" /\ pc' = [pc EXCEPT ![t] = "validate"]
                   /\ prof' = [prof EXCEPT ![t] = p] /\ UNCHANGED tries
                   /\ starting' = TRUE /\ UNCHANGED coreq

\* BuildConfig refuses the profile before anything is locked, whatever is in progress.
BuildFails == exit = "no" /\ pending' = FALSE /\ UNCHANGED <<cancel, starting, startVars, coreq>>

StartRequest(p) == ProxorStart(p) \/ BuildFails

StartKeeps == UNCHANGED <<guiVars, stopping, sem, ui, stopper, proc, coreRunning, failedToStart,
                          whenUp, timers, limited, boxVars, rpcVars, deaths>>

\* A cancelled start has not looked at start_cancel for the last time when this one resets it.
TakesBack == cancel /\ ~cancel' /\ \E t \in Threads : pc[t] = "tail"
StartSlips(over) == slips' = (slips \ over) \cup (IF TakesBack THEN {"taken back"} ELSE {})

Act == acts + deaths < MaxEvents /\ acts' = acts + 1 /\ ui.at = "idle" /\ exit = "no"

\* The user starts a profile: the toggle button while no start is pending, Enter, a double
\* click and the menu at any time.
UserStart(p) ==
  /\ "start" \in UserActions /\ Act /\ started = None
  /\ StartRequest(p)
  /\ wish' = "run" /\ StartSlips({"unheard", "revived"}) /\ UNCHANGED <<uiq, exit>> /\ StartKeeps

\* Restart Proxy, a switch to another profile, or a changed setting.
UserRestart(p) ==
  /\ "restart" \in UserActions /\ Act /\ started # None
  /\ StartRequest(p)
  /\ wish' = "run" /\ StartSlips({"unheard", "revived"}) /\ UNCHANGED <<uiq, exit>> /\ StartKeeps

-----------------------------------------------------------------------------
(* proxor_stop, on the UI thread. *)

\* Nothing is started: a pending start is cancelled.  If no start thread runs, it
\* was only waiting for the core.
StopNothing(withSem) ==
  /\ cancel' = (cancel \/ pending)
  /\ IF pending /\ ~starting THEN pending' = FALSE /\ whenUp' = None
                             ELSE UNCHANGED <<pending, whenUp>>
  /\ sem' = sem + (IF withSem THEN 1 ELSE 0) /\ UNCHANGED ui

\* The first step reads started_id; the lock is tried in a second one.
ProxorStop(crash, withSem) ==
  IF started = None THEN StopNothing(withSem)
                    ELSE ui' = Job("lock", crash, withSem) /\ UNCHANGED <<cancel, pending, whenUp, sem>>

\* Another stop runs: only the waiter is let go.  Otherwise the stop thread starts.
StopLock ==
  /\ ui.at = "lock"
  /\ IF stopping THEN sem' = sem + (IF ui.sem THEN 1 ELSE 0) /\ UNCHANGED <<stopping, stopper>>
                 ELSE stopping' = TRUE /\ stopper' = Job("begin", ui.crash, ui.sem) /\ UNCHANGED sem
  /\ ui' = Idle
  /\ UNCHANGED <<guiVars, flagVars, starting, uiq, startVars, exit, coreVars, boxVars, rpcVars,
                 userVars, deaths>>

StopKeeps == UNCHANGED <<guiVars, starting, stopping, startVars, stopper, proc, coreRunning,
                         failedToStart, coreq, timers, limited, boxVars, rpcVars, deaths>>

\* A start thread that has not been cancelled will start its profile.
StartGoesOn == ~cancel /\ \E t \in Threads : pc[t] \notin {"idle", "show", "failed", "tail"}

\* A start is on its way that this Stop left alone.
StartSurvives ==
  StartGoesOn \/ coreq # <<>> \/ whenUp # None \/ \E i \in 1..Len(uiq) : uiq[i].m = "start"

UserStop ==
  /\ "stop" \in UserActions /\ Act
  /\ ProxorStop(FALSE, FALSE)
  /\ wish' = "stop" /\ UNCHANGED <<uiq, exit>> /\ StopKeeps
  /\ IF StartSurvives' THEN Note("unheard") ELSE UNCHANGED slips

\* on_menu_exit_triggered: stop with the semaphore, then a thread waits for it.
UserExit ==
  /\ "exit" \in UserActions /\ Act
  /\ ProxorStop(FALSE, TRUE)
  /\ exit' = "acquire" /\ wish' = "stop" /\ UNCHANGED <<uiq, slips>> /\ StopKeeps

\* The UI thread takes the next posted callback.
UiCallback ==
  /\ ui.at = "idle" /\ uiq # <<>> /\ uiq' = Tail(uiq) /\ UNCHANGED <<acts, wish, exit>>
  /\ LET msg == Head(uiq) IN
     CASE msg.m = "stop"    -> ProxorStop(msg.crash, msg.sem) /\ StopKeeps
            /\ slips' = slips \cup (IF msg.crash /\ StartGoesOn' THEN {"too early"} ELSE {})
                                \cup (IF msg.crash /\ coreRunning THEN {"too late"} ELSE {})
       [] msg.m = "start"   -> StartRequest(msg.id) /\ StartKeeps /\ StartSlips({})
       [] msg.m = "started" -> pending' = FALSE
            /\ UNCHANGED <<cancel, sem, ui, whenUp, slips>> /\ StopKeeps

-----------------------------------------------------------------------------
(* RPCs.  Every call runs a nested event loop on one thread, so only the
   innermost call can return; a core that died answers with an error. *)

Send(c) == /\ calls' = Append(calls, c)
           /\ handler' = [handler EXCEPT ![c] = IF proc = "up" THEN "check" ELSE "lost"]
Answered(c, replies) == /\ calls # <<>> /\ calls[Len(calls)] = c /\ handler[c] \in replies
                        /\ calls' = SubSeq(calls, 1, Len(calls) - 1)
                        /\ handler' = [handler EXCEPT ![c] = "none"]
Serves(c, place) == proc = "up" /\ handler[c] = place
Then(c, place) == handler' = [handler EXCEPT ![c] = place]
CoreKeeps == UNCHANGED <<guiVars, flagVars, lockVars, uiVars, startVars, stopper, exit, coreVars,
                         calls, userVars, deaths>>

\* server.Start: an instance is in the way, or one is created.  An error of any kind
\* forgets the global instance (the deferred function).
CoreStartCheck(t) ==
  /\ Serves(t, "check")
  /\ IF instance = None THEN Then(t, "create") /\ UNCHANGED instance
                        ELSE Then(t, "error") /\ instance' = None
  /\ UNCHANGED boxes /\ CoreKeeps

\* boxmain.Create: the port is taken by a live instance, another error, or success.
CoreStartCreate(t) ==
  /\ Serves(t, "create")
  /\ \/ boxes # {} /\ Then(t, "bind") /\ instance' = None /\ UNCHANGED boxes
     \/ boxes = {} /\ Then(t, "error") /\ instance' = None /\ UNCHANGED boxes
     \/ boxes = {} /\ Then(t, "ok") /\ instance' = prof[t] /\ boxes' = {prof[t]}
  /\ CoreKeeps

\* The core process is gone with everything in it: calls in flight fail.
CoreLost == /\ instance' = None /\ boxes' = {}
            /\ handler' = [c \in Callers |-> IF handler[c] = "none" THEN "none" ELSE "lost"]

\* server.Stop reads the instance, closes what is there then, and forgets it.
CoreStopCheck ==
  /\ Serves(Stop, "check") /\ Then(Stop, IF instance = None THEN "ok" ELSE "close")
  /\ UNCHANGED boxVars /\ CoreKeeps

CoreStopClose ==
  /\ Serves(Stop, "close") /\ instance # None
  /\ boxes' = boxes \ {instance} /\ Then(Stop, "clear")
  /\ UNCHANGED instance /\ CoreKeeps

\* A Start handler forgot the instance in between: nil pointer, the core dies.
CoreStopPanics ==
  /\ Serves(Stop, "close") /\ instance = None
  /\ proc' = "dead" /\ CoreLost
  /\ UNCHANGED <<guiVars, flagVars, lockVars, uiVars, startVars, stopper, exit, coreRunning,
                 failedToStart, whenUp, coreq, timers, limited, calls, userVars, deaths>>

CoreStopClear ==
  /\ Serves(Stop, "clear") /\ Then(Stop, "ok") /\ instance' = None
  /\ UNCHANGED boxes /\ CoreKeeps

-----------------------------------------------------------------------------
(* The start thread. *)

StartKeepsSlips == UNCHANGED <<guiVars, stopping, ui, stopper, exit, coreVars, boxVars,
                               acts, wish, deaths>>
StartThreadKeeps == StartKeepsSlips /\ UNCHANGED slips
Unlock == starting' = FALSE

GiveUpLocked(t) ==   \* mutant: an early return that forgets the lock
  pending' = FALSE /\ UNCHANGED starting /\ Ends(t)
\* A start that gives up: nothing is started.
GiveUp(t) == pending' = FALSE /\ Unlock /\ Ends(t)

\* Validate: accepted; or refused, or the core is gone.
Validate(t) ==
  /\ pc[t] = "validate"
  /\ \/ proc = "up" /\ coreRunning /\ Go(t, "check") /\ UNCHANGED <<pending, starting>>
     \/ GiveUp(t)
  /\ UNCHANGED <<cancel, sem, uiq, rpcVars>> /\ StartThreadKeeps

CheckCancel(t) ==
  /\ pc[t] = "check"
  /\ IF cancel THEN GiveUp(t) ELSE Go(t, "current") /\ UNCHANGED <<pending, starting>>
  /\ UNCHANGED <<cancel, sem, uiq, rpcVars>> /\ StartThreadKeeps

\* A running profile is stopped first, through the UI thread.
StopCurrent(t) ==
  /\ pc[t] = "current"
  /\ IF started # None THEN Post([m |-> "stop", crash |-> FALSE, sem |-> TRUE]) /\ Go(t, "acquire")
                       ELSE Go(t, "load") /\ UNCHANGED uiq
  /\ UNCHANGED <<flagVars, starting, sem, rpcVars>> /\ StartThreadKeeps

Acquire(t) ==
  /\ pc[t] = "acquire" /\ sem > 0 /\ sem' = sem - 1 /\ Go(t, "load")
  /\ UNCHANGED <<flagVars, starting, uiq, rpcVars>> /\ StartThreadKeeps

\* proxor_start_stage2: Start, at most Attempts times while the port is taken.
LoadConfig(t) ==
  /\ pc[t] = "load"
  /\ IF coreRunning THEN Send(t) /\ Go(t, "loading") ELSE Go(t, "failed") /\ UNCHANGED rpcVars
  /\ IF stopping THEN Note("met") ELSE UNCHANGED slips
  /\ UNCHANGED <<flagVars, starting, sem, uiq>> /\ StartKeepsSlips

\* The loop counter after this attempt.
MayRetry(t) == tries[t] + 1 < Attempts

Loaded(t) ==
  /\ pc[t] = "loading"
  /\ \/ Answered(t, {"ok"}) /\ Go(t, "commit")
     \/ Answered(t, {"error", "lost"}) /\ Go(t, "failed")
     \/ Answered(t, {"bind"}) /\ MayRetry(t) /\ tries' = [tries EXCEPT ![t] = @ + 1]
          /\ pc' = [pc EXCEPT ![t] = "load"] /\ UNCHANGED prof
     \/ Answered(t, {"bind"}) /\ ~MayRetry(t) /\ Go(t, "failed")
  /\ UNCHANGED <<flagVars, starting, sem, uiq>> /\ StartThreadKeeps

LoadFailed(t) ==
  /\ pc[t] = "failed" /\ pending' = FALSE /\ Unlock /\ Go(t, "tail")
  /\ UNCHANGED <<cancel, sem, uiq, rpcVars>> /\ StartThreadKeeps

\* UpdateStartedId saves the settings before MainWindow::running is set.
Commit(t) ==
  /\ pc[t] = "commit" /\ started' = prof[t] /\ Go(t, "show")
  /\ UNCHANGED <<running, stopping, ui, stopper, exit, coreVars, boxVars, userVars, deaths,
                 flagVars, starting, sem, uiq, rpcVars>>

Show(t) ==
  /\ pc[t] = "show" /\ running' = prof[t] /\ Post([m |-> "started"])
  /\ Unlock /\ Go(t, "tail")
  /\ UNCHANGED <<started, stopping, ui, stopper, exit, coreVars, boxVars, userVars, deaths,
                 flagVars, sem, rpcVars>>

NoLateCancel(t) ==   \* mutant: the cancel is not looked at again
  pc[t] = "tail" /\ Ends(t)
  /\ UNCHANGED <<flagVars, starting, sem, uiq, rpcVars>> /\ StartThreadKeeps
\* Stop was pressed while the core was loading: undo the start.
LateCancel(t) ==
  /\ pc[t] = "tail" /\ Ends(t)
  /\ IF cancel /\ started # None THEN Post([m |-> "stop", crash |-> FALSE, sem |-> FALSE])
                                 ELSE UNCHANGED uiq
  /\ UNCHANGED <<flagVars, starting, sem, rpcVars>> /\ StartThreadKeeps

-----------------------------------------------------------------------------
(* The stop thread. *)

StopTo(place) == stopper' = [stopper EXCEPT !.at = place]
StopKeepsSlips == UNCHANGED <<flagVars, starting, uiq, startVars, exit, coreVars, boxVars,
                              acts, wish, deaths>>
StopThreadKeeps == StopKeepsSlips /\ UNCHANGED slips
StopFails == StopTo("release") /\ Note("failed stop")

\* The log line reads running->bean: a null pointer ends the program.
StopBegin ==
  /\ stopper.at = "begin"
  /\ IF running = None THEN ui' = Job("crashed", FALSE, FALSE) /\ UNCHANGED stopper
                       ELSE StopTo(IF stopper.crash THEN "commit" ELSE "send") /\ UNCHANGED ui
  /\ UNCHANGED <<guiVars, stopping, sem, rpcVars>> /\ StopThreadKeeps

StopSend ==
  /\ stopper.at = "send"
  /\ IF coreRunning THEN Send(Stop) /\ StopTo("sent") /\ UNCHANGED slips
                    ELSE StopFails /\ UNCHANGED rpcVars
  /\ UNCHANGED <<guiVars, stopping, sem, ui>> /\ StopKeepsSlips

\* A stop whose RPC fails leaves the profile started in the GUI.
StopSent ==
  /\ stopper.at = "sent"
  /\ \/ Answered(Stop, {"ok"}) /\ StopTo("commit") /\ UNCHANGED slips
     \/ Answered(Stop, {"lost"}) /\ StopFails
  /\ UNCHANGED <<guiVars, stopping, sem, ui>> /\ StopKeepsSlips

StopCommit ==
  /\ stopper.at = "commit" /\ started' = None /\ StopTo("clear")
  /\ UNCHANGED <<running, stopping, sem, ui, rpcVars>> /\ StopThreadKeeps

StopClear ==
  /\ stopper.at = "clear" /\ running' = None /\ StopTo("release")
  /\ UNCHANGED <<started, stopping, sem, ui, rpcVars>> /\ StopThreadKeeps

ReleaseForgotten ==   \* mutant: the waiter is not let go
  stopper.at = "release" /\ stopping' = FALSE /\ stopper' = Idle
  /\ UNCHANGED <<guiVars, sem, ui, rpcVars>> /\ StopThreadKeeps
StopRelease ==
  /\ stopper.at = "release" /\ stopping' = FALSE /\ stopper' = Idle
  /\ sem' = sem + (IF stopper.sem THEN 1 ELSE 0)
  /\ UNCHANGED <<guiVars, ui, rpcVars>> /\ StopThreadKeeps

-----------------------------------------------------------------------------
(* The core process, as DS_cores sees it. *)

ProcKeeps == UNCHANGED <<guiVars, flagVars, lockVars, ui, startVars, stopper, acts, wish>>

\* "grpc server listening": a profile that waits for the core is started.
Listening ==
  /\ proc = "launching" /\ proc' = "up" /\ coreRunning' = TRUE
  /\ IF whenUp # None THEN Post([m |-> "start", id |-> whenUp]) ELSE UNCHANGED uiq
  /\ whenUp' = None
  /\ UNCHANGED <<failedToStart, coreq, timers, limited, boxVars, rpcVars, exit, deaths, slips>> /\ ProcKeeps

Dies == deaths < MaxDeaths /\ acts + deaths < MaxEvents /\ deaths' = deaths + 1

\* The core dies, or does not come up ("failed to serve").
Die ==
  /\ proc \in {"launching", "up"} /\ Dies
  /\ proc' = "dead" /\ CoreLost
  /\ UNCHANGED <<calls, coreRunning, failedToStart, whenUp, coreq, timers, limited, uiq, exit, slips>>
  /\ ProcKeeps

\* stateChanged(NotRunning): tell the GUI, restart in a second unless it happens too often.
TellCrash ==
  /\ Post([m |-> "stop", crash |-> TRUE, sem |-> FALSE])
  /\ \/ limited /\ limited' = FALSE /\ UNCHANGED <<whenUp, timers, slips>>
     \/ /\ limited => timers = 0
        /\ limited' = TRUE /\ whenUp' = started /\ timers' = timers + 1
        /\ IF started # None /\ wish = "stop" THEN Note("revived") ELSE UNCHANGED slips
SayNothing == UNCHANGED <<uiq, limited, whenUp, timers>>

\* After a launch that failed nothing is said of the core any more.
Notice ==
  /\ proc = "dead" /\ proc' = "down" /\ coreRunning' = FALSE
  /\ IF exit # "no" THEN SayNothing /\ UNCHANGED slips
     ELSE IF failedToStart THEN SayNothing /\ Note("untold")
     ELSE TellCrash
  /\ UNCHANGED <<failedToStart, coreq, boxVars, rpcVars, exit, deaths>> /\ ProcKeeps

\* The program of the core cannot be run.  Qt may say so (errorOccurred) before or after
\* the state changes, so a first failure is told or not.
LaunchFails ==
  /\ proc = "launching" /\ Dies
  /\ proc' = "down" /\ coreRunning' = FALSE /\ failedToStart' = TRUE
  /\ \/ exit = "no" /\ ~failedToStart /\ TellCrash
     \/ SayNothing /\ UNCHANGED slips
  /\ UNCHANGED <<coreq, boxVars, rpcVars, exit>> /\ ProcKeeps

\* Restart: kill and launch, without a word to the GUI.
Relaunch == /\ proc' = "launching" /\ coreRunning' = FALSE /\ CoreLost
            /\ IF proc \in {"up", "dead"} THEN Note("untold") ELSE UNCHANGED slips
            /\ UNCHANGED <<failedToStart, limited, calls, uiq, exit, deaths>>

RestartTimer ==
  /\ timers > 0 /\ timers' = timers - 1 /\ Relaunch
  /\ UNCHANGED <<whenUp, coreq>> /\ ProcKeeps

RestartForProfile ==
  /\ coreq # <<>> /\ coreq' = Tail(coreq) /\ whenUp' = Head(coreq) /\ Relaunch
  /\ UNCHANGED timers /\ ProcKeeps

\* The exit thread: wait for the stop, then end the core (Exit).
ExitAcquired ==
  /\ exit = "acquire" /\ sem > 0 /\ sem' = sem - 1 /\ exit' = "daemon"
  /\ UNCHANGED <<guiVars, flagVars, starting, stopping, uiVars, startVars, stopper, coreVars, boxVars,
                 rpcVars, userVars, deaths>>

ExitDone ==
  /\ exit = "daemon" /\ exit' = "done" /\ proc' = "down" /\ CoreLost
  /\ UNCHANGED <<calls, coreRunning, failedToStart, whenUp, coreq, timers, limited, uiq, deaths, slips>>
  /\ ProcKeeps

-----------------------------------------------------------------------------
StartThread(t) == \/ Validate(t) \/ CheckCancel(t) \/ StopCurrent(t) \/ Acquire(t) \/ LoadConfig(t)
                  \/ Loaded(t) \/ LoadFailed(t) \/ Commit(t) \/ Show(t) \/ LateCancel(t)
StopThread == StopBegin \/ StopSend \/ StopSent \/ StopCommit \/ StopClear \/ StopRelease
CoreServes(t) == CoreStartCheck(t) \/ CoreStartCreate(t)
CoreStops == CoreStopCheck \/ CoreStopClose \/ CoreStopPanics \/ CoreStopClear
DsCores == Listening \/ Notice \/ RestartTimer \/ RestartForProfile
ExitThread == ExitAcquired \/ ExitDone
User == UserStop \/ UserExit \/ \E p \in Profiles : UserStart(p) \/ UserRestart(p)

\* Nothing is in progress: the GUI waits for the user, or is gone.
Settled == /\ ui.at = "idle" /\ uiq = <<>> /\ coreq = <<>> /\ timers = 0 /\ stopper = Idle
           /\ \A t \in Threads : pc[t] = "idle"
           /\ proc \in {"up", "down"} /\ exit = "no"
Rest == (Settled \/ ~Alive) /\ UNCHANGED vars

Next == \/ /\ Alive
           /\ \/ User \/ UiCallback \/ StopLock \/ StopThread \/ CoreStops \/ DsCores \/ Die \/ LaunchFails
              \/ ExitThread
              \/ \E t \in Threads : StartThread(t) \/ CoreServes(t)
        \/ Rest

Spec == Init /\ [][Next]_vars

\* Threads are scheduled, RPCs are served, a launched core comes up, dies or fails to; and
\* it does not come up again and again before a request that DS_cores had before has run:
\* two requests could chase each other for ever.
FairSpec == /\ Spec /\ <>[][Listening => coreq = <<>>]_vars
            /\ WF_vars(Alive /\ (UiCallback \/ StopLock)) /\ WF_vars(Alive /\ StopThread)
            /\ WF_vars(Alive /\ CoreStops) /\ WF_vars(Alive /\ DsCores) /\ WF_vars(Alive /\ ExitThread)
            /\ \A t \in Threads : WF_vars(Alive /\ StartThread(t)) /\ WF_vars(Alive /\ CoreServes(t))

-----------------------------------------------------------------------------
(* Safety. *)

Locked == {"validate", "check", "current", "acquire", "load", "loading", "commit", "show", "failed"}

\* mu_starting is held exactly while one start thread has work to do: no early
\* return of proxor_start keeps it, none frees another's (proxor_start).
StartLockOwned ==
  Cardinality({t \in Threads : pc[t] \in Locked}) = IF starting THEN 1 ELSE 0

\* The posted stops that will let a waiter go.
Releases(q) == {i \in 1..Len(q) : q[i].m = "stop" /\ q[i].sem}

\* Permits of sem_stopped are neither lost nor left over: a stray one would let a
\* later switch load its config while the old profile runs (proxor_stop, on_menu_exit_triggered).
PermitsBalance ==
  LET owed == Cardinality({t \in Threads : pc[t] = "acquire"}) + (IF exit = "acquire" THEN 1 ELSE 0)
      due == Cardinality(Releases(uiq)) + (IF ui.at = "lock" /\ ui.sem THEN 1 ELSE 0) + (IF stopper.sem THEN 1 ELSE 0)
  IN Alive => sem + due = owed

\* The GUI and the core agree whenever everything has come to rest, over switches, deaths
\* and launches that fail, unless a stop failed or met a start, the core was ended without
\* the GUI being told, too early or too late for the start, or a cancel was taken back
\* (proxor_start, proxor_stop, CoreProcess, Start, Stop).
SettledAgree ==
  Settled /\ slips \cap {"failed stop", "untold", "too early", "too late", "taken back", "met"} = {} =>
    /\ started = running /\ instance = started
    /\ boxes = {started} \ {None} /\ ~starting /\ ~stopping

\* When all is at rest and Stop was the last thing pressed, nothing is started, unless the
\* Stop left a start alone, failed or met one, or a death brought the profile back.
StopAborts == Settled /\ wish = "stop" /\ slips \cap {"unheard", "failed stop", "revived", "met"} = {} => started = None

\* mainwindow_grpc.cpp:656: "Stop during a pending start aborts it".
StopAlwaysAborts == Settled /\ wish = "stop" => started = None

(* Liveness. *)

\* A start waits for a core that is down, after a launch that failed: nothing is done.
Stranded == failedToStart /\ proc = "down" /\ whenUp # None


\* A thread that waits for a stop gets its permit: no deadlock between the start
\* thread, the UI thread and the stop thread.
WaitersAreReleased ==
  \A t \in Threads : (pc[t] = "acquire") ~> (pc[t] # "acquire" \/ ~Alive)

ExitCompletes == exit = "acquire" ~> (exit = "done" \/ ui.at = "crashed")

\* Whatever path a start or a stop takes, each lock and permit it took is given back
\* once (proxor_start, proxor_stop).
LocksPair == TypeOK /\ StartLockOwned /\ PermitsBalance

\* When all is at rest, what the GUI shows runs, and nothing runs after a Stop.
RestAgrees == SettledAgree /\ StopAborts

\* Nobody waits for ever for a stop: neither a switch nor the exit.
WaitersEnd == WaitersAreReleased /\ ExitCompletes
=============================================================================
