------------------------------ MODULE MacModes ------------------------------
(* System Proxy and Tun on macOS as the UI thread drives them: the two switches and
   the startup hold (mainwindow.cpp), the coordinator that pauses the modes while no
   profile runs (MacModeCoordinator.cpp), the repair after a wake
   (mainwindow_wake.cpp) and the installation of the helper.  The helper and the
   queues to it and back are MacHelperLink.

   A handler of the UI thread is a function of its state g; it appends its calls to
   g.out, which the action hands to the worker.  Starting and stopping a profile
   (ProfileLifecycle) is reduced to what the modes see of it. *)
EXTENDS MacHelperLink, FiniteSets

CONSTANTS MaxActs,   \* bound: inputs of the user
          Inputs,    \* what the user does in this instance
          Remembered, Installed  \* what the program may find when it starts

ASSUME ModesAssumption == MaxActs \in Nat /\ Remembered \subseteq SUBSET {"proxy", "vpn"}
                          /\ Installed \subseteq BOOLEAN
                          /\ Inputs \subseteq {"proxy", "vpn", "start", "stop", "sleep"}

VARIABLES g, acts
vars == <<linkVars, g, acts>>
Modes == {"proxy", "vpn"}

StateType ==
  [run : BOOLEAN, starting : BOOLEAN, stopping : BOOLEAN, cancel : BOOLEAN,  \* the profile
   sp : BOOLEAN, tun : BOOLEAN, pid : BOOLEAN, rem : SUBSET Modes,           \* the modes
   saves : BOOLEAN,                                                        \* mac_tun_request_saves
   parked : BOOLEAN, paused : BOOLEAN, inFlight : BOOLEAN, waiting : BOOLEAN, timer : BOOLEAN,
   pending : BOOLEAN, auth : BOOLEAN, failed : BOOLEAN, deferred : BOOLEAN,  \* startup_tun_*
   work : BOOLEAN,                                                         \* startup_network_work is held
   probing : BOOLEAN, was : SUBSET Modes, tunTimer : BOOLEAN,
   installing : {"no", "proxy", "vpn", "startup"}, slept : SUBSET Modes,
   slip : {"", "on while stopping", "late failure", "late loss", "helper failed",
                   "off while starting up", "off after sleep", "start under way", "stop failed", "late stop", "late start"},
   out : {<<>>}]

On(s) == (IF s.sp THEN {"proxy"} ELSE {}) \cup (IF s.tun THEN {"vpn"} ELSE {})
\* A call; a mode that is turned on while the profile is being stopped is noted.
Call(s, op, by, save, was) ==
  [s EXCEPT !.out = Append(@, [op |-> op, by |-> by, save |-> save, was |-> was]),
            !.slip = IF @ # "" THEN @ ELSE IF s.stopping /\ op \in {"tunStart", "apply"} THEN "on while stopping"
                     ELSE IF ~s.run /\ op = "apply" THEN "late start" ELSE @]
Slip(s, cond, what) == IF cond /\ s.slip = "" THEN [s EXCEPT !.slip = what] ELSE s
Remember(s, m, on) == [s EXCEPT !.rem = IF on THEN @ \cup {m} ELSE @ \ {m}]

-----------------------------------------------------------------------------
(* The calls that every handler makes. *)

StartVPN(s, by) == IF s.pid THEN s ELSE Call([s EXCEPT !.pid = TRUE], "tunStart", by, FALSE, {})
StopVPN(s) ==
  LET t == [s EXCEPT !.pid = FALSE, !.tunTimer = FALSE]
  IN IF s.pid \/ link THEN Call(t, "tunStop", "user", FALSE, {}) ELSE t
Restore(s, by) == IF link \/ ready THEN Call(s, "restore", by, FALSE, {}) ELSE s

\* proxor_start, and what the start thread finds already taken.
Begin(s) ==
  IF (s.pending /\ ~s.auth) \/ s.failed \/ s.starting \/ s.stopping THEN s
  ELSE [s EXCEPT !.starting = TRUE, !.cancel = FALSE, !.timer = FALSE, !.waiting = FALSE]
ResumeDeferred(s) == IF s.deferred THEN Begin([s EXCEPT !.deferred = FALSE]) ELSE s

\* The coordinator, with the grace period of 0 it is built with: a stop pauses at once.
Pause(s, p, t) ==
  LET a == IF t THEN Call([s EXCEPT !.paused = TRUE, !.pid = FALSE, !.tunTimer = FALSE],
                          "tunStop", "modes", FALSE, {}) ELSE s
  IN IF p THEN Restore([a EXCEPT !.parked = TRUE], "modes") ELSE a
PauseNow(s) == Pause(s, s.sp /\ ~s.parked, s.tun /\ s.pid)
Schedule(s) == [s EXCEPT !.timer = TRUE, !.waiting = FALSE]
ProfileStopping(s) == PauseNow([s EXCEPT !.inFlight = TRUE])
ProfileStarted(s) ==
  LET p == s.parked /\ s.sp
      t == s.tun /\ ~s.pid
      a == [s EXCEPT !.parked = FALSE, !.paused = FALSE, !.saves = IF t THEN FALSE ELSE @]
      b == IF t THEN StartVPN(a, "modes") ELSE a
  IN IF p THEN Call(b, "apply", "modes", FALSE, {}) ELSE b
ProfileStopped(s) ==
  LET t == [Slip(s, s.stopping, "late stop") EXCEPT !.inFlight = FALSE]
  IN IF s.run THEN ProfileStarted(t) ELSE IF s.waiting THEN Schedule(t) ELSE t
ProfileStartFailed(s) == IF s.run THEN s ELSE Schedule(s)
GraceOver(s) ==
  LET t == [s EXCEPT !.timer = FALSE]
  IN IF s.inFlight THEN [t EXCEPT !.waiting = TRUE] ELSE IF s.run THEN t ELSE PauseNow(t)
Reset(s) == [s EXCEPT !.timer = FALSE, !.inFlight = FALSE, !.waiting = FALSE,
                      !.parked = FALSE, !.paused = FALSE]

\* proxor_stop: a start without a running profile is cancelled.
Stop(s) ==
  IF s.run THEN [ProfileStopping(s) EXCEPT !.stopping = TRUE]
  ELSE IF s.starting THEN [s EXCEPT !.cancel = TRUE] ELSE s

-----------------------------------------------------------------------------
(* The switches. *)

SetProxy(s, on, save, restoring) ==
  LET Set(t) == LET u == [t EXCEPT !.sp = on] IN IF save THEN Remember(u, "proxy", on) ELSE u
  IN IF on = s.sp THEN Set(s)
     ELSE IF ~on THEN Set(Restore([s EXCEPT !.parked = FALSE], "user"))
     ELSE IF ~link THEN Call(s, "probe", IF restoring THEN "restore" ELSE "proxy", save, {})
     ELSE IF ~s.run THEN Set([s EXCEPT !.parked = TRUE])
     ELSE Set(Call([s EXCEPT !.parked = FALSE], "apply", "user", save, {}))

SetVpn(s, on, save) ==
  LET e == IF on /\ s.failed THEN [s EXCEPT !.failed = FALSE, !.pending = TRUE, !.auth = FALSE]
           ELSE IF s.failed THEN ResumeDeferred([s EXCEPT !.failed = FALSE, !.work = FALSE]) ELSE s
      Set(t) == LET u == [t EXCEPT !.tun = on] IN IF save THEN Remember(u, "vpn", on) ELSE u
  IN IF on = s.tun THEN Set(e)
     ELSE IF ~on THEN Set(StopVPN(e))
     ELSE IF ~link THEN Call(e, "probe", "vpn", save, {})
     ELSE IF e.run \/ (e.pending /\ e.deferred) THEN Set(StartVPN([e EXCEPT !.saves = save], "user"))
     ELSE Set(IF e.pending THEN [e EXCEPT !.pending = FALSE, !.auth = TRUE, !.work = FALSE] ELSE e)

-----------------------------------------------------------------------------
(* The startup hold: a remembered Tun keeps the profile and the first network work
   back until it is up, has failed, or cannot be had. *)

Complete(s) ==
  IF s.pending THEN ResumeDeferred([s EXCEPT !.pending = FALSE, !.auth = TRUE, !.work = FALSE]) ELSE s
Release(s) ==
  IF s.pending THEN [ResumeDeferred([s EXCEPT !.pending = FALSE, !.auth = FALSE]) EXCEPT !.work = FALSE]
  ELSE s
Authorize(s) == IF s.pending /\ ~s.auth THEN ResumeDeferred([s EXCEPT !.auth = TRUE]) ELSE s
FailStartup(s) ==
  IF s.pending THEN [s EXCEPT !.pending = FALSE, !.auth = FALSE, !.failed = TRUE] ELSE s
\* The deferred profile runs already: stop it, it waits again.
TunFailed(s) ==
  LET t == [s EXCEPT !.pid = FALSE, !.tunTimer = FALSE]
      u == Slip(IF t.run THEN Stop([t EXCEPT !.deferred = TRUE]) ELSE t, t.starting, "start under way")
  IN [FailStartup(u) EXCEPT !.tun = TRUE]

Install(s, what) == IF s.installing = "no" THEN [s EXCEPT !.installing = what] ELSE s

\* macStartupProbed: the answer to the probe or the safety timer, whichever is first.
Probed(s, is) ==
  LET t == [s EXCEPT !.probing = FALSE]
      p == IF "proxy" \in s.was THEN SetProxy(t, TRUE, FALSE, TRUE) ELSE t
      v == SetVpn(p, TRUE, FALSE)
  IN IF ~s.probing THEN s
     ELSE IF is = "ready" THEN IF "vpn" \notin s.was THEN p ELSE IF v.tun THEN v ELSE FailStartup(v)
     ELSE IF is = "absent" THEN Install(Release(t), "startup") ELSE Release(t)

-----------------------------------------------------------------------------
(* Replies and signals. *)

\* A call of this kind is under way, or its reply waits behind the one being handled.
Later(op) ==
  \/ \E i \in 1..Len(wq) : "op" \in DOMAIN wq[i] /\ wq[i].op = op
  \/ \E i \in 2..Len(mq) : mq[i].m = "reply" /\ mq[i].call.op = op

TunStarted(s, c, ok) ==
  IF ok THEN IF s.pending THEN [Authorize(s) EXCEPT !.tunTimer = TRUE] ELSE s
  ELSE LET t == [Slip(s, Later("tunStart"), "late failure") EXCEPT !.pid = FALSE]
       IN IF t.pending THEN TunFailed(t) ELSE IF t.tun THEN SetVpn(t, FALSE, t.saves) ELSE t
ProxyApplied(s, c, ok) ==
  IF ok \/ c.by # "user" \/ ~s.sp THEN s
  ELSE LET t == [Slip(s, Later("apply"), "late failure") EXCEPT !.sp = FALSE]
       IN IF c.save THEN Remember(t, "proxy", FALSE) ELSE t
Answered(s, c, ok, has) ==
  CASE c.by = "startup" -> Probed(s, IF ok THEN "ready" ELSE IF "absent" \in has THEN "absent" ELSE "silent")
    [] c.by = "proxy"   -> IF ok /\ link THEN SetProxy(s, TRUE, c.save, FALSE) ELSE Install(s, "proxy")
    [] c.by = "restore" -> IF ok /\ link THEN SetProxy(s, TRUE, c.save, TRUE) ELSE s
    [] c.by = "vpn"     -> IF ok /\ link THEN SetVpn(s, TRUE, c.save)
                           ELSE IF s.pending THEN Release(s) ELSE Install(s, "vpn")
    [] OTHER -> \* the probe after an installation
       LET t == [s EXCEPT !.installing = "no"]
           p == IF s.installing = "proxy" THEN SetProxy(t, TRUE, TRUE, FALSE)
                ELSE IF s.installing = "startup" /\ "proxy" \in s.was THEN SetProxy(t, TRUE, FALSE, TRUE) ELSE t
       IN IF ~ok THEN t
          ELSE IF s.installing = "vpn" THEN SetVpn(p, TRUE, TRUE)
          ELSE IF s.installing = "startup" /\ "vpn" \in s.was THEN SetVpn(p, TRUE, FALSE) ELSE p
\* macWakeCheckModes: what was on before the sleep and is off in the helper.
Woken(s, c, ok, has) ==
  LET fix == IF s.run THEN {m \in c.was \ has : ~(IF m = "proxy" THEN s.parked ELSE s.paused)} ELSE {}
      k == Slip(s, ~(fix \subseteq On(s)), "off after sleep")
      v == IF "vpn" \notin fix THEN k
           ELSE IF s.tun THEN StartVPN([k EXCEPT !.saves = FALSE], "wake") ELSE SetVpn(k, TRUE, FALSE)
  IN IF ~ok \/ ~link THEN s
     ELSE IF "proxy" \notin fix THEN v
     ELSE IF s.sp THEN Call(v, "apply", "wake", FALSE, {}) ELSE SetProxy(v, TRUE, FALSE, FALSE)
OnReply(s, c, ok, has) ==
  CASE c.op = "tunStart" -> TunStarted(s, c, ok)
    [] c.op = "apply"    -> ProxyApplied(s, c, ok)
    [] c.op = "probe"    -> Answered(s, c, ok, has)
    [] c.op = "status"   -> Woken(s, c, ok, has)
    [] OTHER             -> s

\* mutant: the timer is stopped and the hold kept.
Mut_TunIsReady(s) == [s EXCEPT !.tunTimer = FALSE]
TunIsReady(s) == Complete([s EXCEPT !.tunTimer = FALSE])
\* mutant: a Tun that stops is forgotten.
Mut_TunStopped(s) ==
  IF s.pending THEN TunFailed(s)
  ELSE LET t == [s EXCEPT !.pid = FALSE] IN IF t.tun THEN SetVpn(t, FALSE, TRUE) ELSE t
TunStopped(s) ==
  IF s.pending THEN TunFailed(s)
  ELSE LET t == [s EXCEPT !.pid = FALSE] IN IF t.tun THEN SetVpn(t, FALSE, FALSE) ELSE t
\* mutant: the pauses scheduled before the loss are kept.
Mut_HelperLost(s) ==
  [(IF s.pid \/ s.pending THEN TunStopped(s) ELSE s) EXCEPT !.sp = FALSE]
HelperLost(s) ==
  LET r == Slip(Reset(s), h.conn \/ Later("apply") \/ Later("tunStart"), "late loss")
  IN [(IF r.pid \/ r.pending THEN TunStopped(r) ELSE r) EXCEPT !.sp = FALSE]

-----------------------------------------------------------------------------
(* Actions of the UI thread. *)

Do(s) == g' = [s EXCEPT !.out = <<>>] /\ wq' = wq \o s.out
Quiet == UNCHANGED <<h, wire, sess, link, ready>>
Here == Quiet /\ UNCHANGED <<mq, acts>>
Fine == UNCHANGED faults

Deliver ==
  /\ mq # <<>> /\ mq' = Tail(mq) /\ Quiet /\ Fine /\ UNCHANGED acts
  /\ LET e == Head(mq)
     IN Do(CASE e.m = "reply"       -> OnReply(g, e.call, e.ok, e.has)
             [] e.m = "ready"       -> TunIsReady(g)
             [] e.m = "stopped"     -> TunStopped(Slip(g, h.tun # "off" \/ Later("tunStart"), "late loss"))
             [] e.m = "lost"        -> HelperLost(g)
             [] e.m = "started"     -> ProfileStarted(g)
             [] e.m = "startFailed" -> ProfileStartFailed(g)
             [] e.m = "stopDone"    -> ProfileStopped(g)
             [] e.m = "stop"        -> Stop(g))

\* An input of the user, each a handler of its own; what was posted before it has run.
Input(i) ==
  /\ mq = <<>> /\ acts < MaxActs /\ acts' = acts + 1 /\ Quiet /\ Fine /\ UNCHANGED mq
  /\ Do(CASE i = "proxy" -> SetProxy(g, ~g.sp, TRUE, FALSE)
          [] i = "vpn"   -> SetVpn(Slip(g, g.pending, "off while starting up"), ~g.tun, TRUE)
          [] i = "start" -> Begin(g)
          [] i = "stop"  -> Stop(g)
          [] i = "sleep" -> [g EXCEPT !.slept = On(g)])

GraceTimeout ==
  g.timer /\ Here /\ Fine /\ Do(GraceOver(g))
\* The Tun asked for at startup has not come up in 45 seconds; a helper that works
\* reports it up or failed before that.
TunTimeout ==
  /\ g.tunTimer /\ Here /\ IF h.tun = "coming" \/ wire # <<>> \/ wq # <<>> \/ mq # <<>> THEN Fault ELSE Fine
  /\ Do(LET s == [g EXCEPT !.tunTimer = FALSE]
        IN IF s.pending THEN TunFailed(Call(s, "tunStop", "nobody", FALSE, {})) ELSE s)
\* The startup probe has not answered in 8 seconds.
SafetyTimeout == g.probing /\ g.was # {} /\ Here /\ Fault /\ Do(Probed(g, "silent"))
WakeCheck ==
  g.slept # {} /\ Here /\ Fine /\ Do(Call([g EXCEPT !.slept = {}], "status", "user", FALSE, g.slept))

Asked == \E i \in 1..Len(wq \o mq) :
  LET e == (wq \o mq)[i] IN IF "op" \in DOMAIN e THEN e.by = "install" ELSE e.m = "reply" /\ e.call.by = "install"
\* The administrator's script installs the helper, then a probe finds it; or it is declined.
InstallEnds ==
  /\ g.installing # "no" /\ ~Asked
  /\ \/ /\ h' = [inst |-> TRUE, up |-> TRUE, conn |-> FALSE, tun |-> "off", proxy |-> FALSE] /\ wire' = <<>>
        /\ Do(Call(g, "probe", "install", FALSE, {}))
     \/ Do([g EXCEPT !.installing = "no"]) /\ UNCHANGED <<h, wire>>
  /\ UNCHANGED <<sess, link, ready, mq, acts>> /\ Fine

(* The threads that start and stop the profile. *)

Thread(s, posts) == g' = s /\ mq' = mq \o posts /\ Quiet /\ UNCHANGED <<wq, acts>>
Replace == g.starting /\ g.run /\ ~g.stopping /\ Thread([g EXCEPT !.run = FALSE], <<Signal("stopDone")>>) /\ Fine
StartEnds ==
  /\ g.starting /\ (g.run => g.stopping)
  /\ LET s == [g EXCEPT !.starting = FALSE]
     IN \/ Thread(s, <<Signal("startFailed")>>) /\ IF g.cancel THEN Fine ELSE Fault
        \/ /\ Thread([s EXCEPT !.run = TRUE],
                     <<Signal("started")>> \o (IF g.cancel THEN <<Signal("stop")>> ELSE <<>>))
           /\ Fine
StopEnds ==
  /\ g.stopping
  /\ LET s == [g EXCEPT !.stopping = FALSE]
     IN \/ Thread([s EXCEPT !.run = FALSE], <<Signal("stopDone")>>) /\ Fine
        \/ Thread(Slip(s, g.failed, "stop failed"), <<Signal("stopDone")>>) /\ Fault

\* A call of the worker that fails in a helper that lives is noted.
Worker == Work /\ UNCHANGED acts /\ g' = Slip(g, faults' # faults /\ sess', "helper failed")
Elsewhere == (Read \/ Pass \/ HelperDies \/ HelperStarts \/ TunSettles(g.run)) /\ UNCHANGED <<g, acts>>

Init ==
  /\ LinkInit /\ h.inst \in Installed /\ acts = 0
  /\ \E rem \in Remembered, enabled, profile \in BOOLEAN :
       LET restores == rem # {} /\ (enabled \/ "vpn" \in rem)
           hold == "vpn" \in rem
           last == enabled /\ profile
       IN /\ g = [run |-> FALSE, starting |-> last /\ ~hold, stopping |-> FALSE, cancel |-> FALSE,
                  sp |-> FALSE, tun |-> FALSE, pid |-> FALSE, rem |-> rem, saves |-> FALSE,
                  parked |-> FALSE, paused |-> FALSE, inFlight |-> FALSE, waiting |-> FALSE, timer |-> FALSE,
                  pending |-> hold, auth |-> FALSE, failed |-> FALSE,
                  deferred |-> hold /\ last, work |-> hold, probing |-> rem # {},
                  was |-> IF restores THEN rem ELSE {}, tunTimer |-> FALSE, installing |-> "no",
                  slept |-> {}, slip |-> "", out |-> <<>>]
          /\ wq = IF restores THEN <<[op |-> "probe", by |-> "startup", save |-> FALSE, was |-> {}]>> ELSE <<>>
Next ==
  \/ Deliver \/ \E i \in Inputs : Input(i)
  \/ GraceTimeout \/ TunTimeout \/ SafetyTimeout \/ WakeCheck \/ InstallEnds
  \/ Replace \/ StartEnds \/ StopEnds \/ Worker \/ Elsewhere
Spec == Init /\ [][Next]_vars

-----------------------------------------------------------------------------
(* Properties. *)

\* Types of the state.
TypeOK ==
  /\ LinkTypeOK /\ acts \in 0..MaxActs
  /\ g \in StateType

Settled == /\ wq = <<>> /\ mq = <<>> /\ wire = <<>> /\ sess = h.conn /\ h.tun # "coming" /\ h.up
           /\ ~g.starting /\ ~g.stopping /\ ~g.timer /\ ~g.tunTimer /\ g.slept = {}

(* When nothing is under way, the helper has exactly the modes that are switched on
   while a profile runs: no proxy points at a port nobody serves, no Tun swallows the
   traffic of a stopped profile, and a mode that was paused is back
   (MacModeCoordinator, macPauseModes, macResumeModes, macOnHelperLost).  The ways this
   fails are named in g.slip. *)
SettledAgree ==
  Settled /\ g.slip = "" =>
    /\ h.proxy = (g.sp /\ g.run)
    /\ (h.tun = "up") = (g.tun /\ g.run /\ ~g.failed)

(* Work and the profile that the startup holds back are held only while Tun is coming
   up or has failed; every way out of the two releases them. *)
HeldForAReason == (g.work \/ g.deferred) => g.pending \/ g.failed

(* "No profile runs until Tun works or Tun is turned off" (macTunFailed). *)
BlockHolds == Settled /\ g.failed /\ g.slip = "" => ~g.run

(* Tun stays remembered until the user turns it off or a call the user made fails. *)
RememberedUntilAsked ==
  [][/\ "vpn" \in g.rem \ g'.rem /\ acts' = acts /\ ~Later("tunStart")
     => Head(mq).m = "reply" /\ Head(mq).call.op = "tunStart" /\ Head(mq).call.by = "user"]_vars

(* The startup hold ends: Tun is up, has failed or was given up, or waits for the next
   profile because the deferred one did not start (DecideMacTunStartup, the safety timer,
   the 45 seconds). *)
Moves == Deliver \/ GraceTimeout \/ TunTimeout \/ SafetyTimeout \/ Replace \/ StartEnds \/ StopEnds \/ Worker
         \/ Elsewhere
Busy == wq # <<>> \/ mq # <<>> \/ g.tunTimer \/ (g.probing /\ g.was # {}) \/ h.tun = "coming" \/ wire # <<>>
Fairness == []<><<Moves>>_vars \/ []<>~Busy
StartupResolves == Fairness => (g.pending ~> (~g.pending \/ g.paused \/ g.slip # ""))

(* The switches, the helper and the profile agree, and what is held back is held for a
   reason, whenever nothing is under way (MacModeCoordinator, macTunFailed). *)
ModesAgree == TypeOK /\ SettledAgree /\ BlockHolds /\ HeldForAReason
=============================================================================
