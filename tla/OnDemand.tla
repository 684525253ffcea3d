---------------------------------- MODULE OnDemand ----------------------------------
(* The Wi-Fi network as it is seen (WifiMonitor and its reader thread) and what follows
   from it: On-Demand starts its profile on the trigger networks and stops it elsewhere,
   and the running profile is restarted when other lines of the hosts table apply. Both
   meet the user's starts and stops, which run on threads of their own.

   g is the state of the window: ssid, the name the tracker holds (also cachedSsid, which
   BuildConfig reads); seen (wifi_hosts_ssid); consumed (auto_start_consumed_ssid); hold
   (the startup waits for Tun); later (applyOnDemandAfterStartup is posted); the running
   profile: id, via (started_via_ssid_trigger), lines (the hosts lines of its
   configuration); the start thread and the stop thread; permits (sem_stopped); undo (a
   posted proxor_stop). by, fresh, barred and slip are history.                        *)
EXTENDS ConfigBuilder
INSTANCE WifiReaders

CONSTANTS Networks,    \* the names of the Wi-Fi networks
          Machines,    \* the machines a reading may meet, by the network they are on
          Settings,    \* what the settings may be
          MaxMoves, MaxActs

VARIABLES net, wifi, g, settings, moves, acts
odVars == <<net, wifi, g, settings, moves, acts>>

(* Where a reading differs from the truth: a device call that is refused (an error, not a
   timeout) counts as "not connected", and the service that is believed does not see the
   adapter that is on the network. Believed is NetworkManager on the bus as soon as it runs
   one adapter, nmcli whenever the bus does not carry NetworkManager, iwd when it is there
   and NetworkManager, asked on the bus, runs none or cannot be asked at all. *)
Runs(m, service) == \E a \in Range(m.adapters) : a.by = service
OffSight(m, service) == \E a \in Range(m.adapters) : a.by # service /\ a.on # None
Believed(m) ==
  CASE m.bus = "up" /\ m.nm = "there" /\ Runs(m, "nm") -> "nm"
    [] (m.bus = "down" \/ m.nm = "absent") /\ m.nmcli = "ok" /\ ~m.sandboxed -> "nm"
    [] OTHER -> "iwd"
Misled(m) == \/ m.fault # <<>> /\ m.how = "refused"
             \/ OffSight(m, Believed(m)) /\ (Believed(m) = "iwd" => m.iwd = "present")
Readings == [n \in Networks \cup {None} |-> {ReadWifi(m) : m \in Machines[n]}]

(* The lines of the hosts table that apply on a network, and the comparison of two
   networks by the union of all skip lists. *)
LinesFor(s, ssid) == LinesHere([hosts |-> s.hosts, ssid |-> ssid])
LinesOn(ssid) == LinesFor(settings, ssid)
SkipSsids(hosts) == UNION hosts
HostsSkipDiffers(old, new) == (old \in SkipSsids(settings.hosts)) # (new \in SkipSsids(settings.hosts))
MonitoringNeeded(s) == (s.on /\ s.triggers # {}) \/ SkipSsids(s.hosts) # {}

(* resolveSsidOnDemandProfile: the profile of the stored id, or the one that fits the
   stored reference best, unless two fit it equally. *)
Score(ref, p) == (IF p.type = ref.type THEN 4 ELSE 0) + (IF p.address = ref.address THEN 4 ELSE 0)
                 + (IF p.port = ref.port THEN 3 ELSE 0) + (IF p.name = ref.name THEN 2 ELSE 0)
Acceptable(ref, p) == \/ p.address = ref.address /\ (p.type = ref.type \/ p.port = ref.port)
                      \/ p.type = ref.type /\ p.name = ref.name /\ p.port = ref.port
Better(ref, acc, p) ==
  IF ~Acceptable(ref, p) THEN acc
  ELSE IF Score(ref, p) > acc.score THEN [best |-> p.id, score |-> Score(ref, p), ambiguous |-> FALSE]
  ELSE IF Score(ref, p) = acc.score THEN [acc EXCEPT !.ambiguous = TRUE]
  ELSE acc
resolveSsidOnDemandProfile(ref, profiles) ==
  LET found == FoldLeft(LAMBDA acc, p : Better(ref, acc, p), [best |-> None, score |-> 0, ambiguous |-> FALSE], profiles)
  IN IF \E i \in DOMAIN profiles : profiles[i].id = ref.id THEN ref.id
     ELSE IF found.ambiguous THEN None ELSE found.best

(* WifiMonitor::requestRead, with its reader thread. *)
requestRead(m) == IF m.stage = "idle" THEN [m EXCEPT !.stage = "asked"] ELSE [m EXCEPT !.again = TRUE]

ProxorStart(x, id, via, by) ==
  IF x.hold \/ x.start # None THEN x
  ELSE IF x.stop # None THEN [x EXCEPT !.pending = FALSE]
  ELSE [x EXCEPT !.start = [id |-> id, via |-> via, lines |-> LinesOn(x.ssid), by |-> by, at |-> "validate"],
                 !.pending = TRUE, !.cancel = FALSE, !.fresh = FALSE]
ProxorStop(x, sem) ==
  LET released == IF sem THEN [x EXCEPT !.permits = @ + 1] ELSE x
  IN IF x.id = None THEN (IF ~x.pending THEN released
                          ELSE [released EXCEPT !.cancel = TRUE, !.pending = x.start # None])
     ELSE IF x.stop # None THEN released
     ELSE [x EXCEPT !.stop = [sem |-> sem]]

(* applyOnDemandForSsid: it starts, stops, or does neither. *)
Trigger(x) == x.ssid # None /\ x.ssid \in settings.triggers
Heard(x) == settings.on /\ ~x.hold
Starts(x) == Heard(x) /\ Trigger(x) /\ x.id = None /\ x.consumed # x.ssid /\ settings.target # None
Stops(x) == Heard(x) /\ ~Trigger(x) /\ x.via /\ x.id # None
Forget(x) == IF Heard(x) /\ ~Trigger(x) THEN [x EXCEPT !.consumed = None] ELSE x
applyOnDemandForSsid(x) ==
  IF Starts(x) THEN ProxorStart([x EXCEPT !.consumed = x.ssid], settings.target, TRUE, "network")
  ELSE IF Stops(x) THEN ProxorStop(Forget(x), FALSE)
  ELSE Forget(x)

(* A change of the network that what is in flight does not hear, that two skip lists
   hide, or that leads back to the network On-Demand started on last. *)
Missed(x, ssid) ==
  \/ x.start # None \/ x.stop # None \/ x.undo
  \/ LinesOn(x.ssid) # LinesOn(ssid) /\ ~HostsSkipDiffers(x.seen, ssid)
  \/ x.consumed = ssid /\ ssid # None
onWifiSsidChanged(x, ssid) ==
  LET slip == x.slip \/ Missed(x, ssid)
      y == [x EXCEPT !.ssid = ssid, !.seen = ssid, !.fresh = ~slip, !.barred = FALSE, !.slip = slip]
  IN IF ~Starts(y) /\ ~Stops(y) /\ ~y.hold /\ y.id # None /\ HostsSkipDiffers(x.seen, ssid)
     THEN ProxorStart(Forget(y), y.id, y.via, y.by)
     ELSE applyOnDemandForSsid(y)

(* The network, the timer, the reader thread and the delivery of its reading. *)
Watch(active) == [stage |-> IF active THEN "asked" ELSE "idle", again |-> FALSE, active |-> active, got |-> Unavailable]
Window(hold) ==
  [ssid |-> None, seen |-> None, consumed |-> None, hold |-> hold, later |-> FALSE,
   id |-> None, via |-> FALSE, lines |-> {}, by |-> None, start |-> None, stop |-> None,
   cancel |-> FALSE, pending |-> FALSE, permits |-> 0, undo |-> FALSE,
   fresh |-> TRUE, barred |-> FALSE, slip |-> FALSE]
OdInit ==
  /\ net \in Networks \cup {None} /\ settings \in Settings /\ moves = 0 /\ acts = 0
  /\ wifi = Watch(MonitoringNeeded(settings)) /\ \E hold \in BOOLEAN : g = Window(hold)
Move ==
  /\ moves < MaxMoves /\ moves' = moves + 1
  /\ net' \in (Networks \cup {None}) \ {net}
  /\ UNCHANGED <<wifi, g, settings, acts>>
Tick == wifi.active /\ wifi' = requestRead(wifi) /\ UNCHANGED <<net, g, settings, moves, acts>>
Delivered(m) == [m EXCEPT !.stage = IF m.again THEN "asked" ELSE "idle", !.again = FALSE, !.got = Unavailable]
Read ==   \* only a definite answer moves the name the tracker holds
  /\ wifi.stage = "asked"
  /\ \E rd \in Readings[net] :
       wifi' = IF Definite(rd) THEN [wifi EXCEPT !.stage = "read", !.got = rd] ELSE Delivered(wifi)
  /\ UNCHANGED <<net, g, settings, moves, acts>>
OnReadingReady ==
  /\ wifi.stage = "read"
  /\ wifi' = Delivered(wifi)
  /\ LET ssid == wifi.got.ssid
     IN g' = IF ssid # g.ssid THEN onWifiSsidChanged(g, ssid) ELSE g
  /\ UNCHANGED <<net, settings, moves, acts>>

(* The user; the settings dialog, whose change the running profile takes up when the
   question "restart proxy?" is answered with yes. *)
Act == acts < MaxActs /\ acts' = acts + 1 /\ UNCHANGED net
UserStart == Act /\ g' = ProxorStart(g, "own", FALSE, "user") /\ UNCHANGED <<wifi, settings, moves>>
UserStop ==
  /\ Act /\ (g.id # None \/ g.pending)
  /\ g' = [ProxorStop(g, FALSE) EXCEPT !.barred = TRUE, !.fresh = FALSE]
  /\ UNCHANGED <<wifi, settings, moves>>
Save ==
  /\ Act /\ UNCHANGED moves /\ settings' \in Settings \ {settings}
  /\ LET active == MonitoringNeeded(settings')
         m == IF active /\ ~wifi.active THEN requestRead(wifi) ELSE wifi
         x == ProxorStart(g, g.id, FALSE, g.by)
         begun == g.id # None /\ g.start = None /\ x.start # None
     IN /\ wifi' = [m EXCEPT !.active = active]
        /\ \/ g' = [g EXCEPT !.slip = TRUE, !.fresh = FALSE]
           \/ begun /\ g' = [x EXCEPT !.start.lines = LinesFor(settings', g.ssid), !.slip = @ \/ g.via]

(* The end of the startup hold; the remembered profile may start with it. *)
Release ==
  /\ g.hold
  /\ LET x == [g EXCEPT !.hold = FALSE, !.later = TRUE]
     IN g' = x \/ g' = ProxorStart(x, "own", FALSE, "user")
  /\ UNCHANGED <<net, wifi, settings, moves, acts>>
applyOnDemandAfterStartup ==
  /\ g.later
  /\ LET x == [g EXCEPT !.later = FALSE] IN g' = IF x.seen # None THEN applyOnDemandForSsid(x) ELSE x
  /\ UNCHANGED <<net, wifi, settings, moves, acts>>

(* The thread of a start and the one of a stop. *)
At(at) == g.start # None /\ g.start.at = at
GiveUp(x) == [x EXCEPT !.start = None, !.pending = FALSE, !.slip = @ \/ x.id # None]
Thread == UNCHANGED <<net, wifi, settings, moves, acts>>
Validate ==
  /\ At("validate") /\ Thread
  /\ \/ g' = GiveUp(g)
     \/ ~g.cancel /\ g' = [g EXCEPT !.start.at = IF g.id # None THEN "ask" ELSE "load"]
AskStop == At("ask") /\ Thread /\ g' = [ProxorStop(g, TRUE) EXCEPT !.start.at = "wait"]
Acquire == At("wait") /\ Thread /\ g.permits > 0 /\ g' = [g EXCEPT !.permits = @ - 1, !.start.at = "load"]
\* mutant: a start keeps the mark of the profile before it
KeepVia(x) == [x EXCEPT !.id = x.start.id, !.lines = x.start.lines, !.by = x.start.by, !.via = @ \/ x.start.via,
                        !.start = None, !.pending = FALSE, !.undo = x.cancel]
Committed(x) == [x EXCEPT !.id = x.start.id, !.lines = x.start.lines, !.by = x.start.by, !.via = x.start.via,
                          !.start = None, !.pending = FALSE, !.undo = x.cancel]
Load == At("load") /\ Thread /\ g' \in {GiveUp(g), Committed(g)}
Undo == g.undo /\ Thread /\ g' = ProxorStop([g EXCEPT !.undo = FALSE], FALSE)
StopEnds ==
  /\ g.stop # None /\ Thread
  /\ LET x == [g EXCEPT !.stop = None, !.permits = IF g.stop.sem THEN @ + 1 ELSE @]
     IN g' \in {[x EXCEPT !.id = None, !.via = FALSE, !.lines = {}, !.by = None], [x EXCEPT !.slip = TRUE]}

OdNext ==
  \/ Move \/ Tick \/ Read \/ OnReadingReady
  \/ UserStart \/ UserStop \/ Save \/ Release \/ applyOnDemandAfterStartup
  \/ Validate \/ AskStop \/ Acquire \/ Load \/ Undo \/ StopEnds
(* The timer and the threads run; the machine answers truly again and again. *)
ReadsWell == Read /\ Definite(wifi'.got) /\ wifi'.got.ssid = net
OdFairness == WF_odVars(Tick) /\ WF_odVars(Read) /\ SF_odVars(ReadsWell) /\ WF_odVars(OnReadingReady)

------------------------------------------------------------------------------
(* With nothing in flight the network decides: the running profile has the hosts lines of
   the network, no profile of On-Demand runs off the trigger networks, and on one of them
   something runs unless it was started or stopped there already. slip names what the
   code leaves behind: see Missed, GiveUp, StopEnds and Save. *)
AtRest == g.start = None /\ g.stop = None /\ ~g.undo /\ ~g.later /\ ~g.hold /\ ~g.slip
NetworkDecides ==
  AtRest => /\ g.id # None => g.lines = LinesOn(g.ssid)
            /\ g.id # None /\ g.by = "network" /\ settings.on => Trigger(g)
            /\ Trigger(g) /\ settings.on /\ settings.target # None /\ g.id = None => ~g.fresh

(* What the network does to the user's choice: it stops only what On-Demand started,
   restarts a profile only as itself and for other hosts lines, and after the user's
   Stop starts nothing until another network is seen (onWifiSsidChanged). *)
ByNetwork == wifi.stage = "read" /\ wifi' # wifi /\ settings' = settings /\ wifi'.got = Unavailable
UsersChoice ==
  [][ByNetwork =>
       /\ g.stop = None /\ g'.stop # None => g.by = "network"
       /\ g.start = None /\ g'.start # None =>
            IF g.id = None THEN ~g'.barred
            ELSE g'.start.id = g.id /\ g'.start.by = g.by /\ g'.start.lines # LinesOn(g.ssid)]_odVars

(* While it is watched, the network the machine is on is seen again and again: no request
   is lost between the timer, a refresh and a reading in flight (inFlight_, again_). *)
EachChangeSeen == []<>(~wifi.active \/ g.seen = net)

(* The two together: what changes of the network may do to a profile, and that each is
   heard (WifiMonitor, onWifiSsidChanged). *)
NetworkHeard == UsersChoice /\ EachChangeSeen
=============================================================================
