----------------------------- MODULE LinuxDesktop -----------------------------
(* The program on the Linux desktop: which one it is and what it can do there
   (src/src/platform/PlatformCapabilities.cpp, LinuxDesktop.cpp), and three things it does:
     "proxy"   System Proxy: it writes the desktop's settings by one command each
               (LinuxSystemProxyPlan.cpp, sys/linux/LinuxSystemProxy.cpp, mainwindow.cpp)
     "tray"    where the window goes when it is closed or starts hidden (TrayPolicy.cpp)
     "login"   the entry that starts it at login, shared by all copies (sys/AutoRun.cpp)
   dp: the desktop's proxy settings, whose address stands under each key. pr: the program;
   listed and remember say what the settings file tells the next start. why, lost and origin: history. *)
EXTENDS Naturals, Sequences, FiniteSets

CONSTANT MaxDeeds   \* things the user does, programs that vanish, starts

VARIABLES task, desktop, tools, dp, pr, why, tray, shown, waited, entry, off, origin, lost, deeds
desktopVars == <<task, desktop, tools, dp, pr, why, tray, shown, waited, entry, off, origin, lost, deeds>>
proxyVars == <<dp, pr, why>>   trayVars == <<tray, shown, waited, lost>>   loginVars == <<entry, off, origin>>
Deed(t) == task = t /\ deeds < MaxDeeds /\ deeds' = deeds + 1

----------------------------------------------------------------------------
(* The desktop, from the names in the environment: the first that is known wins. *)
MatchToken(t) ==
  CASE t = "kde" -> [family |-> "kde", gnomeSettings |-> FALSE]
    [] t \in {"gnome", "budgie"} -> [family |-> "gnome", gnomeSettings |-> TRUE]
    [] t \in {"cinnamon", "mate"} -> [family |-> t, gnomeSettings |-> TRUE]
    [] t = "xfce" -> [family |-> "xfce", gnomeSettings |-> FALSE]
    [] OTHER -> [family |-> "other", gnomeSettings |-> FALSE]
DetectLinuxDesktop(tokens, version) ==
  LET named == SelectSeq(tokens, LAMBDA t : t # "")
      known == SelectSeq(named, LAMBDA t : MatchToken(t).family # "other")
      m == IF known # <<>> THEN MatchToken(Head(known)) ELSE [family |-> IF named # <<>> THEN "other" ELSE "unknown", gnomeSettings |-> FALSE]
  IN [family |-> m.family, gnomeSettings |-> m.gnomeSettings, kde |-> IF m.family = "kde" THEN version ELSE 0]

(* The channel the program was installed through. A variable that is set may be empty. *)
DetectPackageMode(flatpakId, appImage, marker) ==
  CASE flatpakId \notin {"unset", ""} -> "flatpak"
    [] appImage \notin {"unset", ""} -> "appimage"
    [] marker # "none" -> IF marker \in {"deb", "rpm", "arch"} THEN marker ELSE "unknown manager"
    [] OTHER -> "portable"
UseInternalTun(os, package, appImage, wanted) == ~(os = "macos" \/ package = "flatpak" \/ (os = "linux" /\ appImage # "unset")) /\ wanted
SessionFromEnvironment(os, qpa, waylandSet) ==
  CASE os # "linux" -> "none" [] qpa = "wayland" -> "wayland" [] qpa = "xcb" -> IF waylandSet THEN "xwayland" ELSE "x11" [] OTHER -> "unknown"

LinuxBackend(env, portal) ==
  CASE portal /\ (env.package = "flatpak" \/ env.session \in {"wayland", "xwayland", "unknown"}) -> "portal"
    [] ~portal /\ (env.package = "flatpak" \/ env.session = "wayland") -> "none"
    [] OTHER -> "native"
SelectBackend(env, portal) ==
  CASE ~env.built \/ env.os = "other" -> "none" [] env.os \in {"windows", "macos"} -> "native" [] OTHER -> LinuxBackend(env, portal)
Blurred(env) == IF env.session \in {"xwayland", "unknown"} THEN "degraded" ELSE "supported"
QueryHotkeys(env) ==
  CASE ~env.built \/ env.os = "other" -> "unsupported"
    [] env.os \in {"windows", "macos"} -> "supported"
    [] OTHER -> CASE SelectBackend(env, env.keys) = "portal" -> "degraded" [] SelectBackend(env, env.keys) = "none" -> "unsupported" [] OTHER -> Blurred(env)
QueryScreenCapture(env) ==
  CASE ~env.built \/ env.os = "other" -> "unsupported"
    [] env.os = "windows" -> "supported" [] env.os = "macos" -> "permission"
    [] OTHER -> CASE SelectBackend(env, env.shot) = "portal" -> "supported" [] SelectBackend(env, env.shot) = "none" -> "unsupported" [] OTHER -> Blurred(env)
QueryCapability(what, env) ==
  LET flatpak == env.os = "linux" /\ env.package = "flatpak"
      no == CASE what = "image" -> ~env.built
              [] what = "login" -> flatpak /\ ~env.background
              [] what = "tun" -> flatpak
              [] what = "strict route" -> flatpak \/ env.os = "macos"
              [] what = "one core" -> flatpak \/ env.os = "macos" \/ (env.os = "linux" /\ env.package = "appimage")
              [] what = "tray" -> env.os = "other" \/ (env.os = "linux" /\ ~env.tray)
              [] what = "ssid" -> env.os = "other"
  IN IF no THEN "unsupported" ELSE "supported"

(* What a control offers is what the program then does: with a backend of some kind, never
   by grabbing where the sandbox or Wayland forbids it; Tun in the core only where the box
   for it is offered; and nothing of Tun without Tun. *)
OfferedCanBeDone ==
  \A os \in {"windows", "linux", "macos", "other"}, qpa \in {"wayland", "xcb", "offscreen"}, appImage \in {"unset", "", "path"} :
  \A flatpakId \in {"unset", "id"}, marker \in {"none", "deb", "odd"}, waylandSet, portal, built, here, wanted \in BOOLEAN :
    LET linux == os = "linux"
        package == DetectPackageMode(flatpakId, IF linux THEN appImage ELSE "unset", IF linux THEN marker ELSE "none")
        env == [os |-> os, package |-> package, session |-> SessionFromEnvironment(os, qpa, waylandSet), built |-> built, tray |-> here,
                background |-> linux /\ portal, shot |-> linux /\ portal, keys |-> linux /\ portal]
        Usable(what) == QueryCapability(what, env) # "unsupported"
    IN (flatpakId # "unset" => linux) =>
         /\ (QueryHotkeys(env) # "unsupported") = (SelectBackend(env, env.keys) # "none")
         /\ (QueryScreenCapture(env) # "unsupported") = (SelectBackend(env, env.shot) # "none")
         /\ linux /\ (package = "flatpak" \/ env.session = "wayland") => SelectBackend(env, env.keys) # "native"
         /\ UseInternalTun(os, package, appImage, wanted) => Usable("one core")
         /\ Usable("one core") \/ Usable("strict route") => Usable("tun")

----------------------------------------------------------------------------
(* System Proxy. The settings of the desktop hold an address for web traffic, one for SOCKS
   and the mode that makes them count. *)
FindKdeConfigTool == IF desktop.kde = 5 THEN (IF 5 \in tools THEN 5 ELSE 6) \in tools ELSE tools # {}
CanWrite == desktop.family # "kde" \/ FindKdeConfigTool
(* RunLinuxProxyActions: each command is run, also after one has failed. *)
Written(failed) == [http |-> IF "http" \in failed THEN dp.http ELSE "us", socks |-> IF "socks" \in failed THEN dp.socks ELSE "us",
                    mode |-> IF "mode" \in failed THEN dp.mode ELSE "manual"]
PlanLinuxProxySet == IF desktop.family = "kde" \/ desktop.gnomeSettings THEN (IF CanWrite THEN {"http", "socks", "mode"} ELSE {}) ELSE {}
SetSystemProxy(failed) == dp' = IF PlanLinuxProxySet = {} THEN dp ELSE Written(failed)
(* On another desktop the command is tried all the same, and its failure not told. *)
ClearSystemProxy(fails) == dp' = IF CanWrite /\ ~fails THEN [dp EXCEPT !.mode = "none"] ELSE dp
ClearTold(fails) == ~CanWrite \/ (fails /\ (desktop.family = "kde" \/ desktop.gnomeSettings))

TurnOn(save, failed) ==
  LET ok == PlanLinuxProxySet # {} /\ failed = {}
  IN /\ SetSystemProxy(failed)
     /\ pr' = IF ok THEN [pr EXCEPT !.on = TRUE, !.listed = IF save THEN pr.remember ELSE @, !.up = TRUE] ELSE [pr EXCEPT !.up = TRUE]
     /\ why' = CASE ok -> {} [] PlanLinuxProxySet # {} /\ failed # PlanLinuxProxySet -> why \cup {"half set"} [] OTHER -> why
TurnOff(save, fails, up) ==
  /\ ClearSystemProxy(fails)
  /\ pr' = [pr EXCEPT !.on = FALSE, !.listed = IF save THEN FALSE ELSE @, !.up = up]
  /\ why' = IF CanWrite /\ ~fails THEN {} ELSE IF ClearTold(fails) THEN {"told"} ELSE why
(* proxor_set_spmode_system_proxy, from the box: the one that shows the other state. *)
ClickSystemProxy ==
  /\ Deed("proxy") /\ pr.up
  /\ IF pr.on THEN \E fails \in BOOLEAN : TurnOff(TRUE, fails, TRUE) ELSE \E failed \in SUBSET {"http", "socks", "mode"} : TurnOn(TRUE, failed)
  /\ UNCHANGED <<task, desktop, tools, trayVars, loginVars>>
(* Exit goes on only if Tun can be turned off too. *)
Exit ==
  /\ Deed("proxy") /\ pr.up
  /\ \E up \in BOOLEAN : IF pr.on THEN \E fails \in BOOLEAN : TurnOff(FALSE, fails, up) ELSE pr' = [pr EXCEPT !.up = up] /\ UNCHANGED <<dp, why>>
  /\ UNCHANGED <<task, desktop, tools, trayVars, loginVars>>
(* The session ends, or the program is killed: only the settings are saved. *)
Killed ==
  /\ Deed("proxy") /\ pr.up /\ pr' = [pr EXCEPT !.up = FALSE, !.on = FALSE]
  /\ why' = IF pr.on THEN why \cup {"killed"} ELSE why
  /\ UNCHANGED <<task, desktop, tools, dp, trayVars, loginVars>>
Starts ==
  /\ Deed("proxy") /\ ~pr.up
  /\ IF pr.listed /\ (pr.remember \/ pr.vpnListed) THEN \E failed \in SUBSET {"http", "socks", "mode"} : TurnOn(FALSE, failed)
     ELSE pr' = [pr EXCEPT !.up = TRUE] /\ UNCHANGED <<dp, why>>
  /\ UNCHANGED <<task, desktop, tools, trayVars, loginVars>>
RememberBox == Deed("proxy") /\ pr.up /\ pr' = [pr EXCEPT !.remember = ~@] /\ UNCHANGED <<task, desktop, tools, dp, why, trayVars, loginVars>>
ToolRemoved == \E t \in tools : Deed("proxy") /\ tools' = tools \ {t} /\ UNCHANGED <<task, desktop, proxyVars, trayVars, loginVars>>

(* While the box is on, all traffic of the desktop is sent to the program; while it is off,
   none is - unless the program was killed, a part of the settings was written before one
   could not be, or the user was told that they could not be taken back. *)
Ours == dp.mode = "manual" /\ "us" \in {dp.http, dp.socks}
BoxTellsTheDesktop ==
  /\ pr.on => pr.up /\ dp = [http |-> "us", socks |-> "us", mode |-> "manual"]
  /\ ~pr.on /\ Ours => why # {}

----------------------------------------------------------------------------
(* The window, with -tray or "start minimized". The desktop's tray may come late and go. *)
MaxWait == 2   \* the rounds of half a second, twenty in the code
ApplyStartupVisibility ==
  /\ task = "tray" /\ shown = "starting"
  /\ shown' = CASE tray -> "hidden" [] waited < MaxWait -> shown [] OTHER -> "window"
  /\ waited' = IF shown' = shown THEN waited + 1 ELSE waited
  /\ UNCHANGED <<task, desktop, tools, proxyVars, tray, lost, loginVars, deeds>>
closeEvent ==
  /\ Deed("tray") /\ shown = "window" /\ shown' = IF tray THEN "hidden" ELSE "taskbar"
  /\ UNCHANGED <<task, desktop, tools, proxyVars, tray, waited, lost, loginVars>>
Reopen ==
  /\ Deed("tray") /\ ((tray /\ shown = "hidden") \/ shown = "taskbar")
  /\ shown' = "window"
  /\ UNCHANGED <<task, desktop, tools, proxyVars, tray, waited, lost, loginVars>>
TrayChanges ==
  /\ Deed("tray") /\ tray' = ~tray /\ lost' = (~tray' /\ shown = "hidden")
  /\ UNCHANGED <<task, desktop, tools, proxyVars, shown, waited, loginVars>>
(* A window is hidden only where an icon brings it back; none is left but by the desktop. *)
HiddenHasAnIcon == task = "tray" /\ shown = "hidden" /\ ~tray => lost

----------------------------------------------------------------------------
(* The entry for the login: [exec, data] and whether the desktop's tool has turned it off.
   A distribution's package has a wrapper, without which its binary cannot start. *)
Copies == {"native", "portable", "appimage"}
Binary(copy) == <<copy, "binary">>
LinuxAutostartCommand(copy, data) == [exec |-> CASE copy = "native" -> <<copy, "wrapper">> [] copy = "appimage" -> <<copy, "image">> [] OTHER -> Binary(copy), data |-> data]
ShouldRefreshAutostart(copy, data) == entry.exec = Binary(copy) /\ entry # LinuxAutostartCommand(copy, data)
(* main, at every start: an entry that names this copy's binary is written anew, unless the
   user has turned it off. *)
AutoRun_RefreshStaleEntry(copy, data) ==
  /\ Deed("login")
  /\ LET refresh == entry.exec # <<>> /\ ~off /\ ShouldRefreshAutostart(copy, data)
     IN /\ entry' = IF refresh THEN LinuxAutostartCommand(copy, data) ELSE entry
        /\ origin' = [origin EXCEPT !.ran = @ \/ (copy = origin.copy /\ ~off), !.data = IF refresh /\ copy = origin.copy THEN data ELSE @]
  /\ UNCHANGED <<task, desktop, tools, proxyVars, trayVars, off>>
(* Any accept of the Settings window writes the entry again, or removes it. *)
NoEntry == [exec |-> <<>>, data |-> "own"]
AutoRun_SetEnabled(copy, data, box) ==
  /\ Deed("login") /\ off' = FALSE
  /\ entry' = IF box THEN LinuxAutostartCommand(copy, data) ELSE NoEntry
  /\ origin' = [copy |-> copy, data |-> data, ran |-> FALSE]
  /\ UNCHANGED <<task, desktop, tools, proxyVars, trayVars>>
TurnedOff ==
  /\ Deed("login") /\ entry.exec # <<>> /\ off' = TRUE
  /\ UNCHANGED <<task, desktop, tools, proxyVars, trayVars, entry, origin>>
(* The entry is that of the copy whose box was used last, with the data directory of that
   copy: no other copy's start touches it; and after a start of its own copy, it names what
   can start it. *)
EntryStaysItsOwn ==
  task = "login" /\ entry.exec # <<>> =>
    /\ entry.exec[1] = origin.copy /\ entry.data = origin.data
    /\ origin.ran => entry.exec = LinuxAutostartCommand(origin.copy, origin.data).exec

----------------------------------------------------------------------------
Desktops == {DetectLinuxDesktop(<<t, u>>, v) : t \in {"", "kde", "gnome", "mate", "xfce", "ubuntu"}, u \in {"", "kde", "budgie", "sway"}, v \in {0, 5, 6}}
DesktopInit ==
  /\ task \in {"proxy", "tray", "login"} /\ deeds = 0
  /\ desktop \in IF task = "proxy" THEN Desktops ELSE {DetectLinuxDesktop(<<>>, 0)}
  /\ tools \in IF desktop.family = "kde" THEN SUBSET {5, 6} ELSE {{}}
  /\ dp \in {[http |-> "user", socks |-> "user", mode |-> m] : m \in IF task = "proxy" THEN {"none", "manual"} ELSE {"none"}}
  /\ pr \in [up : {FALSE}, on : {FALSE}, listed : {FALSE}, remember : BOOLEAN, vpnListed : IF task = "proxy" THEN BOOLEAN ELSE {FALSE}]
  /\ task # "proxy" => ~pr.remember
  /\ why = {} /\ tray \in (IF task = "tray" THEN BOOLEAN ELSE {FALSE}) /\ shown = "starting" /\ waited = 0 /\ lost = FALSE /\ off = FALSE
  /\ entry \in {NoEntry} \cup IF task = "login" THEN {[exec |-> Binary("native"), data |-> "own"]} ELSE {}
  /\ origin = [copy |-> "native", data |-> "own", ran |-> FALSE]
DesktopNext ==
  \/ ClickSystemProxy \/ Exit \/ Killed \/ Starts \/ RememberBox \/ ToolRemoved
  \/ ApplyStartupVisibility \/ closeEvent \/ Reopen \/ TrayChanges \/ TurnedOff
  \/ \E copy \in Copies, data \in {"own", "other"} : AutoRun_RefreshStaleEntry(copy, data) \/ \E box \in BOOLEAN : AutoRun_SetEnabled(copy, data, box)

DesktopSound == BoxTellsTheDesktop /\ HiddenHasAnIcon /\ EntryStaysItsOwn
=============================================================================
