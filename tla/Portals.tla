------------------------------- MODULE Portals -------------------------------
(* What the program asks of the Linux desktop over D-Bus (src/src/sys/linux/XdgPortal.cpp):
   a call that returns a handle, a Response signal on the handle's path after the user has
   answered a dialog, and a timer that gives up. Three uses, one in each behaviour:
     "keys"   global hotkeys: a session, a binding in it, signals of the presses
              (PortalGlobalShortcuts.cpp, mainwindow.cpp RegisterHotkey)
     "start"  start with the system in the Flatpak (PortalBackground.cpp, AutoRun.cpp)
     "shot"   the picture a QR code is looked for in (PortalScreenshot.cpp, mainwindow.cpp)
   A request is [kind, arg, call, heard, answer, fin]: the call is out, or its return read
   by the program; heard: the program listens where the portal signals - from the start, unless the
   portal is old and chooses its own handle; answer: what the portal has answered; fin: how
   the request ended for the program, "sent" to the one who asked, "gone" when there is
   nobody. desk is what the desktop has. told, did and slip are history: what the user was
   told, what was pressed and what was done, and what goes wrong, by name.     *)
EXTENDS Naturals, Sequences, FiniteSets

CONSTANTS None, MaxTouches, MaxReqs   \* presses, clicks, changes; requests, of which two a session, and twice the scans

VARIABLES use, old, probe, reqs, desk, presses, rec, page, keys, marker, wish, window, scans, told, did, slip, touches
portalVars == <<use, old, probe, reqs, desk, presses, rec, page, keys, marker, wish, window, scans, told, did, slip, touches>>
keyVars == <<presses, rec, page, keys, did>>   startVars == <<marker, wish>>   shotVars == <<window, scans>>
Touch(u) == use = u /\ touches < MaxTouches /\ touches' = touches + 1
Note(cond, what) == slip' = IF cond THEN slip \cup {what} ELSE slip

Acts == {"window", "groups"}
KeyMaps == {[window |-> "F1", groups |-> ""], [window |-> "F2", groups |-> "F1"], [window |-> "F1", groups |-> "F1"]}

----------------------------------------------------------------------------
(* XdgPortalClient::request, for a client of the UI thread. *)
Asked(rs, kind, arg) == Append(rs, [kind |-> kind, arg |-> arg, call |-> "out", heard |-> ~old, answer |-> None, fin |-> None])
Ended(i, outcome) == reqs' = [reqs EXCEPT ![i].fin = outcome]
Running(i) == i \in DOMAIN reqs /\ reqs[i].fin = None
(* The object that asked is destroyed, and with it the waiter of each of its requests. *)
Unread(i) == i \in DOMAIN reqs /\ reqs[i].fin \notin {"sent", "gone"} /\ reqs[i].answer # None /\ reqs[i].answer.said = "granted"
Orphaned(rs) == [i \in DOMAIN rs |-> IF rs[i].fin = "sent" THEN rs[i] ELSE [rs[i] EXCEPT !.fin = "gone"]]

(* The desktop. Its answer takes effect whether or not the program still waits. *)
Places == {"pictures", "temp", "temp/doc"}
Choices(r) == CASE r.kind = "bind" -> {r.arg.acts, r.arg.acts \ {"groups"}} [] r.kind = "shot" -> Places
                     [] r.kind = "start" -> BOOLEAN [] OTHER -> {None}
Effect(i, what) ==
  LET r == reqs[i]
  IN CASE r.kind = "session" -> [desk EXCEPT !.sessions = @ \cup {i}]
       [] r.kind = "bind" -> [desk EXCEPT !.bound = @ \cup ({r.arg.session} \X what)]
       [] r.kind = "start" -> [desk EXCEPT !.auto = what]
       [] r.kind = "shot" -> [desk EXCEPT !.files = @ \cup {<<i, what>>}]
AnswerCall(i, said) ==
  /\ i \in DOMAIN reqs /\ reqs[i].call # "error" /\ reqs[i].answer = None
  /\ said = "granted" /\ reqs[i].kind = "bind" => reqs[i].arg.session \in desk.sessions
  /\ \E what \in IF said = "granted" THEN Choices(reqs[i]) ELSE {None} :
       /\ desk' = IF said = "granted" THEN Effect(i, what) ELSE desk
       /\ reqs' = [reqs EXCEPT ![i].answer = [said |-> IF reqs[i].heard THEN said ELSE "nothing", what |-> what]]
  /\ Note(said = "granted" /\ (~Running(i) \/ ~reqs[i].heard) /\ ~(reqs[i].kind = "bind" /\ reqs[i].fin = "gone"), "late")
  /\ UNCHANGED <<use, old, probe, keyVars, startVars, shotVars, told, touches>>
CloseSession(s) ==
  /\ s \in desk.closing /\ desk' = [desk EXCEPT !.closing = @ \ {s}, !.sessions = @ \ {s}]
  /\ UNCHANGED <<use, old, probe, reqs, keyVars, startVars, shotVars, told, slip, touches>>
(* The portal's process dies and is started again by the bus; it knows nobody. *)
PortalRestarts ==
  /\ "restarted" \notin slip /\ desk.sessions # {}
  /\ desk' = [desk EXCEPT !.sessions = {}, !.closing = {}] /\ Note(TRUE, "restarted")
  /\ reqs' = [i \in DOMAIN reqs |-> IF reqs[i].answer = None /\ reqs[i].call = "read" THEN [reqs[i] EXCEPT !.answer = [said |-> "nothing", what |-> None]] ELSE reqs[i]]
  /\ UNCHANGED <<use, old, probe, keyVars, startVars, shotVars, told, touches>>

(* The program: the call's return, the signal, the timer. *)
OnReturn(i) ==
  /\ Running(i) /\ reqs[i].call = "out"
  /\ \/ reqs' = [reqs EXCEPT ![i].call = "read", ![i].heard = TRUE]
     \/ reqs[i].answer = None /\ reqs' = [reqs EXCEPT ![i].call = "error", ![i].fin = "failed"]
  /\ UNCHANGED <<use, old, probe, desk, keyVars, startVars, shotVars, told, slip, touches>>
OnResponse(i) ==
  /\ Running(i) /\ reqs[i].call = "read" /\ reqs[i].answer # None /\ reqs[i].answer.said # "nothing"
  /\ Ended(i, reqs[i].answer.said)
  /\ UNCHANGED <<use, old, probe, desk, keyVars, startVars, shotVars, told, slip, touches>>
OnTimeout(i) ==
  /\ Running(i) /\ Ended(i, "timed out") /\ Note(Unread(i), "late")
  /\ UNCHANGED <<use, old, probe, desk, keyVars, startVars, shotVars, told, touches>>
Result(i, kind) == i \in DOMAIN reqs /\ reqs[i].kind = kind /\ reqs[i].fin \in {"granted", "cancelled", "failed", "timed out"}
Told(i) == [reqs EXCEPT ![i].fin = "sent"]

(* StartPortalProbe, Portals: asked on another thread; who asks too early sees no portal. *)
ProbeEnds == probe = "running" /\ probe' = "done" /\ UNCHANGED <<use, old, reqs, desk, keyVars, startVars, shotVars, told, slip, touches>>
Portals == probe = "done"

----------------------------------------------------------------------------
(* Global hotkeys. *)
(* PlanHotkeyRegistration: two actions with one key get none. *)
PlanHotkeyRegistration(k) == {a \in Acts : k[a] # "" /\ \A b \in Acts \ {a} : k[b] # k[a]}
Closed(r) == IF r = None \/ r.handle = None THEN desk ELSE [desk EXCEPT !.closing = @ \cup ({r.handle} \cap desk.sessions)]
CreateSession(rs) == Asked(rs, "session", None)
(* RegisterHotkey(false), and what it logs at once. *)
RegisterHotkey(k) ==
  LET plan == PlanHotkeyRegistration(k)
  IN IF Portals /\ plan # {}
     THEN /\ rec' = [session |-> Len(reqs) + 1, handle |-> None, keys |-> k]
          /\ reqs' = CreateSession(Orphaned(reqs))
          /\ told' = [a \in Acts |-> IF a \in plan THEN "nothing" ELSE "off"]
     ELSE rec' = None /\ reqs' = Orphaned(reqs) /\ told' = [a \in Acts |-> "off"]
OpenWindow ==
  /\ use = "keys" /\ page = "start" /\ page' = "shut"
  /\ RegisterHotkey(keys)
  /\ UNCHANGED <<use, old, probe, desk, presses, keys, did, startVars, shotVars, slip, touches>>
(* DialogHotkey: nothing is registered while it is open; with its end, all is anew. *)
OpenPage ==
  /\ Touch("keys") /\ page = "shut" /\ Len(reqs) + 2 <= MaxReqs /\ page' = "open"
  /\ rec' = None /\ reqs' = Orphaned(reqs) /\ desk' = Closed(rec) /\ told' = [a \in Acts |-> "off"]
  /\ Note(\E i \in DOMAIN reqs : Unread(i) /\ reqs[i].kind = "session", "late")
  /\ UNCHANGED <<use, old, probe, presses, keys, did, startVars, shotVars>>
ClosePage ==
  /\ use = "keys" /\ page = "open" /\ page' = "shut"
  /\ \E k \in {keys} \cup {m \in KeyMaps : m.window # m.groups} : keys' = k /\ RegisterHotkey(k)
  /\ UNCHANGED <<use, old, probe, desk, presses, did, startVars, shotVars, slip, touches>>
(* onSessionCreated. *)
OnSessionCreated(i) ==
  /\ Result(i, "session")
  /\ IF reqs[i].fin = "granted"
     THEN /\ rec' = [rec EXCEPT !.handle = i] /\ UNCHANGED told
          /\ reqs' = Asked(Told(i), "bind", [session |-> i, acts |-> PlanHotkeyRegistration(rec.keys)])
     ELSE told' = [a \in Acts |-> "off"] /\ reqs' = Told(i) /\ UNCHANGED rec
  /\ UNCHANGED <<use, old, probe, desk, presses, page, keys, did, startVars, shotVars, slip, touches>>
OnBound(i) ==
  /\ Result(i, "bind")
  /\ told' = [a \in Acts |-> IF reqs[i].fin = "granted" /\ a \in reqs[i].answer.what THEN "on" ELSE "off"]
  /\ reqs' = Told(i)
  /\ UNCHANGED <<use, old, probe, desk, keyVars, startVars, shotVars, slip, touches>>
Press(s, a) ==
  /\ Touch("keys") /\ presses = {} /\ s \in desk.sessions /\ <<s, a>> \in desk.bound /\ presses' = {<<s, a, None>>}
  /\ UNCHANGED <<use, old, probe, reqs, desk, rec, page, keys, did, startVars, shotVars, told, slip>>
(* onActivated hands the key that was registered for the action to the event loop; the key
   is looked up in the settings when its turn comes. *)
OnActivated(p) ==
  /\ p[3] = None
  /\ presses' = IF rec = None \/ rec.handle # p[1] THEN {} ELSE {[p EXCEPT ![3] = rec.keys[p[2]]]}
  /\ UNCHANGED <<use, old, probe, reqs, desk, rec, page, keys, did, startVars, shotVars, told, slip, touches>>
HotkeyEvent(p) ==
  /\ p[3] # None /\ presses' = {}
  /\ LET done == CASE p[3] = keys.window -> "window" [] p[3] = keys.groups -> "groups" [] OTHER -> "nothing"
     IN did' = did \cup {[asked |-> p[2], done |-> done, still |-> p[3] = keys[p[2]]]}
  /\ UNCHANGED <<use, old, probe, reqs, desk, rec, page, keys, startVars, shotVars, told, slip, touches>>

----------------------------------------------------------------------------
(* Start with the system, from the Flatpak. The marker is the file that says what the
   desktop has granted; the box of the Settings window shows it. A desktop that grants
   the request with the other setting has denied it. *)
RequestAutostart(enable) ==
  LET rs == Asked(reqs, "start", enable)
  IN IF Portals THEN rs ELSE [rs EXCEPT ![Len(rs)].call = "error", ![Len(rs)].fin = "failed"]
SetFlatpakAutostart(enable) ==
  /\ Touch("start") /\ wish' = enable
  /\ IF enable = marker THEN UNCHANGED <<reqs, told>>
     ELSE /\ told' = "nothing"
          /\ reqs' = RequestAutostart(enable)
  /\ Note(\E i \in DOMAIN reqs : Running(i) \/ Result(i, "start"), "asked twice")
  /\ UNCHANGED <<use, old, probe, desk, keyVars, marker, shotVars>>
OnAutostart(i) ==
  /\ Result(i, "start") /\ reqs' = Told(i)
  /\ LET enable == reqs[i].arg
     IN IF reqs[i].fin = "granted" /\ reqs[i].answer.what = enable THEN marker' = enable /\ UNCHANGED told
        ELSE marker' = (IF enable THEN FALSE ELSE marker) /\ told' = "warned"
  /\ UNCHANGED <<use, old, probe, desk, keyVars, wish, shotVars, slip, touches>>

----------------------------------------------------------------------------
(* Scanning the screen. The window hides itself first, and comes back if it was there. *)
TakeScreenshot(scan) == Asked(reqs, "shot", scan)
ScanScreen ==
  /\ use = "shot" /\ Portals /\ 2 * Len(scans) < MaxReqs
  /\ scans' = Append(scans, window) /\ window' = FALSE /\ reqs' = TakeScreenshot(Len(scans) + 1)
  /\ UNCHANGED <<use, old, probe, desk, keyVars, startVars, told, slip, touches>>
(* The tray icon shows a window that is hidden, and hides one that is not. *)
ClickTray ==
  /\ Touch("shot") /\ window' = ~window /\ wish' = window'
  /\ Note(~window' /\ \E i \in DOMAIN reqs : Running(i) \/ Result(i, "shot"), "hidden meanwhile")
  /\ UNCHANGED <<use, old, probe, reqs, desk, keyVars, marker, scans, told>>
(* A file the portal keeps for the user is not below a directory for temporary files, and
   one of the document portal never counts as such. *)
IsTemporaryScreenshotPath(place) == place = "temp"
OnPicture(i) ==
  /\ Result(i, "shot") /\ reqs' = Told(i) /\ window' = (window \/ scans[reqs[i].arg])
  /\ desk' = IF reqs[i].fin = "granted" /\ IsTemporaryScreenshotPath(reqs[i].answer.what) THEN [desk EXCEPT !.files = @ \ {<<i, reqs[i].answer.what>>}] ELSE desk
  /\ UNCHANGED <<use, old, probe, keyVars, startVars, scans, told, slip, touches>>

(* A portal that chooses its own handles is older than global shortcuts. *)
PortalInit ==
  /\ use \in {"keys", "start", "shot"} /\ old \in (IF use = "keys" THEN {FALSE} ELSE BOOLEAN) /\ probe = "running" /\ reqs = <<>>
  /\ desk = [sessions |-> {}, bound |-> {}, closing |-> {}, auto |-> FALSE, files |-> {}]
  /\ presses = {} /\ rec = None /\ page = "start" /\ keys \in IF use = "keys" THEN KeyMaps ELSE {[window |-> "", groups |-> ""]}
  /\ marker = FALSE /\ wish = (use = "shot") /\ window = (use = "shot") /\ scans = <<>>
  /\ told = (IF use = "keys" THEN [a \in Acts |-> "off"] ELSE "nothing") /\ did = {} /\ slip = {} /\ touches = 0
PortalNext ==
  \/ \E i \in DOMAIN reqs : \/ OnReturn(i) \/ OnResponse(i) \/ OnTimeout(i) \/ OnSessionCreated(i) \/ OnBound(i) \/ OnAutostart(i) \/ OnPicture(i)
                            \/ \E said \in {"granted", "cancelled"} : AnswerCall(i, said)
  \/ PortalRestarts \/ ProbeEnds \/ OpenWindow \/ OpenPage \/ ClosePage \/ ScanScreen \/ ClickTray
  \/ \E s \in desk.sessions : CloseSession(s) \/ \E a \in Acts : Press(s, a)
  \/ \E p \in presses : OnActivated(p) \/ HotkeyEvent(p)
  \/ \E enable \in BOOLEAN : SetFlatpakAutostart(enable)

----------------------------------------------------------------------------
AtRest == \A i \in DOMAIN reqs : reqs[i].fin \in {"sent", "gone"}

(* A press does what the key was set for, never the other action's thing, as long as that is
   still the key in the settings when its turn comes. *)
PressesDoTheirOwn == \A d \in did : d.still => d.done = d.asked

(* When nothing is asked any more, a hotkey works exactly if the log says so, one that is
   not set never does, and the desktop keeps no session but the current one - unless a
   request was granted after the program had given it up, or the portal began anew. *)
Works(a) == rec # None /\ <<rec.handle, a>> \in desk.bound /\ rec.handle \in desk.sessions
HotkeysAreAsLogged ==
  use = "keys" /\ AtRest /\ page = "shut" /\ slip = {} =>
    /\ \A a \in Acts : told[a] = IF Works(a) THEN "on" ELSE "off"
    /\ \A a \in Acts : Works(a) => keys[a] # "" /\ rec.keys = keys
    /\ desk.sessions \ desk.closing \subseteq (IF rec = None THEN {} ELSE {rec.handle})

(* The desktop starts the program at login if that was the last wish, or the user has been
   warned; and the box shows it - unless a request was granted late or another was asked
   before it was answered. *)
AutostartIsAsWished ==
  use = "start" /\ AtRest /\ slip = {} => marker = desk.auto /\ (desk.auto = wish \/ told = "warned")

(* After the last answer the window is there if the user left it there - unless it was
   hidden while a scan was under way -, no picture taken for one look is left behind,
   unless it came too late, and none that the portal keeps for the user is deleted. *)
WindowComesBack ==
  use = "shot" /\ AtRest =>
    /\ window = wish \/ "hidden meanwhile" \in slip
    /\ "late" \notin slip => \A f \in desk.files : f[2] # "temp"
    /\ \A i \in DOMAIN reqs : \A place \in Places \ {"temp"} :
         reqs[i].answer = [said |-> "granted", what |-> place] => <<i, place>> \in desk.files

PortalsSound == PressesDoTheirOwn /\ HotkeysAreAsLogged /\ AutostartIsAsWished /\ WindowComesBack
=============================================================================
