------------------------------ MODULE Settings ------------------------------
(* The settings: in memory (DataStore, Routing), in their files (JsonStore), and in the
   Settings window, which is not modal - profiles start, menus and the log window save
   meanwhile (src/src/main/ProxorGui.cpp, src/src/ui/dialog_basic_settings.cpp,
   dialog_manage_routes.cpp, dialog_vpn_settings.cpp, dialog_ssid_settings.cpp,
   dialog_hotkey.cpp, mainwindow.cpp dialog_message_impl).
   One field stands for all that are loaded, edited and saved alike:
     port    numbers, texts and boxes of the first pages that shape the configuration
     listen  inbound_address, behind the box "allow LAN"    url  a text with a default
     lines   numbers that are put in range                  auth, theme  set at once
     format  old_share_link_format, which no _add stores    other  saved elsewhere
     mtu, single  the Tun page     demand  the On-Demand page     keys  the hotkeys
     sites   the direct-site rules and the global custom rules
     active  the name of the routing
   routing is the routing in memory: its file, its rules, what the file holds for it. run is what
   the running profile was built from. told, base and slip are history: the user has been
   told that run is older than the settings; what was settled by an accepted window, a
   button that works at once or a step beside the window; what goes wrong, by name.     *)
EXTENDS Naturals, FiniteSets, TLC

CONSTANTS None,
          Routes,       \* names of routing files
          MaxSettings   \* actions of the user and the program, starts of the program included

VARIABLES mem, routing, seen, disk, files, win, run, alive, told, base, slip, acts
setVars == <<mem, routing, seen, disk, files, win, run, alive, told, base, slip, acts>>

(* DataStore(): what the members are until a file says otherwise. *)
Defaults == [port |-> 1, listen |-> "local", url |-> "default", lines |-> 1, auth |-> 1, theme |-> 1,
             format |-> TRUE, other |-> 1, mtu |-> 1, single |-> TRUE, demand |-> [on |-> FALSE, set |-> FALSE],
             keys |-> "none", sites |-> 1, active |-> "Default"]
(* A Routing that was not loaded. *)
Blank == 0

(* ToJson leaves an empty text out, FromJson leaves a member alone that the file does not
   name, and nothing but the items of the constructor is in the file. A file that is no
   JSON changes nothing. *)
Items == DOMAIN Defaults \ {"format"}
Content(s) == [f \in Items |-> s[f]]
FromJson(s, c) == [f \in DOMAIN s |-> IF f \notin Items \/ (f = "url" /\ c.url = "") THEN s[f] ELSE c[f]]
Load(c) == IF c = None THEN Defaults ELSE FromJson(Defaults, c)
Changed(s) == seen # Content(s)

(* Rules 3 have lines in their hosts that the window's table has no row for: comments, a
   name without an address. *)
UpdateDisplayRouting(c) == IF c = 3 THEN 1 ELSE c
SaveDisplayRouting(rt, shown) == [rt EXCEPT !.c = shown]

(* What a running profile is built from (ConfigBuilder). *)
Built(s, rules) == [f \in {"port", "listen", "auth", "mtu", "single", "sites"} |-> s[f]] @@ [rules |-> rules]
Now(s, rules) == s @@ [rules |-> rules]
Note(what) == slip' = slip \cup what
Step == alive /\ acts < MaxSettings /\ acts' = acts + 1

(* JsonStore::Save: the settings are in memory, and in the file in place of what was there. *)
Keep(s) == mem' = s /\ disk' = Content(s) /\ seen' = Content(s)
(* Routing::Save, for the routing rt = [name, c, seen] as it is now. *)
KeepRules(rt) == routing' = [rt EXCEPT !.seen = rt.c] /\ files' = [files EXCEPT ![rt.name] = rt.c]

(* dialog_message_impl with UpdateDataStore: saved, and the user asked to restart the
   running profile - or to restart the program, which then settles everything. *)
Message(s, rt, flags) ==
  LET ask == run # None /\ "NeedRestart" \notin flags /\ (Changed(s) \/ "RouteChanged" \in flags)
  IN /\ Keep(s)
     /\ \E yes \in BOOLEAN : (yes => ask) /\ run' = (IF yes THEN Built(s, rt.c) ELSE run)
     /\ told' = (ask \/ "NeedRestart" \in flags \/ (told /\ Built(s, rt.c) = Built(mem, routing.c)))
(* A step that tells nobody. *)
Quiet(s, rt) == told' = (told /\ Built(s, rt.c) = Built(mem, routing.c)) /\ UNCHANGED run

----------------------------------------------------------------------------
(* The window. Its pages are built on their first visit, from the settings of that moment. *)
Common == {"port", "listen", "url", "lines", "format"}
Page(p) == CASE p = "vpn" -> {"mtu", "single"} [] p = "ssid" -> {"demand"}
             [] p = "keys" -> {"keys"} [] p = "routing" -> {"sites"}
(* Of an address the window keeps whether it is the one for everybody. *)
Shown(s, fs) == [f \in fs |-> IF f = "listen" THEN s.listen = "any" ELSE s[f]]
(* What a form may hold beside that: a target without which On-Demand cannot be turned on,
   two hotkeys that are the same. *)
Choices(f) == CASE f \in {"listen", "format", "single"} -> BOOLEAN [] f = "url" -> {"", "own"} [] f = "lines" -> {0, 2}
                [] f = "keys" -> {"one", "twice"} [] f = "demand" -> [on : {TRUE}, set : BOOLEAN] [] OTHER -> {1, 2}

OpenSettings ==
  /\ Step /\ win = None
  /\ win' = [form |-> Shown(mem, Common), name |-> None, rules |-> Blank, edited |-> {}]
  /\ UNCHANGED <<mem, routing, seen, disk, files, run, alive, told, base, slip>>
Visit(p) ==
  /\ Step /\ win # None /\ Page(p) \cap DOMAIN win.form = {}
  /\ win' = [form |-> Shown(mem, Page(p)) @@ win.form, edited |-> win.edited,
             name |-> IF p = "routing" THEN mem.active ELSE win.name,
             rules |-> IF p = "routing" THEN UpdateDisplayRouting(routing.c) ELSE win.rules]
  /\ UNCHANGED <<mem, routing, seen, disk, files, run, alive, told, base, slip>>
Edit(f) ==
  /\ Step /\ win # None /\ f \in DOMAIN win.form
  /\ \E v \in Choices(f) \ {win.form[f]} : win' = [win EXCEPT !.form[f] = v, !.edited = @ \cup {f}]
  /\ UNCHANGED <<mem, routing, seen, disk, files, run, alive, told, base, slip>>
EditRules ==
  /\ Step /\ win # None /\ win.name # None
  /\ \E c \in {1, 2} \ {win.rules} : win' = [win EXCEPT !.rules = c, !.edited = @ \cup {"rules"}]
  /\ UNCHANGED <<mem, routing, seen, disk, files, run, alive, told, base, slip>>

(* The theme is applied and saved at the click; so is the theme's mode. *)
PickTheme ==
  /\ Step /\ win # None /\ Keep([mem EXCEPT !.theme = 3 - @]) /\ Quiet(mem, routing) /\ base' = [base EXCEPT !.theme = 3 - @]
  /\ UNCHANGED <<routing, files, win, alive, slip>>
(* The windows of the inbound's login and of the core's options are messages of their own. *)
SetAuth ==
  /\ Step /\ win # None /\ Message([mem EXCEPT !.auth = 3 - @], routing, {}) /\ base' = [base EXCEPT !.auth = 3 - @]
  /\ UNCHANGED <<routing, files, win, alive, slip>>

SetToActive(n) == routing' = [name |-> n, c |-> files[n], seen |-> files[n]] /\ Keep([mem EXCEPT !.active = n])
(* "Load" shows another routing in the window; "Save" writes a file now; "Remove" deletes
   one now, and has the program take the first of the others if it was the active one. *)
LoadRoute(n) ==
  /\ Step /\ win # None /\ win.name # None /\ files[n] # None
  /\ win' = [win EXCEPT !.name = n, !.rules = UpdateDisplayRouting(files[n]), !.edited = @ \cup {"active", "rules"}]
  /\ UNCHANGED <<mem, routing, seen, disk, files, run, alive, told, base, slip>>
SaveRoute(n) ==
  /\ Step /\ win # None /\ win.name # None
  /\ files' = [files EXCEPT ![n] = win.rules] /\ win' = [win EXCEPT !.name = n, !.edited = @ \cup {"active", "rules"}]
  /\ Note(IF n = mem.active /\ win.rules # routing.c THEN {"saved over"} ELSE {})
  /\ UNCHANGED <<mem, routing, seen, disk, run, alive, told, base>>
RemoveRoute(n) ==
  /\ Step /\ win # None /\ win.name # None /\ files[n] # None
  /\ LET left == {x \in Routes \ {n} : files[x] # None}
     IN /\ left # {} /\ files' = [files EXCEPT ![n] = None]
        /\ IF mem.active = n
           THEN \E x \in left :
                  /\ SetToActive(x) /\ win' = [win EXCEPT !.name = x, !.rules = UpdateDisplayRouting(files[x]), !.edited = @ \ {"active", "rules"}]
                  /\ Quiet(mem, routing') /\ base' = [base EXCEPT !.active = x, !.rules = files[x]]
                  /\ Note(IF files[x] # routing.c THEN {"removed"} ELSE {})
           ELSE UNCHANGED <<mem, routing, seen, disk, win, run, told, base, slip>>
  /\ UNCHANGED alive

(* accept: the first pages go to memory, then page by page, until one of them refuses. *)
InRange(n) == IF n = 0 THEN 1 ELSE n
Accepted(s, form) == [s EXCEPT !.port = form.port, !.url = form.url, !.format = form.format,
                        !.lines = InRange(form.lines), !.listen = IF form.listen THEN "any" ELSE "local"]
SaveRouting(s, form) == IF "sites" \in DOMAIN form THEN [s EXCEPT !.sites = form.sites, !.active = win.name] ELSE s
SaveVpn(s, form) == IF "mtu" \in DOMAIN form THEN [s EXCEPT !.mtu = form.mtu, !.single = form.single] ELSE s
SsidRefuses(form) == "demand" \in DOMAIN form /\ form.demand.on /\ ~form.demand.set
SaveSsid(s, form) == IF "demand" \notin DOMAIN form THEN s
                     ELSE IF SsidRefuses(form) THEN [s EXCEPT !.demand.on = TRUE] ELSE [s EXCEPT !.demand = form.demand]
KeysRefuse(form) == "keys" \in DOMAIN form /\ form.keys = "twice"
SaveKeys(s, form) == IF "keys" \in DOMAIN form /\ ~KeysRefuse(form) /\ ~SsidRefuses(form) THEN [s EXCEPT !.keys = form.keys] ELSE s
\* mutant: only another name is a change
NameChanged(rt) == IF win.name # None /\ win.name # mem.active THEN {"RouteChanged"} ELSE {}
RouteFlags(rt) == IF win.name # None /\ (win.form.sites # mem.sites \/ win.name # mem.active \/ rt.c # routing.seen) THEN {"RouteChanged"} ELSE {}
Flags(rt) == RouteFlags(rt) \cup (IF "single" \in DOMAIN win.form /\ win.form.single # mem.single THEN {"NeedRestart"} ELSE {})
Accept ==
  /\ Step /\ win # None
  /\ LET form == win.form
         s == SaveKeys(SaveSsid(SaveVpn(SaveRouting(Accepted(mem, form), form), form), form), form)
         rt == IF win.name = None THEN routing ELSE SaveDisplayRouting([routing EXCEPT !.name = win.name], win.rules)
     IN /\ IF win.name = None THEN UNCHANGED <<routing, files>> ELSE KeepRules(rt)
        /\ IF SsidRefuses(form) \/ KeysRefuse(form)
           THEN mem' = s /\ Quiet(s, rt) /\ Note({"refused"}) /\ UNCHANGED <<seen, disk, win, base>>
           ELSE /\ Message(s, rt, Flags(rt)) /\ win' = None
                /\ base' = [f \in DOMAIN base |-> IF f \in win.edited THEN Now(s, rt.c)[f] ELSE base[f]]
                /\ Note((IF form.url = "" THEN {"cleared"} ELSE {}) \cup (IF form.format THEN {} ELSE {"format"})
                        \cup (IF s.listen # mem.listen /\ "listen" \notin win.edited THEN {"address"} ELSE {})
                        \cup (IF rt.c # routing.c /\ "rules" \notin win.edited THEN {IF routing.c = 3 THEN "hosts" ELSE "rule lost"} ELSE {}))
  /\ UNCHANGED alive
Cancel ==
  /\ Step /\ win # None /\ win' = None
  /\ UNCHANGED <<mem, routing, seen, disk, files, run, alive, told, base, slip>>

----------------------------------------------------------------------------
(* Beside the window. The log window adds a rule to the routing in memory. *)
AddRule ==
  /\ Step /\ KeepRules([routing EXCEPT !.c = IF @ = 1 THEN 2 ELSE 1]) /\ Message(mem, routing', {"RouteChanged"})
  /\ base' = [base EXCEPT !.rules = routing'.c] /\ UNCHANGED <<win, alive, slip>>
(* A group is chosen, a profile remembered, a mode ticked: saved with all the rest. *)
SaveElsewhere ==
  /\ Step /\ Keep([mem EXCEPT !.other = 3 - @]) /\ Quiet(mem, routing) /\ base' = [base EXCEPT !.other = 3 - @]
  /\ UNCHANGED <<routing, files, win, alive, slip>>
StartProfile ==
  /\ Step /\ run # Built(mem, routing.c) /\ run' = Built(mem, routing.c) /\ told' = FALSE
  /\ UNCHANGED <<mem, routing, seen, disk, files, win, alive, base, slip>>
(* The program ends: by the menu, which saves once more, or in the middle of a save,
   which has emptied the file first. *)
Quit ==
  /\ Step /\ alive' = FALSE /\ win' = None /\ run' = None /\ told' = FALSE
  /\ \/ disk' = Content(mem) /\ UNCHANGED slip
     \/ disk' = None /\ Note({"torn"})
  /\ UNCHANGED <<mem, routing, seen, files, base>>
(* main: the settings, then the routing they name, which is written if it is not there. *)
Launch ==
  /\ ~alive /\ alive' = TRUE /\ UNCHANGED acts
  /\ mem' = Load(disk)
  /\ LET n == mem'.active
     IN IF files[n] # None THEN routing' = [name |-> n, c |-> files[n], seen |-> files[n]] /\ UNCHANGED files
        ELSE routing' = [name |-> n, c |-> Blank, seen |-> Blank] /\ files' = [files EXCEPT ![n] = Blank]
  /\ IF disk = None THEN disk' = Content(mem') /\ seen' = disk' ELSE seen' = disk /\ UNCHANGED disk
  /\ UNCHANGED <<win, run, told, base, slip>>

SetInit ==
  /\ alive = TRUE /\ win = None /\ run = None /\ told = FALSE /\ slip = {}
  /\ \E l \in {"local", "own"}, d \in BOOLEAN :
       mem = [Defaults EXCEPT !.listen = l, !.demand = [on |-> FALSE, set |-> d]]
  /\ \E c \in {1, 3} : /\ files = [n \in Routes |-> IF n = "Default" THEN c ELSE 2]
                      /\ routing = [name |-> "Default", c |-> c, seen |-> c]
  /\ disk = Content(mem) /\ seen = disk /\ base = Now(mem, routing.c)
SetNext ==
  \/ OpenSettings \/ Cancel \/ Accept \/ EditRules \/ PickTheme \/ SetAuth \/ AddRule \/ SaveElsewhere \/ StartProfile \/ Quit \/ Launch
  \/ \E p \in {"vpn", "ssid", "keys", "routing"} : Visit(p)
  \/ \E f \in Common \cup {"mtu", "single", "demand", "keys", "sites"} : Edit(f)
  \/ \E n \in Routes : LoadRoute(n) \/ SaveRoute(n) \/ RemoveRoute(n)
SetSpec == SetInit /\ acts = 0 /\ [][SetNext]_setVars

----------------------------------------------------------------------------
(* A profile that runs with other settings than those in memory: the user was asked to
   restart it, or told to restart the program - unless a page refused after the pages
   before it had been taken over, or the active routing was removed (Remove takes the
   next one without a word). *)
UserIsTold == alive /\ run # None /\ run # Built(mem, routing.c) => told \/ slip \cap {"refused", "removed"} # {}

(* The settings are what the user settled, after Cancel and after a restart too - unless
   an accept was refused half way, a save died in the file, a text with a default was
   cleared or the old share link format left, the address was one the window has no box
   for, the hosts held a comment, a rule was added while the routing page was open, or a routing was saved over the
   active one and not accepted. *)
SettledStays == alive => Now(mem, routing.c) = base \/ slip \ {"removed"} # {}

(* What the next start loads is what is in memory. *)
FilesAgree ==
  alive => \/ Load(disk) = mem /\ routing.name = mem.active /\ files[mem.active] = routing.c /\ routing.seen = routing.c
        \/ slip \cap {"refused", "cleared", "format", "saved over"} # {}

(* The settings in memory, in the files, in the window and in the running profile. *)
SettingsSound == UserIsTold /\ SettledStays /\ FilesAgree
=============================================================================
