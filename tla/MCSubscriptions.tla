--------------------------- MODULE MCSubscriptions ---------------------------
(* Subscriptions for TLC: a local group and a subscription of one or two profiles,
   answers of up to two entries over two keys.  In behaviours of their own, the
   settings (the other file the program keeps), the direct-site rules in their
   window, the portal requests, and what is written for the Linux desktop. *)
EXTENDS Subscriptions

VARIABLES mem, routing, seen, disk, files, win, run, alive, told, base, slip, acts, part
settings == <<mem, routing, seen, disk, files, win, run, alive, told, base, slip, acts>>
CONSTANTS Routes, MaxSettings
ST == INSTANCE Settings
VARIABLES rules, current, editor, written, presses
sites == <<rules, current, editor, written, presses>>
CONSTANTS Stored, MaxRuleEdits
DS == INSTANCE DirectSites
TH == INSTANCE Themes

VARIABLES use, old, probe, reqs, desk, pressed, rec, page, keys, marker, wish, window, scans, logged, did, amiss, touches
portals == <<use, old, probe, reqs, desk, pressed, rec, page, keys, marker, wish, window, scans, logged, did, amiss, touches>>
CONSTANTS MaxTouches, MaxReqs
XP == INSTANCE Portals WITH presses <- pressed, told <- logged, slip <- amiss

VARIABLES task, desktop, tools, dp, pr, why, tray, shown, waited, entry, off, origin, lost, deeds
linux == <<task, desktop, tools, dp, pr, why, tray, shown, waited, entry, off, origin, lost, deeds>>
CONSTANT MaxDeeds
LD == INSTANCE LinuxDesktop

CONSTANTS a, b, t1, t2
Row(url, order) == [order |-> order, toggle |-> {1}, url |-> url]
StartFile == [prof |-> 1 :> [gid |-> 1, key |-> a, n |-> 1],
              groups |-> (0 :> [Row(None, <<>>) EXCEPT !.toggle = {}]) @@ (1 :> Row("url", <<1>>)),
              tab |-> <<0, 1>>]

SomeAnswers == {<<a, b>>, <<b, b>>}

TwoRules == <<[sites |-> <<a>>, targets |-> {"group"}], [sites |-> <<b>>, targets |-> {}]>>

(* Each behaviour is of one of the five, and the other four rest. *)
AllInit ==
  /\ Init /\ ST!SetInit /\ acts = 0 /\ DS!SitesInit /\ XP!PortalInit /\ LD!DesktopInit
  /\ part \in {"profiles", "settings", "sites", "portals", "linux"}
  /\ part # "profiles" => ~clear
  /\ part # "settings" => mem = ST!Defaults /\ routing.c = 1
  /\ part # "portals" => use = "shot" /\ ~old
  /\ part # "linux" => task = "tray" /\ tray

AllNext ==
  /\ part' = part
  /\ \/ part = "profiles" /\ Next /\ UNCHANGED <<settings, sites, portals, linux>>
     \/ part = "settings" /\ ST!SetNext /\ UNCHANGED <<vars, sites, portals, linux>>
     \/ part = "sites" /\ DS!SitesNext /\ UNCHANGED <<vars, settings, portals, linux>>
     \/ part = "portals" /\ XP!PortalNext /\ UNCHANGED <<vars, settings, sites, linux>>
     \/ part = "linux" /\ LD!DesktopNext /\ UNCHANGED <<vars, settings, sites, portals>>

AllSpec ==
  /\ AllInit /\ [][AllNext]_<<vars, settings, sites, portals, linux, part>>
  /\ \A t \in Threads : []<>(up[t].pc = "idle") \/ []<><<Moves(t)>>_vars

(* The settings in memory, in the files, in the window and in the running profile; each
   direct-site rule its own; the theme picked; what the user was told of the desktop's
   answers, and what it does; what is written for it, and what is offered there. *)
SettingsSound ==
  /\ part = "settings" => ST!SettingsSound /\ (acts = 0 => TH!ThemeStays)
  /\ part = "sites" => DS!EachKeepsItsOwn
  /\ part = "portals" => XP!PortalsSound
  /\ part = "linux" => LD!DesktopSound /\ (deeds = 0 => LD!OfferedCanBeDone)
=============================================================================
