--------------------------- MODULE MacHelperLink ---------------------------
(* The GUI's way to the macOS helper: MacHelperService (a worker thread that takes
   one call at a time) and MacHelperClient (its socket: sessions, replies, events).

   The UI thread appends calls to the worker's queue and gets replies and signals
   in its own.  The client reads the socket only while it waits for a reply or
   between two calls; the signals it finds there go through the worker's
   own queue first, behind the calls that already wait in it.  The helper is the
   one of HelperServer and TunRunner, seen from one connection. *)
EXTENDS Naturals, Sequences

CONSTANTS MaxFaults,  \* bound: refusals, late answers, deaths and failed starts
          Backlog     \* bound: what waits for the UI thread when a call is taken

ASSUME LinkAssumption == MaxFaults \in Nat /\ Backlog \in Nat \ {0}

VARIABLES
  h,       \* the helper: installed, running, connected to this client, its Tun, the proxy it set
  wire,    \* events sent and not read
  sess,    \* MacHelperClient.helloDone_
  wq,      \* the worker's queue: calls and the client's own signals
  link,    \* MacHelperService.connected_
  ready,   \* MacHelperService.state_ is Ready
  mq,      \* replies and signals for the UI thread
  faults

linkVars == <<h, wire, sess, wq, link, ready, mq, faults>>

Ops == {"tunStart", "tunStop", "apply", "restore", "status", "probe"}
\* by: who asked, and for a probe what for.  save: the user's choice is to be remembered.
\* was: the modes a startup or a wake wants back.
Calls == [op : Ops, by : {"user", "modes", "wake", "proxy", "vpn", "restore", "startup", "install", "nobody"},
          save : BOOLEAN, was : SUBSET {"proxy", "vpn"}]
Signals == {"lost", "ready", "stopped"}
Signal(s) == [m |-> s]
Reply(c, ok, has) == [m |-> "reply", call |-> c, ok |-> ok, has |-> has]

LinkTypeOK ==
  /\ h \in [inst : BOOLEAN, up : BOOLEAN, conn : BOOLEAN, tun : {"off", "coming", "up"}, proxy : BOOLEAN]
  /\ h.conn => h.up /\ h.inst
  /\ \A i \in 1..Len(wire) : wire[i] \in [m : {"ready", "stopped"}]
  /\ sess \in BOOLEAN /\ link \in BOOLEAN /\ ready \in BOOLEAN
  /\ \A i \in 1..Len(wq) : wq[i] \in Calls \cup [m : Signals]
  /\ faults \in 0..MaxFaults

Fault == faults < MaxFaults /\ faults' = faults + 1
Dead(s) == [s EXCEPT !.up = FALSE, !.conn = FALSE, !.tun = "off"]  \* the proxy stays set

-----------------------------------------------------------------------------
(* The helper. *)

\* What a command does to it, and what the reply says is applied.
Serve(c) ==
  CASE c.op = "tunStart" -> [h EXCEPT !.conn = TRUE, !.tun = "coming"]
    [] c.op = "tunStop"  -> [h EXCEPT !.conn = TRUE, !.tun = "off"]
    [] c.op = "apply"    -> [h EXCEPT !.conn = TRUE, !.proxy = TRUE]
    [] c.op = "restore"  -> [h EXCEPT !.conn = TRUE, !.proxy = FALSE]
    [] OTHER             -> [h EXCEPT !.conn = TRUE]
Applied(s) == {m \in {"proxy", "vpn"} : IF m = "proxy" THEN s.proxy ELSE s.tun # "off"}

\* The Tun waits for the core's SOCKS port and comes up; without the port it gives up.
TunSettles(port) ==
  /\ h.tun = "coming"
  /\ \/ port /\ h' = [h EXCEPT !.tun = "up"] /\ wire' = Append(wire, Signal("ready")) /\ UNCHANGED faults
     \/ ~port /\ h' = [h EXCEPT !.tun = "off"] /\ wire' = Append(wire, Signal("stopped")) /\ UNCHANGED faults
     \/ port /\ Fault /\ h' = [h EXCEPT !.tun = "off"] /\ wire' = Append(wire, Signal("stopped"))
  /\ UNCHANGED <<sess, wq, link, ready, mq>>

\* It dies between two requests; launchd starts it again and it restores the proxy.
HelperDies == h.up /\ Fault /\ h' = Dead(h) /\ wire' = <<>> /\ UNCHANGED <<sess, wq, link, ready, mq>>
HelperStarts ==
  /\ h.inst /\ ~h.up /\ h' = [h EXCEPT !.up = TRUE, !.proxy = FALSE]
  /\ UNCHANGED <<wire, sess, wq, link, ready, mq, faults>>

-----------------------------------------------------------------------------
(* The worker. *)

\* noteDisconnected, or the events read: the client's signals, queued behind the calls.
Gone == sess /\ ~h.conn
Noticed == IF Gone THEN <<Signal("lost")>> ELSE wire

Read ==
  /\ Gone \/ (sess /\ wire # <<>>)
  /\ wq' = wq \o Noticed /\ wire' = <<>> /\ sess' = (sess /\ h.conn)
  /\ UNCHANGED <<h, link, ready, mq, faults>>

\* A signal leaves the worker; for a lost connection the cached state goes with it.
Pass ==
  /\ wq # <<>> /\ "m" \in DOMAIN Head(wq)
  /\ wq' = Tail(wq) /\ mq' = Append(mq, Head(wq))
  /\ link' = (link /\ Head(wq).m # "lost")
  /\ UNCHANGED <<h, wire, sess, ready, faults>>

\* The end of a call: what was found on the socket, the session, the reply.
Finish(c, after, alive, ok, has) ==
  /\ h' = after /\ sess' = alive /\ link' = alive
  /\ ready' = IF c.op = "probe" THEN alive ELSE ready \/ ok \/ alive
  /\ wq' = Tail(wq) \o Noticed \o (IF h.up /\ ~alive THEN <<Signal("lost")>> ELSE <<>>)
  /\ wire' = <<>>
  /\ mq' = IF c.by = "nobody" THEN mq ELSE Append(mq, Reply(c, ok, has))

\* One call: ensureSession connects again when the session is gone, then the request.
Work ==
  /\ wq # <<>> /\ "op" \in DOMAIN Head(wq) /\ Len(mq) < Backlog
  /\ LET c == Head(wq)
         Late == Serve(c)  \* the reply comes after the wait and is dropped
         Absent == IF h.inst THEN {} ELSE {"absent"}
     IN \/ ~h.up /\ Finish(c, h, FALSE, FALSE, Absent) /\ UNCHANGED faults
        \/ h.up /\ Finish(c, Serve(c), TRUE, TRUE, Applied(h)) /\ UNCHANGED faults
        \/ /\ h.up /\ Fault /\ c.op # "probe"
           /\ \/ Finish(c, Late, TRUE, FALSE, {})
              \/ Finish(c, [h EXCEPT !.conn = TRUE, !.tun = IF c.op = "tunStart" THEN "off" ELSE @],
                        TRUE, FALSE, {})
              \/ Finish(c, Dead(Late), FALSE, FALSE, {})

LinkInit ==
  /\ h \in [inst : BOOLEAN, up : BOOLEAN, conn : {FALSE}, tun : {"off"}, proxy : {FALSE}] /\ (h.up => h.inst)
  /\ wire = <<>> /\ sess = FALSE /\ link = FALSE /\ ready = FALSE /\ mq = <<>> /\ faults = 0
=============================================================================
