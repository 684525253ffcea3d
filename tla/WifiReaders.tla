--------------------------------- MODULE WifiReaders ---------------------------------
(* The two readers of the name of the Wi-Fi network on Linux, NetworkManager (D-Bus, or
   nmcli when the bus does not carry it) and iwd, and the chain that chooses between them.

   The machine is a record m: its adapters, each with the manager that runs it and the
   network it is on; how each of the two services answers, and the call that goes wrong. *)
EXTENDS Integers, Sequences, FiniteSets, SequencesExt
CONSTANT None

Reading(kind, ssid) == [kind |-> kind, ssid |-> ssid]
Connected(ssid) == Reading("on", ssid)
NotConnected == Reading("off", None)
Unavailable == Reading("unknown", None)   \* or PermissionNeeded: neither moves the name
Definite(rd) == rd.kind \in {"on", "off"}
Said(rd, presence) == [reading |-> rd, presence |-> presence]
SaidTimedOut == Said(Unavailable, "timed out")

(* ParseNmcliWifiList: nmcli lists what NetworkManager runs. *)
ParseNmcliWifiList(adapters) ==
  LET active == SelectSeq(adapters, LAMBDA a : a.by = "nm" /\ a.on # None)
  IN IF active = <<>> THEN NotConnected ELSE Connected(active[1].on)

Nmcli(m) ==
  IF m.sandboxed THEN Said(Unavailable, "unreachable")
  ELSE CASE m.nmcli \in {"absent", "no daemon"} -> Said(Unavailable, "unreachable")
         [] m.nmcli = "slow" -> SaidTimedOut
         [] m.nmcli = "fails" -> Said(Unavailable, "failed")
         [] m.nmcli = "ok" -> Said(ParseNmcliWifiList(m.adapters), "manages")

(* One device of GetDevices: the properties are asked one after the other, and the loop
   goes on to the next device unless a name is found or an answer does not come in time.
   How the call of this property goes: "ok", "refused" or "late". *)
Call(m, i, property) == IF m.fault = <<i, property>> THEN m.how ELSE "ok"
Device(m, acc, i) ==
  LET a == m.adapters[i]
      on == a.by = "nm" /\ a.on # None
      asked == {"type", "state"} \cup (IF on THEN {"access point", "ssid"} ELSE {})
      late == \E p \in asked : Call(m, i, p) = "late"
      seen == IF Call(m, i, "type") = "ok" THEN [acc EXCEPT !.wifi = @ + 1] ELSE acc
  IN IF acc.said.presence # "" THEN acc
     ELSE IF late THEN [seen EXCEPT !.said = SaidTimedOut]
     ELSE IF \E p \in asked : Call(m, i, p) = "refused" THEN seen
     ELSE IF on THEN [seen EXCEPT !.said = Said(Connected(a.on), "manages")]
     ELSE IF a.by # "nm" THEN [seen EXCEPT !.unmanaged = @ + 1]
     ELSE seen
\* mutant: an adapter that NetworkManager does not run is one that is on no network
UnmanagedIsOff == Said(NotConnected, "not managing")
NotManaging == Said(Unavailable, "not managing")
ReadNM(m) ==
  LET none == [wifi |-> 0, unmanaged |-> 0, said |-> Said(Unavailable, "")]
      all == FoldLeft(LAMBDA acc, i : Device(m, acc, i), none, [i \in DOMAIN m.adapters |-> i])
  IN IF m.bus = "down" \/ m.nm = "absent" THEN Nmcli(m)
     ELSE IF m.nm = "late" THEN SaidTimedOut
     ELSE IF m.nm = "refused" THEN Said(Unavailable, "failed")
     ELSE IF all.said.presence # "" THEN all.said
     ELSE IF all.wifi = 0 THEN Said(NotConnected, "no device")
     ELSE IF all.unmanaged = all.wifi THEN NotManaging
     ELSE Said(NotConnected, "manages")

(* GetManagedObjects of iwd, one call. *)
ReadIwd(m) ==
  LET active == SelectSeq(m.adapters, LAMBDA a : a.by = "iwd" /\ a.on # None)
  IN IF m.sandboxed \/ m.bus = "down" \/ m.iwd # "present" THEN Said(Unavailable, "no answer")
     ELSE Said(IF active = <<>> THEN NotConnected ELSE Connected(active[1].on), "present")

(* ChooseWifiReading and the budget that NetworkManager may have used up. *)
AsksIwd(m) == ReadNM(m).presence \in {"no device", "not managing", "unreachable"}
ReadWifi(m) ==
  IF AsksIwd(m) /\ ~m.spent /\ ReadIwd(m).presence = "present" THEN ReadIwd(m).reading
  ELSE ReadNM(m).reading
=============================================================================
