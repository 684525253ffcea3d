----------------------------- MODULE ProfileStore -----------------------------
(* The store of profiles and groups (src/src/db/Database.cpp): the maps in
   memory, the rows of the SQLite file, and what each call of ProfileManager
   does to both.  A store is a record:
     prof    profile id -> [gid, key, n], key the identity of its bean and n
             the birth number that tells two objects of one id apart;
     obj     every Group object ever made, attached to the manager or not (an
             update keeps a pointer to a group the user has deleted);
     groups  group id -> its object, an index of obj;
     tab     groupsTabOrder;          idx  groupProfileIds, kept sorted and
             without duplicates in the code, a set here;
     cur, started   dataStore's current_group and started_id;
     born    the birth numbers given out;
     w       the statements the call has yet to run on the file, in order.
   profilesIdOrder and groupsIdOrder are the sorted domains of prof and groups. *)
EXTENDS Integers, Sequences, FiniteSets, SequencesExt, FiniteSetsExt, Functions, TLC

CONSTANT None

NoGroup == -1
DropAll(q, x) == SelectSeq(q, LAMBDA y : y # x)
NewId(f) == IF DOMAIN f = {} THEN 0 ELSE Max(DOMAIN f) + 1
Without(f, x) == [y \in DOMAIN f \ {x} |-> f[y]]
Put(f, x, v) == (x :> v) @@ f

----------------------------------------------------------------------------
(* Statements on the file. *)
GroupRow(o) == [order |-> o.order, toggle |-> o.toggle, url |-> o.url]
SaveGroupToDb(s, g) ==
  IF g \in DOMAIN s.groups
  THEN [s EXCEPT !.w = Append(@, [on |-> "groups", id |-> g, row |-> GroupRow(s.obj[s.groups[g]])])]
  ELSE s
SaveProfileToDb(s, p) ==
  IF p \in DOMAIN s.prof
  THEN [s EXCEPT !.w = Append(@, [on |-> "prof", id |-> p, row |-> s.prof[p]])]
  ELSE s
DeleteRow(s, table, id) == [s EXCEPT !.w = Append(@, [on |-> table, id |-> id, row |-> None])]
SaveGroupsTabOrder(s) == [s EXCEPT !.w = Append(@, [on |-> "tab", id |-> 0, row |-> s.tab])]

(* One statement runs on the file d. *)
Exec(d, w) ==
  IF w.on = "tab" THEN [d EXCEPT !.tab = w.row]
  ELSE [d EXCEPT ![w.on] = IF w.row = None THEN Without(@, w.id) ELSE Put(@, w.id, w.row)]

----------------------------------------------------------------------------
(* Groups. *)
Indexed(s, g) == IF g \in DOMAIN s.idx THEN s.idx[g] ELSE {}
SaveGroup(s, o) ==
  LET g == s.obj[o].id
      back == [s EXCEPT !.groups = Put(@, g, o),
                        !.tab = IF g \in Range(@) THEN @ ELSE Append(@, g),
                        !.idx = Put(@, g, Indexed(s, g))]
  IN SaveGroupToDb(IF g \in DOMAIN s.groups THEN s ELSE back, g)

AddGroup(s, url) ==
  LET g == NewId(s.groups)
      o == Len(s.obj) + 1
      t == [s EXCEPT !.obj = Append(@, [id |-> g, order |-> <<>>, toggle |-> {}, url |-> url, due |-> TRUE]),
                     !.groups = Put(@, g, o), !.tab = Append(@, g), !.idx = Put(@, g, {})]
      u == SaveGroupsTabOrder(SaveGroup(t, o))
  IN IF s.cur \in DOMAIN u.groups THEN u ELSE [u EXCEPT !.cur = g]

----------------------------------------------------------------------------
(* Profiles. *)
HomeOf(s, gid) ==
  LET g == IF gid < 0 THEN s.cur ELSE gid
  IN IF g \notin DOMAIN s.groups /\ s.tab # <<>> THEN Head(s.tab) ELSE g

AddProfile(s, key, gid) ==
  LET g == HomeOf(s, gid)
      p == NewId(s.prof)
      t == [s EXCEPT !.prof = Put(@, p, [gid |-> g, key |-> key, n |-> s.born]), !.born = @ + 1,
                     !.idx = Put(@, g, Indexed(s, g) \cup {p})]
      first == [t EXCEPT !.obj[t.groups[g]].toggle = IF @ = {} THEN {p} ELSE @]
  IN SaveProfileToDb(IF g \in DOMAIN t.groups THEN SaveGroup(first, first.groups[g]) ELSE t, p)

Forget(s, o, p) == [s EXCEPT !.obj[o].toggle = @ \ {p}, !.obj[o].order = DropAll(@, p)]

DeleteProfile(s, p) ==
  IF s.started = p THEN s
  ELSE LET g == IF p \in DOMAIN s.prof THEN s.prof[p].gid ELSE NoGroup
           t == IF g \in DOMAIN s.groups
                THEN SaveGroup(Forget(s, s.groups[g], p), s.groups[g]) ELSE s
       IN DeleteRow([t EXCEPT !.idx = IF g \in DOMAIN @ THEN Put(@, g, @[g] \ {p}) ELSE @,
                              !.prof = Without(@, p)], "prof", p)

MoveUnsaved(s, p, gid) ==   \* mutant: the row of the profile keeps the old group
  LET o == s.groups[gid]
      out == [s EXCEPT !.idx[s.prof[p].gid] = @ \ {p}]
  IN IF gid = s.prof[p].gid THEN s
     ELSE SaveGroup([out EXCEPT !.prof[p].gid = gid, !.idx[gid] = @ \cup {p}], o)
MoveProfile(s, p, gid) ==
  LET old == s.prof[p].gid
      left == IF old \in DOMAIN s.groups
              THEN SaveGroup(Forget(s, s.groups[old], p), s.groups[old]) ELSE s
      gone == [left EXCEPT !.idx = IF old \in DOMAIN @ THEN Put(@, old, @[old] \ {p}) ELSE @]
      o == gone.groups[gid]
      in == IF gid \in DOMAIN gone.groups
            THEN SaveGroup([gone EXCEPT !.obj[o].order = IF @ = <<>> THEN @ ELSE Append(@, p),
                                        !.obj[o].toggle = IF @ = {} THEN {p} ELSE @], o)
            ELSE gone
  IN IF gid = old THEN s
     ELSE SaveProfileToDb([in EXCEPT !.prof[p].gid = gid, !.idx = Put(@, gid, Indexed(in, gid) \cup {p})], p)

DeleteGroup(s, g) ==
  LET t == FoldLeft(DeleteProfile, s, SetToSortSeq(Indexed(s, g), <))
      u == SaveGroupsTabOrder(DeleteRow([t EXCEPT !.groups = Without(@, g), !.tab = DropAll(@, g),
                                                  !.idx = Without(@, g)], "groups", g))
  IN IF Cardinality(DOMAIN s.groups) <= 1 THEN s
     ELSE IF u.cur = g THEN [u EXCEPT !.cur = IF u.tab = <<>> THEN NoGroup ELSE Head(u.tab)] ELSE u

(* Group::Profiles, ProfilesWithOrder: what a group has and what its tab shows. *)
Profiles(s, g) == SelectSeq(SetToSortSeq(Indexed(s, g), <), LAMBDA p : p \in DOMAIN s.prof)
Shown(s, g) ==
  LET order == s.obj[s.groups[g]].order
  IN IF order = <<>> THEN Profiles(s, g) ELSE SelectSeq(order, LAMBDA p : p \in DOMAIN s.prof)
KeysOf(s, ps) == [i \in DOMAIN ps |-> s.prof[ps[i]].key]

----------------------------------------------------------------------------
(* LoadFromSqlite and LoadManager: the store a start of the program builds from
   the file. *)
Normalised(tab, gs) ==
  LET known == SelectSeq(tab, LAMBDA g : g \in gs)
  IN known \o SetToSortSeq(gs \ Range(known), <)

LoadFromSqlite(d, cur, born) ==
  LET gids == SetToSortSeq(DOMAIN d.groups, <)
      homes == DOMAIN d.groups \cup {d.prof[p].gid : p \in DOMAIN d.prof}
      s == [prof |-> d.prof,
            obj |-> [i \in DOMAIN gids |-> [id |-> gids[i], due |-> TRUE] @@ d.groups[gids[i]]],
            groups |-> [g \in DOMAIN d.groups |-> CHOOSE i \in DOMAIN gids : gids[i] = g],
            tab |-> Normalised(d.tab, DOMAIN d.groups),
            idx |-> [g \in homes |-> {p \in DOMAIN d.prof : d.prof[p].gid = g}],
            cur |-> cur, started |-> None, born |-> born, w |-> <<>>]
      t == IF DOMAIN s.groups = {} THEN AddGroup(s, None) ELSE s
  IN IF t.cur \notin DOMAIN t.groups THEN [t EXCEPT !.cur = Head(t.tab)] ELSE t

(* The renumbering of -flag_reorder, in one transaction: groups in tab order, in
   each the profiles its tab shows, ids from 0.  What no tab shows is dropped; a
   profile shown twice becomes two rows, and its second visit enters its first
   new id into the table of old ids (pidOld2New[profile->id]). *)
Visit(acc, v) ==
  LET p == v[2]
      k == Len(acc.who)
  IN [who |-> Append(acc.who, p), id |-> Put(acc.id, p, k), home |-> Put(acc.home, p, v[1] - 1),
      old2new |-> Put(acc.old2new, acc.id[p], k)]
Reordered(s) ==
  LET visits == FlattenSeq([i \in DOMAIN s.tab |->
                  LET ps == Shown(s, s.tab[i]) IN [j \in DOMAIN ps |-> <<i, ps[j]>>]])
      acc == FoldLeft(Visit, [who |-> <<>>, id |-> [p \in DOMAIN s.prof |-> p], home |-> <<>>,
                            old2new |-> <<>>], visits)
      prof == [k \in 0..(Len(acc.who) - 1) |-> [s.prof[acc.who[k + 1]] EXCEPT !.gid = acc.home[acc.who[k + 1]]]]
      gids == 0..(Len(s.tab) - 1)
  IN [s EXCEPT !.prof = prof,
               !.obj = [i \in DOMAIN s.tab |->
                          [s.obj[s.groups[s.tab[i]]] EXCEPT
                             !.id = i - 1, !.order = <<>>,
                             !.toggle = {acc.old2new[p] : p \in @ \cap DOMAIN acc.old2new}]],
               !.groups = [g \in gids |-> g + 1], !.tab = [i \in DOMAIN s.tab |-> i - 1],
               !.idx = [g \in gids |-> {k \in DOMAIN prof : prof[k].gid = g}],
               !.cur = (CHOOSE i \in DOMAIN s.tab : s.tab[i] = s.cur) - 1]
FileOf(s) == [prof |-> s.prof, tab |-> s.tab,
              groups |-> [g \in DOMAIN s.groups |-> GroupRow(s.obj[s.groups[g]])]]
=============================================================================
