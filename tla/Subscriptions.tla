---------------------------- MODULE Subscriptions ----------------------------
(* The updates of subscription groups (src/src/sub/GroupUpdater.cpp) over the
   store of ProfileStore, with the user editing the same store from the GUI
   thread and the program dying between any two statements on the file.
     s  the store in memory        d  the file
     up[t]  an update thread: the step it is at, the group id and the Group
            object it works on (0 when there was none), what is left to do, the
            answer, the profiles before (in) and the new ones in the answer's
            order (new), and the rest of the chain it belongs to;
     updating  UI_update_all_groups_Updating.
   The maps of ProfileManager have no lock: the model runs each of its calls
   whole, one thread after another, and orders the calls in every way.
   calm[t] and orphans are history: nothing but the update itself touched the
   group since it began; the profiles whose group was deleted while they ran. *)
EXTENDS ProfileStore

CONSTANTS Threads,     \* the threads an update may run on
          Answers,     \* what a subscription may hold: sequences of keys
          Start0,      \* the file the program starts with
          MaxEdits,    \* edits of the user
          MaxRestarts, \* crashes, exits and starts of the program
          MaxCalls,    \* all of these together, an update or a chain costing two
          MayMeet     \* two updates of one group, or two imports, may run at once

VARIABLES s, d, up, updating, clear, calm, orphans, updates, edits, restarts
vars == <<s, d, up, updating, clear, calm, orphans, updates, edits, restarts>>
(* The file once the statements of the last call have run, and the store the next
   call starts from: a call runs its statements before another begins, and only a
   death of the program comes between them. *)
file == FoldLeft(Exec, d, s.w)
S == [s EXCEPT !.w = <<>>]
Store(new) == s' = new /\ d' = file
counters == <<updates, edits, restarts>>
Room(cost) == 2 * updates + edits + restarts + cost <= MaxCalls

Idle == [pc |-> "idle", gid |-> NoGroup, o |-> 0, todo |-> <<>>, got |-> <<>>,
         in |-> <<>>, new |-> <<>>, chain |-> None]
Active == {t \in Threads : up[t].pc # "idle"}
Ent(p) == [p |-> p, n |-> s.prof[p].n, key |-> s.prof[p].key]
Ents(ps) == [i \in DOMAIN ps |-> Ent(ps[i])]

Init ==
  /\ d = Start0 /\ s = LoadFromSqlite(Start0, 0, 10)
  /\ up = [t \in Threads |-> Idle] /\ updating = FALSE
  /\ clear \in BOOLEAN        \* dataStore->sub_clear
  /\ calm = [t \in Threads |-> TRUE] /\ orphans = {}
  /\ updates = 0 /\ edits = 0 /\ restarts = 0

----------------------------------------------------------------------------
(* Starting updates. *)
Wanted(kind, g) == /\ g \in DOMAIN s.groups
                   /\ LET group == s.obj[s.groups[g]]
                      IN group.url # None /\ (kind = "due" => group.due)
(* serialUpdateSubscription from some place of the captured tab order: the
   groups the chain no longer wants are passed over. *)
FromWanted(kind, q) ==
  LET at == {i \in DOMAIN q : Wanted(kind, q[i])}
  IN IF at = {} THEN <<>> ELSE SubSeq(q, Min(at), Len(q))

(* AsyncUpdate hands the group to a thread of its own. *)
Async(t, gid, chain) == up' = [up EXCEPT ![t] = [Idle EXCEPT !.pc = "begin", !.gid = gid, !.chain = chain]]
(* The bound MayMeet: the groups an update under way has or will come to. *)
Coming(t) == {up[t].gid} \cup IF up[t].chain = None THEN {} ELSE Range(up[t].chain.q)
Apart(gids) == MayMeet \/ \A t \in Active : Coming(t) \cap gids = {}
Clashes(t, gid) == \E u \in Active \ {t} : up[u].gid = gid
Meets(t, gid) == calm' = [u \in Threads |->
                            IF u = t THEN ~Clashes(t, gid) /\ \A v \in Active \ {t} : calm[v]
                            ELSE calm[u] /\ up[u].gid # gid]

UpdateGroup(t, g) ==
  /\ up[t] = Idle /\ Room(2) /\ updates' = updates + 1
  /\ Wanted("all", g) /\ Apart({g})
  /\ Async(t, g, None) /\ Meets(t, g)
  /\ UNCHANGED <<s, d, updating, clear, orphans, edits, restarts>>

(* A link, or a subscription as a new group (createNewGroup). *)
Import(t, as) ==
  /\ up[t] = Idle /\ Room(2) /\ updates' = updates + 1
  /\ Apart({NoGroup})
  /\ up' = [up EXCEPT ![t] = [Idle EXCEPT !.pc = as]]
  /\ Meets(t, NoGroup)
  /\ UNCHANGED <<s, d, updating, clear, orphans, edits, restarts>>

ChainStepStuck(t, kind, q) ==   \* mutant: the end of a chain leaves the flag up
  LET rest == FromWanted(kind, q)
  IN IF rest = <<>> THEN up' = [up EXCEPT ![t] = Idle] /\ UNCHANGED <<updating, calm>>
     ELSE /\ updating' = TRUE /\ Meets(t, Head(rest))
          /\ Async(t, Head(rest), [kind |-> kind, q |-> FromWanted(kind, Tail(rest))])
ChainStep(t, kind, q) ==
  LET rest == FromWanted(kind, q)
  IN IF rest = <<>> THEN /\ updating' = FALSE /\ up' = [up EXCEPT ![t] = Idle]
                         /\ UNCHANGED calm
     ELSE /\ updating' = TRUE
          /\ Async(t, Head(rest), [kind |-> kind, q |-> FromWanted(kind, Tail(rest))])
          /\ Meets(t, Head(rest))

(* UI_update_all_groups, UI_update_due_groups_on_start and _on_timer. *)
UpdateAll(t, kind) ==
  /\ up[t] = Idle /\ Room(2) /\ updates' = updates + 1
  /\ ~updating /\ Apart(Range(s.tab))
  /\ ChainStep(t, kind, s.tab)
  /\ UNCHANGED <<s, d, clear, orphans, edits, restarts>>

----------------------------------------------------------------------------
(* GroupUpdater::Update, on its thread. *)
AddNewGroup(t) ==
  /\ up[t].pc = "new group"
  /\ LET only == /\ s.cur \in DOMAIN s.groups /\ s.obj[s.groups[s.cur]].url = None
                 /\ Profiles(s, s.cur) = <<>> /\ Len(s.tab) = 1
         new == [AddGroup(S, "url") EXCEPT !.cur = NewId(s.groups)]
         gid == NewId(s.groups)
     IN /\ Store(IF only THEN SaveGroupsTabOrder([new EXCEPT !.tab = <<gid>> \o DropAll(@, gid)]) ELSE new)
        /\ up' = [up EXCEPT ![t].gid = gid, ![t].pc = "begin"]
  /\ UNCHANGED <<updating, clear, calm, orphans, counters>>

Begin(t) ==
  /\ up[t].pc = "begin"
  /\ up' = [up EXCEPT ![t].pc = "request",
                      ![t].o = IF up[t].gid \in DOMAIN s.groups THEN s.groups[up[t].gid] ELSE 0]
  /\ UNCHANGED <<s, d, updating, clear, calm, orphans, counters>>

(* The main and the fallback address both fail: the update returns. *)
RequestFails(t) ==
  /\ up[t].pc = "request" /\ up[t].gid # NoGroup
  /\ up' = [up EXCEPT ![t].pc = "over"]
  /\ UNCHANGED <<s, d, updating, clear, calm, orphans, counters>>

Updating(o) == [S EXCEPT !.obj[o].order = <<>>, !.obj[o].due = FALSE]
(* The answer: the profiles the group has are noted, its order is emptied. *)
Answer(t, got) ==
  LET u == up[t]
      in == IF u.o = 0 THEN <<>> ELSE Ents(Profiles(s, u.gid))
  IN /\ u.pc = "request" /\ (u.gid = NoGroup => got # <<>>)
     /\ Store(IF u.o = 0 THEN S ELSE SaveGroup(Updating(u.o), u.o))
     /\ up' = [up EXCEPT ![t].pc = IF clear /\ in # <<>> THEN "clear" ELSE "add", ![t].got = got,
                         ![t].in = in, ![t].todo = IF clear /\ in # <<>> THEN in ELSE got]
     /\ UNCHANGED <<updating, clear, calm, orphans, counters>>

ClearOne(t) ==
  /\ up[t].pc = "clear"
  /\ Store(DeleteProfile(S, Head(up[t].todo).p))
  /\ up' = [up EXCEPT ![t].todo = IF Len(@) = 1 THEN up[t].got ELSE Tail(@),
                      ![t].pc = IF Len(up[t].todo) = 1 THEN "add" ELSE @]
  /\ UNCHANGED <<updating, clear, calm, orphans, counters>>

(* RawUpdater::update: the profiles of the answer, one AddProfile each. *)
AddOne(t) ==
  LET key == Head(up[t].todo)
  IN /\ up[t].pc = "add" /\ up[t].todo # <<>>
     /\ Store(AddProfile(S, key, up[t].gid))
     /\ up' = [up EXCEPT ![t].todo = Tail(@),
                         ![t].new = Append(@, [p |-> NewId(s.prof), n |-> s.born, key |-> key])]
     /\ calm' = [u \in Threads |-> calm[u] /\ (u = t \/ up[u].gid # HomeOf(s, up[t].gid))]
     /\ UNCHANGED <<updating, clear, orphans, counters>>

(* Which old profile an entry of the answer keeps: the last old one of its key. *)
Kept(in, e) == in[Max({i \in DOMAIN in : in[i].key = e.key})].p
OrderOfNew(u, all) == [i \in DOMAIN u.new |-> u.new[i].p]   \* mutant: the new object wins
OrderOf(u, all) ==
  LET out == {e \in Range(all) : \A i \in DOMAIN u.in : u.in[i].n # e.n}
      common(e) == e \in out /\ \E i \in DOMAIN u.in : u.in[i].key = e.key
  IN [i \in DOMAIN u.new |-> IF common(u.new[i]) THEN Kept(u.in, u.new[i]) ELSE u.new[i].p]

Sort(t) ==
  LET u == up[t]
      all == Profiles(s, u.gid)
      order == OrderOf(u, Ents(all))
  IN /\ u.pc = "add" /\ u.todo = <<>>
     /\ IF u.o = 0 \/ clear
        THEN Store(S) /\ up' = [up EXCEPT ![t].pc = "over"]
        ELSE /\ Store(SaveGroup([S EXCEPT !.obj[u.o].order = order], u.o))
             /\ up' = [up EXCEPT ![t].pc = IF all = <<>> THEN "over" ELSE "clean", ![t].todo = all]
     /\ UNCHANGED <<updating, clear, calm, orphans, counters>>

(* Cleanup: what the new order does not name is deleted, the running profile apart. *)
CleanOne(t) ==
  LET u == up[t]
  IN /\ u.pc = "clean"
     /\ Store(IF Head(u.todo) \in Range(s.obj[u.o].order) THEN S ELSE DeleteProfile(S, Head(u.todo)))
     /\ up' = [up EXCEPT ![t].todo = Tail(@), ![t].pc = IF Len(u.todo) = 1 THEN "over" ELSE @]
     /\ UNCHANGED <<updating, clear, calm, orphans, counters>>

(* The callback: an update of a chain starts the next one. *)
Finish(t) ==
  /\ up[t].pc = "over"
  /\ IF up[t].chain = None THEN up' = [up EXCEPT ![t] = Idle] /\ UNCHANGED <<updating, calm>>
     ELSE ChainStep(t, up[t].chain.kind, up[t].chain.q)
  /\ UNCHANGED <<s, d, clear, orphans, counters>>

----------------------------------------------------------------------------
(* The user, on the GUI thread. *)
Edit(new) == /\ edits < MaxEdits /\ Room(1) /\ edits' = edits + 1 /\ Store(new)
             /\ calm' = [t \in Threads |-> FALSE]
             /\ UNCHANGED <<up, updating, clear, updates, restarts>>
UserDeletesProfile(p) == Edit(DeleteProfile(S, p)) /\ UNCHANGED orphans
UserMovesProfile(p, g) == s.prof[p].gid # g /\ Edit(MoveProfile(S, p, g)) /\ UNCHANGED orphans
UserAddsGroup == Edit(AddGroup(S, "url")) /\ UNCHANGED orphans
UserDeletesGroup(g) ==
  /\ Cardinality(DOMAIN s.groups) > 1
  /\ Edit(DeleteGroup(S, g))
  /\ orphans' = orphans \cup {s.prof[p].n : p \in {q \in Indexed(s, g) : q = s.started}}
(* A start or a stop of a profile: started_id alone. *)
UserRuns(p) ==
  /\ edits < MaxEdits /\ Room(1) /\ edits' = edits + 1 /\ p # s.started
  /\ s' = [s EXCEPT !.started = p]
  /\ UNCHANGED <<d, up, updating, clear, calm, orphans, updates, restarts>>

(* The program dies after k statements of the last call, or exits, and starts
   again from the file, perhaps with -flag_reorder. *)
Restart(k, reorder) ==
  /\ restarts < MaxRestarts /\ Room(1) /\ restarts' = restarts + 1
  /\ LET left == FoldLeft(Exec, d, SubSeq(s.w, 1, k))
         load == LoadFromSqlite(left, s.cur, s.born)
     IN IF reorder THEN s' = Reordered(load) /\ d' = FileOf(s')
        ELSE s' = load /\ d' = left
  /\ up' = [t \in Threads |-> Idle] /\ updating' = FALSE
  /\ orphans' = {s'.prof[p].n : p \in {q \in DOMAIN s'.prof : s'.prof[q].gid \notin DOMAIN s'.groups}}
  /\ calm' = [t \in Threads |-> TRUE]
  /\ UNCHANGED <<clear, updates, edits>>

Work(t) == \/ AddNewGroup(t) \/ Begin(t) \/ RequestFails(t) \/ ClearOne(t) \/ AddOne(t)
           \/ Sort(t) \/ CleanOne(t) \/ Finish(t) \/ \E got \in Answers : Answer(t, got)
Asked(t) == \/ \E g \in DOMAIN s.groups : UpdateGroup(t, g)
            \/ \E as \in {"request", "new group"} : Import(t, as)
            \/ \E kind \in {"all", "due"} : UpdateAll(t, kind)
Edited == \/ \E p \in DOMAIN s.prof : UserDeletesProfile(p) \/ \E g \in DOMAIN s.groups : UserMovesProfile(p, g)
          \/ UserAddsGroup
          \/ \E g \in DOMAIN s.groups : UserDeletesGroup(g)
          \/ \E p \in DOMAIN s.prof \cup {None} : UserRuns(p)
Next == \/ \E k \in 0..Len(s.w), reorder \in BOOLEAN : Restart(k, reorder)
        \/ Edited
        \/ \E t \in Threads : Asked(t) \/ Work(t)
Spec == Init /\ [][Next]_vars
(* WF_vars(Work(t)): Work(t) is enabled exactly when the thread is not idle. *)
Moves(t) == up'[t] # up[t]
FairSpec == Spec /\ \A t \in Threads : []<>(up[t].pc = "idle") \/ []<><<Moves(t)>>_vars

----------------------------------------------------------------------------
(* The maps agree with each other: every tab is a group, every group a tab, every
   indexed profile exists, every thread is at a step of the update. *)
TypeOK ==
  /\ \A g \in DOMAIN s.groups : s.obj[s.groups[g]].id = g
  /\ Range(s.tab) = DOMAIN s.groups /\ Len(s.tab) = Cardinality(DOMAIN s.groups)
  /\ \A g \in DOMAIN s.idx : s.idx[g] \subseteq DOMAIN s.prof
  /\ s.cur \in DOMAIN s.groups /\ s.started \in Int \cup {None}
  /\ \A t \in Threads : /\ up[t].o \in 0..Len(s.obj)
                        /\ up[t].pc \in {"idle", "new group", "begin", "request", "clear", "add", "clean", "over"}

(* Starting again from the file shows the
   groups, profiles, orders and tabs that memory shows: no path of the update, of
   an edit or of both leaves the rows or groupProfileIds behind.  The profiles
   whose group was deleted while they ran are set apart. *)
ReloadAgrees ==
    LET l == LoadFromSqlite(file, s.cur, s.born)
    IN /\ FileOf(l) = FileOf(s)
       /\ \A g \in DOMAIN s.groups :
            {p \in Indexed(l, g) : s.prof[p].n \notin orphans} = {p \in Indexed(s, g) : s.prof[p].n \notin orphans}

(* An update that nothing else touched leaves in its group's tab the answer's
   profiles in the answer's order; before them only profiles that were there and
   that a run kept from being deleted. *)
UpdateDelivers ==
  \A t \in Threads :
    LET u == up[t]
    IN (u.pc = "over" /\ u.new # <<>> /\ u.o # 0 /\ calm[t]) =>
         LET shown == Shown(s, u.gid)
             kept == SubSeq(shown, 1, Len(shown) - Len(u.got))
         IN /\ IsSuffix(u.got, KeysOf(s, shown))
            /\ \A p \in Range(kept) : \E e \in Range(u.in) : e.p = p /\ e.n = s.prof[p].n

(* A profile both before and in the answer keeps its old object, with its
   statistics: from the answer to the end of the update one of its key stays in
   memory and on the file, so a crash of the update cannot lose it. *)
KeptStay ==
  \A t \in Threads :
    LET u == up[t]
        rows == {FoldLeft(Exec, d, SubSeq(s.w, 1, k)).prof : k \in 0..Len(s.w)}
    IN (u.pc \in {"add", "clean", "over"} /\ u.in # <<>> /\ calm[t] /\ ~clear) =>
         \A e \in Range(u.in) : e.key \in Range(u.got) =>
           \E f \in Range(u.in) : /\ f.key = e.key
                                  /\ f.p \in DOMAIN s.prof /\ s.prof[f.p].n = f.n
                                  /\ \A r \in rows : f.p \in DOMAIN r /\ r[f.p].n = f.n

(* The flag admits one chain: two chains never run at once, and while one runs
   the flag is up. *)
OneChain ==
  LET chains == {t \in Threads : up[t].chain # None}
  IN Cardinality(chains) <= 1 /\ (chains # {} => updating)

(* -flag_reorder: the tabs show the same profiles in the same order as before,
   and the profiles marked for the tab's toggle are the same.  A profile that is
   in an order twice, or in the orders of two groups, is set apart. *)
ReorderKeeps ==
    LET l == LoadFromSqlite(file, s.cur, s.born)
        r == Reordered(l)
        all == FlattenSeq([i \in DOMAIN l.tab |-> Shown(l, l.tab[i])])
        marks(x, i) == LET g == x.tab[i]
                       IN {x.prof[p].n : p \in x.obj[x.groups[g]].toggle \cap Range(Shown(x, g))}
    IN IsInjective(all) =>
         \A i \in DOMAIN l.tab : /\ KeysOf(l, Shown(l, l.tab[i])) = KeysOf(r, Shown(r, r.tab[i]))
                                 /\ marks(l, i) = marks(r, i)

(* UI_update_all_groups_Updating falls: whatever fails, is deleted or restarted
   on the way, a chain comes to its end. *)
ChainEnds == updating ~> ~updating

(* Memory, file and tabs tell the same story after any edit, update, chain or restart. *)
StoreSound == TypeOK /\ ReloadAgrees /\ ReorderKeeps /\ OneChain

(* An update brings what was answered and loses nothing that was to stay. *)
UpdateSound == UpdateDelivers /\ KeptStay
=============================================================================
