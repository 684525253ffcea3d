-------------------------- MODULE TunRunner_proofs --------------------------
(* Theorems about TunRunner, for every bound of the generations and any number of
   callers of Stop: the slot is sound, and the runner takes only the steps its
   server's view of it (TunSlot) allows. *)
EXTENDS TunRunner, TLAPS

-----------------------------------------------------------------------------
(* The inductive invariant. *)

\* A start is one of the generations handed out so far.
Handed ==
  /\ \A g \in Gens : run[g] # "none" => g <= gen
  /\ closer # 0 => closer = gen
  /\ stopWait <= gen /\ done <= gen
  /\ \A c \in Callers : held[c].stopWait <= gen

\* What a Stop holds, and what is cancelled, is of an earlier generation.
Earlier ==
  /\ \A c \in Callers : /\ held[c].closer # 0 => held[c].closer < gen
                        /\ held[c].stopWait # 0 => held[c].stopWait < gen
                        /\ held[c].done # 0 => held[c].done < gen
  /\ \A g \in cancelled : g < gen
  /\ \A g \in Gens : run[g] = "discard" => g < gen

\* The only caller of Start finds the slot as its Stop left it, whoever else stops.
SlotIsFree ==
  /\ \A c \in Callers : /\ pc[c] \in {"idle", "accept"} => held[c] = NoHeld
                        /\ pc[c] # "idle" => gen > 0
                        /\ pc[c] = "accept" => op[c] = "start"
                        /\ pc[c] # "idle" /\ op[c] = "start" => c \in Starters
  /\ \A s \in Starters : pc[s] # "idle" /\ op[s] = "start" =>
       ~active /\ closer = 0 /\ stopWait = 0 /\ done = 0 /\ run[gen] = "none"

\* An instance is made in create, and registered or discarded by its goroutine alone.
Made ==
  /\ \A g \in Gens : /\ run[g] \in {"none", "waiting", "dialled", "creating", "failing"} => g \notin live
                     /\ run[g] = "created" => g \in live
  /\ closer # 0 => run[closer] \in {"ready", "tell_ready", "done"}
  /\ \A c \in Callers : held[c].closer # 0 => run[held[c].closer] \in {"ready", "tell_ready", "done"}

\* A Stop past its teardown has closed what it held, or failed to; past its wait, the
\* goroutine has returned or can no longer tell anybody.
Closed == \A c \in Callers : pc[c] \in {"await", "unlog"} /\ held[c].closer \in live => held[c].closer \in unclosed
Silenced ==
  \A c \in Callers : pc[c] = "unlog" /\ held[c].done # 0 =>
    run[held[c].done] \in {"creating", "created", "discard", "failing", "done"}

\* The goroutine of the current start is the one a Stop will wait for; while there is
\* no instance it is on its way to one.
Awaited == gen > 0 => run[gen] \in {"none", "done"} \/ done = gen
Filled ==
  active => /\ gen > 0
            /\ \/ closer = gen /\ gen \in live \cup unclosed
               \/ closer = 0 /\ run[gen] \in {"waiting", "dialled", "creating", "created", "failing"}

IInv == /\ Typed /\ Handed /\ Earlier /\ SlotIsFree /\ Made /\ Closed /\ Silenced
        /\ Awaited /\ Filled /\ NoOrphanInstance /\ SilentAfterStop

-----------------------------------------------------------------------------
(* The steps: the callers first, then the start goroutine. *)

USE MaxGenNat, OneStarter DEF Gens, Callers, At, To, In, Go, NoHeld, runnerVars, threadVars, callerVars, history

\* Stop takes what is registered over and leaves the slot empty.
LEMMA StopLockedKeeps ==
  ASSUME NEW c \in Callers, NEW kind \in {"start", "stop"}, IInv, StopLocked(c, kind)
  PROVE IInv'
<1> USE DEF StopLocked, Typed, IInv
<1>1. Typed'
  BY DEF Typed
<1>2. Handed'
  BY DEF Handed, SlotIsFree
<1>3. Earlier'
  BY DEF Handed, Earlier, SlotIsFree
<1>4. SlotIsFree'
  BY DEF Handed, Earlier, SlotIsFree
<1>5. Made'
  BY DEF Handed, SlotIsFree, Made
<1>6. Closed'
  BY DEF Handed, SlotIsFree, Made, Closed
<1>7. Silenced'
  BY DEF Handed, Earlier, SlotIsFree, Silenced
<1>8. Awaited'
  BY DEF Handed, SlotIsFree, Made, Awaited
<1>9. Filled'
  BY DEF Handed, Earlier, SlotIsFree, Made, Filled
<1>10. NoOrphanInstance'
  BY DEF Handed, Earlier, SlotIsFree, Made, Closed, NoOrphanInstance, Owned
<1>11. SilentAfterStop'
  BY DEF Handed, Earlier, SlotIsFree, Awaited, Silenced, SilentAfterStop
<1> QED
  BY <1>1, <1>2, <1>3, <1>4, <1>5, <1>6, <1>7, <1>8, <1>9, <1>10, <1>11

\* Only the instance the Stop holds can go away, or be left for good.
LEMMA StopTeardownKeeps ==
  ASSUME NEW c \in Callers, IInv, StopTeardown(c)
  PROVE IInv'
<1> USE DEF StopTeardown, Close, Typed, IInv
<1>1. Typed'
  <2>1. held[c].closer \in 0..MaxGen /\ held[c].stopWait \in 0..MaxGen
    OBVIOUS
  <2>2. live' \subseteq Gens /\ unclosed' \subseteq Gens /\ cancelled' \subseteq Gens
    <3>1. cancelled' \subseteq Gens
      <4> SUFFICES ASSUME NEW h \in cancelled', h \notin cancelled PROVE h \in Gens
        OBVIOUS
      <4>1. h = held[c].stopWait /\ h # 0
        OBVIOUS
      <4> QED
        BY <2>1, <4>1
    <3>2. CASE held[c].closer = 0
      BY <3>1, <3>2
    <3>3. CASE held[c].closer # 0 /\ Close(held[c].closer)
      <4>1. live' \subseteq live /\ unclosed' \subseteq unclosed \cup {held[c].closer}
        BY <3>3 DEF Close
      <4> QED
        BY <2>1, <3>1, <3>3, <4>1
    <3> QED
      BY <3>2, <3>3
  <2>3. err' \in [Callers -> {"none", "ok", "error"}] /\ pc' \in [Callers -> {"idle", "teardown", "await", "unlog", "accept"}]
    OBVIOUS
  <2> QED
    BY <2>2, <2>3
<1>2. Handed'
  BY DEF Handed, SlotIsFree
<1>3. Earlier'
  BY DEF Handed, Earlier, SlotIsFree
<1>4. SlotIsFree'
  BY DEF Handed, Earlier, SlotIsFree
<1>5. Made' /\ Closed' /\ Silenced'
  <2>1. held[c].closer # 0 => run[held[c].closer] # "created"
    BY DEF Made
  <2>2. live' \subseteq live /\ live \ live' \subseteq {held[c].closer} \ {0} /\ unclosed \subseteq unclosed'
    OBVIOUS
  <2>3. Made'
    BY <2>1, <2>2 DEF Made
  <2>4. held[c].closer \in live' => held[c].closer \in unclosed'
    <3>1. CASE held[c].closer = 0
      BY <3>1
    <3>2. CASE held[c].closer # 0 /\ Close(held[c].closer)
      BY <3>2 DEF Close
    <3> QED
      BY <3>1, <3>2
  <2>5. Closed'
    BY <2>2, <2>4 DEF Closed
  <2>6. Silenced'
    BY DEF Silenced
  <2> QED
    BY <2>3, <2>5, <2>6
<1>6. Awaited'
  BY DEF Handed, SlotIsFree, Made, Awaited
<1>7. Filled'
  BY DEF Handed, Earlier, SlotIsFree, Made, Filled
<1>8. NoOrphanInstance'
  <2> SUFFICES ASSUME NEW h \in live', h \notin unclosed' PROVE h \in Owned'
    BY DEF NoOrphanInstance
  <2>1. h \in live /\ h \notin unclosed
    OBVIOUS
  <2>2. h \in Owned
    BY <2>1 DEF NoOrphanInstance
  <2> QED
    BY <2>2 DEF Owned
<1>9. SilentAfterStop'
  BY DEF Handed, Earlier, SlotIsFree, Awaited, Silenced, SilentAfterStop
<1> QED
  BY <1>1, <1>2, <1>3, <1>4, <1>5, <1>6, <1>7, <1>8, <1>9

\* The goroutine has returned, or is in create or undoing it: it tells nobody.
LEMMA StopAwaitKeeps ==
  ASSUME NEW c \in Callers, IInv, StopAwait(c)
  PROVE IInv'
<1> USE DEF StopAwait, Outlasts, Typed, IInv
<1>1. Typed'
  BY DEF Typed
<1>2. Handed'
  BY DEF Handed, SlotIsFree
<1>3. Earlier'
  BY DEF Handed, Earlier, SlotIsFree
<1>4. SlotIsFree'
  BY DEF Handed, Earlier, SlotIsFree
<1>5. Made'
  BY DEF Handed, SlotIsFree, Made
<1>6. Closed'
  BY DEF Handed, SlotIsFree, Made, Closed
<1>7. Silenced'
  BY DEF Handed, Earlier, SlotIsFree, Silenced
<1>8. Awaited'
  BY DEF Handed, SlotIsFree, Made, Awaited
<1>9. Filled'
  BY DEF Handed, Earlier, SlotIsFree, Made, Filled
<1>10. NoOrphanInstance'
  BY DEF Handed, Earlier, SlotIsFree, Made, Closed, NoOrphanInstance, Owned
<1>11. SilentAfterStop'
  BY DEF Handed, Earlier, SlotIsFree, Awaited, Silenced, SilentAfterStop
<1> QED
  BY <1>1, <1>2, <1>3, <1>4, <1>5, <1>6, <1>7, <1>8, <1>9, <1>10, <1>11

\* What the Stop held is closed and its goroutine silent.
LEMMA StopReturnsKeeps ==
  ASSUME NEW c \in Callers, IInv, StopReturns(c)
  PROVE IInv'
<1> USE DEF StopReturns, Typed, IInv
<1>1. Typed'
  BY DEF Typed
<1>2. Handed'
  BY DEF Handed, SlotIsFree
<1>3. Earlier'
  BY DEF Handed, Earlier, SlotIsFree
<1>4. SlotIsFree'
  BY DEF Handed, Earlier, SlotIsFree
<1>5. Made'
  BY DEF Handed, SlotIsFree, Made
<1>6. Closed'
  BY DEF Handed, SlotIsFree, Made, Closed
<1>7. Silenced'
  BY DEF Handed, Earlier, SlotIsFree, Silenced
<1>8. Awaited'
  BY DEF Handed, SlotIsFree, Made, Awaited
<1>9. Filled'
  BY DEF Handed, Earlier, SlotIsFree, Made, Filled
<1>10. NoOrphanInstance'
  BY DEF Handed, Earlier, SlotIsFree, Made, Closed, NoOrphanInstance, Owned
<1>11. SilentAfterStop'
  <2> SUFFICES ASSUME NEW g \in Gens, run[g] \in {"tell_ready", "tell_stopped"}, g # gen
               PROVE \E d \in Callers : held'[d].done = g
    BY DEF SilentAfterStop
  <2>1. PICK d \in Callers : held[d].done = g
    BY DEF SilentAfterStop
  <2>2. d # c
    <3> SUFFICES ASSUME d = c PROVE FALSE
      OBVIOUS
    <3>1. pc[c] = "unlog" /\ held[c].done = g /\ g # 0
      BY <2>1
    <3> QED
      BY <3>1 DEF Silenced
  <2> QED
    BY <2>1, <2>2
<1> QED
  BY <1>1, <1>2, <1>3, <1>4, <1>5, <1>6, <1>7, <1>8, <1>9, <1>10, <1>11

\* Nothing was started.
LEMMA StartRefusedKeeps ==
  ASSUME NEW c \in Callers, IInv, StartRefused(c)
  PROVE IInv'
<1> USE DEF StartRefused, Typed, IInv
<1>1. Typed'
  BY DEF Typed
<1>2. Handed'
  BY DEF Handed, SlotIsFree
<1>3. Earlier'
  BY DEF Handed, Earlier, SlotIsFree
<1>4. SlotIsFree'
  BY DEF Handed, Earlier, SlotIsFree
<1>5. Made'
  BY DEF Handed, SlotIsFree, Made
<1>6. Closed'
  BY DEF Handed, SlotIsFree, Made, Closed
<1>7. Silenced'
  BY DEF Handed, Earlier, SlotIsFree, Silenced
<1>8. Awaited'
  BY DEF Handed, SlotIsFree, Made, Awaited
<1>9. Filled'
  BY DEF Handed, Earlier, SlotIsFree, Made, Filled
<1>10. NoOrphanInstance'
  BY DEF Handed, Earlier, SlotIsFree, Made, Closed, NoOrphanInstance, Owned
<1>11. SilentAfterStop'
  BY DEF Handed, Earlier, SlotIsFree, Awaited, Silenced, SilentAfterStop
<1> QED
  BY <1>1, <1>2, <1>3, <1>4, <1>5, <1>6, <1>7, <1>8, <1>9, <1>10, <1>11

\* The slot is as the caller's own Stop left it: no other caller fills it.
LEMMA StartAcceptedKeeps ==
  ASSUME NEW c \in Callers, IInv, StartAccepted(c)
  PROVE IInv'
<1> USE DEF StartAccepted, Typed, IInv
<1>1. Typed'
  BY DEF Typed
<1>2. Handed'
  BY DEF Handed, SlotIsFree
<1>3. Earlier'
  <2>1. \A d \in Callers : /\ held[d].closer # 0 => held[d].closer < gen + 1
                           /\ held[d].stopWait # 0 => held[d].stopWait < gen + 1
                           /\ held[d].done # 0 => held[d].done < gen + 1
    BY DEF Earlier
  <2>2. \A g \in cancelled : g < gen + 1
    BY DEF Earlier
  <2>3. \A g \in Gens : run'[g] = "discard" => run[g] = "discard"
    OBVIOUS
  <2>4. \A g \in Gens : run'[g] = "discard" => g < gen + 1
    BY <2>3 DEF Earlier
  <2> QED
    BY <2>1, <2>2, <2>4 DEF Earlier
<1>4. SlotIsFree'
  BY DEF Handed, Earlier, SlotIsFree
<1>5. Made'
  BY DEF Handed, SlotIsFree, Made
<1>6. Closed'
  BY DEF Handed, SlotIsFree, Made, Closed
<1>7. Silenced'
  BY DEF Handed, Earlier, SlotIsFree, Silenced
<1>8. Awaited'
  BY DEF Handed, SlotIsFree, Made, Awaited
<1>9. Filled'
  BY DEF Handed, Earlier, SlotIsFree, Made, Filled
<1>10. NoOrphanInstance'
  BY DEF Handed, Earlier, SlotIsFree, Made, Closed, NoOrphanInstance, Owned
<1>11. SilentAfterStop'
  BY DEF Handed, Earlier, SlotIsFree, Awaited, Silenced, SilentAfterStop
<1> QED
  BY <1>1, <1>2, <1>3, <1>4, <1>5, <1>6, <1>7, <1>8, <1>9, <1>10, <1>11

\* A cancelled start is of an earlier generation.
LEMMA WaitForSocksKeeps ==
  ASSUME NEW g \in Gens, IInv, WaitForSocks(g)
  PROVE IInv'
<1> USE DEF WaitForSocks, Moves, Typed, IInv
<1>1. Typed'
  BY DEF Typed
<1>2. Handed'
  BY DEF Handed, SlotIsFree
<1>3. Earlier'
  BY DEF Handed, Earlier, SlotIsFree
<1>4. SlotIsFree'
  BY DEF Handed, Earlier, SlotIsFree
<1>5. Made'
  BY DEF Handed, SlotIsFree, Made
<1>6. Closed'
  BY DEF Handed, SlotIsFree, Made, Closed
<1>7. Silenced'
  BY DEF Handed, Earlier, SlotIsFree, Silenced
<1>8. Awaited'
  BY DEF Handed, SlotIsFree, Made, Awaited
<1>9. Filled'
  BY DEF Handed, Earlier, SlotIsFree, Made, Filled
<1>10. NoOrphanInstance'
  BY DEF Handed, Earlier, SlotIsFree, Made, Closed, NoOrphanInstance, Owned
<1>11. SilentAfterStop'
  BY DEF Handed, Earlier, SlotIsFree, Awaited, Silenced, SilentAfterStop
<1> QED
  BY <1>1, <1>2, <1>3, <1>4, <1>5, <1>6, <1>7, <1>8, <1>9, <1>10, <1>11

\* Only the current start goes on to create.
LEMMA TakeLogKeeps ==
  ASSUME NEW g \in Gens, IInv, TakeLog(g)
  PROVE IInv'
<1> USE DEF TakeLog, Typed, IInv
<1>1. Typed'
  BY DEF Typed
<1>2. Handed'
  BY DEF Handed, SlotIsFree
<1>3. Earlier'
  BY DEF Handed, Earlier, SlotIsFree
<1>4. SlotIsFree'
  BY DEF Handed, Earlier, SlotIsFree
<1>5. Made'
  BY DEF Handed, SlotIsFree, Made
<1>6. Closed'
  BY DEF Handed, SlotIsFree, Made, Closed
<1>7. Silenced'
  BY DEF Handed, Earlier, SlotIsFree, Silenced
<1>8. Awaited'
  BY DEF Handed, SlotIsFree, Made, Awaited
<1>9. Filled'
  BY DEF Handed, Earlier, SlotIsFree, Made, Filled
<1>10. NoOrphanInstance'
  BY DEF Handed, Earlier, SlotIsFree, Made, Closed, NoOrphanInstance, Owned
<1>11. SilentAfterStop'
  BY DEF Handed, Earlier, SlotIsFree, Awaited, Silenced, SilentAfterStop
<1> QED
  BY <1>1, <1>2, <1>3, <1>4, <1>5, <1>6, <1>7, <1>8, <1>9, <1>10, <1>11

\* The new instance is in the hands of its goroutine.
LEMMA CreateKeeps ==
  ASSUME NEW g \in Gens, IInv, Create(g)
  PROVE IInv'
<1> USE DEF Create, Typed, IInv
<1>1. Typed'
  BY DEF Typed
<1>2. Handed'
  BY DEF Handed, SlotIsFree
<1>3. Earlier'
  BY DEF Handed, Earlier, SlotIsFree
<1>4. SlotIsFree'
  BY DEF Handed, Earlier, SlotIsFree
<1>5. Made' /\ Closed' /\ Silenced'
  <2>1. Made'
    BY DEF Made, Handed
  <2>2. \A c \in Callers : held[c].closer # 0 => held[c].closer # g
    BY DEF Made
  <2>3. Closed'
    BY <2>2 DEF Closed
  <2>4. Silenced'
    BY DEF Silenced
  <2> QED
    BY <2>1, <2>3, <2>4
<1>6. Awaited'
  BY DEF Handed, SlotIsFree, Made, Awaited
<1>7. Filled'
  BY DEF Handed, Earlier, SlotIsFree, Made, Filled
<1>8. NoOrphanInstance'
  <2> SUFFICES ASSUME NEW h \in live', h \notin unclosed' PROVE h \in Owned'
    BY DEF NoOrphanInstance
  <2>1. CASE h = g /\ h \notin live
    BY <2>1 DEF Owned
  <2>2. CASE h \in live
    <3>1. h \in Owned /\ h # g
      BY <2>2 DEF NoOrphanInstance, Made
    <3> QED
      BY <3>1 DEF Owned
  <2> QED
    BY <2>1, <2>2
<1>9. SilentAfterStop'
  BY DEF Handed, Earlier, SlotIsFree, Awaited, Silenced, SilentAfterStop
<1> QED
  BY <1>1, <1>2, <1>3, <1>4, <1>5, <1>6, <1>7, <1>8, <1>9

\* Only the current start empties the slot.
LEMMA FailKeeps ==
  ASSUME NEW g \in Gens, IInv, Fail(g)
  PROVE IInv'
<1> USE DEF Fail, Typed, IInv
<1>1. Typed'
  BY DEF Typed
<1>2. Handed'
  BY DEF Handed, SlotIsFree
<1>3. Earlier'
  BY DEF Handed, Earlier, SlotIsFree
<1>4. SlotIsFree'
  BY DEF Handed, Earlier, SlotIsFree
<1>5. Made'
  BY DEF Handed, SlotIsFree, Made
<1>6. Closed'
  BY DEF Handed, SlotIsFree, Made, Closed
<1>7. Silenced'
  BY DEF Handed, Earlier, SlotIsFree, Silenced
<1>8. Awaited'
  BY DEF Handed, SlotIsFree, Made, Awaited
<1>9. Filled'
  <2>1. CASE gen = g
    BY <2>1 DEF Filled
  <2>2. CASE gen # g
    <3>1. UNCHANGED <<active, closer, gen, live, unclosed>>
      BY <2>2
    <3>2. gen > 0 => run'[gen] = run[gen]
      BY <2>2
    <3> QED
      BY <3>1, <3>2 DEF Filled
  <2> QED
    BY <2>1, <2>2
<1>10. NoOrphanInstance'
  <2> SUFFICES ASSUME NEW h \in live', h \notin unclosed' PROVE h \in Owned'
    BY DEF NoOrphanInstance
  <2>1. h \in Owned
    BY DEF NoOrphanInstance
  <2> QED
    BY <2>1 DEF Owned
<1>11. SilentAfterStop'
  BY DEF Handed, Earlier, SlotIsFree, Awaited, Silenced, SilentAfterStop
<1> QED
  BY <1>1, <1>2, <1>3, <1>4, <1>5, <1>6, <1>7, <1>8, <1>9, <1>10, <1>11

\* The current start finds no instance registered.
LEMMA RegisterKeeps ==
  ASSUME NEW g \in Gens, IInv, Register(g)
  PROVE IInv'
<1> USE DEF Register, Typed, IInv
<1>1. Typed'
  BY DEF Typed
<1>2. Handed'
  BY DEF Handed, SlotIsFree
<1>3. Earlier'
  BY DEF Handed, Earlier, SlotIsFree
<1>4. SlotIsFree'
  BY DEF Handed, Earlier, SlotIsFree
<1>5. Made'
  BY DEF Handed, SlotIsFree, Made
<1>6. Closed'
  BY DEF Handed, SlotIsFree, Made, Closed
<1>7. Silenced'
  BY DEF Handed, Earlier, SlotIsFree, Silenced
<1>8. Awaited'
  BY DEF Handed, SlotIsFree, Made, Awaited
<1>9. Filled'
  BY DEF Handed, Earlier, SlotIsFree, Made, Filled
<1>10. NoOrphanInstance'
  BY DEF Handed, Earlier, SlotIsFree, Made, Closed, NoOrphanInstance, Owned
<1>11. SilentAfterStop'
  BY DEF Handed, Earlier, SlotIsFree, Awaited, Silenced, SilentAfterStop
<1> QED
  BY <1>1, <1>2, <1>3, <1>4, <1>5, <1>6, <1>7, <1>8, <1>9, <1>10, <1>11

\* The superseded start closes its own instance and no other.
LEMMA DiscardKeeps ==
  ASSUME NEW g \in Gens, IInv, Discard(g)
  PROVE IInv'
<1> USE DEF Discard, Close, Typed, IInv
<1>1. Typed'
  BY DEF Typed
<1>2. Handed'
  BY DEF Handed, SlotIsFree
<1>3. Earlier'
  BY DEF Handed, Earlier, SlotIsFree
<1>4. SlotIsFree'
  BY DEF Handed, Earlier, SlotIsFree
<1>5. Made'
  BY DEF Handed, SlotIsFree, Made
<1>6. Closed'
  BY DEF Handed, SlotIsFree, Made, Closed
<1>7. Silenced'
  BY DEF Handed, Earlier, SlotIsFree, Silenced
<1>8. Awaited'
  BY DEF Handed, SlotIsFree, Made, Awaited
<1>9. Filled'
  BY DEF Handed, Earlier, SlotIsFree, Made, Filled
<1>10. NoOrphanInstance'
  <2> SUFFICES ASSUME NEW h \in live', h \notin unclosed' PROVE h \in Owned'
    BY DEF NoOrphanInstance
  <2>1. h \in live /\ h \notin unclosed /\ h # g
    OBVIOUS
  <2>2. h \in Owned
    BY <2>1 DEF NoOrphanInstance
  <2> QED
    BY <2>1, <2>2 DEF Owned
<1>11. SilentAfterStop'
  BY DEF Handed, Earlier, SlotIsFree, Awaited, Silenced, SilentAfterStop
<1> QED
  BY <1>1, <1>2, <1>3, <1>4, <1>5, <1>6, <1>7, <1>8, <1>9, <1>10, <1>11

\* Only the current start goes on to tell.
LEMMA SendReadyKeeps ==
  ASSUME NEW g \in Gens, IInv, SendReady(g)
  PROVE IInv'
<1> USE DEF SendReady, Moves, Typed, IInv
<1>1. Typed'
  BY DEF Typed
<1>2. Handed'
  BY DEF Handed, SlotIsFree
<1>3. Earlier'
  BY DEF Handed, Earlier, SlotIsFree
<1>4. SlotIsFree'
  BY DEF Handed, Earlier, SlotIsFree
<1>5. Made'
  BY DEF Handed, SlotIsFree, Made
<1>6. Closed'
  BY DEF Handed, SlotIsFree, Made, Closed
<1>7. Silenced'
  BY DEF Handed, Earlier, SlotIsFree, Silenced
<1>8. Awaited'
  BY DEF Handed, SlotIsFree, Made, Awaited
<1>9. Filled'
  BY DEF Handed, Earlier, SlotIsFree, Made, Filled
<1>10. NoOrphanInstance'
  BY DEF Handed, Earlier, SlotIsFree, Made, Closed, NoOrphanInstance, Owned
<1>11. SilentAfterStop'
  BY DEF Handed, Earlier, SlotIsFree, Awaited, Silenced, SilentAfterStop
<1> QED
  BY <1>1, <1>2, <1>3, <1>4, <1>5, <1>6, <1>7, <1>8, <1>9, <1>10, <1>11

\* The event is out.
LEMMA EmitKeeps ==
  ASSUME NEW g \in Gens, IInv, Emit(g)
  PROVE IInv'
<1> USE DEF Emit, Typed, IInv
<1>1. Typed'
  BY DEF Typed
<1>2. Handed'
  BY DEF Handed, SlotIsFree
<1>3. Earlier'
  BY DEF Handed, Earlier, SlotIsFree
<1>4. SlotIsFree'
  BY DEF Handed, Earlier, SlotIsFree
<1>5. Made'
  BY DEF Handed, SlotIsFree, Made
<1>6. Closed'
  BY DEF Handed, SlotIsFree, Made, Closed
<1>7. Silenced'
  BY DEF Handed, Earlier, SlotIsFree, Silenced
<1>8. Awaited'
  BY DEF Handed, SlotIsFree, Made, Awaited
<1>9. Filled'
  BY DEF Handed, Earlier, SlotIsFree, Made, Filled
<1>10. NoOrphanInstance'
  BY DEF Handed, Earlier, SlotIsFree, Made, Closed, NoOrphanInstance, Owned
<1>11. SilentAfterStop'
  BY DEF Handed, Earlier, SlotIsFree, Awaited, Silenced, SilentAfterStop
<1> QED
  BY <1>1, <1>2, <1>3, <1>4, <1>5, <1>6, <1>7, <1>8, <1>9, <1>10, <1>11

\* Log lines change nothing of the slot.
LEMMA LogLineKeeps ==
  ASSUME NEW g \in Gens, IInv, LogLine(g)
  PROVE IInv'
<1> USE DEF LogLine, Typed, IInv
<1>1. Typed'
  BY DEF Typed
<1>2. Handed'
  BY DEF Handed, SlotIsFree
<1>3. Earlier'
  BY DEF Handed, Earlier, SlotIsFree
<1>4. SlotIsFree'
  BY DEF Handed, Earlier, SlotIsFree
<1>5. Made'
  BY DEF Handed, SlotIsFree, Made
<1>6. Closed'
  BY DEF Handed, SlotIsFree, Made, Closed
<1>7. Silenced'
  BY DEF Handed, Earlier, SlotIsFree, Silenced
<1>8. Awaited'
  BY DEF Handed, SlotIsFree, Made, Awaited
<1>9. Filled'
  BY DEF Handed, Earlier, SlotIsFree, Made, Filled
<1>10. NoOrphanInstance'
  BY DEF Handed, Earlier, SlotIsFree, Made, Closed, NoOrphanInstance, Owned
<1>11. SilentAfterStop'
  BY DEF Handed, Earlier, SlotIsFree, Awaited, Silenced, SilentAfterStop
<1> QED
  BY <1>1, <1>2, <1>3, <1>4, <1>5, <1>6, <1>7, <1>8, <1>9, <1>10, <1>11

\* Nor does their way out.
LEMMA EmitLineKeeps ==
  ASSUME NEW g \in Gens, IInv, EmitLine(g)
  PROVE IInv'
<1> USE DEF EmitLine, Typed, IInv
<1>1. Typed'
  BY DEF Typed
<1>2. Handed'
  BY DEF Handed, SlotIsFree
<1>3. Earlier'
  BY DEF Handed, Earlier, SlotIsFree
<1>4. SlotIsFree'
  BY DEF Handed, Earlier, SlotIsFree
<1>5. Made'
  BY DEF Handed, SlotIsFree, Made
<1>6. Closed'
  BY DEF Handed, SlotIsFree, Made, Closed
<1>7. Silenced'
  BY DEF Handed, Earlier, SlotIsFree, Silenced
<1>8. Awaited'
  BY DEF Handed, SlotIsFree, Made, Awaited
<1>9. Filled'
  BY DEF Handed, Earlier, SlotIsFree, Made, Filled
<1>10. NoOrphanInstance'
  BY DEF Handed, Earlier, SlotIsFree, Made, Closed, NoOrphanInstance, Owned
<1>11. SilentAfterStop'
  BY DEF Handed, Earlier, SlotIsFree, Awaited, Silenced, SilentAfterStop
<1> QED
  BY <1>1, <1>2, <1>3, <1>4, <1>5, <1>6, <1>7, <1>8, <1>9, <1>10, <1>11

\* Nothing changes.
LEMMA StutterKeeps ==
  ASSUME IInv, UNCHANGED vars
  PROVE IInv'
<1> USE DEF vars, IInv
<1>1. Typed' /\ Handed' /\ Earlier' /\ SlotIsFree'
  BY DEF Typed, Handed, Earlier, SlotIsFree
<1>2. Made' /\ Closed' /\ Silenced' /\ Awaited' /\ Filled'
  BY DEF Made, Closed, Silenced, Awaited, Filled
<1>3. NoOrphanInstance' /\ SilentAfterStop'
  BY DEF NoOrphanInstance, Owned, SilentAfterStop
<1> QED
  BY <1>1, <1>2, <1>3

\* An empty slot satisfies it.
LEMMA InitHolds == Init => IInv
<1> SUFFICES ASSUME Init PROVE IInv
  OBVIOUS
<1> USE DEF Init, IInv
<1>1. Typed /\ Handed /\ Earlier /\ SlotIsFree
  BY DEF Typed, Handed, Earlier, SlotIsFree
<1>2. Made /\ Closed /\ Silenced /\ Awaited /\ Filled
  BY DEF Made, Closed, Silenced, Awaited, Filled
<1>3. NoOrphanInstance /\ SilentAfterStop
  BY DEF NoOrphanInstance, SilentAfterStop
<1> QED
  BY <1>1, <1>2, <1>3

\* Every step keeps the invariant.
LEMMA NextKeeps ==
  ASSUME IInv, [Next]_vars
  PROVE IInv'
<1>1. CASE UNCHANGED vars
  BY <1>1, StutterKeeps
<1>2. CASE Rest
  BY <1>2, StutterKeeps DEF Rest
<1>3. ASSUME NEW c \in Callers, NEW kind \in {"start", "stop"}, StopLocked(c, kind) PROVE IInv'
  BY <1>3, StopLockedKeeps
<1>4. ASSUME NEW c \in Callers, Finish(c) PROVE IInv'
  BY <1>4, StopTeardownKeeps, StopAwaitKeeps, StopReturnsKeeps, StartRefusedKeeps, StartAcceptedKeeps DEF Finish
<1>5. ASSUME NEW g \in Gens, StartGoroutine(g) PROVE IInv'
  BY <1>5, WaitForSocksKeeps, TakeLogKeeps, CreateKeeps, FailKeeps, RegisterKeeps, DiscardKeeps, SendReadyKeeps, EmitKeeps
     DEF StartGoroutine
<1>6. ASSUME NEW g \in Gens, LogLine(g) \/ EmitLine(g) PROVE IInv'
  BY <1>6, LogLineKeeps, EmitLineKeeps
<1> QED
  BY <1>1, <1>2, <1>3, <1>4, <1>5, <1>6 DEF Next

-----------------------------------------------------------------------------
(* The slot is sound. *)

\* active is set only by Start, and cleared by Stop and by a start that failed.
LEMMA ActiveIsBoolean ==
  ASSUME active \in BOOLEAN, [Next]_vars
  PROVE active' \in BOOLEAN
<1>1. active' = active \/ active' = TRUE \/ active' = FALSE
  BY DEF Next, vars, Rest, StopLocked, Finish, StopTeardown, StopAwait, StopReturns, StartRefused, StartAccepted,
     StartGoroutine, WaitForSocks, Moves, TakeLog, Create, Fail, Register, Discard, SendReady, Emit, LogLine, EmitLine
<1> QED
  BY <1>1, Zenon

\* Every state is sound and typed (SlotSound, TypeOK): the slot, its instance and its events
\* belong to one start, for every number of generations and of concurrent callers of Stop.
THEOREM SlotIsSound == Spec => []SlotSound
<1>1. Init => IInv /\ active \in BOOLEAN
  BY InitHolds, Zenon DEF Init
<1>2. IInv /\ active \in BOOLEAN /\ [Next]_vars => (IInv /\ active \in BOOLEAN)'
  BY NextKeeps, ActiveIsBoolean, Zenon
<1>3. IInv /\ active \in BOOLEAN => SlotSound
  <2> SUFFICES ASSUME IInv, active \in BOOLEAN PROVE SlotSound
    OBVIOUS
  <2>1. TypeOK
    BY Zenon DEF IInv, Typed, TypeOK, Gens, Callers
  <2>2. ActiveMeansInstance
    BY DEF IInv, Typed, Filled, ActiveMeansInstance
  <2> QED
    BY <2>1, <2>2 DEF IInv, SlotSound
<1> QED
  BY <1>1, <1>2, <1>3, PTL DEF Spec

-----------------------------------------------------------------------------
(* The runner takes the steps of the slot its server relies on. *)

\* A step is one of the slot or leaves the slot alone: Start fills it when it is empty,
\* only its own goroutine brings it up, and Stop or a failed start empties it.
LEMMA StepOfSlot ==
  ASSUME IInv, [Next]_vars
  PROVE [Slot!Next]_(Slot!slotVars)
<1> USE DEF Slot!Next, Slot!Accept, Slot!Up, Slot!Empty, Slot!slotVars
<1>1. CASE UNCHANGED <<active, closer, accepted>>
  BY <1>1
<1>2. ASSUME NEW c \in Callers, NEW kind \in {"start", "stop"}, StopLocked(c, kind)
      PROVE [Slot!Next]_(Slot!slotVars)
  BY <1>2 DEF StopLocked
<1>3. ASSUME NEW c \in Callers, StartAccepted(c) PROVE [Slot!Next]_(Slot!slotVars)
  BY <1>3 DEF StartAccepted, IInv, SlotIsFree
<1>4. ASSUME NEW g \in Gens, Fail(g) PROVE [Slot!Next]_(Slot!slotVars)
  BY <1>4 DEF Fail
<1>5. ASSUME NEW g \in Gens, Register(g) PROVE [Slot!Next]_(Slot!slotVars)
  BY <1>5 DEF Register, IInv, Handed, Made
<1>6. ASSUME NEW c \in Callers, Finish(c), ~StartAccepted(c) PROVE UNCHANGED <<active, closer, accepted>>
  BY <1>6 DEF Finish, StopTeardown, StopAwait, StopReturns, StartRefused
<1>7. ASSUME NEW g \in Gens, StartGoroutine(g) \/ LogLine(g) \/ EmitLine(g), ~Fail(g), ~Register(g)
      PROVE UNCHANGED <<active, closer, accepted>>
  BY <1>7 DEF StartGoroutine, WaitForSocks, Moves, TakeLog, Create, Discard, SendReady, Emit, LogLine, EmitLine
<1>8. Rest \/ UNCHANGED vars => UNCHANGED <<active, closer, accepted>>
  BY DEF Rest, vars
<1> QED
  BY <1>1, <1>2, <1>3, <1>4, <1>5, <1>6, <1>7, <1>8 DEF Next

\* The safety of SlotSpec: every behaviour of the runner is one of TunSlot, its liveness
\* aside: no start that Stop superseded brings the slot up or empties it.
THEOREM RunnerTakesSlotSteps == Spec => Slot!Init /\ [][Slot!Next]_(Slot!slotVars)
<1>1. Init => Slot!Init
  BY DEF Init, Slot!Init
<1>2. Init => IInv
  BY InitHolds
<1>3. IInv /\ [Next]_vars => IInv' /\ [Slot!Next]_(Slot!slotVars)
  BY NextKeeps, StepOfSlot
<1> QED
  BY <1>1, <1>2, <1>3, PTL DEF Spec
=============================================================================
