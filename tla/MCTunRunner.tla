---------------------------- MODULE MCTunRunner ----------------------------
(* TunRunner for TLC: the server as the only starter, and a stopper beside it.  In
   behaviours of their own, HelperServer with two connections, for what must happen. *)
EXTENDS TunRunner

CONSTANTS server, other

CONSTANTS c1, c2, Conns, None, Sig, Self, Commands, Enders, MaxReqs
VARIABLES at, job, answer, up, bel, mu, down, tableDown, conns, tunOwner, tunGen, proxyOwner,
          prev, owes, errs, taken, closing, go, inst, applied, reqs, silenced, stray, orphan, helper, part
helperVars == <<at, job, answer, up, bel, mu, down, tableDown, conns, tunOwner, tunGen, proxyOwner,
                prev, owes, errs, taken, closing, go, inst, applied, reqs, silenced, stray, orphan, helper>>
HS == INSTANCE HelperServer WITH pc <- at, active <- taken, closer <- closing,
                                 CloseMayFail <- FALSE, RestoreMayFail <- FALSE

(* Each behaviour is of one of the two, and the other rests: nothing of it is due. *)
AllInit == Init /\ HS!Init /\ part \in {"runner", "server"}

AllNext == /\ part' = part
           /\ \/ part = "runner" /\ Next /\ UNCHANGED helperVars
              \/ part = "server" /\ HS!Next /\ UNCHANGED vars

\* The fairness of FairSpec and of HS!FairSpec, each for the one that moves.
AllSpec ==
  /\ AllInit /\ [][AllNext]_<<vars, helperVars, part>>
  /\ \A c \in Callers : WF_vars(part = "runner" /\ Finish(c))
  /\ \A g \in Gens : WF_vars(part = "runner" /\ StartGoroutine(g)) /\ WF_vars(part = "runner" /\ EmitLine(g))
  /\ \A c \in Conns : WF_helperVars(part = "server" /\ HS!Conn(c))
  /\ \A p \in HS!Procs : SF_helperVars(part = "server" /\ HS!Lock(p)) /\ WF_helperVars(part = "server" /\ HS!Section(p))
  /\ WF_helperVars(part = "server" /\ HS!Runner)

\* A client that is gone, however it went, has its lease released, and no request hangs:
\* each is answered in the end (handle, release, tunStart, route).
DeadManFires == HS!DeadManFires
Answered == HS!Answered
=============================================================================
