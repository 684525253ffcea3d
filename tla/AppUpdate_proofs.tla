-------------------------- MODULE AppUpdate_proofs --------------------------
(* Theorems about AppUpdate and the Installers under it, for every sequence of releases,
   every packaging, any number of checks, downloads, parts and sessions, and every bound on
   faults and installations. The invariant IInv has a part for each of: the ranges of the
   variables; what the records of calls know of the release they get; what a file under a
   final name holds; what each step of an installer has left of the installation it found;
   what is offered; and, while no call has met another, that everything from the progress
   dialog to the unpacked payload is the release the user asked for. *)
EXTENDS AppUpdate, FiniteSetTheorems, SequenceTheorems, TLAPS

-----------------------------------------------------------------------------
(* The inductive invariant. *)

\* The versions published; the steps of the script and of the updater; the steps of a
\* download between its first request and its end.
Known == {Releases[i].v : i \in DOMAIN Releases}
MacSteps == {"wait", "unzip", "aside", "swap", "try"}
ArchiveSteps == {"find", "extract", "clear", "move", "place"}
Getting == {"get", "body", "sums", "verify", "move", "copy"}

\* An installation, a downloaded file, and the records of an installer, a check and a download.
\* A download that verified its content has the content of the release whose sums it read.
Set == [PartsOf(route) -> Known \cup {None, Torn}]
File == [state : {"none", "half", "whole"}, v : Known \cup {None}, good : BOOLEAN]
JobSteps == MacSteps \cup ArchiveSteps
Job == {r \in [pc : {"idle", "ok", "failed", "killed"} \cup JobSteps, name : Files \cup {None},
               found : {<<>>} \cup Set, moved : BOOLEAN, part : Parts \cup {"none"}, alone : BOOLEAN] :
          r.pc \in JobSteps => r.name \in Files}
Check == {r \in [pc : {"idle", "ask", "name", "sums", "reply", "current", "over"}, v : Known \cup {None}] :
            r.pc \in {"name", "sums", "reply"} => r.v # None}
Download == {r \in [pc : {"idle", "start", "failed", "done", "over"} \cup Getting, dst : Files \cup {None},
                    v : Known \cup {None}, good : BOOLEAN, sums : Known \cup {None},
                    dlg : {"none", "polling", "stopped", "closed", "done"}, met : BOOLEAN] :
               /\ r.pc \in Getting => r.dst # None
               /\ r.pc \in {"verify", "move", "copy"} => r.sums # None /\ Rel(r.sums).sums
               /\ r.pc \in {"move", "copy"} => r.good /\ r.v = r.sums}

\* The variables stay in these ranges; checksums are kept only of releases that have some.
TypedInst == /\ route \in Routes /\ windows \in BOOLEAN
             /\ inst \in Set /\ started \in Set /\ backup \in Known \cup {None, Torn}
TypedStage == stage \in [v : Known \cup {None}, parts : SUBSET PartsOf(route)]
TypedPkg == pkg \in [Files -> File]
TypedJob == job \in Job
TypedCore ==
  /\ {url, name, sums} \subseteq Known \cup {None} /\ prog \in [done : BOOLEAN, err : BOOLEAN]
  /\ sums # None => Rel(sums).sums
TypedChecks == ck \in [Checks -> Check]
TypedDls == dl \in [Downloads -> Download]
TypedTmp == tmp \in [Downloads -> [dst : Files \cup {None}, v : Known \cup {None}]]
TypedGui ==
  /\ offers \subseteq Known /\ front \in Downloads \cup {None} /\ asked \in Known \cup {None}
  /\ quit \in {"no", "stopping", "gone"} /\ published \in 2..Len(Releases)
\* The user has asked for a release when a dialog polls for it or the exit will install it.
Asked == /\ \A c \in Downloads : dl[c].dlg = "polling" => asked # None
         /\ quit = "stopping" => asked # None
\* A finished download is whole, of a release that has SHA256SUMS.
KeptWell == \A n \in Files : Finished(n) => pkg[n].good /\ pkg[n].v # None /\ Rel(pkg[n].v).sums

\* An installer runs only after the program, has the steps of its packaging, and started
\* by an exit that stopped the core has no download beside it.
Alone ==
  /\ quit # "gone" => job = Idle
  /\ route = "appimage" => job = Idle
  /\ route = "mac" => job.pc \notin ArchiveSteps
  /\ route = "archive" => job.pc \notin MacSteps
  /\ job.pc = "idle" => job = Idle
  /\ job.pc # "idle" /\ job.alone => \A c \in Downloads : dl[c].pc \in {"idle", "over"}
\* The updater: until it moves something the installation is as found; from then on its
\* package is kept; what is no longer staged is in place.
OfArchive ==
  route = "archive" =>
    /\ job.pc \in {"find", "extract"} => ~job.moved
    /\ job.pc \in {"clear", "move", "place"} => job.moved /\ stage.v # None
    /\ job.pc # "idle" /\ ~job.moved => inst = job.found
    /\ job.pc \in {"clear", "move", "place", "failed", "killed"} /\ job.moved /\ job.alone
         => Finished(job.name) /\ job.name \in Files
    /\ job.pc \in {"move", "place"} => \A p \in Parts \ stage.parts : inst[p] = stage.v
    /\ job.pc = "clear" => stage.parts = Parts
    /\ job.pc = "place" => job.part \in stage.parts
    /\ job.pc = "ok" => Whole(inst) /\ job.moved
\* The script: the bundle is in place until it is moved aside, and the backup is the bundle
\* it found until the new one has stayed alive.
OfMac ==
  route = "mac" =>
    /\ ~job.moved
    /\ job.pc \in {"wait", "unzip", "aside"} => inst = job.found
    /\ job.pc \in {"aside", "swap"} => stage.v # None
    /\ job.pc = "swap" => inst = All(None)
    /\ job.pc \in {"swap", "try"} => All(backup) = job.found
    /\ job.pc = "try" => Whole(inst)
    /\ job.pc \in {"failed", "killed"} => inst = job.found \/ All(backup) = job.found
    /\ job.pc = "ok" => Whole(inst)
\* What runs was published.
RunsPublished == quit # "gone" => started["app"] \in Known

\* What a check found and what is offered is no older than what runs, and newer than a
\* release that runs, unless what runs has no version.
News(v) == Running.ver => Rank(Rel(v)) >= Rank(Running) + (IF Running.tag = Plain THEN 1 ELSE 0)
Newest == quit # "gone" => /\ \A v \in offers : News(v)
                           /\ \A k \in Checks : ck[k].pc \in {"name", "sums", "reply"} => News(ck[k].v)

\* While no call has met another: there is one call at most, no check beside it,
\* and the exit has not begun.
Unmet == \A c \in Downloads : ~dl[c].met
OneCall ==
  Unmet => \A c \in Live \cup Open :
    /\ \A d \in Live \cup Open : d = c
    /\ \A k \in Checks : ck[k].pc \in {"idle", "over"}
    /\ quit = "no" /\ asked # None
    /\ c \in Live => ~prog.done
\* What the call c gets is what the user asked for, under the name of that release.
IsOfAsked(c) ==
  /\ dl[c].pc \in {"start"} \cup Getting => url = asked
  /\ dl[c].pc \in Getting \ {"get"} => dl[c].v = asked
  /\ dl[c].pc \in Getting => name # None /\ dl[c].dst = FinalOf(name)
  /\ dl[c].pc \in {"move", "copy"} => name = asked
  /\ dl[c].pc = "done" => pkg[FinalOf(asked)].v = asked
  /\ dl[c].dlg = "polling" /\ prog.done => pkg[FinalOf(asked)].v = asked
OfAsked == Unmet => \A c \in Downloads : IsOfAsked(c)
\* And so is what the installer is handed, and what it unpacks.
Mine(n) == pkg[n].state = "none" \/ pkg[n].v = asked
Handed ==
  Unmet =>
    /\ quit = "stopping" => Mine(FinalOf(asked))
    /\ job.pc # "idle" => job.name \in Files /\ Mine(job.name)
    /\ job.pc \in {"clear", "move", "place", "aside", "swap"} => stage.v = asked

\* The invariant: everything above.
IInv ==
  /\ TypedInst /\ TypedStage /\ TypedPkg /\ TypedJob /\ TypedCore /\ TypedChecks /\ TypedDls /\ TypedTmp /\ TypedGui
  /\ Asked /\ KeptWell /\ Alone /\ OfArchive /\ OfMac /\ RunsPublished /\ Newest /\ OneCall /\ OfAsked /\ Handed
-----------------------------------------------------------------------------
(* Releases, versions, files and records. *)
USE DEF fixed, ivars, avars, core, gui, calls, vars, Well, Fault, Goto, CkStep, DlStep, DlGoto, DlSame,
        NoStage, NoFile, Drop

\* A release is a record.
LEMMA Release ==
  ASSUME NEW i \in DOMAIN Releases
  PROVE Releases[i] \in [v : Versions, ver : BOOLEAN, core : Nat, tag : 0..Plain, pre : BOOLEAN,
                       asset : BOOLEAN, sums : BOOLEAN]
<1> DEFINE R == [v : Versions, ver : BOOLEAN, core : Nat, tag : 0..Plain, pre : BOOLEAN,
                       asset : BOOLEAN, sums : BOOLEAN]
<1>1. Releases \in Seq(R)
  BY ReleasesAssumption
<1> HIDE DEF R
<1>2. Releases[i] \in R
  BY <1>1, LenProperties, ElementOfSeq
<1> QED
  BY <1>2 DEF R

\* Versions are numbers; None and Torn are none.
LEMMA KnownVersions == Known \subseteq Versions /\ None \notin Known /\ Torn \notin Known
BY InstallersAssumption, Release DEF Known, None, Torn

\* The record of a version is the one release of that version.
LEMMA RecordOf ==
  ASSUME NEW i \in DOMAIN Releases
  PROVE Rel(Releases[i].v) = Releases[i]
<1>1. \A r \in {Releases[j] : j \in DOMAIN Releases} : r.v = Releases[i].v => r = Releases[i]
  BY ReleasesAssumption
<1> QED
  BY <1>1 DEF Rel

\* A finished download has its file.
LEMMA FileOf ==
  ASSUME NEW v \in Known
  PROVE FinalOf(v) \in Files
BY DEF FinalOf, Files, Known

\* All parts of one version are an installation.
LEMMA AllTyped ==
  ASSUME NEW v \in Known \cup {None, Torn}
  PROVE All(v) \in Set
BY DEF All, Set

\* A file is written or dropped.
LEMMA FileWritten ==
  ASSUME TypedPkg, NEW n \in Files, NEW f \in File
  PROVE [pkg EXCEPT ![n] = f] \in [Files -> File] /\ [pkg EXCEPT ![n] = NoFile] \in [Files -> File]
BY DEF TypedPkg, File

\* Where a step of a call may take its record.
LEMMA CallEnds ==
  ASSUME NEW r \in Download
  PROVE /\ [r EXCEPT !.pc = "failed"] \in Download /\ [r EXCEPT !.pc = "done"] \in Download
        /\ [NoDl EXCEPT !.pc = "over", !.dlg = r.dlg, !.met = r.met] \in Download
BY DEF Download, Getting, NoDl

\* Where a call that asks for the release may take its record.
LEMMA CallAsks ==
  ASSUME NEW r \in Download
  PROVE /\ \A d \in Files : [r EXCEPT !.pc = "get", !.dst = d] \in Download
        /\ r.pc = "get" => \A v \in Known : [r EXCEPT !.pc = "body", !.v = v] \in Download
        /\ r.pc = "body" => /\ [r EXCEPT !.pc = "sums"] \in Download
                            /\ [r EXCEPT !.pc = "sums", !.good = FALSE] \in Download
<1> USE KnownVersions DEF Download, Getting
<1>1. ASSUME NEW d \in Files PROVE [r EXCEPT !.pc = "get", !.dst = d] \in Download
  <2>1. d # None
    BY DEF Files, OnePkg, None, Known
  <2> QED
    BY <2>1
<1>2. ASSUME r.pc = "get", NEW v \in Known PROVE [r EXCEPT !.pc = "body", !.v = v] \in Download
  BY <1>2
<1>3. ASSUME r.pc = "body" PROVE [r EXCEPT !.pc = "sums"] \in Download
  BY <1>3
<1>4. ASSUME r.pc = "body" PROVE [r EXCEPT !.pc = "sums", !.good = FALSE] \in Download
  BY <1>4
<1> QED
  BY <1>1, <1>2, <1>3, <1>4

\* Where a verified call may take its record.
LEMMA CallVerifies ==
  ASSUME NEW r \in Download
  PROVE /\ r.pc = "sums" => \A s \in Known : Rel(s).sums => [r EXCEPT !.pc = "verify", !.sums = s] \in Download
        /\ r.pc = "verify" /\ r.good /\ r.v = r.sums => [r EXCEPT !.pc = "move"] \in Download
        /\ r.pc = "move" => [r EXCEPT !.pc = "copy"] \in Download
BY KnownVersions DEF Download, Getting

\* The dialog of a call, and its meeting another.
LEMMA CallShown ==
  ASSUME NEW r \in Download
  PROVE /\ \A x \in {"none", "polling", "stopped", "closed", "done"} : [r EXCEPT !.dlg = x] \in Download
        /\ [r EXCEPT !.met = TRUE] \in Download
<1> USE DEF Download, Getting
<1>1. ASSUME NEW x \in {"none", "polling", "stopped", "closed", "done"} PROVE [r EXCEPT !.dlg = x] \in Download
  OBVIOUS
<1>2. [r EXCEPT !.met = TRUE] \in Download
  OBVIOUS
<1> QED
  BY <1>1, <1>2

\* A call that has not begun, and one that begins.
LEMMA CallFresh ==
  ASSUME NEW v \in Known, NEW b \in BOOLEAN
  PROVE /\ NoDl \in Download
        /\ [NoDl EXCEPT !.pc = "start", !.dlg = "polling", !.v = v, !.met = b] \in Download
BY DEF Download, Getting, NoDl

\* A call that has not begun, or ended with the program.
LEMMA CallOver ==
  ASSUME NEW b \in BOOLEAN
  PROVE NoDl \in Download /\ [NoDl EXCEPT !.pc = "over", !.dlg = "closed", !.met = b] \in Download
BY DEF Download, Getting, NoDl

\* A call changes its own record.
LEMMA CallWritten ==
  ASSUME TypedDls, NEW c \in Downloads, NEW r \in Download
  PROVE [dl EXCEPT ![c] = r] \in [Downloads -> Download] /\ dl[c] \in Download
BY DEF TypedDls

\* The records of checks.
LEMMA CheckMoves ==
  ASSUME NEW r \in Check
  PROVE /\ NoCheck \in Check /\ EndedCheck \in Check /\ [NoCheck EXCEPT !.pc = "ask"] \in Check
        /\ \A v \in Known : [r EXCEPT !.pc = "name", !.v = v] \in Check
        /\ [r EXCEPT !.pc = "current"] \in Check
        /\ r.pc = "name" => [r EXCEPT !.pc = "sums"] \in Check
        /\ r.pc = "sums" => [r EXCEPT !.pc = "reply"] \in Check
BY KnownVersions DEF Check, NoCheck, EndedCheck

\* The records of installers.
LEMMA JobMoves ==
  ASSUME NEW r \in Job
  PROVE /\ Idle \in Job
        /\ \A x \in {"ok", "failed", "killed"} : [r EXCEPT !.pc = x] \in Job
        /\ r.pc \in JobSteps => \A x \in JobSteps : [r EXCEPT !.pc = x] \in Job
        /\ r.pc \in JobSteps => [r EXCEPT !.pc = "clear", !.moved = TRUE] \in Job
BY DEF Job, JobSteps, MacSteps, ArchiveSteps, Idle

\* An installer takes a part in its hands.
LEMMA JobPlaces ==
  ASSUME NEW r \in Job, r.pc = "move", NEW p \in Parts
  PROVE [r EXCEPT !.pc = "place", !.part = p] \in Job
BY DEF Job, JobSteps, MacSteps, ArchiveSteps

\* An installer that starts.
LEMMA JobStarts ==
  ASSUME NEW n \in Files, NEW x \in JobSteps, NEW b \in BOOLEAN, inst \in Set
  PROVE [Idle EXCEPT !.pc = x, !.name = n, !.found = inst, !.alone = b] \in Job
BY DEF Job, Idle

\* Ranks are numbers, and the rank a file name gives is below the next version's.
LEMMA RankTyped ==
  ASSUME NEW i \in DOMAIN Releases
  PROVE LET r == Releases[i]
        IN /\ Rank(r) \in Nat /\ AssetRank(r) \in Nat
           /\ AssetRank(r) <= Rank(r) + 1
           /\ r.tag = Plain => AssetRank(r) < Rank(r)
BY Release DEF Rank, AssetRank, Plain

\* Of finitely many places one has the greatest rank.
LEMMA Greatest ==
  ASSUME NEW S, IsFiniteSet(S), S # {}, NEW f \in [S -> Nat]
  PROVE \E r \in S : \A o \in S : f[o] <= f[r]
<1> DEFINE Above(r) == {o \in S : f[o] > f[r]}
           T == {Above(r) : r \in S}
<1>1. \A r \in S : f[r] \in Nat
  OBVIOUS
<1>2. T \subseteq FiniteSubsetsOf(S) /\ T # {}
  <2>1. \A r \in S : Above(r) \subseteq S
    OBVIOUS
  <2>2. \A x \in SUBSET S : IsFiniteSet(x)
    BY FS_Subset
  <2>3. ASSUME NEW x \in T PROVE x \in FiniteSubsetsOf(S)
    <3>1. x \in SUBSET S
      BY <2>1, <2>3
    <3> HIDE DEF T
    <3> QED
      BY <2>2, <3>1 DEF FiniteSubsetsOf
  <2>4. T # {}
    <3>1. PICK r \in S : TRUE
      OBVIOUS
    <3>2. Above(r) \in T
      BY <3>1
    <3> HIDE DEF T
    <3> QED
      BY <3>2
  <2> HIDE DEF T
  <2> QED
    BY <2>3, <2>4
<1>3. PICK x \in T : \A y \in T : ~ (<<y, x>> \in StrictSubsetOrdering(S))
  <2> HIDE DEF T
  <2> QED
    BY <1>2, WFMin, FS_StrictSubsetOrderingWellFounded
<1>4. PICK r \in S : x = Above(r)
  BY <1>3
<1>5. SUFFICES ASSUME NEW o \in S, f[o] > f[r] PROVE FALSE
  BY <1>1, <1>4
<1>6. Above(o) \subseteq Above(r) /\ o \in Above(r) /\ o \notin Above(o)
  BY <1>1, <1>5
<1>7. <<Above(o), Above(r)>> \in StrictSubsetOrdering(S)
  BY <1>6 DEF StrictSubsetOrdering
<1> QED
  BY <1>3, <1>4, <1>7

\* Newer than what runs, when that has a version.
Better(r) == Running.ver => Newer(r, Running)

\* The answer of a check is a published release, newer by its file name than what runs
\* when that has a version.
LEMMA MatchingNewer ==
  ASSUME published \in 2..Len(Releases), NEW incl \in BOOLEAN, Answer(incl) # None
  PROVE \E i \in DOMAIN Releases : Releases[i].v = Answer(incl) /\ Better(Releases[i])
<1> DEFINE found == Candidates(published, Running, incl)
           f == [i \in found |-> IF Running.ver THEN AssetRank(Releases[i]) ELSE i]
           best == CHOOSE j \in found : \A i \in found : Before(i, j, Running)
<1>1. found # {} /\ Answer(incl) = Releases[best].v
  BY DEF Answer, Matching
<1>2. Len(Releases) \in Nat /\ DOMAIN Releases = 1..Len(Releases)
  BY ReleasesAssumption, LenProperties
<1>3. found \subseteq 1..published /\ found \subseteq DOMAIN Releases
  <2>1. found \subseteq Compatible(published, incl) /\ Compatible(published, incl) \subseteq 1..published
    BY DEF Candidates, Compatible
  <2>2. 1..published \subseteq DOMAIN Releases
    BY <1>2
  <2> HIDE DEF found
  <2> QED
    BY <2>1, <2>2
<1>4. IsFiniteSet(found)
  <2>1. published \in Int /\ IsFiniteSet(1..published)
    BY <1>2, FS_Interval
  <2> HIDE DEF found
  <2> QED
    BY <1>3, <2>1, FS_Subset
<1>5. \A i \in found : i \in Nat /\ AssetRank(Releases[i]) \in Nat
  BY <1>2, <1>3, RankTyped
<1>6. f \in [found -> Nat]
  BY <1>5
<1>7. PICK j \in found : \A i \in found : f[i] <= f[j]
  <2> HIDE DEF found, f
  <2> QED
    BY <1>1, <1>4, <1>6, Greatest
<1>8. \A i \in found : Before(i, j, Running)
  BY <1>5, <1>7 DEF Before
<1>9. best \in found
  <2> HIDE DEF found
  <2> QED
    BY <1>8
<1>10. Better(Releases[best])
  <2> HIDE DEF best
  <2> QED
    BY <1>9 DEF Candidates, Better
<1> HIDE DEF best
<1> QED
  BY <1>1, <1>3, <1>9, <1>10

\* The answer of a check is published.
LEMMA MatchingKnown ==
  ASSUME published \in 2..Len(Releases), NEW incl \in BOOLEAN
  PROVE Answer(incl) \in Known \cup {None}
<1>1. ASSUME Answer(incl) # None
      PROVE  \E i \in DOMAIN Releases : Releases[i].v = Answer(incl)
  BY <1>1, MatchingNewer
<1> QED
  BY <1>1 DEF Known

-----------------------------------------------------------------------------
(* What the steps leave alone. *)
\* An installer touches neither the packaging nor anything of a running program.
LEMMA InstallFrame == Install => UNCHANGED <<route, windows, installs, avars>>
BY DEF Install, InstallStep, Find, Extract, Clear, MoveNext, Place, CleanUp, Wait, Unzip, Aside, Swap, Try, Killed

\* A check touches no file and no exit.
LEMMA CheckFrame ==
  ASSUME NEW k, CheckBegins(k) \/ CkNext(k)
  PROVE UNCHANGED <<ivars, front, asked, quit, tmp, published, sessions>>
BY DEF CkNext, CheckBegins, CheckAnswered, CheckNames, CheckSums, CheckCurrent, CheckOffers

\* A download touches no installation, no other global of the core than the progress, no check.
LEMMA DownloadFrame ==
  ASSUME NEW c, DlNext(c)
  PROVE UNCHANGED <<route, windows, inst, stage, backup, job, started, installs, url, name, sums, gui, ck, published, sessions>>
BY DEF DlNext, DlStart, DlGet, DlBody, DlSums, DlVerify, DlMove, DlCopy, DlDone, DlAnswer

\* Every part of the installation and the backup hold a known version, or none, or are torn.
LEMMA InstTyped ==
  ASSUME TypedStage, TypedPkg, TypedJob, TypedGui, Asked, TypedInst, [Next]_vars
  PROVE TypedInst'
<1>1. ASSUME UNCHANGED <<route, windows, inst, backup, started>> PROVE TypedInst'
  BY <1>1 DEF TypedInst, Set, PartsOf
<1>2. CASE UNCHANGED vars
  BY <1>1, <1>2
<1>3. CASE Publish \/ CoreDies
  BY <1>1, <1>3 DEF Publish, CoreDies
<1>4. ASSUME NEW v \in offers, Later(v) PROVE TypedInst'
  BY <1>1, <1>4 DEF Later
<1>5. ASSUME NEW c \in Downloads, NEW v \in offers, Accept(c, v) PROVE TypedInst'
  BY <1>1, <1>5 DEF Accept
<1>6. ASSUME NEW c \in Downloads, Cancel(c) PROVE TypedInst'
  BY <1>1, <1>6 DEF Cancel
<1>7. CASE CoreStopped
  BY <1>7 DEF CoreStopped, TypedInst, Set, PartsOf
<1>8. CASE NewSession
  BY <1>8 DEF NewSession, TypedInst, Set, PartsOf
<1>9. ASSUME NEW c \in Downloads, Poll(c) PROVE TypedInst'
  <2>1. UNCHANGED <<route, windows, backup, started>>
    BY <1>9 DEF Poll, Staged
  <2>2. inst' = inst \/ (route = "appimage" /\ inst' = All(pkg[asked].v))
    <3>1. CASE dl' = [dl EXCEPT ![c].dlg = "stopped"] /\ UNCHANGED <<ivars, quit>>
      BY <3>1
    <3>2. CASE Staged
      BY <3>2 DEF Staged
    <3> QED
      BY <1>9, <3>1, <3>2 DEF Poll
  <2>3. asked \in Known
    BY <1>9 DEF Poll, Ticks, TypedGui, Asked
  <2>4. route = "appimage" => pkg[asked].v \in Known \cup {None, Torn}
    BY <2>3 DEF TypedPkg, File, Files, Known
  <2> QED
    BY <2>1, <2>2, <2>4, AllTyped DEF TypedInst, Set, PartsOf
<1>10. CASE Install /\ (Killed)
  BY <1>1, <1>10 DEF Killed
<1>11. CASE Install /\ Find
  BY <1>11 DEF Find, ArchiveFailed, TypedInst, Set, PartsOf
<1>12. CASE Install /\ Extract
  BY <1>12 DEF Extract, ArchiveFailed, TypedInst, Set, PartsOf
<1>13. CASE Install /\ Clear
  BY <1>13 DEF Clear, TypedInst, Set, PartsOf
<1>14. CASE Install /\ MoveNext
  BY <1>14 DEF MoveNext, ArchiveFailed, TypedInst, Set, PartsOf
<1>15. CASE Install /\ Place
  <2>1. UNCHANGED <<route, windows, backup>> /\ started' \in {started, inst}
    BY <1>15 DEF Place, ArchiveFailed
  <2>2. PICK x \in Known \cup {None, Torn} : inst' = [inst EXCEPT ![job.part] = x]
    BY <1>15 DEF Place, TypedStage
  <2> QED
    BY <2>1, <2>2 DEF TypedInst, Set, PartsOf
<1>16. CASE Install /\ CleanUp
  BY <1>16 DEF CleanUp, TypedInst, Set, PartsOf
<1>17. CASE Install /\ Wait
  BY <1>17 DEF Wait, Invalid, TypedInst, Set, PartsOf
<1>18. CASE Install /\ Unzip
  BY <1>18 DEF Unzip, FailBefore, TypedInst, Set, PartsOf
<1>19. CASE Install /\ Aside
  <2>1. UNCHANGED <<route, windows>> /\ started' \in {started, inst}
    BY <1>19 DEF Aside, FailBefore
  <2>2. inst' \in {inst, All(None)} /\ backup' \in {backup, inst["app"]}
    BY <1>19 DEF Aside
  <2>3. inst["app"] \in Known \cup {None, Torn}
    BY InstallersAssumption DEF TypedInst, Set, PartsOf
  <2> QED
    BY <2>1, <2>2, <2>3, AllTyped DEF TypedInst, Set, PartsOf
<1>20. CASE Install /\ Swap
  <2>1. UNCHANGED <<route, windows>> /\ started' \in {started, inst'}
    BY <1>20 DEF Swap, FailBefore
  <2>2. inst' \in {inst, All(stage.v), All(backup)} /\ backup' \in {backup, None}
    BY <1>20 DEF Swap
  <2>3. stage.v \in Known \cup {None, Torn} /\ backup \in Known \cup {None, Torn}
    BY DEF TypedInst, TypedStage
  <2>4. inst' \in Set
    BY <2>2, <2>3, AllTyped DEF TypedInst
  <2> QED
    BY <2>1, <2>2, <2>4 DEF TypedInst, Set, PartsOf
<1>21. CASE Install /\ Try
  <2>1. UNCHANGED <<route, windows>> /\ started' \in {started, inst'}
    BY <1>21 DEF Try
  <2>2. inst' \in {inst, All(None), All(backup)} /\ backup' \in {backup, None}
    BY <1>21 DEF Try
  <2>3. backup \in Known \cup {None, Torn}
    BY DEF TypedInst
  <2>4. inst' \in Set
    BY <2>2, <2>3, AllTyped DEF TypedInst
  <2> QED
    BY <2>1, <2>2, <2>4 DEF TypedInst, Set, PartsOf
<1>22. ASSUME NEW k \in Checks, CheckBegins(k) \/ CkNext(k) PROVE TypedInst'
  BY <1>1, <1>22, CheckFrame
<1>23. ASSUME NEW c \in Downloads, DlNext(c) PROVE TypedInst'
  BY <1>1, <1>23, DownloadFrame
<1> QED
  BY <1>2, <1>3, <1>4, <1>5, <1>6, <1>7, <1>8, <1>9, <1>10, <1>11, <1>12, <1>13, <1>14, <1>15, <1>16, <1>17, <1>18,
     <1>19, <1>20, <1>21, <1>22, <1>23 DEF Next, Install, InstallStep

\* Whatever an installer does, it stays with its file and its kind of steps, and drops that file at most.
LEMMA JobAdvances ==
  ASSUME TypedStage, TypedJob, Install
  PROVE /\ job.pc \in JobSteps /\ job.name \in Files /\ job' \in Job /\ job'.alone = job.alone
        /\ job'.pc # "idle" /\ (job'.pc \in MacSteps => job.pc \in MacSteps)
        /\ (job'.pc \in ArchiveSteps => job.pc \in ArchiveSteps)
        /\ pkg' \in {pkg, [pkg EXCEPT ![job.name] = NoFile]}
<1> DEFINE Ends == \E x \in {"ok", "failed", "killed"} : job' = [job EXCEPT !.pc = x]
           Goes(S) == job.pc \in S /\ \E x \in S : job' = [job EXCEPT !.pc = x]
           Extracts == job.pc = "extract" /\ job' = [job EXCEPT !.pc = "clear", !.moved = TRUE]
           Takes == job.pc = "move" /\ \E p \in Parts : job' = [job EXCEPT !.pc = "place", !.part = p]
<1>1. job \in Job /\ job.pc \in JobSteps /\ job.name \in Files
  BY DEF TypedJob, Job, JobSteps, MacSteps, ArchiveSteps, Install, InstallStep, Find, Extract, Clear, MoveNext, Place,
         CleanUp, Wait, Unzip, Aside, Swap, Try, Killed, Busy
<1>2. \/ job' = job \/ Ends \/ Goes(MacSteps) \/ Goes(ArchiveSteps) \/ Extracts \/ Takes
  <2>1. CASE Find \/ Extract
    BY <2>1 DEF Find, Extract, ArchiveFailed, ArchiveSteps
  <2>2. CASE Clear \/ Place \/ CleanUp
    BY <2>2 DEF Clear, Place, CleanUp, ArchiveFailed, ArchiveSteps
  <2>3. CASE MoveNext
    <3>1. stage.parts \subseteq Parts
      BY InstallersAssumption DEF TypedStage, PartsOf
    <3> QED
      BY <2>3, <3>1 DEF MoveNext, ArchiveFailed
  <2>4. CASE Wait \/ Unzip
    BY <2>4 DEF Wait, Unzip, FailBefore, MacSteps
  <2>5. CASE Aside \/ Swap \/ Try
    BY <2>5 DEF Aside, Swap, Try, FailBefore, MacSteps
  <2>6. CASE Killed
    BY <2>6 DEF Killed
  <2> QED
    BY <2>1, <2>2, <2>3, <2>4, <2>5, <2>6 DEF Install, InstallStep
<1>3. pkg' \in {pkg, [pkg EXCEPT ![job.name] = NoFile]}
  BY DEF Install, InstallStep, Find, Extract, Clear, MoveNext, Place, CleanUp, Wait, Unzip, Aside, Swap, Try,
     FailBefore, Killed
<1>4. job' \in Job
  <2>1. Ends => job' \in Job
    BY <1>1, JobMoves
  <2>2. Goes(MacSteps) \/ Goes(ArchiveSteps) \/ Extracts => job' \in Job
    BY <1>1, JobMoves DEF JobSteps, ArchiveSteps
  <2>3. Takes => job' \in Job
    BY <1>1, JobPlaces
  <2> QED
    BY <1>1, <1>2, <2>1, <2>2, <2>3
<1>5. /\ job'.pc # "idle" /\ (job'.pc \in MacSteps => job.pc \in MacSteps)
      /\ (job'.pc \in ArchiveSteps => job.pc \in ArchiveSteps) /\ job'.alone = job.alone
  BY <1>1, <1>2 DEF Job, JobSteps, MacSteps, ArchiveSteps
<1> QED
  BY <1>1, <1>3, <1>4, <1>5

\* The payload is parts of a known version.
LEMMA StageTyped ==
  ASSUME TypedInst, TypedPkg, TypedJob, Alone, TypedStage, [Next]_vars
  PROVE TypedStage'
<1>1. ASSUME UNCHANGED <<route, stage>> PROVE TypedStage'
  BY <1>1 DEF TypedStage, PartsOf
<1>2. CASE UNCHANGED vars
  BY <1>1, <1>2
<1>3. CASE Publish \/ CoreStopped \/ CoreDies \/ NewSession
  BY <1>1, <1>3 DEF Publish, CoreStopped, CoreDies, NewSession
<1>4. ASSUME NEW v \in offers, Later(v) PROVE TypedStage'
  BY <1>1, <1>4 DEF Later
<1>5. ASSUME NEW c \in Downloads, NEW v \in offers, Accept(c, v) PROVE TypedStage'
  BY <1>1, <1>5 DEF Accept
<1>6. ASSUME NEW c \in Downloads, Poll(c) \/ Cancel(c) PROVE TypedStage'
  BY <1>1, <1>6 DEF Poll, Cancel
<1>7. CASE Install /\ (Clear \/ MoveNext \/ Killed)
  BY <1>1, <1>7 DEF Clear, MoveNext, Killed
<1>8. CASE Install /\ Find
  BY <1>8 DEF Find, ArchiveFailed, TypedStage
<1>9. CASE Install /\ Extract
  <2>1. \/ UNCHANGED <<route, stage>>
        \/ route' = route /\ stage' = [v |-> None, parts |-> {}]
        \/ route' = route /\ stage' = [v |-> pkg[job.name].v, parts |-> Parts]
    BY <1>9 DEF Extract, ArchiveFailed
  <2>2. pkg[job.name].v \in Known \cup {None}
    BY <1>9 DEF Extract, TypedJob, Job, TypedPkg, File, JobSteps, MacSteps, ArchiveSteps
  <2>3. Parts \subseteq PartsOf(route)
    BY <1>9, InstallersAssumption DEF Extract, Alone, Idle, PartsOf, TypedInst, MacSteps, ArchiveSteps
  <2> QED
    BY <2>1, <2>2, <2>3 DEF TypedStage, PartsOf
<1>10. CASE Install /\ Place
  BY <1>10 DEF Place, ArchiveFailed, TypedStage
<1>11. CASE Install /\ CleanUp
  BY <1>11 DEF CleanUp, TypedStage
<1>12. CASE Install /\ Wait
  BY <1>12 DEF Wait, Invalid, TypedStage
<1>13. CASE Install /\ Unzip
  <2>1. \/ UNCHANGED <<route, stage>>
        \/ route' = route /\ stage' = [v |-> None, parts |-> {}]
        \/ route' = route /\ stage' = [v |-> pkg[job.name].v, parts |-> {"app"}]
    BY <1>13 DEF Unzip, FailBefore
  <2>2. pkg[job.name].v \in Known \cup {None}
    BY <1>13 DEF Unzip, TypedJob, Job, TypedPkg, File, JobSteps, MacSteps, ArchiveSteps
  <2>3. {"app"} \subseteq PartsOf(route)
    BY <1>13, InstallersAssumption DEF Unzip, Alone, Idle, PartsOf, TypedInst, MacSteps, ArchiveSteps
  <2> QED
    BY <2>1, <2>2, <2>3 DEF TypedStage, PartsOf
<1>14. CASE Install /\ Aside
  BY <1>14 DEF Aside, FailBefore, TypedStage
<1>15. CASE Install /\ Swap
  BY <1>15 DEF Swap, FailBefore, TypedStage
<1>16. CASE Install /\ Try
  BY <1>16 DEF Try, TypedStage
<1>17. ASSUME NEW k \in Checks, CheckBegins(k) \/ CkNext(k) PROVE TypedStage'
  BY <1>1, <1>17, CheckFrame
<1>18. ASSUME NEW c \in Downloads, DlNext(c) PROVE TypedStage'
  BY <1>1, <1>18, DownloadFrame
<1> QED
  BY <1>2, <1>3, <1>4, <1>5, <1>6, <1>7, <1>8, <1>9, <1>10, <1>11, <1>12, <1>13, <1>14, <1>15, <1>16, <1>17,
     <1>18 DEF Next, Install, InstallStep

\* The downloaded files stay in their ranges.
LEMMA PkgTyped ==
  ASSUME TypedStage, TypedJob, TypedDls, TypedGui, Asked, TypedPkg, [Next]_vars
  PROVE TypedPkg'
<1>1. ASSUME UNCHANGED <<route, pkg>> PROVE TypedPkg'
  BY <1>1 DEF TypedPkg, Files
<1>2. CASE UNCHANGED vars
  BY <1>1, <1>2
<1>3. CASE Publish \/ CoreStopped \/ CoreDies \/ NewSession
  BY <1>1, <1>3 DEF Publish, CoreStopped, CoreDies, NewSession
<1>4. ASSUME NEW v \in offers, Later(v) PROVE TypedPkg'
  BY <1>1, <1>4 DEF Later
<1>5. ASSUME NEW c \in Downloads, NEW v \in offers, Accept(c, v) PROVE TypedPkg'
  BY <1>1, <1>5 DEF Accept
<1>6. ASSUME NEW c \in Downloads, Cancel(c) PROVE TypedPkg'
  BY <1>1, <1>6 DEF Cancel
<1>7. ASSUME NEW c \in Downloads, Poll(c) PROVE TypedPkg'
  <2>1. route' = route /\ Files' = Files
    BY <1>7 DEF Poll, Staged, Files
  <2>2. pkg' = pkg \/ (route = "appimage" /\ pkg' = [pkg EXCEPT ![asked] = NoFile])
    <3>1. CASE dl' = [dl EXCEPT ![c].dlg = "stopped"] /\ UNCHANGED <<ivars, quit>>
      BY <3>1
    <3>2. CASE Staged
      BY <3>2 DEF Staged
    <3> QED
      BY <1>7, <3>1, <3>2 DEF Poll
  <2>3. asked \in Known
    BY <1>7 DEF Poll, Ticks, TypedGui, Asked
  <2>4. route = "appimage" => asked \in Files
    BY <2>3 DEF Files, Known
  <2> QED
    BY <2>1, <2>2, <2>4, FileWritten DEF TypedPkg, File
<1>8. CASE Install
  <2>1. UNCHANGED route /\ Files' = Files
    BY <1>8, InstallFrame DEF Files
  <2> QED
    BY <1>8, <2>1, JobAdvances, FileWritten DEF TypedPkg, File
<1>9. ASSUME NEW k \in Checks, CheckBegins(k) \/ CkNext(k) PROVE TypedPkg'
  BY <1>1, <1>9, CheckFrame
<1>10. ASSUME NEW c \in Downloads, DlStart(c) \/ DlGet(c) \/ DlBody(c) \/ DlSums(c) \/ DlVerify(c) \/ DlDone(c) \/ DlAnswer(c) PROVE TypedPkg'
  BY <1>1, <1>10 DEF DlStart, DlGet, DlBody, DlSums, DlVerify, DlDone, DlAnswer
<1>11. ASSUME NEW c \in Downloads, DlMove(c) \/ DlCopy(c) PROVE TypedPkg'
  <2>1. \/ pkg' \in {pkg, [pkg EXCEPT ![dl[c].dst] = NoFile]}
        \/ \E x \in {"half", "whole"} : pkg' = [pkg EXCEPT ![dl[c].dst] = [state |-> x, v |-> dl[c].v, good |-> dl[c].good]]
    BY <1>11 DEF DlMove, DlCopy, Put
  <2>2. dl[c] \in Download
    BY DEF TypedDls
  <2>3. dl[c].dst \in Files /\ \A x \in {"half", "whole"} : [state |-> x, v |-> dl[c].v, good |-> dl[c].good] \in File
    BY <1>11, <2>2 DEF DlMove, DlCopy, Download, Getting, File
  <2>4. route' = route /\ Files' = Files
    BY <1>11 DEF DlMove, DlCopy, Files
  <2>5. pkg' \in [Files -> File]
    BY <2>1, <2>3, FileWritten DEF TypedPkg
  <2> QED
    BY <2>4, <2>5 DEF TypedPkg, File
<1> QED
  BY <1>2, <1>3, <1>4, <1>5, <1>6, <1>7, <1>8, <1>9, <1>10, <1>11 DEF Next, Install, InstallStep, DlNext

\* The installer stays at a step of its own, with a file to install until it ends.
LEMMA JobTyped ==
  ASSUME TypedInst, TypedStage, TypedGui, Asked, TypedJob, [Next]_vars
  PROVE TypedJob'
<1>1. ASSUME UNCHANGED <<route, job>> PROVE TypedJob'
  BY <1>1 DEF TypedJob, Job, Files, Set, PartsOf
<1>2. CASE UNCHANGED vars
  BY <1>1, <1>2
<1>3. CASE Publish \/ CoreDies
  BY <1>1, <1>3 DEF Publish, CoreDies
<1>4. ASSUME NEW v \in offers, Later(v) PROVE TypedJob'
  BY <1>1, <1>4 DEF Later
<1>5. ASSUME NEW c \in Downloads, NEW v \in offers, Accept(c, v) PROVE TypedJob'
  BY <1>1, <1>5 DEF Accept
<1>6. ASSUME NEW c \in Downloads, Cancel(c) PROVE TypedJob'
  BY <1>1, <1>6 DEF Cancel
<1>7. CASE CoreStopped
  <2>1. Job' = Job
    BY <1>7 DEF CoreStopped, Job, Files, Set, PartsOf
  <2>2. \/ job' = job
        \/ \E x \in {"wait", "find"} : job' = [Idle EXCEPT !.pc = x, !.name = FinalOf(asked), !.found = inst, !.alone = TRUE]
    BY <1>7 DEF CoreStopped, Launch
  <2>3. FinalOf(asked) \in Files
    BY <1>7, FileOf DEF CoreStopped, TypedGui, Asked
  <2> QED
    BY <2>1, <2>2, <2>3, JobStarts DEF TypedJob, TypedInst, JobSteps, MacSteps, ArchiveSteps
<1>8. CASE NewSession
  <2>1. job' = Idle /\ Job' = Job
    BY <1>8 DEF NewSession, Job, Files, Set, PartsOf
  <2> QED
    BY <2>1, JobMoves DEF TypedJob
<1>9. ASSUME NEW c \in Downloads, Poll(c) PROVE TypedJob'
  <2>1. Job' = Job
    BY <1>9 DEF Poll, Staged, Job, Files, Set, PartsOf
  <2>2. \/ job' = job
        \/ \E x \in {"wait", "find"} : job' = [Idle EXCEPT !.pc = x, !.name = FinalOf(asked), !.found = inst, !.alone = FALSE]
    <3>1. CASE UNCHANGED <<ivars, quit>>
      BY <3>1
    <3>2. CASE Staged
      BY <3>2 DEF Staged, Launch
    <3> QED
      BY <1>9, <3>1, <3>2 DEF Poll
  <2>3. FinalOf(asked) \in Files
    BY <1>9, FileOf DEF Poll, Ticks, TypedGui, Asked
  <2> QED
    BY <2>1, <2>2, <2>3, JobStarts DEF TypedJob, TypedInst, JobSteps, MacSteps, ArchiveSteps
<1>10. CASE Install
  <2>1. Job' = Job
    BY <1>10, InstallFrame DEF Job, Files, Set, PartsOf
  <2> QED
    BY <1>10, <2>1, JobAdvances DEF TypedJob
<1>11. ASSUME NEW k \in Checks, CheckBegins(k) \/ CkNext(k) PROVE TypedJob'
  BY <1>1, <1>11, CheckFrame
<1>12. ASSUME NEW c \in Downloads, DlNext(c) PROVE TypedJob'
  BY <1>1, <1>12, DownloadFrame
<1> QED
  BY <1>2, <1>3, <1>4, <1>5, <1>6, <1>7, <1>8, <1>9, <1>10, <1>11, <1>12 DEF Next, Install, InstallStep

\* The globals of the core name published releases, and checksums only where there are some.
LEMMA CoreTyped ==
  ASSUME TypedChecks, TypedDls, TypedGui, TypedCore, [Next]_vars
  PROVE TypedCore'
<1>1. ASSUME UNCHANGED <<url, name, sums, prog>> PROVE TypedCore'
  BY <1>1 DEF TypedCore
<1>2. CASE UNCHANGED vars
  BY <1>1, <1>2
<1>3. CASE Publish \/ CoreStopped
  BY <1>1, <1>3 DEF Publish, CoreStopped
<1>4. ASSUME NEW v \in offers, Later(v) PROVE TypedCore'
  BY <1>1, <1>4 DEF Later
<1>5. ASSUME NEW c \in Downloads, NEW v \in offers, Accept(c, v) PROVE TypedCore'
  BY <1>1, <1>5 DEF Accept
<1>6. ASSUME NEW c \in Downloads, Poll(c) \/ Cancel(c) PROVE TypedCore'
  BY <1>1, <1>6 DEF Poll, Cancel
<1>7. CASE CoreDies
  BY <1>7 DEF CoreDies, TypedCore, NoProg
<1>8. CASE NewSession
  BY <1>8 DEF NewSession, Ended, TypedCore, NoProg
<1>9. CASE Install
  BY <1>1, <1>9, InstallFrame
<1>10. ASSUME NEW k \in Checks, CheckOffers(k) PROVE TypedCore'
  BY <1>1, <1>10 DEF CheckOffers
<1>11. ASSUME NEW k \in Checks, CheckBegins(k) PROVE TypedCore'
  BY <1>11 DEF CheckBegins, TypedCore, NoProg
<1>12. ASSUME NEW k \in Checks, CheckAnswered(k) PROVE TypedCore'
  <2>1. UNCHANGED <<name, sums, prog>> /\ \E incl \in BOOLEAN : url' \in {url, None, Answer(incl)}
    BY <1>12 DEF CheckAnswered
  <2> QED
    BY <2>1, MatchingKnown DEF TypedCore, TypedGui
<1>13. ASSUME NEW k \in Checks, CheckNames(k) PROVE TypedCore'
  <2>1. ck[k] \in Check
    BY DEF TypedChecks
  <2> QED
    BY <1>13, <2>1 DEF CheckNames, Check, TypedCore
<1>14. ASSUME NEW k \in Checks, CheckSums(k) PROVE TypedCore'
  <2>1. ck[k] \in Check
    BY DEF TypedChecks
  <2>2. UNCHANGED <<url, name, prog>> /\ ck[k].v \in Known /\ sums' = IF Rel(ck[k].v).sums THEN ck[k].v ELSE None
    BY <1>14, <2>1 DEF CheckSums, Check
  <2> QED
    BY <2>2 DEF TypedCore
<1>15. ASSUME NEW k \in Checks, CheckCurrent(k) PROVE TypedCore'
  BY <1>15 DEF CheckCurrent, TypedCore
<1>16. ASSUME NEW c \in Downloads, DlAnswer(c) PROVE TypedCore'
  BY <1>1, <1>16 DEF DlAnswer
<1>17. ASSUME NEW c \in Downloads, DlStart(c) PROVE TypedCore'
  <2>1. UNCHANGED <<url, name, sums>> /\ prog' \in {NoProg, [NoProg EXCEPT !.err = TRUE]}
    BY <1>17 DEF DlStart
  <2>2. NoProg \in [done : BOOLEAN, err : BOOLEAN] /\ [NoProg EXCEPT !.err = TRUE] \in [done : BOOLEAN, err : BOOLEAN]
    BY DEF NoProg
  <2>3. prog' \in [done : BOOLEAN, err : BOOLEAN]
    BY <2>1, <2>2
  <2> QED
    BY <2>1, <2>3 DEF TypedCore
<1>18. ASSUME NEW c \in Downloads, DlGet(c) PROVE TypedCore'
  BY <1>18 DEF DlGet, DlFails, TypedCore
<1>19. ASSUME NEW c \in Downloads, DlBody(c) PROVE TypedCore'
  BY <1>19 DEF DlBody, DlFails, TypedCore
<1>20. ASSUME NEW c \in Downloads, DlSums(c) PROVE TypedCore'
  BY <1>20 DEF DlSums, DlFails, TypedCore
<1>21. ASSUME NEW c \in Downloads, DlVerify(c) PROVE TypedCore'
  BY <1>21 DEF DlVerify, DlFails, TypedCore
<1>22. ASSUME NEW c \in Downloads, DlMove(c) PROVE TypedCore'
  BY <1>22 DEF DlMove, DlFails, Put, TypedCore
<1>23. ASSUME NEW c \in Downloads, DlCopy(c) PROVE TypedCore'
  BY <1>23 DEF DlCopy, DlFails, Put, TypedCore
<1>24. ASSUME NEW c \in Downloads, DlDone(c) PROVE TypedCore'
  BY <1>24 DEF DlDone, Over, TypedCore
<1> QED
  BY <1>2, <1>3, <1>4, <1>5, <1>6, <1>7, <1>8, <1>9, <1>10, <1>11, <1>12, <1>13, <1>14, <1>15, <1>16, <1>17, <1>18,
     <1>19, <1>20, <1>21, <1>22, <1>23, <1>24 DEF Next, CkNext, DlNext

\* A check has found a published release until it is answered.
LEMMA ChecksTyped ==
  ASSUME TypedGui, TypedChecks, [Next]_vars
  PROVE TypedChecks'
<1>1. ASSUME UNCHANGED <<ck>> PROVE TypedChecks'
  BY <1>1 DEF TypedChecks
<1>2. CASE UNCHANGED vars
  BY <1>1, <1>2
<1>3. CASE Publish
  BY <1>1, <1>3 DEF Publish
<1>4. ASSUME NEW v \in offers, Later(v) PROVE TypedChecks'
  BY <1>1, <1>4 DEF Later
<1>5. ASSUME NEW c \in Downloads, NEW v \in offers, Accept(c, v) PROVE TypedChecks'
  BY <1>1, <1>5 DEF Accept
<1>6. ASSUME NEW c \in Downloads, Poll(c) \/ Cancel(c) PROVE TypedChecks'
  BY <1>1, <1>6 DEF Poll, Cancel
<1>7. CASE CoreStopped \/ CoreDies \/ NewSession
  <2>1. ck' = [k \in Checks |-> IF ck[k].pc = "idle" THEN ck[k] ELSE EndedCheck]
    BY <1>7 DEF CoreStopped, CoreDies, NewSession, Ended
  <2>2. EndedCheck \in Check
    BY DEF Check, EndedCheck, NoCheck
  <2> QED
    BY <2>1, <2>2 DEF TypedChecks
<1>8. CASE Install
  BY <1>1, <1>8, InstallFrame
<1>9. ASSUME NEW k \in Checks, CheckBegins(k) \/ CheckNames(k) \/ CheckSums(k) \/ CheckCurrent(k) \/ CheckOffers(k)
       PROVE  TypedChecks'
  <2>1. ck[k] \in Check
    BY DEF TypedChecks
  <2>2. \E r : /\ ck' = [ck EXCEPT ![k] = r]
               /\ \/ r \in {EndedCheck, [NoCheck EXCEPT !.pc = "ask"]}
                  \/ ck[k].pc = "name" /\ r = [ck[k] EXCEPT !.pc = "sums"]
                  \/ ck[k].pc = "sums" /\ r = [ck[k] EXCEPT !.pc = "reply"]
    BY <1>9 DEF CheckBegins, CheckNames, CheckSums, CheckCurrent, CheckOffers
  <2> QED
    BY <2>1, <2>2, CheckMoves DEF TypedChecks
<1>10. ASSUME NEW k \in Checks, CheckAnswered(k) PROVE TypedChecks'
  <2>1. ck[k] \in Check
    BY DEF TypedChecks
  <2>2. PICK incl \in BOOLEAN : LET v == Answer(incl)
                              IN \/ v # None /\ ck' = [ck EXCEPT ![k] = [ck[k] EXCEPT !.pc = "name", !.v = v]]
                                 \/ ck' = [ck EXCEPT ![k] = [ck[k] EXCEPT !.pc = "current"]]
                                 \/ ck' = [ck EXCEPT ![k] = EndedCheck]
    BY <1>10 DEF CheckAnswered
  <2>3. Answer(incl) \in Known \cup {None}
    BY MatchingKnown DEF TypedGui
  <2> QED
    BY <2>1, <2>2, <2>3, CheckMoves DEF TypedChecks
<1>11. ASSUME NEW c \in Downloads, DlNext(c) PROVE TypedChecks'
  BY <1>1, <1>11, DownloadFrame
<1> QED
  BY <1>2, <1>3, <1>4, <1>5, <1>6, <1>7, <1>8, <1>9, <1>10, <1>11 DEF Next, CkNext

\* What a step of UpdateAction_Download makes of the record r of its call.
Becomes(r, s) ==
  \/ r.pc \in {"start"} \cup Getting /\ s = [r EXCEPT !.pc = "failed"]
  \/ r.pc = "start" /\ name # None /\ s = [r EXCEPT !.pc = "get", !.dst = FinalOf(name)]
  \/ r.pc = "get" /\ url # None /\ s = [r EXCEPT !.pc = "body", !.v = url]
  \/ r.pc = "body" /\ s \in {[r EXCEPT !.pc = "sums"], [r EXCEPT !.pc = "sums", !.good = FALSE]}
  \/ r.pc = "sums" /\ sums # None /\ s = [r EXCEPT !.pc = "verify", !.sums = sums]
  \/ r.pc = "verify" /\ name = r.v /\ r.v = r.sums /\ r.good /\ s = [r EXCEPT !.pc = "move"]
  \/ r.pc = "move" /\ s = [r EXCEPT !.pc = "copy"]
  \/ r.pc \in {"move", "copy"} /\ s = [r EXCEPT !.pc = "done"]
  \/ r.pc = "done" /\ s = [NoDl EXCEPT !.pc = "over", !.dlg = r.dlg, !.met = r.met]

\* Every step of a call but the answer of a failed one does that, to the record of that call only.
LEMMA CallBecomes ==
  ASSUME NEW c \in Downloads, DlNext(c), ~DlAnswer(c)
  PROVE \E s : dl' = [dl EXCEPT ![c] = s] /\ Becomes(dl[c], s)
<1>1. CASE DlStart(c) \/ DlGet(c)
  BY <1>1 DEF DlStart, DlGet, DlFails, Becomes, Getting
<1>2. CASE DlBody(c) \/ DlSums(c)
  BY <1>2 DEF DlBody, DlSums, DlFails, Becomes, Getting
<1>3. CASE DlVerify(c)
  BY <1>3 DEF DlVerify, DlFails, Becomes, Getting
<1>4. CASE DlMove(c) \/ DlCopy(c)
  BY <1>4 DEF DlMove, DlCopy, DlFails, Becomes, Getting
<1>5. CASE DlDone(c)
  BY <1>5 DEF DlDone, Over, Becomes
<1> QED
  BY <1>1, <1>2, <1>3, <1>4, <1>5 DEF DlNext

\* The new record is one of a call again.
LEMMA BecomesCall ==
  ASSUME TypedCore, NEW r \in Download, NEW s, Becomes(r, s)
  PROVE s \in Download
<1>1. CASE s \in {[r EXCEPT !.pc = "failed"], [r EXCEPT !.pc = "done"],
                  [NoDl EXCEPT !.pc = "over", !.dlg = r.dlg, !.met = r.met]}
  BY <1>1, CallEnds
<1>2. CASE r.pc = "start" /\ name # None /\ s = [r EXCEPT !.pc = "get", !.dst = FinalOf(name)]
  BY <1>2, CallAsks, FileOf DEF TypedCore
<1>3. CASE r.pc = "get" /\ url # None /\ s = [r EXCEPT !.pc = "body", !.v = url]
  BY <1>3, CallAsks DEF TypedCore
<1>4. CASE r.pc = "body" /\ s \in {[r EXCEPT !.pc = "sums"], [r EXCEPT !.pc = "sums", !.good = FALSE]}
  BY <1>4, CallAsks
<1>5. CASE r.pc = "sums" /\ sums # None /\ s = [r EXCEPT !.pc = "verify", !.sums = sums]
  BY <1>5, CallVerifies DEF TypedCore
<1>6. CASE r.pc = "verify" /\ r.v = r.sums /\ r.good /\ s = [r EXCEPT !.pc = "move"]
  BY <1>6, CallVerifies
<1>7. CASE r.pc = "move" /\ s = [r EXCEPT !.pc = "copy"]
  BY <1>7, CallVerifies
<1> QED
  BY <1>1, <1>2, <1>3, <1>4, <1>5, <1>6, <1>7 DEF Becomes

\* Downloads stay at the steps of UpdateAction_Download.
LEMMA DlsTyped ==
  ASSUME TypedCore, TypedGui, TypedDls, [Next]_vars
  PROVE TypedDls'
<1>1. ASSUME UNCHANGED <<route, dl>> PROVE TypedDls'
  BY <1>1 DEF TypedDls, Download, Files
<1>2. CASE UNCHANGED vars
  BY <1>1, <1>2
<1>3. CASE Publish
  BY <1>1, <1>3 DEF Publish
<1>4. ASSUME NEW v \in offers, Later(v) PROVE TypedDls'
  BY <1>1, <1>4 DEF Later
<1>5. CASE CoreStopped \/ NewSession
  <2>1. Download' = Download /\ \A o \in Downloads : dl[o] \in Download
    BY <1>5 DEF CoreStopped, NewSession, TypedDls, Download, Files
  <2>2. PICK same \in BOOLEAN :
          dl' = [o \in Downloads |-> IF dl[o] = NoDl THEN NoDl
                                      ELSE [NoDl EXCEPT !.pc = "over", !.dlg = "closed", !.met = same /\ dl[o].met]]
    BY <1>5 DEF CoreStopped, NewSession, Ended
  <2>3. \A o \in Downloads : (same /\ dl[o].met) \in BOOLEAN
    OBVIOUS
  <2> QED
    BY <2>1, <2>2, <2>3, CallOver DEF TypedDls
<1>6. CASE CoreDies
  <2>1. Download' = Download /\ \A o \in Downloads : dl[o] \in Download
    BY <1>6 DEF CoreDies, TypedDls, Download, Files
  <2>2. dl' = [o \in Downloads |-> IF o \in Live THEN [dl[o] EXCEPT !.pc = "failed"]
                                  ELSE IF o \in Open THEN [dl[o] EXCEPT !.met = TRUE] ELSE dl[o]]
    BY <1>6 DEF CoreDies
  <2> QED
    BY <2>1, <2>2, CallEnds, CallShown DEF TypedDls
<1>7. ASSUME NEW c \in Downloads, NEW v \in offers, Accept(c, v) PROVE TypedDls'
  <2>1. Download' = Download /\ \A o \in Downloads : dl[o] \in Download
    BY <1>7 DEF Accept, TypedDls, Download, Files
  <2>2. PICK b \in BOOLEAN : dl' = [Meet EXCEPT ![c] = [NoDl EXCEPT !.pc = "start", !.dlg = "polling", !.v = v, !.met = b]]
    BY <1>7 DEF Accept
  <2>3. Meet \in [Downloads -> Download]
    BY <2>1, CallShown DEF Meet
  <2>4. v \in Known
    BY DEF TypedGui
  <2>5. [NoDl EXCEPT !.pc = "start", !.dlg = "polling", !.v = v, !.met = b] \in Download
    BY <2>4, CallFresh
  <2> QED
    <3> DEFINE r == [NoDl EXCEPT !.pc = "start", !.dlg = "polling", !.v = v, !.met = b]
    <3>1. dl' = [Meet EXCEPT ![c] = r] /\ r \in Download
      BY <2>2, <2>5
    <3> HIDE DEF r
    <3>2. dl' \in [Downloads -> Download]
      BY <2>3, <3>1
    <3> QED
      BY <2>1, <3>2 DEF TypedDls
<1>8. ASSUME NEW c \in Downloads, Poll(c) PROVE TypedDls'
  <2>1. dl[c] \in Download /\ Download' = Download
    BY <1>8 DEF Poll, Staged, TypedDls, Download, Files
  <2>2. \E x \in {"stopped", "done"} : dl' = [dl EXCEPT ![c] = [dl[c] EXCEPT !.dlg = x]]
    BY <1>8 DEF Poll
  <2>3. dl' \in [Downloads -> Download]
    BY <2>1, <2>2, CallShown, CallWritten
  <2> QED
    BY <2>1, <2>3 DEF TypedDls
<1>9. ASSUME NEW c \in Downloads, Cancel(c) PROVE TypedDls'
  <2>1. dl[c] \in Download /\ Download' = Download
    BY <1>9 DEF Cancel, TypedDls, Download, Files
  <2>2. dl' = [dl EXCEPT ![c] = [dl[c] EXCEPT !.dlg = "closed"]]
    BY <1>9 DEF Cancel
  <2> QED
    BY <2>1, <2>2, CallShown, CallWritten DEF TypedDls
<1>10. CASE Install
  BY <1>1, <1>10, InstallFrame
<1>11. ASSUME NEW k \in Checks, CheckAnswered(k) \/ CheckNames(k) \/ CheckSums(k) \/ CheckCurrent(k) \/ CheckOffers(k) PROVE TypedDls'
  BY <1>1, <1>11 DEF CheckAnswered, CheckNames, CheckSums, CheckCurrent, CheckOffers
<1>12. ASSUME NEW k \in Checks, CheckBegins(k) PROVE TypedDls'
  <2>1. Download' = Download /\ \A o \in Downloads : dl[o] \in Download
    BY <1>12 DEF CheckBegins, TypedDls, Download, Files
  <2>2. dl' = [o \in Downloads |-> IF o \in Open \cup Live THEN [dl[o] EXCEPT !.met = TRUE] ELSE dl[o]]
    BY <1>12 DEF CheckBegins, Meet
  <2> QED
    BY <2>1, <2>2, CallShown DEF TypedDls
<1>13. ASSUME NEW c \in Downloads, DlNext(c), ~DlAnswer(c) PROVE TypedDls'
  <2>1. dl[c] \in Download /\ Download' = Download
    BY <1>13, DownloadFrame DEF TypedDls, Download, Files
  <2>2. PICK s : dl' = [dl EXCEPT ![c] = s] /\ Becomes(dl[c], s)
    BY <1>13, CallBecomes
  <2> QED
    BY <2>1, <2>2, BecomesCall, CallWritten DEF TypedDls
<1>14. ASSUME NEW c \in Downloads, DlAnswer(c) PROVE TypedDls'
  <2>1. dl[c] \in Download /\ Download' = Download
    BY <1>14 DEF DlAnswer, TypedDls, Download, Files
  <2> DEFINE d == [dl EXCEPT ![c] = [NoDl EXCEPT !.pc = "over", !.dlg = dl[c].dlg, !.met = dl[c].met]]
  <2>3. d \in [Downloads -> Download]
    BY <2>1, CallEnds, CallWritten
  <2>4. dl' = CloseFront(d)
    BY <1>14 DEF DlAnswer, Over
  <2> HIDE DEF d
  <2>5. dl' = d \/ (front \in Downloads /\ \E x \in {d[front].dlg, "closed"} : dl' = [d EXCEPT ![front] = [d[front] EXCEPT !.dlg = x]])
    BY <2>4 DEF CloseFront
  <2>6. front \in Downloads => d[front] \in Download /\ d[front].dlg \in {"none", "polling", "stopped", "closed", "done"}
    BY <2>3 DEF Download
  <2>7. front \in Downloads =>
          \A x \in {d[front].dlg, "closed"} : [d[front] EXCEPT !.dlg = x] \in Download
    BY <2>6, CallShown
  <2>8. dl' \in [Downloads -> Download]
    BY <2>3, <2>5, <2>7
  <2> QED
    BY <2>1, <2>8 DEF TypedDls
<1> QED
  BY <1>2, <1>3, <1>4, <1>5, <1>6, <1>7, <1>8, <1>9, <1>10, <1>11, <1>12, <1>13, <1>14 DEF Next, CkNext, DlNext

\* The .part files stay in their ranges.
LEMMA TmpTyped ==
  ASSUME TypedCore, TypedDls, TypedTmp, [Next]_vars
  PROVE TypedTmp'
<1>1. ASSUME UNCHANGED <<route, tmp>> PROVE TypedTmp'
  BY <1>1 DEF TypedTmp, Files
<1>2. CASE UNCHANGED vars
  BY <1>1, <1>2
<1>3. CASE Publish \/ CoreStopped \/ CoreDies \/ NewSession
  BY <1>1, <1>3 DEF Publish, CoreStopped, CoreDies, NewSession
<1>4. ASSUME NEW v \in offers, Later(v) PROVE TypedTmp'
  BY <1>1, <1>4 DEF Later
<1>5. ASSUME NEW c \in Downloads, NEW v \in offers, Accept(c, v) PROVE TypedTmp'
  BY <1>1, <1>5 DEF Accept
<1>6. ASSUME NEW c \in Downloads, Poll(c) \/ Cancel(c) PROVE TypedTmp'
  BY <1>1, <1>6 DEF Poll, Cancel
<1>7. CASE Install
  BY <1>1, <1>7, InstallFrame
<1>8. ASSUME NEW k \in Checks, CheckBegins(k) \/ CkNext(k) PROVE TypedTmp'
  BY <1>1, <1>8, CheckFrame
<1>9. ASSUME NEW c \in Downloads, DlDone(c) \/ DlAnswer(c) PROVE TypedTmp'
  BY <1>1, <1>9 DEF DlDone, DlAnswer
<1>10. ASSUME NEW c \in Downloads, DlStart(c) PROVE TypedTmp'
  <2>1. tmp \in [Downloads -> [dst : Files \cup {None}, v : Known \cup {None}]] /\ Files' = Files
    BY <1>10 DEF DlStart, TypedTmp, Files
  <2>2. NoTmp \in [dst : Files \cup {None}, v : Known \cup {None}]
    BY DEF NoTmp
  <2>3. tmp' = tmp \/ tmp' = [o \in Downloads |-> IF tmp[o].dst = FinalOf(name) /\ ~Held(o) THEN NoTmp ELSE tmp[o]]
    BY <1>10 DEF DlStart
  <2>4. tmp' \in [Downloads -> [dst : Files \cup {None}, v : Known \cup {None}]]
    BY <2>1, <2>2, <2>3
  <2> QED
    BY <2>1, <2>4 DEF TypedTmp
<1>11. ASSUME NEW c \in Downloads, DlGet(c) PROVE TypedTmp'
  <2>1. tmp \in [Downloads -> [dst : Files \cup {None}, v : Known \cup {None}]] /\ Files' = Files
    BY <1>11 DEF DlGet, TypedTmp, Files
  <2>2. NoTmp \in [dst : Files \cup {None}, v : Known \cup {None}]
    BY DEF NoTmp
  <2>3. \/ tmp' = [tmp EXCEPT ![c] = NoTmp]
        \/ tmp' = [tmp EXCEPT ![c] = [dst |-> dl[c].dst, v |-> url]]
    BY <1>11 DEF DlGet, DlFails
  <2>4. [dst |-> dl[c].dst, v |-> url] \in [dst : Files \cup {None}, v : Known \cup {None}]
    BY DEF TypedDls, Download, TypedCore
  <2>5. tmp' \in [Downloads -> [dst : Files \cup {None}, v : Known \cup {None}]]
    BY <2>1, <2>2, <2>3, <2>4
  <2> QED
    BY <2>1, <2>5 DEF TypedTmp
<1>12. ASSUME NEW c \in Downloads, DlBody(c) \/ DlSums(c) \/ DlVerify(c) \/ DlMove(c) \/ DlCopy(c) PROVE TypedTmp'
  <2>1. Files' = Files /\ tmp' \in {tmp, [tmp EXCEPT ![c] = NoTmp]}
    BY <1>12 DEF DlBody, DlSums, DlVerify, DlMove, DlCopy, DlFails, Files
  <2> QED
    BY <2>1 DEF TypedTmp, NoTmp
<1> QED
  BY <1>2, <1>3, <1>4, <1>5, <1>6, <1>7, <1>8, <1>9, <1>10, <1>11, <1>12 DEF Next, DlNext

\* Only published releases are offered and asked for.
LEMMA GuiTyped ==
  ASSUME TypedChecks, TypedGui, [Next]_vars
  PROVE TypedGui'
<1>1. ASSUME UNCHANGED <<offers, front, asked, quit, published>> PROVE TypedGui'
  BY <1>1 DEF TypedGui
<1>2. CASE UNCHANGED vars
  BY <1>1, <1>2
<1>3. CASE CoreDies
  BY <1>1, <1>3 DEF CoreDies
<1>4. ASSUME NEW c \in Downloads, Cancel(c) PROVE TypedGui'
  BY <1>1, <1>4 DEF Cancel
<1>5. CASE Publish
  BY <1>5, ReleasesAssumption, LenProperties DEF Publish, TypedGui
<1>6. CASE CoreStopped
  BY <1>6 DEF CoreStopped, Ended, Launch, TypedGui
<1>7. CASE NewSession
  BY <1>7 DEF NewSession, Ended, TypedGui
<1>8. ASSUME NEW v \in offers, Later(v) PROVE TypedGui'
  BY <1>8 DEF Later, TypedGui
<1>9. ASSUME NEW c \in Downloads, NEW v \in offers, Accept(c, v) PROVE TypedGui'
  BY <1>9 DEF Accept, Meet, TypedGui
<1>10. ASSUME NEW c \in Downloads, Poll(c) PROVE TypedGui'
  <2>1. UNCHANGED <<offers, front, asked, published>> /\ (quit' = quit \/ quit' \in {"stopping", "gone"})
    <3>1. CASE UNCHANGED <<ivars, quit>>
      BY <1>10, <3>1 DEF Poll
    <3>2. CASE Staged
      BY <1>10, <3>2 DEF Poll, Staged, Exit
    <3> QED
      BY <1>10, <3>1, <3>2 DEF Poll
  <2> QED
    BY <2>1 DEF TypedGui
<1>11. CASE Install
  BY <1>1, <1>11, InstallFrame
<1>12. ASSUME NEW k \in Checks, CheckBegins(k) \/ CheckAnswered(k) \/ CheckNames(k) \/ CheckSums(k) \/ CheckCurrent(k) PROVE TypedGui'
  BY <1>1, <1>12 DEF CheckBegins, CheckAnswered, CheckNames, CheckSums, CheckCurrent
<1>13. ASSUME NEW k \in Checks, CheckOffers(k) PROVE TypedGui'
  <2>1. ck[k].v \in Known
    BY <1>13 DEF CheckOffers, TypedChecks, Check
  <2> QED
    BY <1>13, <2>1 DEF CheckOffers, TypedGui
<1>14. ASSUME NEW c \in Downloads, DlNext(c) PROVE TypedGui'
  BY <1>1, <1>14, DownloadFrame
<1> QED
  BY <1>2, <1>3, <1>4, <1>5, <1>6, <1>7, <1>8, <1>9, <1>10, <1>11, <1>12, <1>13, <1>14 DEF Next, CkNext

\* A step of a call on its record: from where to where, with which release and which file.
Step(r, s) ==
  \/ r.pc \in {"start"} \cup Getting /\ s.pc = "failed"
  \/ r.pc = "done" /\ s.pc = "over"
  \/ r.pc = "start" /\ s.pc = "get" /\ s.v = r.v /\ name # None /\ s.dst = FinalOf(name)
  \/ r.pc = "get" /\ s.pc = "body" /\ s.v = url /\ s.dst = r.dst
  \/ r.pc = "verify" /\ s.pc = "move" /\ name = r.v /\ s.v = r.v /\ s.dst = r.dst
  \/ /\ <<r.pc, s.pc>> \in {<<"body", "sums">>, <<"sums", "verify">>, <<"move", "copy">>, <<"move", "done">>, <<"copy", "done">>}
     /\ s.v = r.v /\ s.dst = r.dst

\* One record is written.
LEMMA RecordWritten ==
  ASSUME TypedDls, NEW c \in Downloads, NEW r, dl' = [dl EXCEPT ![c] = r]
  PROVE dl'[c] = r /\ \A o \in Downloads \ {c} : dl'[o] = dl[o]
BY DEF TypedDls

\* What becomes of a record is a step of its call, with the same dialog.
LEMMA BecomesStep ==
  ASSUME NEW r \in Download, NEW s, Becomes(r, s)
  PROVE s.dlg = r.dlg /\ s.met = r.met /\ Step(r, s)
<1>1. CASE r.pc \in {"start"} \cup Getting /\ s = [r EXCEPT !.pc = "failed"]
  BY <1>1 DEF Download, Step
<1>2. CASE r.pc = "start" /\ name # None /\ s = [r EXCEPT !.pc = "get", !.dst = FinalOf(name)]
  BY <1>2 DEF Download, Step
<1>3. CASE r.pc = "get" /\ s = [r EXCEPT !.pc = "body", !.v = url]
  BY <1>3 DEF Download, Step
<1>4. CASE r.pc = "body" /\ s \in {[r EXCEPT !.pc = "sums"], [r EXCEPT !.pc = "sums", !.good = FALSE]}
  BY <1>4 DEF Download, Step
<1>5. CASE r.pc = "sums" /\ s = [r EXCEPT !.pc = "verify", !.sums = sums]
  BY <1>5 DEF Download, Step
<1>6. CASE r.pc = "verify" /\ name = r.v /\ s = [r EXCEPT !.pc = "move"]
  BY <1>6 DEF Download, Step
<1>7. CASE \/ r.pc = "move" /\ s = [r EXCEPT !.pc = "copy"]
           \/ r.pc \in {"move", "copy"} /\ s = [r EXCEPT !.pc = "done"]
  BY <1>7 DEF Download, Step
<1>8. CASE r.pc = "done" /\ s = [NoDl EXCEPT !.pc = "over", !.dlg = r.dlg, !.met = r.met]
  BY <1>8 DEF NoDl, Step
<1> QED
  BY <1>1, <1>2, <1>3, <1>4, <1>5, <1>6, <1>7, <1>8 DEF Becomes

\* A step of a call, seen from all of them.
LEMMA CallStep ==
  ASSUME TypedDls, NEW c \in Downloads, DlNext(c), ~DlAnswer(c)
  PROVE /\ \A o \in Downloads \ {c} : dl'[o] = dl[o]
        /\ dl'[c].dlg = dl[c].dlg /\ dl'[c].met = dl[c].met
        /\ Step(dl[c], dl'[c])
<1>1. PICK s : dl' = [dl EXCEPT ![c] = s] /\ Becomes(dl[c], s)
  BY CallBecomes
<1>2. dl[c] \in Download
  BY DEF TypedDls
<1> QED
  BY <1>1, <1>2, RecordWritten, BecomesStep

\* A dialog that is polled, and an exit for an installer, know what the user asked for.
LEMMA AskedKept ==
  ASSUME TypedDls, TypedGui, Asked, [Next]_vars
  PROVE Asked'
<1>1. ASSUME UNCHANGED <<dl, asked, quit>> PROVE Asked'
  BY <1>1 DEF Asked
<1>2. CASE UNCHANGED vars
  BY <1>1, <1>2
<1>3. CASE Publish
  BY <1>1, <1>3 DEF Publish
<1>4. ASSUME NEW v \in offers, Later(v) PROVE Asked'
  BY <1>1, <1>4 DEF Later
<1>5. CASE CoreStopped
  <2>1. quit' = "gone" /\ asked' = asked
    BY <1>5 DEF CoreStopped
  <2>2. \A o \in Downloads : dl'[o].dlg \in {"none", "closed"}
    BY <1>5 DEF CoreStopped, Ended, NoDl
  <2> QED
    BY <2>1, <2>2 DEF Asked
<1>6. CASE CoreDies
  <2>1. UNCHANGED <<asked, quit>> /\ \A o \in Downloads : dl'[o].dlg = dl[o].dlg
    BY <1>6 DEF CoreDies, Fault, TypedDls, Download
  <2> QED
    BY <2>1 DEF Asked
<1>7. CASE NewSession
  <2>1. quit' = "no"
    BY <1>7 DEF NewSession
  <2>2. \A o \in Downloads : dl'[o].dlg \in {"none", "closed"}
    BY <1>7 DEF NewSession, Ended, NoDl
  <2> QED
    BY <2>1, <2>2 DEF Asked
<1>8. ASSUME NEW c \in Downloads, NEW v \in offers, Accept(c, v) PROVE Asked'
  <2>1. asked' # None
    BY <1>8, KnownVersions DEF Accept, TypedGui
  <2> QED
    BY <2>1 DEF Asked
<1>9. ASSUME NEW c \in Downloads, Poll(c) PROVE Asked'
  <2>1. asked' = asked /\ asked # None
    BY <1>9 DEF Poll, Ticks, Asked
  <2> QED
    BY <2>1 DEF Asked
<1>10. ASSUME NEW c \in Downloads, Cancel(c) PROVE Asked'
  <2>1. UNCHANGED <<asked, quit>> /\ \A o \in Downloads : dl'[o].dlg \in {dl[o].dlg, "closed"}
    BY <1>10 DEF Cancel, TypedDls, Download
  <2> QED
    BY <2>1 DEF Asked
<1>11. CASE Install
  BY <1>1, <1>11, InstallFrame
<1>12. ASSUME NEW k \in Checks, CheckAnswered(k) \/ CheckNames(k) \/ CheckSums(k) \/ CheckCurrent(k) \/ CheckOffers(k) PROVE Asked'
  BY <1>1, <1>12 DEF CheckAnswered, CheckNames, CheckSums, CheckCurrent, CheckOffers
<1>13. ASSUME NEW k \in Checks, CheckBegins(k) PROVE Asked'
  <2>1. UNCHANGED <<asked, quit>> /\ \A o \in Downloads : dl'[o].dlg = dl[o].dlg
    BY <1>13 DEF CheckBegins, Meet, TypedDls, Download
  <2> QED
    BY <2>1 DEF Asked
<1>14. ASSUME NEW c \in Downloads, DlNext(c), ~DlAnswer(c) PROVE Asked'
  <2>1. UNCHANGED <<asked, quit>>
    BY <1>14, DownloadFrame
  <2> QED
    BY <1>14, <2>1, CallStep DEF Asked
<1>15. ASSUME NEW c \in Downloads, DlAnswer(c) PROVE Asked'
  <2>1. UNCHANGED <<asked, quit>> /\ \A o \in Downloads : dl'[o].dlg \in {dl[o].dlg, "closed"}
    BY <1>15 DEF DlAnswer, CloseFront, Over, NoDl, TypedDls, Download
  <2> QED
    BY <2>1 DEF Asked
<1> QED
  BY <1>2, <1>3, <1>4, <1>5, <1>6, <1>7, <1>8, <1>9, <1>10, <1>11, <1>12, <1>13, <1>14, <1>15 DEF Next, CkNext, DlNext

\* A file that goes away is not kept any more.
LEMMA KeptStays ==
  ASSUME TypedPkg, KeptWell, route' = route, NEW n, pkg' \in {pkg, [pkg EXCEPT ![n] = NoFile]}
  PROVE KeptWell'
BY DEF TypedPkg, KeptWell, Finished, Files

\* A verified content under its final name is kept well.
LEMMA KeptMoved ==
  ASSUME TypedPkg, KeptWell, route' = route, NEW c, NEW x, dl[c].dst \in Files, dl[c].good, dl[c].v # None, Rel(dl[c].v).sums,
         pkg' = [pkg EXCEPT ![dl[c].dst] = [state |-> x, v |-> dl[c].v, good |-> dl[c].good]]
  PROVE KeptWell'
BY DEF TypedPkg, KeptWell, Finished, Files

\* A finished download is whole, and of a release whose SHA256SUMS it was compared with.
LEMMA WellKept ==
  ASSUME TypedStage, TypedPkg, TypedJob, TypedDls, KeptWell, [Next]_vars
  PROVE KeptWell'
<1>1. ASSUME UNCHANGED <<route, pkg>> PROVE KeptWell'
  BY <1>1 DEF KeptWell, Finished, Files
<1>2. CASE UNCHANGED vars
  BY <1>1, <1>2
<1>3. CASE Publish \/ CoreStopped \/ CoreDies \/ NewSession
  BY <1>1, <1>3 DEF Publish, CoreStopped, CoreDies, NewSession
<1>4. ASSUME NEW v \in offers, Later(v) PROVE KeptWell'
  BY <1>1, <1>4 DEF Later
<1>5. ASSUME NEW c \in Downloads, NEW v \in offers, Accept(c, v) PROVE KeptWell'
  BY <1>1, <1>5 DEF Accept
<1>6. ASSUME NEW c \in Downloads, Cancel(c) PROVE KeptWell'
  BY <1>1, <1>6 DEF Cancel
<1>7. ASSUME NEW c \in Downloads, Poll(c) PROVE KeptWell'
  <2>1. route' = route
    BY <1>7 DEF Poll, Staged
  <2>2. pkg' = pkg \/ pkg' = [pkg EXCEPT ![asked] = NoFile]
    <3>1. CASE UNCHANGED <<ivars, quit>>
      BY <3>1
    <3>2. CASE Staged
      BY <3>2 DEF Staged
    <3> QED
      BY <1>7, <3>1, <3>2 DEF Poll
  <2> QED
    BY <2>1, <2>2, KeptStays
<1>8. CASE Install
  BY <1>8, InstallFrame, JobAdvances, KeptStays
<1>9. ASSUME NEW k \in Checks, CheckBegins(k) \/ CkNext(k) PROVE KeptWell'
  BY <1>1, <1>9, CheckFrame
<1>10. ASSUME NEW c \in Downloads, DlStart(c) \/ DlGet(c) \/ DlBody(c) \/ DlSums(c) \/ DlVerify(c) \/ DlDone(c) \/ DlAnswer(c) PROVE KeptWell'
  BY <1>1, <1>10 DEF DlStart, DlGet, DlBody, DlSums, DlVerify, DlDone, DlAnswer
<1>11. ASSUME NEW c \in Downloads, DlMove(c) \/ DlCopy(c) PROVE KeptWell'
  <2>1. dl[c] \in Download /\ dl[c].pc \in {"move", "copy"}
    BY <1>11 DEF DlMove, DlCopy, TypedDls
  <2>2. dl[c].good /\ dl[c].v # None /\ Rel(dl[c].v).sums /\ dl[c].dst \in Files
    BY <2>1, KnownVersions DEF Download, Getting
  <2>3. \/ pkg' \in {pkg, [pkg EXCEPT ![dl[c].dst] = NoFile]}
        \/ \E x \in {"half", "whole"} : pkg' = [pkg EXCEPT ![dl[c].dst] = [state |-> x, v |-> dl[c].v, good |-> dl[c].good]]
    BY <1>11 DEF DlMove, DlCopy, Put
  <2>4. route' = route
    BY <1>11 DEF DlMove, DlCopy
  <2>5. CASE pkg' \in {pkg, [pkg EXCEPT ![dl[c].dst] = NoFile]}
    BY <2>4, <2>5, KeptStays
  <2>6. ASSUME NEW x, pkg' = [pkg EXCEPT ![dl[c].dst] = [state |-> x, v |-> dl[c].v, good |-> dl[c].good]] PROVE KeptWell'
    BY <2>2, <2>4, <2>6, KeptMoved
  <2> QED
    BY <2>3, <2>5, <2>6
<1> QED
  BY <1>2, <1>3, <1>4, <1>5, <1>6, <1>7, <1>8, <1>9, <1>10, <1>11 DEF Next, Install, InstallStep, DlNext

\* The jobs of a call that is over, and of one that has not begun, stay so.
LEMMA RestStays ==
  ASSUME TypedDls, NEW c \in Downloads, DlNext(c)
  PROVE \A o \in Downloads : dl[o].pc \in {"idle", "over"} => dl'[o].pc \in {"idle", "over"}
<1>1. CASE DlAnswer(c)
  <2>1. \A o \in Downloads : dl'[o].pc \in {dl[o].pc, "over"}
    BY <1>1 DEF DlAnswer, CloseFront, Over, NoDl, TypedDls, Download
  <2> QED
    BY <2>1
<1>2. CASE ~DlAnswer(c)
  BY <1>2, CallStep DEF Step, Getting
<1> QED
  BY <1>1, <1>2

\* Only an exit starts an installer, and one that an exit started has no download beside it.
LEMMA AloneKept ==
  ASSUME TypedStage, TypedJob, TypedDls, Alone, [Next]_vars
  PROVE Alone'
<1>1. ASSUME UNCHANGED <<route, job, dl, quit>> PROVE Alone'
  BY <1>1 DEF Alone
<1>2. CASE UNCHANGED vars
  BY <1>1, <1>2
<1>3. CASE Publish
  BY <1>1, <1>3 DEF Publish
<1>4. ASSUME NEW v \in offers, Later(v) PROVE Alone'
  BY <1>1, <1>4 DEF Later
<1>5. CASE CoreStopped
  <2>1. quit' = "gone" /\ route' = route /\ job = Idle
    BY <1>5 DEF CoreStopped, Alone
  <2>2. \A o \in Downloads : dl'[o].pc \in {"idle", "over"}
    BY <1>5 DEF CoreStopped, Ended, NoDl
  <2>3. route = "appimage" => job' = job
    BY <1>5 DEF CoreStopped
  <2>4. route # "appimage" => job'.pc = IF route = "mac" THEN "wait" ELSE "find"
    BY <1>5 DEF CoreStopped, Launch, Idle
  <2> QED
    BY <2>1, <2>2, <2>3, <2>4 DEF Alone, MacSteps, ArchiveSteps, Idle
<1>6. CASE CoreDies
  <2>1. UNCHANGED <<quit, job, route>> /\ quit = "no"
    BY <1>6 DEF CoreDies, Fault
  <2> QED
    BY <2>1 DEF Alone, Idle
<1>7. CASE NewSession
  <2>1. route' = route /\ job' = Idle
    BY <1>7 DEF NewSession
  <2> QED
    BY <2>1 DEF Alone, Idle, MacSteps, ArchiveSteps
<1>8. ASSUME NEW c \in Downloads, NEW v \in offers, Accept(c, v) PROVE Alone'
  <2>1. UNCHANGED <<quit, job, route>> /\ quit = "no"
    BY <1>8 DEF Accept
  <2> QED
    BY <2>1 DEF Alone, Idle
<1>9. ASSUME NEW c \in Downloads, Poll(c) PROVE Alone'
  <2>1. job = Idle /\ route' = route
    BY <1>9 DEF Poll, Staged, Ticks, GuiRuns, Alone
  <2>2. \/ UNCHANGED <<job, quit>>
        \/ job' = job
        \/ /\ quit' = "gone" /\ route # "appimage"
           /\ job' = [Idle EXCEPT !.pc = IF route = "mac" THEN "wait" ELSE "find", !.name = FinalOf(asked), !.found = inst, !.alone = FALSE]
    <3>1. CASE UNCHANGED <<ivars, quit>>
      BY <3>1
    <3>2. CASE Staged
      BY <1>9, <3>2 DEF Staged, Exit, Launch, Poll, Ticks, GuiRuns
    <3> QED
      BY <1>9, <3>1, <3>2 DEF Poll
  <2>3. CASE job' = job
    BY <2>1, <2>3 DEF Alone, Idle, MacSteps, ArchiveSteps
  <2>4. CASE job' # job
    <3>1. job'.pc = (IF route = "mac" THEN "wait" ELSE "find") /\ job'.alone = FALSE /\ quit' = "gone" /\ route # "appimage"
      BY <2>2, <2>4 DEF Idle
    <3> QED
      BY <2>1, <3>1 DEF Alone, MacSteps, ArchiveSteps, Idle
  <2> QED
    BY <2>3, <2>4
<1>10. ASSUME NEW c \in Downloads, Cancel(c) PROVE Alone'
  <2>1. UNCHANGED <<quit, job, route>> /\ \A o \in Downloads : dl'[o].pc = dl[o].pc
    BY <1>10 DEF Cancel, TypedDls, Download
  <2> QED
    BY <2>1 DEF Alone
<1>11. CASE Install
  <2>1. UNCHANGED <<route, quit, dl>> /\ quit = "gone"
    BY <1>11, InstallFrame DEF Install
  <2>2. job.pc # "idle"
    BY <1>11, JobAdvances DEF JobSteps, MacSteps, ArchiveSteps
  <2> QED
    BY <1>11, <2>1, <2>2, JobAdvances DEF Alone, Idle
<1>12. ASSUME NEW k \in Checks, CheckAnswered(k) \/ CheckNames(k) \/ CheckSums(k) \/ CheckCurrent(k) \/ CheckOffers(k) PROVE Alone'
  BY <1>1, <1>12 DEF CheckAnswered, CheckNames, CheckSums, CheckCurrent, CheckOffers
<1>13. ASSUME NEW k \in Checks, CheckBegins(k) PROVE Alone'
  <2>1. UNCHANGED <<quit, job, route>> /\ quit = "no"
    BY <1>13 DEF CheckBegins
  <2> QED
    BY <2>1 DEF Alone, Idle
<1>14. ASSUME NEW c \in Downloads, DlNext(c) PROVE Alone'
  <2>1. UNCHANGED <<quit, job, route>>
    BY <1>14, DownloadFrame
  <2> QED
    BY <1>14, <2>1, RestStays DEF Alone
<1> QED
  BY <1>2, <1>3, <1>4, <1>5, <1>6, <1>7, <1>8, <1>9, <1>10, <1>11, <1>12, <1>13, <1>14 DEF Next, Install,
     InstallStep, CkNext

\* What a step of an installer leaves of its record.
LEMMA JobGoes ==
  ASSUME TypedJob, NEW x, job' = [job EXCEPT !.pc = x]
  PROVE /\ job'.pc = x /\ job'.name = job.name /\ job'.found = job.found
        /\ job'.moved = job.moved /\ job'.part = job.part /\ job'.alone = job.alone
BY DEF TypedJob, Job

\* What an installer begins with.
LEMMA JobBegins ==
  ASSUME NEW n, NEW b, Launch(n, b)
  PROVE /\ job'.pc = IF route = "mac" THEN "wait" ELSE "find"
        /\ job'.name = n /\ job'.found = inst /\ job'.moved = FALSE /\ job'.alone = b
BY DEF Launch, Idle

\* When everything has been moved the installation is whole.
LEMMA AllMoved ==
  ASSUME TypedInst, TypedStage, OfArchive, route = "archive", job.pc = "move", stage.parts = {}
  PROVE Whole(inst)
<1>1. inst = All(stage.v)
  BY DEF OfArchive, TypedInst, Set, PartsOf, All
<1> QED
  BY <1>1, KnownVersions DEF OfArchive, TypedStage, Whole

\* The updater changes nothing before it has a verified package, keeps that package until the
\* installation is whole, and knows what it moved.
LEMMA ArchiveKept ==
  ASSUME TypedInst, TypedStage, TypedJob, KeptWell, Alone, OfArchive, [Next]_vars
  PROVE OfArchive'
<1>1. ASSUME UNCHANGED <<route, inst, stage, pkg, job>> PROVE OfArchive'
  <2>1. Whole(inst)' = Whole(inst) /\ Finished(job.name)' = Finished(job.name) /\ Files' = Files
    BY <1>1 DEF Whole, All, PartsOf, Finished, Files
  <2> QED
    BY <1>1, <2>1 DEF OfArchive
<1>2. CASE UNCHANGED vars
  BY <1>1, <1>2
<1>3. CASE Publish \/ CoreDies
  BY <1>1, <1>3 DEF Publish, CoreDies
<1>4. ASSUME NEW v \in offers, Later(v) PROVE OfArchive'
  BY <1>1, <1>4 DEF Later
<1>5. ASSUME NEW c \in Downloads, NEW v \in offers, Accept(c, v) PROVE OfArchive'
  BY <1>1, <1>5 DEF Accept
<1>6. ASSUME NEW c \in Downloads, Cancel(c) PROVE OfArchive'
  BY <1>1, <1>6 DEF Cancel
<1>7. CASE CoreStopped
  <2>1. UNCHANGED <<route, inst, stage, pkg>>
    BY <1>7 DEF CoreStopped
  <2>2. route = "archive" => Launch(FinalOf(asked), TRUE)
    BY <1>7 DEF CoreStopped
  <2> QED
    BY <2>1, <2>2, JobBegins DEF OfArchive
<1>8. CASE NewSession
  <2>1. UNCHANGED <<route, inst, stage, pkg>> /\ job' = Idle
    BY <1>8 DEF NewSession
  <2> QED
    BY <2>1 DEF OfArchive, Idle
<1>9. ASSUME NEW c \in Downloads, Poll(c) PROVE OfArchive'
  <2>1. SUFFICES ASSUME route = "archive" PROVE OfArchive'
    BY <1>9 DEF Poll, Staged, OfArchive
  <2>2. UNCHANGED <<route, inst, stage, pkg>> /\ (job' = job \/ Launch(FinalOf(asked), FALSE))
    <3>1. CASE UNCHANGED <<ivars, quit>>
      BY <3>1
    <3>2. CASE Staged
      BY <1>9, <2>1, <3>2 DEF Staged, Poll
    <3> QED
      BY <1>9, <3>1, <3>2 DEF Poll
  <2>3. CASE job' = job
    BY <1>1, <2>2, <2>3
  <2>4. CASE Launch(FinalOf(asked), FALSE)
    BY <2>1, <2>2, <2>4, JobBegins DEF OfArchive
  <2> QED
    BY <2>2, <2>3, <2>4
<1>10. CASE Install /\ Find
  <2>1. UNCHANGED <<route, inst, pkg>> /\ job.pc = "find"
    BY <1>10 DEF Find
  <2>2. PICK x \in {"failed", "extract"} : job' = [job EXCEPT !.pc = x]
    BY <1>10 DEF Find, ArchiveFailed
  <2> QED
    BY <2>1, <2>2, JobGoes DEF OfArchive
<1>11. CASE Install /\ Extract
  <2>1. UNCHANGED <<route, inst, pkg>> /\ job.pc = "extract"
    BY <1>11 DEF Extract
  <2>2. CASE job' = [job EXCEPT !.pc = "failed"]
    BY <2>1, <2>2, JobGoes DEF OfArchive
  <2>3. CASE Finished(job.name) /\ job' = [job EXCEPT !.pc = "clear", !.moved = TRUE] /\ stage' = [v |-> pkg[job.name].v, parts |-> Parts]
    <3>1. job'.pc = "clear" /\ job'.moved = TRUE /\ job'.name = job.name /\ job'.alone = job.alone
      BY <2>3 DEF TypedJob, Job
    <3>2. job.name \in Files
      BY <2>1 DEF TypedJob, Job, JobSteps, ArchiveSteps
    <3>3. stage'.v # None
      BY <2>3, <3>2 DEF KeptWell
    <3> QED
      BY <2>1, <2>3, <3>1, <3>2, <3>3 DEF OfArchive, Finished, Files
  <2> QED
    BY <1>11, <2>2, <2>3 DEF Extract, ArchiveFailed
<1>12. CASE Install /\ Clear
  <2>1. UNCHANGED <<route, stage, pkg>> /\ job.pc = "clear"
    BY <1>12 DEF Clear
  <2>2. CASE job' = job
    BY <2>1, <2>2 DEF OfArchive, Finished, Files
  <2>3. CASE inst' = inst /\ job' = [job EXCEPT !.pc = "move"]
    BY <2>1, <2>3, JobGoes DEF OfArchive, Finished, Files
  <2> QED
    BY <1>12, <2>2, <2>3 DEF Clear
<1>13. CASE Install /\ MoveNext
  <2>1. UNCHANGED <<route, stage, pkg>> /\ job.pc = "move"
    BY <1>13 DEF MoveNext
  <2>2. CASE inst' = inst /\ job' = [job EXCEPT !.pc = "failed"]
    BY <2>1, <2>2, JobGoes DEF OfArchive, Finished, Files
  <2>3. ASSUME NEW p \in stage.parts, inst' = [inst EXCEPT ![p] = None], job' = [job EXCEPT !.pc = "place", !.part = p]
        PROVE  OfArchive'
    <3>1. job'.pc = "place" /\ job'.moved = job.moved /\ job'.part = p /\ job'.name = job.name /\ job'.alone = job.alone
      BY <2>3 DEF TypedJob, Job
    <3>2. route = "archive" => \A q \in Parts \ stage.parts : inst'[q] = inst[q]
      BY <2>3 DEF TypedInst, Set, PartsOf
    <3> QED
      BY <2>1, <2>3, <3>1, <3>2 DEF OfArchive, Finished, Files
  <2> QED
    BY <1>13, <2>2, <2>3 DEF MoveNext, ArchiveFailed
<1>14. CASE Install /\ Place
  <2>1. UNCHANGED <<route, pkg>> /\ job.pc = "place"
    BY <1>14 DEF Place
  <2>2. CASE stage' = stage /\ job' = [job EXCEPT !.pc = "failed"]
    BY <2>1, <2>2, JobGoes DEF OfArchive, Finished, Files
  <2>3. CASE /\ inst' = [inst EXCEPT ![job.part] = stage.v] /\ job' = [job EXCEPT !.pc = "move"]
             /\ stage' = [stage EXCEPT !.parts = stage.parts \ {job.part}]
    <3>1. stage'.v = stage.v /\ stage'.parts = stage.parts \ {job.part}
      BY <2>3 DEF TypedStage
    <3>2. route = "archive" => inst'[job.part] = stage.v /\ \A q \in Parts \ {job.part} : inst'[q] = inst[q]
      BY <2>1, <2>3 DEF OfArchive, TypedInst, Set, PartsOf, TypedStage
    <3> QED
      BY <2>1, <2>3, <3>1, <3>2, JobGoes DEF OfArchive, Finished, Files
  <2> QED
    BY <1>14, <2>2, <2>3 DEF Place, ArchiveFailed
<1>15. CASE Install /\ CleanUp
  <2>1. UNCHANGED <<route, inst>> /\ job.pc = "move" /\ stage.parts = {} /\ job' = [job EXCEPT !.pc = "ok"]
    BY <1>15 DEF CleanUp
  <2>2. route = "archive" => Whole(inst)
    BY <2>1, AllMoved
  <2> QED
    BY <2>1, <2>2, JobGoes DEF OfArchive, Whole, All
<1>16. CASE Install /\ (Wait \/ Unzip \/ Aside \/ Swap \/ Try)
  <2>1. route' = route /\ job.pc \in MacSteps
    BY <1>16 DEF Wait, Unzip, Aside, Swap, Try, MacSteps
  <2> QED
    BY <2>1 DEF OfArchive, Alone
<1>17. CASE Install /\ Killed
  <2>1. UNCHANGED <<route, inst, stage, pkg>> /\ job' = [job EXCEPT !.pc = "killed"] /\ job.pc \notin {"idle", "ok"} /\ job.pc \notin {"failed"}
    BY <1>17 DEF Killed, Busy
  <2>2. route = "archive" => job.pc \in ArchiveSteps
    BY <1>17 DEF Killed, Busy, TypedJob, Job, JobSteps, Alone
  <2> QED
    BY <2>1, <2>2, JobGoes DEF OfArchive, ArchiveSteps, Finished, Files
<1>18. ASSUME NEW k \in Checks, CheckBegins(k) \/ CkNext(k) PROVE OfArchive'
  BY <1>1, <1>18, CheckFrame
<1>19. ASSUME NEW c \in Downloads, DlStart(c) \/ DlGet(c) \/ DlBody(c) \/ DlSums(c) \/ DlVerify(c) \/ DlDone(c) \/ DlAnswer(c) PROVE OfArchive'
  BY <1>1, <1>19 DEF DlStart, DlGet, DlBody, DlSums, DlVerify, DlDone, DlAnswer
<1>20. ASSUME NEW c \in Downloads, DlMove(c) \/ DlCopy(c) PROVE OfArchive'
  <2>1. UNCHANGED <<route, inst, stage, job>> /\ dl[c].pc \notin {"idle", "over"}
    BY <1>20 DEF DlMove, DlCopy
  <2>2. ~(job.pc # "idle" /\ job.alone)
    BY <2>1 DEF Alone
  <2> QED
    BY <2>1, <2>2 DEF OfArchive, Whole, All
<1> QED
  BY <1>2, <1>3, <1>4, <1>5, <1>6, <1>7, <1>8, <1>9, <1>10, <1>11, <1>12, <1>13, <1>14, <1>15, <1>16, <1>17, <1>18,
     <1>19, <1>20 DEF Next, Install, InstallStep, DlNext

\* The script leaves the bundle, or its backup, as it found it until the new one has stayed alive.
LEMMA MacKept ==
  ASSUME TypedInst, TypedStage, TypedJob, KeptWell, Alone, OfMac, [Next]_vars
  PROVE OfMac'
<1>1. ASSUME UNCHANGED <<route, inst, stage, backup, job>> PROVE OfMac'
  <2>1. Whole(inst)' = Whole(inst) /\ All(None)' = All(None) /\ All(backup)' = All(backup)
    BY <1>1 DEF Whole, All, PartsOf
  <2> QED
    BY <1>1, <2>1 DEF OfMac
<1>2. CASE UNCHANGED vars
  BY <1>1, <1>2
<1>3. CASE Publish \/ CoreDies
  BY <1>1, <1>3 DEF Publish, CoreDies
<1>4. ASSUME NEW v \in offers, Later(v) PROVE OfMac'
  BY <1>1, <1>4 DEF Later
<1>5. ASSUME NEW c \in Downloads, NEW v \in offers, Accept(c, v) PROVE OfMac'
  BY <1>1, <1>5 DEF Accept
<1>6. ASSUME NEW c \in Downloads, Cancel(c) PROVE OfMac'
  BY <1>1, <1>6 DEF Cancel
<1>7. CASE CoreStopped
  <2>1. UNCHANGED <<route, inst, stage, backup>>
    BY <1>7 DEF CoreStopped
  <2>2. route = "mac" => Launch(FinalOf(asked), TRUE)
    BY <1>7 DEF CoreStopped
  <2> QED
    BY <2>1, <2>2, JobBegins DEF OfMac
<1>8. CASE NewSession
  <2>1. UNCHANGED <<route, inst, stage, backup>> /\ job' = Idle
    BY <1>8 DEF NewSession
  <2> QED
    BY <2>1 DEF OfMac, Idle
<1>9. ASSUME NEW c \in Downloads, Poll(c) PROVE OfMac'
  <2>1. SUFFICES ASSUME route = "mac" PROVE OfMac'
    BY <1>9 DEF Poll, Staged, OfMac
  <2>2. UNCHANGED <<route, inst, stage, backup>> /\ (job' = job \/ Launch(FinalOf(asked), FALSE))
    <3>1. CASE UNCHANGED <<ivars, quit>>
      BY <3>1
    <3>2. CASE Staged
      BY <1>9, <2>1, <3>2 DEF Staged, Poll
    <3> QED
      BY <1>9, <3>1, <3>2 DEF Poll
  <2>3. CASE job' = job
    BY <1>1, <2>2, <2>3
  <2>4. CASE Launch(FinalOf(asked), FALSE)
    BY <2>1, <2>2, <2>4, JobBegins DEF OfMac
  <2> QED
    BY <2>2, <2>3, <2>4
<1>10. CASE Install /\ (Find \/ Extract \/ Clear \/ MoveNext \/ Place \/ CleanUp)
  <2>1. route' = route /\ job.pc \in ArchiveSteps
    BY <1>10 DEF Find, Extract, Clear, MoveNext, Place, CleanUp, ArchiveSteps
  <2> QED
    BY <2>1 DEF OfMac, Alone
<1>11. CASE Install /\ Wait
  <2>1. UNCHANGED <<route, inst>> /\ job.pc = "wait"
    BY <1>11 DEF Wait
  <2>2. PICK x \in {"failed", "unzip"} : job' = [job EXCEPT !.pc = x]
    BY <1>11 DEF Wait
  <2> QED
    BY <2>1, <2>2, JobGoes DEF OfMac
<1>12. CASE Install /\ Unzip
  <2>1. UNCHANGED <<route, inst>> /\ job.pc = "unzip"
    BY <1>12 DEF Unzip
  <2>2. CASE job' = [job EXCEPT !.pc = "failed"]
    BY <2>1, <2>2, JobGoes DEF OfMac
  <2>3. CASE Finished(job.name) /\ job' = [job EXCEPT !.pc = "aside"] /\ stage' = [v |-> pkg[job.name].v, parts |-> {"app"}]
    <3>1. job.name \in Files
      BY <2>1 DEF TypedJob, Job, JobSteps, MacSteps
    <3>2. stage'.v # None
      BY <2>3, <3>1 DEF KeptWell
    <3> QED
      BY <2>1, <2>3, <3>2, JobGoes DEF OfMac
  <2> QED
    BY <1>12, <2>2, <2>3 DEF Unzip, FailBefore
<1>13. CASE Install /\ Aside
  <2>1. route' = route /\ job.pc = "aside"
    BY <1>13 DEF Aside
  <2>2. CASE inst' = inst /\ job' = [job EXCEPT !.pc = "failed"]
    BY <2>1, <2>2, JobGoes DEF OfMac
  <2>3. CASE stage' = stage /\ backup' = inst["app"] /\ inst' = All(None) /\ job' = [job EXCEPT !.pc = "swap"]
    <3>1. route = "mac" => inst = All(inst["app"])
      BY DEF TypedInst, Set, All, PartsOf
    <3>2. All(None)' = All(None) /\ All(backup)' = All(inst["app"])
      BY <2>1, <2>3 DEF All, PartsOf
    <3> QED
      BY <2>1, <2>3, <3>1, <3>2, JobGoes DEF OfMac
  <2> QED
    BY <1>13, <2>2, <2>3 DEF Aside, FailBefore
<1>14. CASE Install /\ Swap
  <2>1. route' = route /\ job.pc = "swap"
    BY <1>14 DEF Swap
  <2>2. CASE job' = [job EXCEPT !.pc = "failed"] /\ (inst' = All(backup) \/ UNCHANGED <<inst, backup>>)
    <3>1. UNCHANGED backup => All(backup)' = All(backup)
      BY <2>1 DEF All, PartsOf
    <3> QED
      BY <2>1, <2>2, <3>1, JobGoes DEF OfMac
  <2>3. CASE backup' = backup /\ inst' = All(stage.v) /\ job' = [job EXCEPT !.pc = "try"]
    <3>1. route = "mac" => Whole(inst)'
      BY <2>1, <2>3, KnownVersions DEF OfMac, TypedStage, Whole, All, PartsOf
    <3>2. All(backup)' = All(backup)
      BY <2>1, <2>3 DEF All, PartsOf
    <3> QED
      BY <2>1, <2>3, <3>1, <3>2, JobGoes DEF OfMac
  <2> QED
    BY <1>14, <2>2, <2>3 DEF Swap, FailBefore
<1>15. CASE Install /\ Try
  <2>1. route' = route /\ job.pc = "try"
    BY <1>15 DEF Try
  <2>2. CASE job' = [job EXCEPT !.pc = "failed"] /\ (inst' = All(backup) \/ backup' = backup)
    <3>1. UNCHANGED backup => All(backup)' = All(backup)
      BY <2>1 DEF All, PartsOf
    <3> QED
      BY <2>1, <2>2, <3>1, JobGoes DEF OfMac
  <2>3. CASE inst' = inst /\ job' = [job EXCEPT !.pc = "ok"]
    <3>1. Whole(inst)' = Whole(inst)
      BY <2>1, <2>3 DEF Whole, All, PartsOf
    <3> QED
      BY <2>1, <2>3, <3>1, JobGoes DEF OfMac
  <2> QED
    BY <1>15, <2>2, <2>3 DEF Try
<1>16. CASE Install /\ Killed
  <2>1. /\ UNCHANGED <<route, inst, stage, backup>> /\ job' = [job EXCEPT !.pc = "killed"]
        /\ job.pc \notin {"idle", "ok", "failed", "killed"}
    BY <1>16 DEF Killed, Busy
  <2>2. route = "mac" => job.pc \in MacSteps
    BY <2>1 DEF TypedJob, Job, JobSteps, Alone
  <2>3. All(backup)' = All(backup)
    BY <2>1 DEF All, PartsOf
  <2> QED
    BY <2>1, <2>2, <2>3, JobGoes DEF OfMac, MacSteps
<1>17. ASSUME NEW k \in Checks, CheckBegins(k) \/ CkNext(k) PROVE OfMac'
  BY <1>1, <1>17, CheckFrame
<1>18. ASSUME NEW c \in Downloads, DlNext(c) PROVE OfMac'
  BY <1>1, <1>18, DownloadFrame
<1> QED
  BY <1>2, <1>3, <1>4, <1>5, <1>6, <1>7, <1>8, <1>9, <1>10, <1>11, <1>12, <1>13, <1>14, <1>15, <1>16, <1>17,
     <1>18 DEF Next, Install, InstallStep

\* What runs is a published release.
LEMMA RunsKept ==
  ASSUME TypedInst, RunsPublished, [Next]_vars
  PROVE RunsPublished'
<1>1. ASSUME UNCHANGED <<started, quit>> PROVE RunsPublished'
  BY <1>1 DEF RunsPublished
<1>2. CASE UNCHANGED vars
  BY <1>1, <1>2
<1>3. CASE Publish \/ CoreDies
  BY <1>1, <1>3 DEF Publish, CoreDies
<1>4. ASSUME NEW v \in offers, Later(v) PROVE RunsPublished'
  BY <1>1, <1>4 DEF Later
<1>5. ASSUME NEW c \in Downloads, NEW v \in offers, Accept(c, v) PROVE RunsPublished'
  BY <1>1, <1>5 DEF Accept
<1>6. ASSUME NEW c \in Downloads, Cancel(c) PROVE RunsPublished'
  BY <1>1, <1>6 DEF Cancel
<1>7. CASE CoreStopped
  <2>1. quit' = "gone"
    BY <1>7 DEF CoreStopped
  <2> QED
    BY <2>1 DEF RunsPublished
<1>8. CASE NewSession
  <2>1. inst["app"] \in Versions /\ started' = inst
    BY <1>8 DEF NewSession
  <2>2. inst["app"] \in Known
    BY <2>1, InstallersAssumption DEF TypedInst, Set, PartsOf, None, Torn
  <2> QED
    BY <2>1, <2>2 DEF RunsPublished
<1>9. ASSUME NEW c \in Downloads, Poll(c) PROVE RunsPublished'
  <2>1. started' = started /\ (quit' # "gone" => quit # "gone")
    <3>1. CASE UNCHANGED <<ivars, quit>>
      BY <3>1
    <3>2. CASE Staged
      BY <1>9, <3>2 DEF Staged, Exit, Poll, Ticks, GuiRuns
    <3> QED
      BY <1>9, <3>1, <3>2 DEF Poll
  <2> QED
    BY <2>1 DEF RunsPublished
<1>10. CASE Install
  <2>1. quit' = "gone"
    BY <1>10 DEF Install
  <2> QED
    BY <2>1 DEF RunsPublished
<1>11. ASSUME NEW k \in Checks, CheckBegins(k) \/ CkNext(k) PROVE RunsPublished'
  BY <1>1, <1>11, CheckFrame
<1>12. ASSUME NEW c \in Downloads, DlNext(c) PROVE RunsPublished'
  BY <1>1, <1>12, DownloadFrame
<1> QED
  BY <1>2, <1>3, <1>4, <1>5, <1>6, <1>7, <1>8, <1>9, <1>10, <1>11, <1>12 DEF Next

\* A release the check finds newer is no older than what runs, and newer than a release that runs.
LEMMA NewerIsNews ==
  ASSUME started["app"] \in Known, NEW i \in DOMAIN Releases, Better(Releases[i])
  PROVE News(Releases[i].v)
<1>1. PICK j \in DOMAIN Releases : started["app"] = Releases[j].v
  BY DEF Known
<1>2. Running = Releases[j] /\ Rel(Releases[i].v) = Releases[i]
  BY <1>1, RecordOf DEF Running
<1>3. SUFFICES ASSUME Running.ver PROVE Rank(Releases[i]) >= Rank(Releases[j]) + (IF Releases[j].tag = Plain THEN 1 ELSE 0)
  BY <1>2 DEF News
<1>4. AssetRank(Releases[i]) > Rank(Releases[j])
  BY <1>2, <1>3, Release DEF Better, Newer, Rank, AssetRank, Plain
<1> QED
  BY <1>4, Release DEF Rank, AssetRank, Plain

\* Offers and answers that were news stay news while the program runs.
LEMMA NewsStays ==
  ASSUME Newest, started' = started, quit' # "gone" => quit # "gone", offers' \subseteq offers,
         \A k \in Checks : ck'[k].pc \in {"name", "sums", "reply"} => ck[k].pc \in {"name", "sums", "reply"} /\ ck'[k].v = ck[k].v
  PROVE Newest'
BY DEF Newest, News, Running

\* What a check has found, and what is offered, is no older than what runs.
LEMMA NewestKept ==
  ASSUME TypedChecks, TypedGui, RunsPublished, Newest, [Next]_vars
  PROVE Newest'
<1>1. ASSUME UNCHANGED <<started, ck, offers, quit>> PROVE Newest'
  BY <1>1 DEF Newest, News, Running
<1>2. CASE UNCHANGED vars
  BY <1>1, <1>2
<1>3. CASE Publish
  BY <1>1, <1>3 DEF Publish
<1>4. ASSUME NEW c \in Downloads, Cancel(c) PROVE Newest'
  BY <1>1, <1>4 DEF Cancel
<1>5. CASE CoreStopped
  <2>1. quit' = "gone"
    BY <1>5 DEF CoreStopped
  <2> QED
    BY <2>1 DEF Newest
<1>6. CASE CoreDies
  <2>1. started' = started /\ (quit' # "gone" => quit # "gone") /\ offers' \subseteq offers
    BY <1>6 DEF CoreDies
  <2>2. \A o \in Checks : ck'[o].pc \in {"name", "sums", "reply"} => ck[o].pc \in {"name", "sums", "reply"} /\ ck'[o].v = ck[o].v
    BY <1>6 DEF CoreDies, TypedChecks, Check, NoCheck, EndedCheck
  <2> QED
    BY <2>1, <2>2, NewsStays
<1>7. ASSUME NEW v \in offers, Later(v) PROVE Newest'
  BY <1>7, NewsStays DEF Later
<1>8. ASSUME NEW c \in Downloads, NEW v \in offers, Accept(c, v) PROVE Newest'
  BY <1>8, NewsStays DEF Accept
<1>9. ASSUME NEW k \in Checks, CheckBegins(k) \/ CheckNames(k) \/ CheckSums(k) \/ CheckCurrent(k) PROVE Newest'
  <2>1. started' = started /\ (quit' # "gone" => quit # "gone") /\ offers' \subseteq offers
    BY <1>9 DEF CheckBegins, CheckNames, CheckSums, CheckCurrent
  <2>2. \A o \in Checks : ck'[o].pc \in {"name", "sums", "reply"} => ck[o].pc \in {"name", "sums", "reply"} /\ ck'[o].v = ck[o].v
    BY <1>9 DEF CheckBegins, CheckNames, CheckSums, CheckCurrent, TypedChecks, Check, NoCheck, EndedCheck
  <2> QED
    BY <2>1, <2>2, NewsStays
<1>10. CASE NewSession
  <2>1. offers' = {} /\ \A o \in Checks : ck'[o].pc \in {"idle", "over"}
    BY <1>10 DEF NewSession, Ended, EndedCheck, NoCheck
  <2> QED
    BY <2>1 DEF Newest
<1>11. ASSUME NEW c \in Downloads, Poll(c) PROVE Newest'
  <2>1. UNCHANGED <<started, offers, ck>> /\ (quit' # "gone" => quit # "gone")
    <3>1. CASE UNCHANGED <<ivars, quit>>
      BY <1>11, <3>1 DEF Poll
    <3>2. CASE Staged
      BY <1>11, <3>2 DEF Staged, Exit, Poll, Ticks, GuiRuns
    <3> QED
      BY <1>11, <3>1, <3>2 DEF Poll
  <2> QED
    BY <2>1, NewsStays
<1>12. CASE Install
  <2>1. quit' = "gone"
    BY <1>12, InstallFrame DEF Install
  <2> QED
    BY <2>1 DEF Newest
<1>13. ASSUME NEW k \in Checks, CheckAnswered(k) PROVE Newest'
  <2>1. UNCHANGED <<started, quit, offers>>
    BY <1>13 DEF CheckAnswered
  <2>2. CASE ck' = [ck EXCEPT ![k] = EndedCheck] \/ ck' = [ck EXCEPT ![k] = [ck[k] EXCEPT !.pc = "current"]]
    <3>1. \A o \in Checks : ck'[o].pc \in {"name", "sums", "reply"} => ck'[o] = ck[o]
      BY <2>2 DEF TypedChecks, Check, NoCheck, EndedCheck
    <3> QED
      BY <2>1, <3>1, NewsStays
  <2>3. ASSUME NEW incl \in BOOLEAN, NEW v, v = Answer(incl), v # None, quit # "gone",
               ck' = [ck EXCEPT ![k] = [ck[k] EXCEPT !.pc = "name", !.v = v]]
        PROVE  Newest'
    <3>1. PICK i \in DOMAIN Releases : Releases[i].v = v /\ Better(Releases[i])
      <4>1. published \in 2..Len(Releases)
        BY DEF TypedGui
      <4> QED
        BY <2>3, <4>1, MatchingNewer
    <3>2. News(v)
      BY <2>3, <3>1, NewerIsNews DEF RunsPublished
    <3>3. \A o \in Checks : ck'[o] = ck[o] \/ ck'[o].v = v
      BY <2>3 DEF TypedChecks, Check
    <3> QED
      BY <2>1, <2>3, <3>2, <3>3 DEF Newest, News, Running
  <2>4. CASE quit = "gone"
    BY <2>1, <2>4 DEF Newest
  <2> QED
    BY <1>13, <2>2, <2>3, <2>4 DEF CheckAnswered
<1>14. ASSUME NEW k \in Checks, CheckOffers(k) PROVE Newest'
  <2>1. UNCHANGED <<started, quit>> /\ offers' = offers \cup {ck[k].v} /\ ck[k].pc = "reply"
    BY <1>14 DEF CheckOffers
  <2>2. \A o \in Checks : ck'[o].pc \in {"name", "sums", "reply"} => ck'[o] = ck[o]
    BY <1>14 DEF CheckOffers, TypedChecks, Check, NoCheck, EndedCheck
  <2> QED
    BY <2>1, <2>2 DEF Newest, News, Running
<1>15. ASSUME NEW c \in Downloads, DlNext(c) PROVE Newest'
  BY <1>1, <1>15, DownloadFrame
<1> QED
  BY <1>2, <1>3, <1>4, <1>5, <1>6, <1>7, <1>8, <1>9, <1>10, <1>11, <1>12, <1>13, <1>14, <1>15 DEF Next, CkNext

\* What no step but the start of a download or of the program does to a call: forget that it
\* met another, bring it to life, or open its dialog.
Quiet(r, s) ==
  /\ r.met => s.met
  /\ s.pc \notin {"idle", "over"} => r.pc \notin {"idle", "over"}
  /\ s.dlg \in {"polling", "stopped"} => r.dlg \in {"polling", "stopped"}
  /\ s.dlg = "polling" => r.dlg = "polling"

\* Such steps are quiet to every call.
LEMMA CallsQuiet ==
  ASSUME TypedDls, [Next]_vars, ~NewSession, ~ \E c \in Downloads, v \in offers : Accept(c, v)
  PROVE \A o \in Downloads : Quiet(dl[o], dl'[o])
<1> DEFINE Same == \A o \in Downloads : Quiet(dl[o], dl'[o])
<1>1. CASE UNCHANGED dl
  BY <1>1 DEF Quiet
<1>2. CASE UNCHANGED vars \/ Publish \/ Install \/ \E v \in offers : Later(v)
  BY <1>1, <1>2, InstallFrame DEF Publish, Later
<1>3. CASE CoreStopped
  BY <1>3 DEF CoreStopped, Ended, NoDl, TypedDls, Download, Quiet
<1>4. CASE CoreDies
  BY <1>4 DEF CoreDies, Live, TypedDls, Download, Quiet
<1>5. ASSUME NEW k \in Checks, CheckBegins(k) PROVE Same
  BY <1>5 DEF CheckBegins, Meet, TypedDls, Download, Quiet
<1>6. ASSUME NEW k \in Checks, CkNext(k) PROVE Same
  BY <1>1, <1>6 DEF CkNext, CheckAnswered, CheckNames, CheckSums, CheckCurrent, CheckOffers
<1>7. ASSUME NEW c \in Downloads, Poll(c) PROVE Same
  <2>1. PICK x \in {"stopped", "done"} : dl' = [dl EXCEPT ![c].dlg = x]
    BY <1>7 DEF Poll
  <2> QED
    BY <1>7, <2>1 DEF Poll, Ticks, TypedDls, Download, Quiet
<1>8. ASSUME NEW c \in Downloads, Cancel(c) PROVE Same
  BY <1>8 DEF Cancel, TypedDls, Download, Quiet
<1>9. ASSUME NEW c \in Downloads, DlAnswer(c) PROVE Same
  BY <1>9 DEF DlAnswer, CloseFront, Over, NoDl, TypedDls, Download, Quiet
<1>10. ASSUME NEW c \in Downloads, DlNext(c), ~DlAnswer(c) PROVE Same
  <2>1. Step(dl[c], dl'[c]) => (dl'[c].pc \notin {"idle", "over"} => dl[c].pc \notin {"idle", "over"})
    BY DEF Step, Getting
  <2> QED
    BY <1>10, <2>1, CallStep DEF Quiet
<1> QED
  BY <1>2, <1>3, <1>4, <1>5, <1>6, <1>7, <1>8, <1>9, <1>10 DEF Next

\* So a call that met none before has met none, and no call or dialog is new.
LEMMA NothingNew ==
  ASSUME TypedDls, [Next]_vars, ~NewSession, ~ \E c \in Downloads, v \in offers : Accept(c, v)
  PROVE (Unmet' => Unmet) /\ (Live \cup Open)' \subseteq Live \cup Open /\ Live' \subseteq Live
BY CallsQuiet DEF Quiet, Unmet, Live, Open

\* The end of a session leaves no call and no dialog.
LEMMA NoneLeft ==
  ASSUME TypedDls, NEW b \in BOOLEAN, Ended(b)
  PROVE (Live \cup Open)' = {}
BY DEF Ended, NoDl, Live, Open

\* A download that begins unmet begins alone, with the release of the last check.
LEMMA BeginsAlone ==
  ASSUME TypedDls, NEW c \in Downloads, NEW v \in offers, Accept(c, v), Unmet'
  PROVE /\ Live \cup Open = {} /\ (Live \cup Open)' \subseteq {c}
        /\ \A k \in Checks : ck[k].pc \in {"idle", "over"}
        /\ dl'[c].pc = "start" /\ url = v /\ prog = NoProg
<1> DEFINE m == url # v \/ prog # NoProg \/ Live \cup Open # {} \/ \E k \in Checks : ck[k].pc \notin {"idle", "over"}
           r == [NoDl EXCEPT !.pc = "start", !.dlg = "polling", !.v = v, !.met = m]
<1>1. dl' = [Meet EXCEPT ![c] = r]
  BY DEF Accept
<1>2. r.pc = "start" /\ r.met = m
  BY DEF NoDl
<1>3. DOMAIN Meet = Downloads
  BY DEF Meet
<1>4. dl'[c] = r /\ \A o \in Downloads \ {c} : dl'[o] = Meet[o]
  <2> HIDE DEF r
  <2> QED
    BY <1>1, <1>3
<1>5. ~m
  BY <1>2, <1>4 DEF Unmet
<1>6. \A o \in Downloads \ {c} : dl'[o] = dl[o]
  BY <1>4, <1>5 DEF Meet
<1>7. (Live \cup Open)' \subseteq {c}
  BY <1>5, <1>6 DEF Live, Open
<1> QED
  BY <1>2, <1>4, <1>5, <1>7

\* Only the end of a download reports completion.
LEMMA OnlyDone ==
  ASSUME TypedCore, NEW c \in Downloads, DlNext(c), ~DlDone(c)
  PROVE prog'.done => prog.done
BY DEF DlNext, DlStart, DlGet, DlBody, DlSums, DlVerify, DlMove, DlCopy, DlAnswer, DlFails, NoProg, TypedCore

\* While no call has met another there is one call, alone, in a session that has not begun to end.
LEMMA OneCallKept ==
  ASSUME TypedCore, TypedDls, TypedGui, OneCall, [Next]_vars
  PROVE OneCall'
<1>1. CASE NewSession
  BY <1>1, NoneLeft DEF NewSession, OneCall
<1>2. ASSUME NEW c \in Downloads, NEW v \in offers, Accept(c, v) PROVE OneCall'
  <2>1. SUFFICES ASSUME Unmet' PROVE OneCall'
    BY DEF OneCall
  <2>2. (Live \cup Open)' \subseteq {c} /\ prog = NoProg /\ \A k \in Checks : ck[k].pc \in {"idle", "over"}
    BY <1>2, <2>1, BeginsAlone
  <2>3. quit' = "no" /\ asked' # None /\ UNCHANGED <<ck, prog>>
    BY <1>2, KnownVersions DEF Accept, TypedGui
  <2> QED
    BY <2>2, <2>3 DEF OneCall, NoProg
<1>3. ASSUME ~NewSession, ~ \E c \in Downloads, v \in offers : Accept(c, v) PROVE OneCall'
  <2> SUFFICES ASSUME Unmet', NEW e \in (Live \cup Open)' PROVE OneCall'
    BY DEF OneCall
  <2>1. Unmet /\ e \in Live \cup Open /\ (Live \cup Open)' \subseteq Live \cup Open /\ Live' \subseteq Live
    BY <1>3, NothingNew
  <2>2. /\ (Live \cup Open)' \subseteq {e} /\ \A d \in Live \cup Open : d = e
        /\ quit = "no" /\ asked # None /\ \A k \in Checks : ck[k].pc \in {"idle", "over"}
        /\ e \in Live => ~prog.done
    BY <2>1 DEF OneCall
  <2> DEFINE G == /\ quit' = "no" /\ asked' = asked /\ \A k \in Checks : ck'[k].pc \in {"idle", "over"}
                  /\ e \in Live' => ~prog'.done
  <2>3. G => OneCall'
    BY <2>2 DEF OneCall
  <2>4. ASSUME UNCHANGED vars \/ Publish \/ \E v \in offers : Later(v) PROVE G
    BY <2>1, <2>2, <2>4 DEF Publish, Later, Live
  <2>5. ASSUME CoreStopped \/ Install PROVE G
    BY <2>2, <2>5 DEF CoreStopped, Install
  <2>6. ASSUME CoreDies PROVE G
    BY <2>2, <2>6 DEF CoreDies, NoProg, EndedCheck, NoCheck
  <2>7. ASSUME NEW k \in Checks, CheckBegins(k) PROVE G
    <3>1. dl'[e].met
      BY <2>1, <2>7 DEF CheckBegins, Meet, TypedDls, Download, Live, Open
    <3> QED
      BY <2>1, <3>1 DEF Unmet, Live, Open
  <2>8. ASSUME NEW k \in Checks, CkNext(k) PROVE G
    BY <2>2, <2>8 DEF CkNext, CheckAnswered, CheckNames, CheckSums, CheckCurrent, CheckOffers
  <2>9. ASSUME NEW c \in Downloads, Cancel(c) PROVE G
    BY <2>1, <2>2, <2>9 DEF Cancel
  <2>10. ASSUME NEW c \in Downloads, Poll(c) PROVE G
    <3>1. c = e
      BY <2>2, <2>10 DEF Poll, Ticks, Open
    <3>2. CASE prog.err /\ UNCHANGED <<ivars, quit>>
      BY <2>1, <2>2, <2>10, <3>2 DEF Poll
    <3>3. CASE ~prog.err /\ dl' = [dl EXCEPT ![c].dlg = "done"]
      <4>1. prog.done /\ e \notin Live
        BY <2>2, <2>10, <3>3 DEF Poll, Ticks
      <4>2. e \notin Open'
        BY <3>1, <3>3 DEF Open, TypedDls, Download
      <4> QED
        BY <2>1, <4>1, <4>2
    <3> QED
      BY <2>10, <3>2, <3>3 DEF Poll
  <2>11. ASSUME NEW c \in Downloads, DlNext(c) PROVE G
    <3>1. UNCHANGED <<quit, asked, ck>>
      BY <2>11, DownloadFrame
    <3>2. CASE DlDone(c)
      <4>1. c \notin Live'
        BY <3>2, CallStep DEF DlNext, DlDone, DlAnswer, Step, Getting, Live
      <4>2. c \in Live
        BY <3>2 DEF DlDone, Live
      <4> QED
        BY <2>2, <3>1, <4>1, <4>2
    <3>3. CASE ~DlDone(c)
      BY <2>1, <2>2, <2>11, <3>1, <3>3, OnlyDone
    <3> QED
      BY <3>2, <3>3
  <2> QED
    BY <1>3, <2>3, <2>4, <2>5, <2>6, <2>7, <2>8, <2>9, <2>10, <2>11 DEF Next
<1> QED
  BY <1>1, <1>2, <1>3

\* What an unmet call in the air, or an open dialog, finds beside it.
LEMMA Beside ==
  ASSUME OneCall, Unmet, NEW e \in Live \cup Open
  PROVE /\ \A d \in Live \cup Open : d = e
        /\ quit = "no" /\ asked # None /\ \A k \in Checks : ck[k].pc \in {"idle", "over"}
        /\ e \in Live => ~prog.done
BY DEF OneCall

\* A call that is over or has not begun, without a polled dialog, promises nothing.
LEMMA Vacuous ==
  ASSUME NEW e, e \notin (Live \cup Open)', e \in Downloads
  PROVE IsOfAsked(e)'
BY DEF IsOfAsked, Live, Open, Getting

\* A verified file is put under its final name.
LEMMA PutUnder ==
  ASSUME TypedPkg, NEW n \in Files, NEW x, NEW v, NEW g,
         pkg' = [pkg EXCEPT ![n] = [state |-> x, v |-> v, good |-> g]]
  PROVE pkg'[n].v = v
BY DEF TypedPkg

\* A step of the one call keeps to what the user asked for.
LEMMA StepOfAsked ==
  ASSUME TypedPkg, TypedCore, TypedDls, OneCall, OfAsked, Unmet, NEW e \in Downloads, DlNext(e), ~DlAnswer(e)
  PROVE IsOfAsked(e)'
<1>1. e \in Live /\ dl[e] \in Download
  BY DEF DlNext, DlStart, DlGet, DlBody, DlSums, DlVerify, DlMove, DlCopy, DlDone, DlAnswer, Live, TypedDls
<1>2. ~prog.done /\ IsOfAsked(e)
  BY <1>1, Beside DEF OfAsked
<1>3. UNCHANGED <<route, url, name, asked>> /\ Step(dl[e], dl'[e]) /\ dl'[e].dlg = dl[e].dlg
  BY DownloadFrame, CallStep
<1>4. \A v : FinalOf(v)' = FinalOf(v)
  BY <1>3 DEF FinalOf
<1>5. CASE DlStart(e) \/ DlGet(e) \/ DlBody(e) \/ DlSums(e) \/ DlVerify(e)
  <2>1. ~prog'.done /\ dl'[e].pc # "done"
    <3>1. ~DlDone(e) /\ dl[e].pc \in {"start", "get", "body", "sums", "verify"}
      BY <1>5 DEF DlStart, DlGet, DlBody, DlSums, DlVerify, DlDone
    <3>2. ~prog'.done
      BY <1>2, <3>1, OnlyDone
    <3> QED
      BY <1>3, <3>1, <3>2 DEF Step
  <2> QED
    BY <1>2, <1>3, <1>4, <2>1 DEF IsOfAsked, Step, Getting
<1>6. CASE DlMove(e)
  <2>1. dl[e].pc = "move" /\ ~DlDone(e)
    BY <1>6 DEF DlMove, DlDone
  <2>2. ~prog'.done
    BY <1>2, <2>1, OnlyDone
  <2>3. dl[e].dst = FinalOf(asked) /\ dl[e].v = asked /\ dl[e].dst \in Files
    BY <1>1, <1>2, <2>1 DEF IsOfAsked, Download, Getting
  <2>4. dl'[e].pc = "done" => pkg'[FinalOf(asked)].v = asked
    <3>1. dl'[e].pc = "done" => pkg' = [pkg EXCEPT ![dl[e].dst] = [state |-> "whole", v |-> dl[e].v, good |-> dl[e].good]]
      <4>1. CASE Put(e, "whole")
        BY <4>1 DEF Put
      <4>2. CASE DlFails(e) \/ DlGoto(e, "copy")
        BY <1>1, <4>2 DEF DlFails, TypedDls, Download
      <4> QED
        BY <1>6, <4>1, <4>2 DEF DlMove
    <3> QED
      BY <2>3, <3>1, PutUnder
  <2> QED
    BY <1>2, <1>3, <1>4, <2>1, <2>2, <2>4 DEF IsOfAsked, Step, Getting
<1>7. CASE DlCopy(e)
  <2>1. dl[e].pc = "copy" /\ ~DlDone(e)
    BY <1>7 DEF DlCopy, DlDone
  <2>2. ~prog'.done
    BY <1>2, <2>1, OnlyDone
  <2>3. dl[e].dst = FinalOf(asked) /\ dl[e].v = asked /\ dl[e].dst \in Files
    BY <1>1, <1>2, <2>1 DEF IsOfAsked, Download, Getting
  <2>4. dl'[e].pc = "done" => pkg'[FinalOf(asked)].v = asked
    <3>1. dl'[e].pc = "done" => pkg' = [pkg EXCEPT ![dl[e].dst] = [state |-> "whole", v |-> dl[e].v, good |-> dl[e].good]]
      <4>1. CASE Put(e, "whole")
        BY <4>1 DEF Put
      <4>2. CASE DlFails(e) \/ DlGoto(e, "copy")
        BY <1>1, <4>2 DEF DlFails, TypedDls, Download
      <4> QED
        BY <1>7, <4>1, <4>2 DEF DlCopy
    <3> QED
      BY <2>3, <3>1, PutUnder
  <2> QED
    BY <1>2, <1>3, <1>4, <2>1, <2>2, <2>4 DEF IsOfAsked, Step, Getting
<1>8. CASE DlDone(e)
  <2>1. dl[e].pc = "done" /\ pkg' = pkg
    BY <1>8 DEF DlDone
  <2>2. dl'[e].pc = "over"
    BY <1>3, <2>1 DEF Step, Getting
  <2> QED
    BY <1>2, <1>3, <1>4, <2>1, <2>2 DEF IsOfAsked, Getting
<1> QED
  BY <1>5, <1>6, <1>7, <1>8 DEF DlNext

\* While no call has met another, what is downloaded is what the user asked for.
LEMMA OfAskedKept ==
  ASSUME TypedPkg, TypedCore, TypedDls, TypedGui, OneCall, OfAsked, [Next]_vars
  PROVE OfAsked'
<1>1. CASE NewSession
  BY <1>1, NoneLeft, Vacuous DEF NewSession, OfAsked
<1>2. ASSUME NEW c \in Downloads, NEW v \in offers, Accept(c, v) PROVE OfAsked'
  <2>1. SUFFICES ASSUME Unmet', NEW e \in Downloads, e \in (Live \cup Open)' PROVE IsOfAsked(e)'
    BY Vacuous DEF OfAsked
  <2>2. e = c /\ dl'[e].pc = "start" /\ url = v /\ prog = NoProg
    BY <1>2, <2>1, BeginsAlone
  <2>3. url' = url /\ prog' = prog /\ asked' = v
    BY <1>2 DEF Accept
  <2> QED
    BY <2>2, <2>3 DEF IsOfAsked, Getting, NoProg
<1>3. ASSUME ~NewSession, ~ \E c \in Downloads, v \in offers : Accept(c, v) PROVE OfAsked'
  <2> SUFFICES ASSUME Unmet', NEW e \in Downloads, e \in (Live \cup Open)' PROVE IsOfAsked(e)'
    BY Vacuous DEF OfAsked
  <2>1. Unmet /\ e \in Live \cup Open /\ IsOfAsked(e) /\ dl[e] \in Download
    BY <1>3, NothingNew DEF OfAsked, TypedDls
  <2>2. /\ \A d \in Live \cup Open : d = e
        /\ quit = "no" /\ \A k \in Checks : ck[k].pc \in {"idle", "over"}
        /\ e \in Live => ~prog.done
    BY <2>1, Beside
  <2>3. ASSUME UNCHANGED <<route, pkg, asked, prog, url, name>>, dl'[e].pc = dl[e].pc, dl'[e].v = dl[e].v,
               dl'[e].dst = dl[e].dst, dl'[e].dlg = "polling" => dl[e].dlg = "polling"
        PROVE  IsOfAsked(e)'
    BY <2>1, <2>3 DEF IsOfAsked, FinalOf
  <2>4. CASE UNCHANGED vars \/ Publish \/ \E v \in offers : Later(v)
    BY <2>3, <2>4 DEF Publish, Later
  <2>5. CASE CoreStopped \/ Install
    BY <2>2, <2>5 DEF CoreStopped, Install
  <2>6. CASE CoreDies
    <3>1. e \in Live
      BY <2>1, <2>6 DEF CoreDies, TypedDls, Download, Unmet
    <3>2. dl'[e].pc = "failed" /\ ~prog'.done
      BY <2>1, <2>6, <3>1 DEF CoreDies, Download, NoProg
    <3> QED
      BY <3>2 DEF IsOfAsked, Getting
  <2>7. ASSUME NEW k \in Checks, CheckBegins(k) PROVE IsOfAsked(e)'
    <3>1. dl'[e].met
      BY <2>1, <2>7 DEF CheckBegins, Meet, TypedDls, Download, Live, Open
    <3> QED
      BY <3>1 DEF Unmet
  <2>8. ASSUME NEW k \in Checks, CkNext(k) PROVE IsOfAsked(e)'
    BY <2>2, <2>8 DEF CkNext, CheckAnswered, CheckNames, CheckSums, CheckCurrent, CheckOffers
  <2>9. ASSUME NEW c \in Downloads, Cancel(c) PROVE IsOfAsked(e)'
    <3>1. UNCHANGED <<route, pkg, asked, prog, url, name>> /\ dl' = [dl EXCEPT ![c].dlg = "closed"]
      BY <2>9 DEF Cancel
    <3>2. dl'[e].pc = dl[e].pc /\ dl'[e].v = dl[e].v /\ dl'[e].dst = dl[e].dst /\ dl'[e].dlg \in {dl[e].dlg, "closed"}
      BY <3>1 DEF TypedDls, Download
    <3> QED
      BY <2>3, <3>1, <3>2
  <2>10. ASSUME NEW c \in Downloads, Poll(c) PROVE IsOfAsked(e)'
    <3>1. c = e /\ UNCHANGED <<asked, prog, url, name>>
      BY <2>2, <2>10 DEF Poll, Ticks, Open
    <3>2. CASE dl' = [dl EXCEPT ![c].dlg = "stopped"] /\ UNCHANGED <<ivars, quit>>
      <4>1. dl'[e].pc = dl[e].pc /\ dl'[e].v = dl[e].v /\ dl'[e].dst = dl[e].dst /\ dl'[e].dlg = "stopped"
        BY <3>1, <3>2 DEF TypedDls, Download
      <4> QED
        BY <2>3, <3>1, <3>2, <4>1
    <3>3. CASE ~prog.err /\ dl' = [dl EXCEPT ![c].dlg = "done"]
      <4>1. prog.done /\ e \notin Live
        BY <2>2, <2>10, <3>3 DEF Poll, Ticks
      <4>2. e \notin (Live \cup Open)'
        BY <3>1, <3>3, <4>1 DEF Live, Open, TypedDls, Download
      <4> QED
        BY <4>2
    <3> QED
      BY <2>10, <3>2, <3>3 DEF Poll
  <2>11. ASSUME NEW c \in Downloads, DlNext(c), ~DlAnswer(c) PROVE IsOfAsked(e)'
    <3>1. c = e
      BY <2>2, <2>11 DEF DlNext, DlStart, DlGet, DlBody, DlSums, DlVerify, DlMove, DlCopy, DlDone, Live
    <3> QED
      BY <2>1, <2>11, <3>1, StepOfAsked
  <2>12. ASSUME NEW c \in Downloads, DlAnswer(c) PROVE IsOfAsked(e)'
    <3>1. c = e /\ UNCHANGED <<route, pkg, asked, prog, url, name>>
      BY <2>2, <2>12 DEF DlAnswer, Live
    <3>2. dl'[e].pc = "over" /\ dl'[e].dlg \in {dl[e].dlg, "closed"}
      BY <2>12, <3>1 DEF DlAnswer, CloseFront, Over, NoDl, TypedDls, Download
    <3> QED
      BY <2>1, <3>1, <3>2 DEF IsOfAsked, Getting, FinalOf
  <2> QED
    BY <1>3, <2>4, <2>5, <2>6, <2>7, <2>8, <2>9, <2>10, <2>11, <2>12 DEF Next
<1> QED
  BY <1>1, <1>2, <1>3

\* A step of an installer works on the file it was started for, and on what it unpacked from it.
LEMMA HandedStays ==
  ASSUME TypedPkg, TypedJob, Handed, Unmet, job.pc # "idle", UNCHANGED <<route, asked>>, quit' = "gone",
         job'.name = job.name, pkg' \in {pkg, [pkg EXCEPT ![job.name] = NoFile]},
         job'.pc \in {"clear", "move", "place", "aside", "swap"} => stage'.v = asked
  PROVE Handed'
<1>1. job.name \in Files /\ Mine(job.name) /\ Files' = Files
  BY DEF Handed, Files
<1>2. Mine(job.name)'
  BY <1>1 DEF Mine, TypedPkg
<1> QED
  BY <1>1, <1>2 DEF Handed, Mine

\* An installer that takes another step has its file, and its record but for the step.
LEMMA OtherStep ==
  ASSUME TypedJob, TypedStage, Handed, Unmet, InstallStep \/ Killed
  PROVE /\ job.pc # "idle" /\ job'.name = job.name /\ pkg' \in {pkg, [pkg EXCEPT ![job.name] = NoFile]}
        /\ job'.pc \in {"clear", "move", "place", "aside", "swap"} => stage'.v = asked
<1> USE DEF TypedJob, Job, TypedStage
<1>1. CASE Find
  BY <1>1 DEF Find, ArchiveFailed
<1>2. CASE Extract
  <2>1. job.pc # "idle" /\ job'.name = job.name /\ pkg' \in {pkg, [pkg EXCEPT ![job.name] = NoFile]}
    BY <1>2 DEF Extract, ArchiveFailed
  <2>2. CASE job'.pc = "failed"
    BY <2>1, <2>2
  <2>3. CASE Finished(job.name) /\ stage'.v = pkg[job.name].v
    BY <2>1, <2>3 DEF Handed, Mine, Finished
  <2> QED
    BY <1>2, <2>2, <2>3 DEF Extract, ArchiveFailed
<1>3. CASE Unzip
  <2>1. job.pc # "idle" /\ job'.name = job.name /\ pkg' \in {pkg, [pkg EXCEPT ![job.name] = NoFile]}
    BY <1>3 DEF Unzip, FailBefore
  <2>2. CASE job'.pc = "failed"
    BY <2>1, <2>2
  <2>3. CASE Finished(job.name) /\ stage'.v = pkg[job.name].v
    BY <2>1, <2>3 DEF Handed, Mine, Finished
  <2> QED
    BY <1>3, <2>2, <2>3 DEF Unzip, FailBefore
<1>4. CASE Clear
  BY <1>4 DEF Clear, Handed
<1>5. CASE MoveNext
  BY <1>5 DEF MoveNext, ArchiveFailed, Handed
<1>6. CASE Place
  BY <1>6 DEF Place, ArchiveFailed, Handed
<1>7. CASE CleanUp
  BY <1>7 DEF CleanUp
<1>8. CASE Wait
  BY <1>8 DEF Wait
<1>9. CASE Aside
  BY <1>9 DEF Aside, FailBefore, Handed
<1>10. CASE Swap
  BY <1>10 DEF Swap, FailBefore
<1>11. CASE Try
  BY <1>11 DEF Try
<1>12. CASE Killed
  BY <1>12 DEF Killed, Busy
<1> QED
  BY <1>1, <1>2, <1>3, <1>4, <1>5, <1>6, <1>7, <1>8, <1>9, <1>10, <1>11, <1>12 DEF InstallStep

\* While no call has met another, the installer is handed the release the user asked for.
LEMMA HandedKept ==
  ASSUME TypedPkg, TypedStage, TypedJob, TypedDls, TypedGui, Asked, Alone, OneCall, OfAsked, Handed, [Next]_vars
  PROVE Handed'
<1> SUFFICES ASSUME Unmet' PROVE Handed'
  BY DEF Handed
<1>1. ASSUME quit = "no", quit' \in {"no", "gone"}, job' \in {job, Idle} PROVE Handed'
  BY <1>1 DEF Alone, Idle, Handed
<1>2. CASE NewSession
  BY <1>2 DEF NewSession, Handed, Idle
<1>3. ASSUME NEW c \in Downloads, NEW v \in offers, Accept(c, v) PROVE Handed'
  BY <1>1, <1>3 DEF Accept
<1>4. ASSUME ~NewSession, ~ \E c \in Downloads, v \in offers : Accept(c, v) PROVE Handed'
  <2>1. Unmet
    BY <1>4, NothingNew
  <2>2. ASSUME UNCHANGED <<route, quit, asked, pkg, job, stage>> PROVE Handed'
    BY <2>1, <2>2 DEF Handed, Mine, FinalOf, Files
  <2>3. CASE UNCHANGED vars \/ Publish \/ \E v \in offers : Later(v)
    BY <2>2, <2>3 DEF Publish, Later
  <2>4. CASE CoreStopped
    <3>1. UNCHANGED <<route, asked, pkg>> /\ quit = "stopping" /\ quit' = "gone"
      BY <2>4 DEF CoreStopped
    <3>2. asked \in Known /\ Mine(FinalOf(asked)) /\ job = Idle
      BY <2>1, <3>1 DEF Asked, TypedGui, Handed, Alone
    <3>3. CASE job' = job
      BY <3>1, <3>2, <3>3 DEF Handed, Idle
    <3>4. CASE Launch(FinalOf(asked), TRUE)
      <4>1. FinalOf(asked) \in Files /\ Files' = Files /\ Mine(FinalOf(asked))'
        BY <3>1, <3>2, FileOf DEF Files, Mine, FinalOf
      <4>2. job'.name = FinalOf(asked) /\ job'.pc \in {"wait", "find"}
        BY <3>4, JobBegins
      <4> QED
        BY <3>1, <4>1, <4>2 DEF Handed, Mine, FinalOf
    <3> QED
      BY <2>4, <3>3, <3>4 DEF CoreStopped
  <2>5. CASE CoreDies
    BY <1>1, <2>5 DEF CoreDies
  <2>6. CASE Install
    <3>1. UNCHANGED <<route, asked, quit>> /\ quit = "gone" /\ (InstallStep \/ Killed)
      BY <2>6, InstallFrame DEF Install
    <3> QED
      BY <2>1, <3>1, OtherStep, HandedStays
  <2>7. ASSUME NEW k \in Checks, CheckBegins(k) \/ CkNext(k) PROVE Handed'
    BY <2>2, <2>7, CheckFrame
  <2>8. ASSUME NEW c \in Downloads, Cancel(c) PROVE Handed'
    BY <2>2, <2>8 DEF Cancel
  <2>9. ASSUME NEW c \in Downloads, Poll(c) PROVE Handed'
    <3>1. c \in Open /\ dl[c].dlg = "polling"
      BY <2>9 DEF Poll, Ticks, Open
    <3>2. quit = "no" /\ job = Idle /\ IsOfAsked(c)
      BY <2>1, <3>1, Beside DEF Alone, OfAsked
    <3>3. CASE UNCHANGED <<ivars, quit>>
      BY <2>2, <2>9, <3>3 DEF Poll
    <3>4. CASE ~prog.err /\ Staged
      <4>1. pkg[FinalOf(asked)].v = asked
        BY <2>9, <3>1, <3>2, <3>4 DEF IsOfAsked, Poll, Ticks
      <4>2. asked \in Known /\ route' = route /\ asked' = asked
        BY <2>9, <3>1 DEF Asked, TypedGui, Poll, Staged
      <4>3. pkg' = pkg \/ (route = "appimage" /\ pkg' = [pkg EXCEPT ![asked] = NoFile])
        BY <3>4 DEF Staged
      <4>4. route = "appimage" => FinalOf(asked) = asked
        BY DEF FinalOf
      <4>5. Mine(FinalOf(asked))'
        BY <4>1, <4>2, <4>3, <4>4, FileOf DEF Mine, TypedPkg, FinalOf
      <4>6. job' = Idle
        BY <3>2, <3>4 DEF Staged
      <4> QED
        BY <4>5, <4>6 DEF Handed, Idle
    <3> QED
      BY <2>9, <3>3, <3>4 DEF Poll
  <2>10. ASSUME NEW c \in Downloads, DlNext(c) PROVE Handed'
    <3>1. UNCHANGED <<route, quit, asked, job, stage>>
      BY <2>10, DownloadFrame
    <3>2. CASE c \in Live
      BY <1>1, <2>1, <3>1, <3>2, Beside
    <3>3. CASE c \notin Live
      BY <2>10, <3>3 DEF DlNext, DlStart, DlGet, DlBody, DlSums, DlVerify, DlMove, DlCopy, DlDone, DlAnswer, Live
    <3> QED
      BY <3>2, <3>3
  <2> QED
    BY <1>4, <2>3, <2>4, <2>5, <2>6, <2>7, <2>8, <2>9, <2>10 DEF Next
<1> QED
  BY <1>2, <1>3, <1>4

-----------------------------------------------------------------------------
(* The theorems. *)

\* The invariant holds at the first start of the program.
LEMMA InitHolds == Init => IInv
<1> SUFFICES ASSUME Init PROVE IInv
  OBVIOUS
<1>1. 1..2 \subseteq DOMAIN Releases /\ Len(Releases) \in Nat /\ Len(Releases) >= 2
  BY ReleasesAssumption, LenProperties
<1>2. PICK i \in First : inst = All(Releases[i].v) /\ Releases[i].v \in Known
  BY <1>1, ReleasesAssumption DEF Init, Known
<1>3. TypedInst /\ TypedStage
  BY <1>2, AllTyped DEF Init, TypedInst, TypedStage
<1>4. TypedPkg /\ KeptWell
  BY DEF Init, TypedPkg, KeptWell, File, Finished
<1>5. TypedJob
  BY DEF Init, TypedJob, Job, Idle, JobSteps, MacSteps, ArchiveSteps
<1>6. TypedCore
  BY DEF Init, TypedCore, NoProg
<1>7. TypedChecks
  BY DEF Init, TypedChecks, Check, NoCheck
<1>8. TypedDls
  BY DEF Init, TypedDls, Download, NoDl, Getting
<1>9. TypedTmp
  BY DEF Init, TypedTmp, NoTmp
<1>10. TypedGui
  BY <1>1 DEF Init, TypedGui
<1>11. Asked
  BY DEF Init, Asked, NoDl
<1>12. Alone
  BY DEF Init, Alone, Idle, MacSteps, ArchiveSteps
<1>13. OfArchive /\ OfMac
  BY DEF Init, OfArchive, OfMac, Idle
<1>14. RunsPublished
  BY <1>2, InstallersAssumption DEF Init, RunsPublished, All, PartsOf
<1>15. Newest
  BY DEF Init, Newest, NoCheck
<1>16. OneCall /\ OfAsked
  BY DEF Init, OneCall, OfAsked, IsOfAsked, Live, Open, NoDl, Getting
<1>17. Handed
  BY DEF Init, Handed, Idle
<1> QED
  BY <1>3, <1>4, <1>5, <1>6, <1>7, <1>8, <1>9, <1>10, <1>11, <1>12, <1>13, <1>14, <1>15, <1>16, <1>17 DEF IInv

\* Every step keeps the invariant.
LEMMA StepKeeps == IInv /\ [Next]_vars => IInv'
<1> SUFFICES ASSUME IInv, [Next]_vars PROVE IInv'
  OBVIOUS
<1>1. TypedInst' /\ TypedStage' /\ TypedPkg' /\ TypedJob'
  BY InstTyped, StageTyped, PkgTyped, JobTyped DEF IInv
<1>2. TypedCore' /\ TypedChecks' /\ TypedDls' /\ TypedTmp' /\ TypedGui' /\ Asked'
  BY CoreTyped, ChecksTyped, DlsTyped, TmpTyped, GuiTyped, AskedKept DEF IInv
<1>3. KeptWell' /\ Alone' /\ OfArchive' /\ OfMac'
  BY WellKept, AloneKept, ArchiveKept, MacKept DEF IInv
<1>4. RunsPublished' /\ Newest' /\ OneCall' /\ OfAsked' /\ Handed'
  BY RunsKept, NewestKept, OneCallKept, OfAskedKept, HandedKept DEF IInv
<1> QED
  BY <1>1, <1>2, <1>3, <1>4 DEF IInv

\* The invariant holds always.
THEOREM AlwaysIInv == Spec => []IInv
<1> QED
  BY InitHolds, StepKeeps, PTL DEF Spec

\* Whatever checks and downloads overlap, and whatever fails: every variable stays in its range,
\* and a finished download holds what a release published under its SHA256SUMS.
THEOREM KeptAlwaysPublished == Spec => [](TypeOK /\ KeptIsPublished)
<1>1. IInv => TypeOK /\ KeptIsPublished
  <2> SUFFICES ASSUME IInv PROVE TypeOK /\ KeptIsPublished
    OBVIOUS
  <2>1. inst \in [PartsOf(route) -> Versions \cup {None, Torn}] /\ backup \in Versions \cup {None, Torn}
    BY KnownVersions DEF IInv, TypedInst, Set
  <2>2. pkg \in [Files -> [state : {"none", "half", "whole"}, v : Versions \cup {None}, good : BOOLEAN]]
    BY KnownVersions DEF IInv, TypedPkg, File
  <2>3. /\ {url, name, sums, asked} \subseteq Versions \cup {None} /\ offers \subseteq Versions
        /\ front \in Downloads \cup {None} /\ quit \in {"no", "stopping", "gone"}
    BY KnownVersions DEF IInv, TypedCore, TypedGui
  <2>4. tmp \in [Downloads -> [dst : Files \cup {None}, v : Versions \cup {None}]]
    BY KnownVersions DEF IInv, TypedTmp
  <2>5. KeptIsPublished
    BY DEF IInv, KeptWell, KeptIsPublished
  <2> QED
    BY <2>1, <2>2, <2>3, <2>4, <2>5 DEF TypeOK
<1> QED
  BY <1>1, AlwaysIInv, PTL

\* All of DownloadSound: what is kept was published with its SHA256SUMS, and what is offered,
\* over every sequence of publications, checks, answers and restarts, is no older than what
\* runs and newer than a release that runs (matchingReleaseAsset).
THEOREM DownloadsAlwaysSound == Spec => []DownloadSound
<1>1. ASSUME IInv PROVE OfferIsNews
  <2>1. SUFFICES ASSUME quit # "gone", Running.ver, NEW v \in offers
                 PROVE  /\ Rank(Rel(v)) >= Rank(Running)
                        /\ Running.tag = Plain => Rank(Rel(v)) > Rank(Running)
    BY DEF OfferIsNews
  <2>2. PICK i, j \in DOMAIN Releases : v = Releases[i].v /\ started["app"] = Releases[j].v
    BY <1>1, <2>1 DEF IInv, TypedGui, RunsPublished, Known
  <2>3. Rel(v) = Releases[i] /\ Running = Releases[j]
    BY <2>2, RecordOf DEF Running
  <2>4. Rank(Rel(v)) \in Nat /\ Rank(Running) \in Nat
    BY <2>3, RankTyped
  <2>5. News(v)
    BY <1>1, <2>1 DEF IInv, Newest
  <2> QED
    BY <2>1, <2>4, <2>5 DEF News
<1>2. TypeOK /\ KeptIsPublished /\ OfferIsNews => DownloadSound
  BY DEF DownloadSound
<1> QED
  BY <1>1, <1>2, AlwaysIInv, KeptAlwaysPublished, PTL

\* One version in all parts determines the version.
LEMMA OneVersion ==
  ASSUME NEW v, NEW w, All(v) = All(w)
  PROVE v = w
<1>1. "app" \in PartsOf(route)
  BY InstallersAssumption DEF PartsOf
<1>2. All(v)["app"] = v /\ All(w)["app"] = w
  BY <1>1 DEF All
<1> QED
  BY <1>2

\* An installer at work is that of the packaging.
LEMMA WhoseStep ==
  ASSUME TypedInst, Alone, job.pc # "idle"
  PROVE /\ route \in {"archive", "mac"}
        /\ job.pc \in ArchiveSteps => route = "archive"
        /\ job.pc \in MacSteps => route = "mac"
BY InstallersAssumption DEF TypedInst, Alone, Idle

\* Wherever an installation that began on a whole program stops, a whole program can be had from
\* what is left: in place, as the backup, or as the verified package; and one that failed before it
\* moved anything left what it found.
THEOREM ProgramAlwaysSurvives == Spec => []ProgramSurvives
<1>1. ASSUME IInv PROVE NothingLost
  <2>1. SUFFICES ASSUME job.pc # "idle", job.alone, Whole(job.found), ~Whole(inst)
                 PROVE  backup \in Versions \/ \E n \in DOMAIN pkg : Finished(n) /\ pkg[n].good
    BY DEF NothingLost
  <2>2. route \in {"archive", "mac"} /\ job.pc \in {"ok", "failed", "killed"} \cup MacSteps \cup ArchiveSteps
    BY <1>1, <2>1, WhoseStep DEF IInv, TypedJob, Job, JobSteps
  <2>3. CASE route = "archive"
    <3>1. job.pc # "ok" /\ job.pc \notin MacSteps /\ job.moved
      BY <1>1, <2>1, <2>3 DEF IInv, OfArchive, Alone
    <3>2. Finished(job.name) /\ job.name \in Files
      BY <1>1, <2>1, <2>2, <2>3, <3>1 DEF IInv, OfArchive, ArchiveSteps
    <3> QED
      BY <1>1, <3>2 DEF IInv, KeptWell, TypedPkg
  <2>4. CASE route = "mac"
    <3>1. All(backup) = job.found
      BY <1>1, <2>1, <2>2, <2>4 DEF IInv, OfMac, Alone, MacSteps
    <3> QED
      BY <2>1, <3>1, OneVersion DEF Whole
  <2> QED
    BY <2>2, <2>3, <2>4
<1>2. ASSUME IInv PROVE FailedKeeps
  <2>1. job.pc = "failed" => route \in {"archive", "mac"}
    BY <1>2, WhoseStep DEF IInv
  <2> QED
    BY <1>2, <2>1 DEF IInv, FailedKeeps, OfArchive, OfMac
<1>3. IInv => ProgramSurvives
  BY <1>1, <1>2 DEF ProgramSurvives
<1> QED
  BY <1>3, AlwaysIInv, PTL

\* What a step puts in place of the program is what the user asked for, the backup, or nothing.
LEMMA PutsAsked ==
  ASSUME IInv, Next, Unmet, inst'["app"] # inst["app"]
  PROVE inst'["app"] \in {None, Torn, backup, asked}
<1>1. "app" \in PartsOf(route) /\ \A v : All(v)["app"] = v
  BY InstallersAssumption DEF PartsOf, All
<1>2. ASSUME NEW c \in Downloads, Poll(c) PROVE inst'["app"] = asked
  <2>1. ~prog.err /\ prog.done /\ dl[c].dlg = "polling"
    BY <1>2 DEF Poll, Ticks
  <2>2. route = "appimage" /\ inst' = All(pkg[asked].v)
    BY <1>2 DEF Poll, Staged
  <2>3. pkg[asked].v = asked
    BY <2>1, <2>2 DEF IInv, OfAsked, IsOfAsked, FinalOf
  <2> QED
    BY <1>1, <2>2, <2>3
<1>3. CASE Install
  <2>1. job.pc \in {"move", "place", "aside", "swap"} /\ job.pc # "idle" => stage.v = asked \/ job.pc = "move"
    BY DEF IInv, Handed
  <2>2. CASE Clear \/ MoveNext \/ Aside
    BY <1>1, <2>2 DEF Clear, MoveNext, Aside, IInv, TypedInst, Set
  <2>3. CASE Place
    BY <1>1, <2>1, <2>3 DEF Place, IInv, TypedInst, Set
  <2>4. CASE Swap \/ Try
    BY <1>1, <2>1, <2>4 DEF Swap, Try
  <2>5. ~(Find \/ Extract \/ CleanUp \/ Wait \/ Unzip \/ Killed)
    BY DEF Find, Extract, CleanUp, Wait, Unzip, Killed
  <2> QED
    BY <1>3, <2>2, <2>3, <2>4, <2>5 DEF Install, InstallStep
<1>4. ~ \E c \in Downloads : DlNext(c) \/ Cancel(c) \/ \E v \in offers : Accept(c, v)
  BY DownloadFrame DEF Cancel, Accept
<1>5. ~ \E k \in Checks : CheckBegins(k) \/ CkNext(k)
  BY CheckFrame
<1>6. ~(Publish \/ CoreStopped \/ CoreDies \/ NewSession \/ \E v \in offers : Later(v))
  BY DEF Publish, CoreStopped, CoreDies, NewSession, Later
<1> QED
  BY <1>2, <1>3, <1>4, <1>5, <1>6 DEF Next

\* What an installer starts is whole, or what it found.
LEMMA StartsWell ==
  ASSUME IInv, Next, started' # started, job' # Idle
  PROVE Whole(started') \/ started' = job.found
<1>1. CASE CoreStopped
  <2>1. job' = job /\ job = Idle
    BY <1>1 DEF CoreStopped, IInv, Alone
  <2> QED
    BY <2>1
<1>2. CASE NewSession
  BY <1>2 DEF NewSession
<1>3. CASE Install
  <2>1. CASE Find \/ Extract
    <3>1. job.pc \in {"find", "extract"} /\ started' = inst
      BY <2>1 DEF Find, Extract, ArchiveFailed
    <3>2. route = "archive"
      BY <3>1, WhoseStep DEF IInv, ArchiveSteps
    <3> QED
      BY <3>1, <3>2 DEF IInv, OfArchive
  <2>2. CASE MoveNext \/ Place
    <3>1. job.pc \in {"move", "place"} /\ ~job.moved
      BY <2>2 DEF MoveNext, Place, ArchiveFailed
    <3>2. route = "archive"
      BY <3>1, WhoseStep DEF IInv, ArchiveSteps
    <3> QED
      BY <3>1, <3>2 DEF IInv, OfArchive
  <2>3. CASE CleanUp
    <3>1. job.pc = "move" /\ stage.parts = {} /\ started' = inst
      BY <2>3 DEF CleanUp
    <3>2. route = "archive"
      BY <3>1, WhoseStep DEF IInv, ArchiveSteps
    <3> QED
      BY <3>1, <3>2, AllMoved DEF IInv
  <2>4. CASE Wait \/ Unzip \/ Aside
    <3>1. job.pc \in {"wait", "unzip", "aside"} /\ started' = inst
      BY <2>4 DEF Wait, Unzip, Aside, FailBefore
    <3>2. route = "mac"
      BY <3>1, WhoseStep DEF IInv, MacSteps
    <3> QED
      BY <3>1, <3>2 DEF IInv, OfMac
  <2>5. CASE Swap \/ Try
    <3>1. job.pc \in {"swap", "try"} /\ (started' = All(backup) \/ (job.pc = "swap" /\ started' = All(stage.v)))
      BY <2>5 DEF Swap, Try
    <3>2. route = "mac"
      BY <3>1, WhoseStep DEF IInv, MacSteps
    <3>3. job.pc = "swap" => stage.v \in Known
      BY <3>2 DEF IInv, OfMac, TypedStage
    <3> QED
      BY <3>1, <3>2, <3>3, KnownVersions DEF IInv, OfMac, Whole
  <2>6. ~(Clear \/ Killed)
    BY DEF Clear, Killed
  <2> QED
    BY <1>3, <2>1, <2>2, <2>3, <2>4, <2>5, <2>6 DEF Install, InstallStep
<1>4. ~ \E c \in Downloads : DlNext(c) \/ Poll(c) \/ Cancel(c) \/ \E v \in offers : Accept(c, v)
  BY DownloadFrame DEF Cancel, Accept, Poll, Staged
<1>5. ~ \E k \in Checks : CheckBegins(k) \/ CkNext(k)
  BY CheckFrame
<1>6. ~(Publish \/ CoreDies \/ \E v \in offers : Later(v))
  BY DEF Publish, CoreDies, Later
<1> QED
  BY <1>1, <1>2, <1>3, <1>4, <1>5, <1>6 DEF Next

\* What gets installed is the release the user accepted in this session, unless another check or
\* download met this one; and what an installer starts is a whole installation, or the one it found.
THEOREM InstallsAlwaysSound == Spec => InstallSound
<1>1. IInv /\ [Next]_vars =>
        [inst'["app"] # inst["app"] =>
           inst'["app"] \in {None, Torn, backup, asked} \/ \E c \in Downloads : dl[c].met]_<<inst, vars>>
  BY PutsAsked DEF Unmet
<1>2. IInv /\ [Next]_vars =>
        [started' # started /\ job' # Idle => Whole(started') \/ started' = job.found]_<<started, job>>
  BY StartsWell
<1> QED
  BY <1>1, <1>2, AlwaysIInv, PTL DEF Spec, InstallSound, InstallsAccepted, StartsWhole
=============================================================================
