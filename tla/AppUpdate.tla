------------------------------ MODULE AppUpdate ------------------------------
(* Updates of the application from the check to the installer: the core's Update
   call (src/go/grpc_server/update.go), the GUI's dialogs (mainwindow_grpc.cpp,
   dialog_update_progress.cpp, mainwindow.cpp) and then Installers. Checks and
   downloads run on threads of their own on both sides; the core's three globals
   have no lock, so a step of a call reads or writes one of them.
     url, name, sums  updateDownloadURL, updateAssetName, updateChecksumsURL: the
              release each is of, or None;
     prog     dlProgress: complete, and whether there is an error;
     ck[k]    a check: its step and its release; offers, the releases of the
              DialogUpdateAvailable boxes that are open;
     dl[c]    a download: its step, final name, the content it got, the release
              whose SHA256SUMS it read, its dialog (UpdateProgressDialog), and
              whether it met another call or what one had left (history);
     tmp[c]   its .part file, with the final name it is for;
     front    updateProgressDialog, the dialog the failures close;
     asked    staged_asset_name;  quit  how far on_menu_exit_triggered is.
   A version is a number with room for the asset's name: the version parsed from
   an asset's file name has what follows it as a prerelease ("1.6.18-windows64.zip"),
   which orders it after its own prerelease and before its own release. *)
EXTENDS Installers, Sequences

CONSTANTS Checks, Downloads, \* the calls
          Releases,          \* what is published, the latest last: [v, ver, core, tag, pre, asset, sums]
          First,             \* the places of those that may be installed to begin with
          MaxSessions        \* starts of the program

VARIABLES url, name, sums, prog, ck, offers, dl, tmp, front, asked, quit, published, sessions
core == <<url, name, sums, prog>>
gui == <<offers, front, asked, quit>>
calls == <<ck, dl, tmp>>
avars == <<core, gui, calls, published, sessions>>
vars == <<ivars, avars>>

NoProg == [done |-> FALSE, err |-> FALSE]
NoCheck == [pc |-> "idle", v |-> None]
EndedCheck == [NoCheck EXCEPT !.pc = "over"]
NoDl == [pc |-> "idle", dst |-> None, v |-> None, good |-> TRUE, sums |-> None, dlg |-> "none", met |-> FALSE]
NoTmp == [dst |-> None, v |-> None]
OnePkg == 0              \* update-package.zip
Files == IF route = "archive" THEN {OnePkg} ELSE {Releases[i].v : i \in DOMAIN Releases}
(* downloadDestination: update-package beside the install, or the asset's own name
   in the directory the request names. *)
FinalOf(v) == IF route = "archive" THEN OnePkg ELSE v
Rel(v) == CHOOSE r \in {Releases[i] : i \in DOMAIN Releases} : r.v = v

----------------------------------------------------------------------------
(* matchingReleaseAsset over what is published, for the version that runs and the
   user's setting. ver: its version can be parsed, as "N/A" of a build without one
   cannot (common.go:10); tag orders the versions of one core version: 0 .. for the
   prereleases, Plain for the release. *)
Plain == 9
(* One of the first two is installed; what has an asset has a version; no two are one. *)
ASSUME ReleasesAssumption ==
  /\ Releases \in Seq([v : Versions, ver : BOOLEAN, core : Nat, tag : 0..Plain, pre : BOOLEAN,
                       asset : BOOLEAN, sums : BOOLEAN])
  /\ Len(Releases) >= 2 /\ First \subseteq 1..2
  /\ \A i \in DOMAIN Releases : Releases[i].asset => Releases[i].ver
  /\ \A i, j \in DOMAIN Releases : Releases[i].v = Releases[j].v => i = j
Rank(r) == 100 * r.core + 2 * r.tag
AssetRank(r) == IF r.tag = Plain THEN Rank(r) - 1 ELSE Rank(r) + 1
Newer(r, cur) == IF cur.tag # Plain /\ ~r.pre THEN AssetRank(r) > 100 * cur.core + 2 * Plain
                 ELSE AssetRank(r) > Rank(cur)
Compatible(n, incl) == {i \in 1..n : Releases[i].asset /\ (Releases[i].pre => incl)}
(* The greatest that is newer; for a build without a version the first of GitHub's
   list, which is the latest. *)
Candidates(n, cur, incl) == {i \in Compatible(n, incl) : cur.ver => Newer(Releases[i], cur)}
Before(i, j, cur) == IF cur.ver THEN AssetRank(Releases[j]) >= AssetRank(Releases[i]) ELSE j >= i
Matching(n, cur, incl) ==
  LET found == Candidates(n, cur, incl)
  IN IF found = {} THEN None ELSE Releases[CHOOSE j \in found : \A i \in found : Before(i, j, cur)].v
Current(n, cur, incl) == cur.ver /\ Candidates(n, cur, incl) = {} /\ Compatible(n, incl) # {}

Running == Rel(started["app"])
Answer(incl) == Matching(published, Running, incl)

Init ==
  /\ route \in Routes /\ windows \in (IF route = "archive" THEN {TRUE} ELSE {FALSE})
  /\ \E i \in First : inst = All(Releases[i].v)
  /\ stage = NoStage /\ backup = None /\ pkg = [n \in Files |-> NoFile]
  /\ job = Idle /\ started = inst /\ faults = 0 /\ installs = 0
  /\ url = None /\ name = None /\ sums = None /\ prog = NoProg
  /\ ck = [k \in Checks |-> NoCheck] /\ dl = [c \in Downloads |-> NoDl] /\ tmp = [c \in Downloads |-> NoTmp]
  /\ offers = {} /\ front = None /\ asked = None /\ quit = "no" /\ published = 2 /\ sessions = 1

Publish == /\ published < Len(Releases) /\ published' = published + 1
           /\ UNCHANGED <<ivars, core, gui, calls, sessions>>

----------------------------------------------------------------------------
(* UpdateAction_Check, and what CheckUpdate makes of the answer. *)
Open == {c \in Downloads : dl[c].dlg \in {"polling", "stopped"}}
Live == {c \in Downloads : dl[c].pc \notin {"idle", "over"}}
Meet == [c \in Downloads |-> IF c \in Open \cup Live THEN [dl[c] EXCEPT !.met = TRUE] ELSE dl[c]]
GuiRuns == quit # "gone"
CkStep(k, r) == ck' = [ck EXCEPT ![k] = r]

CheckBegins(k) == /\ ck[k].pc = "idle" /\ quit = "no"
                  /\ CkStep(k, [NoCheck EXCEPT !.pc = "ask"]) /\ prog' = NoProg /\ dl' = Meet
                  /\ UNCHANGED <<ivars, url, name, sums, gui, tmp, published, sessions>>
CheckAnswered(k) ==
  /\ ck[k].pc = "ask" /\ UNCHANGED <<ivars, name, sums, prog, gui, tmp, dl, published, sessions>>
  /\ \E incl \in BOOLEAN :
       LET v == Answer(incl)
       IN \/ v # None /\ url' = v /\ CkStep(k, [ck[k] EXCEPT !.pc = "name", !.v = v])
          \/ Current(published, Running, incl) /\ url' = None /\ CkStep(k, [ck[k] EXCEPT !.pc = "current"])
          \/ CkStep(k, EndedCheck) /\ UNCHANGED url       \* no answer, or nothing compatible
CheckNames(k) == /\ ck[k].pc = "name" /\ name' = ck[k].v /\ CkStep(k, [ck[k] EXCEPT !.pc = "sums"])
                 /\ UNCHANGED <<ivars, url, sums, prog, gui, tmp, dl, published, sessions>>
CheckSums(k) == /\ ck[k].pc = "sums"
                /\ sums' = IF Rel(ck[k].v).sums THEN ck[k].v ELSE None
                /\ CkStep(k, [ck[k] EXCEPT !.pc = "reply"])
                /\ UNCHANGED <<ivars, url, name, prog, gui, tmp, dl, published, sessions>>
CheckCurrent(k) == /\ ck[k].pc = "current" /\ name' = None /\ sums' = None
                   /\ CkStep(k, EndedCheck)
                   /\ UNCHANGED <<ivars, url, prog, gui, tmp, dl, published, sessions>>
CheckOffers(k) == /\ ck[k].pc = "reply" /\ GuiRuns /\ offers' = offers \cup {ck[k].v}
                  /\ CkStep(k, EndedCheck)
                  /\ UNCHANGED <<ivars, core, front, asked, quit, tmp, dl, published, sessions>>

(* The user answers the box: Later, or Download. *)
Later(v) == /\ v \in offers /\ offers' = offers \ {v}
            /\ UNCHANGED <<ivars, core, front, asked, quit, calls, published, sessions>>
Accept(c, v) == /\ v \in offers /\ dl[c].pc = "idle" /\ quit = "no"
                /\ offers' = offers \ {v} /\ asked' = v /\ front' = c
                /\ dl' = [Meet EXCEPT ![c] = [NoDl EXCEPT !.pc = "start", !.dlg = "polling", !.v = v,
                            !.met = url # v \/ prog # NoProg \/ Live \cup Open # {} \/ \E k \in Checks : ck[k].pc \notin {"idle", "over"}]]
                /\ UNCHANGED <<ivars, core, quit, ck, tmp, published, sessions>>

----------------------------------------------------------------------------
(* UpdateAction_Download. *)
DlStep(c, r) == dl' = [dl EXCEPT ![c] = r]
DlGoto(c, pc) == DlStep(c, [dl[c] EXCEPT !.pc = pc])
Over(c) == [NoDl EXCEPT !.pc = "over", !.dlg = dl[c].dlg, !.met = dl[c].met]
(* fail: the polled error, the answer, and the .part file. *)
DlFails(c) == prog' = [prog EXCEPT !.err = TRUE] /\ DlGoto(c, "failed") /\ tmp' = [tmp EXCEPT ![c] = NoTmp]
DlSame == UNCHANGED <<route, windows, inst, stage, backup, job, started, installs, url, name, sums, gui, ck, published, sessions>>

(* A new attempt resets the progress and removes the .part files of the others,
   but on Windows not the one a download is still writing. *)
Held(c) == windows /\ dl[c].pc = "body"
DlStart(c) ==
  /\ dl[c].pc = "start" /\ DlSame /\ UNCHANGED <<pkg, faults>>
  /\ \/ (url = None \/ name = None) /\ prog' = [NoProg EXCEPT !.err = TRUE] /\ DlGoto(c, "failed") /\ UNCHANGED tmp
     \/ /\ url # None /\ name # None /\ prog' = NoProg
        /\ DlStep(c, [dl[c] EXCEPT !.pc = "get", !.dst = FinalOf(name)])
        /\ tmp' = [o \in Downloads |-> IF tmp[o].dst = FinalOf(name) /\ ~Held(o) THEN NoTmp ELSE tmp[o]]
DlGet(c) ==
  /\ dl[c].pc = "get" /\ DlSame /\ UNCHANGED pkg
  /\ \/ /\ url # None /\ Well /\ UNCHANGED prog
        /\ DlStep(c, [dl[c] EXCEPT !.pc = "body", !.v = url]) /\ tmp' = [tmp EXCEPT ![c] = [dst |-> dl[c].dst, v |-> url]]
     \/ (IF url = None THEN Well ELSE Fault) /\ DlFails(c)
(* The body, whole or not what was published (a fault the digest must notice). *)
DlBody(c) ==
  /\ dl[c].pc = "body" /\ DlSame /\ UNCHANGED pkg
  /\ \/ Well /\ DlGoto(c, "sums") /\ UNCHANGED <<prog, tmp>>
     \/ Fault /\ DlStep(c, [dl[c] EXCEPT !.pc = "sums", !.good = FALSE]) /\ UNCHANGED <<prog, tmp>>
     \/ Fault /\ DlFails(c)
(* mutant: a release without SHA256SUMS is taken without verification *)
Mut_DlSums(c) ==
  /\ dl[c].pc = "sums" /\ DlSame /\ UNCHANGED pkg
  /\ \/ Well /\ DlStep(c, [dl[c] EXCEPT !.pc = IF sums = None THEN "move" ELSE "verify", !.sums = sums]) /\ UNCHANGED <<prog, tmp>>
     \/ Fault /\ DlFails(c)
DlSums(c) ==
  /\ dl[c].pc = "sums" /\ DlSame /\ UNCHANGED pkg
  /\ \/ sums # None /\ Well /\ DlStep(c, [dl[c] EXCEPT !.pc = "verify", !.sums = sums]) /\ UNCHANGED <<prog, tmp>>
     \/ (IF sums = None THEN Well ELSE Fault) /\ DlFails(c)
(* verifyAssetChecksum with the name as it is now: the sums list the assets of
   their own release only. *)
DlVerify(c) ==
  /\ dl[c].pc = "verify" /\ DlSame /\ UNCHANGED pkg /\ Well
  /\ IF name = dl[c].sums /\ dl[c].v = name /\ dl[c].good THEN DlGoto(c, "move") /\ UNCHANGED <<prog, tmp>>
     ELSE DlFails(c)
(* moveVerifiedDownload: the rename, tried for 15 s on Windows where a scanner may
   hold the file; then the copy, which writes under the final name or cannot open it. *)
Put(c, state) == pkg' = [pkg EXCEPT ![dl[c].dst] = [state |-> state, v |-> dl[c].v, good |-> dl[c].good]]
DlMove(c) ==
  /\ dl[c].pc = "move" /\ DlSame
  /\ \/ tmp[c] # NoTmp /\ Well /\ Put(c, "whole") /\ tmp' = [tmp EXCEPT ![c] = NoTmp] /\ DlGoto(c, "done") /\ UNCHANGED prog
     \/ tmp[c] # NoTmp /\ Fault /\ Put(c, "half") /\ DlGoto(c, "copy") /\ UNCHANGED <<prog, tmp>>
     \/ (IF tmp[c] = NoTmp THEN Well ELSE Fault) /\ DlFails(c) /\ UNCHANGED pkg
DlCopy(c) ==
  /\ dl[c].pc = "copy" /\ DlSame
  /\ \/ Well /\ Put(c, "whole") /\ tmp' = [tmp EXCEPT ![c] = NoTmp] /\ DlGoto(c, "done") /\ UNCHANGED prog
     \/ Well /\ Drop(dl[c].dst) /\ DlFails(c)       \* the copy fails too
DlDone(c) == /\ dl[c].pc = "done" /\ DlSame /\ UNCHANGED <<pkg, faults, tmp>>
             /\ prog' = [prog EXCEPT !.done = TRUE] /\ DlStep(c, Over(c))

(* The answer of a failed download closes the dialog in front, whichever it is. *)
CloseFront(d) == IF front \in Downloads THEN [d EXCEPT ![front].dlg = IF @ \in {"polling", "stopped"} THEN "closed" ELSE @] ELSE d
(* mutant: the failure of a download closes nothing *)
Mut_DlAnswer(c) == /\ dl[c].pc = "failed" /\ GuiRuns /\ DlStep(c, Over(c))
                   /\ UNCHANGED <<ivars, core, gui, ck, tmp, published, sessions>>
DlAnswer(c) == /\ dl[c].pc = "failed" /\ GuiRuns
               /\ dl' = CloseFront([dl EXCEPT ![c] = Over(c)])
               /\ UNCHANGED <<ivars, core, gui, ck, tmp, published, sessions>>

----------------------------------------------------------------------------
(* UpdateProgressDialog::onPollTick, with onUpdateStaged in its signal. *)
Exit == quit' = IF quit = "no" THEN "stopping" ELSE "gone"   \* on_menu_exit_triggered, its first and its second call
Staged ==
  \/ /\ route = "appimage" /\ Finished(asked) \* DecideAppImageApply, and std::rename over the running file
     /\ inst' = All(pkg[asked].v) /\ Drop(asked) /\ Exit /\ UNCHANGED <<started, job, installs>>
  \/ route = "appimage" /\ UNCHANGED <<inst, pkg, started, job, installs, quit>>   \* missing, or not writable
  \/ /\ route # "appimage" /\ pkg[FinalOf(asked)].state # "none"
     /\ Exit /\ UNCHANGED <<inst, pkg, started>>
     /\ IF quit = "no" THEN UNCHANGED <<job, installs>> ELSE Launch(FinalOf(asked), FALSE)
  \/ route # "appimage" /\ UNCHANGED <<inst, pkg, started, job, installs, quit>>    \* DecideUpdaterLaunch, or the zip is missing
Ticks(c) == dl[c].dlg = "polling" /\ GuiRuns /\ (prog.err \/ prog.done)
Poll(c) ==
  /\ Ticks(c)
  /\ \/ prog.err /\ dl' = [dl EXCEPT ![c].dlg = "stopped"] /\ UNCHANGED <<ivars, quit>>
     \/ /\ ~prog.err /\ dl' = [dl EXCEPT ![c].dlg = "done"]
        /\ Staged /\ UNCHANGED <<route, windows, stage, backup, faults>>
  /\ UNCHANGED <<core, offers, front, asked, ck, tmp, published, sessions>>
Cancel(c) == /\ c \in Open /\ GuiRuns /\ dl' = [dl EXCEPT ![c].dlg = "closed"]
             /\ UNCHANGED <<ivars, core, gui, ck, tmp, published, sessions>>

(* The rest of the exit, once the core has stopped: the installer starts and the
   GUI ends. A .part file stays behind. *)
Ended(same) == /\ ck' = [k \in Checks |-> IF ck[k].pc = "idle" THEN ck[k] ELSE EndedCheck]
               /\ dl' = [c \in Downloads |-> IF dl[c] = NoDl THEN NoDl
                            ELSE [NoDl EXCEPT !.pc = "over", !.dlg = "closed", !.met = same /\ dl[c].met]]
CoreStopped ==
  /\ quit = "stopping" /\ quit' = "gone" /\ Ended(TRUE)
  /\ IF route = "appimage" THEN started' = inst /\ UNCHANGED <<job, installs>>
     ELSE Launch(FinalOf(asked), TRUE) /\ UNCHANGED started
  /\ UNCHANGED <<route, windows, inst, stage, backup, pkg, faults, core, offers, front, asked, tmp, published, sessions>>

(* The core dies: the calls fail, the GUI starts another one, which knows nothing. *)
CoreDies ==
  /\ quit = "no" /\ Fault
  /\ ck' = [k \in Checks |-> IF ck[k].pc = "idle" THEN ck[k] ELSE EndedCheck]
  /\ dl' = [c \in Downloads |-> IF c \in Live THEN [dl[c] EXCEPT !.pc = "failed"]
                                  ELSE IF c \in Open THEN [dl[c] EXCEPT !.met = TRUE] ELSE dl[c]]
  /\ url' = None /\ name' = None /\ sums' = None /\ prog' = NoProg
  /\ UNCHANGED <<route, windows, inst, stage, backup, pkg, job, started, installs, gui, tmp, published, sessions>>

(* The program runs again: what the installer started, or the user. *)
NewSession ==
  /\ quit = "gone" /\ ~Busy /\ sessions < MaxSessions /\ sessions' = sessions + 1
  /\ inst["app"] \in Versions /\ started' = inst
  /\ quit' = "no" /\ offers' = {} /\ front' = None /\ asked' = None /\ job' = Idle
  /\ url' = None /\ name' = None /\ sums' = None /\ prog' = NoProg
  /\ Ended(FALSE)
  /\ UNCHANGED <<route, windows, inst, stage, backup, pkg, faults, installs, tmp, published>>

Install == /\ quit = "gone" /\ (InstallStep \/ Killed) /\ UNCHANGED avars
CkNext(k) == CheckAnswered(k) \/ CheckNames(k) \/ CheckSums(k) \/ CheckCurrent(k) \/ CheckOffers(k)
DlNext(c) == \/ DlStart(c) \/ DlGet(c) \/ DlBody(c) \/ DlSums(c) \/ DlVerify(c)
             \/ DlMove(c) \/ DlCopy(c) \/ DlDone(c) \/ DlAnswer(c)
Next == \/ Publish \/ CoreStopped \/ CoreDies \/ NewSession \/ Install
        \/ \E k \in Checks : CheckBegins(k) \/ CkNext(k)
        \/ \E c \in Downloads : DlNext(c) \/ Poll(c) \/ Cancel(c) \/ \E v \in offers : Accept(c, v)
        \/ \E v \in offers : Later(v)
Spec == Init /\ [][Next]_vars

(* The calls run and the dialogs' timers tick; no fault, user or installer is owed.
   WF_vars(DlNext(c)) and WF_vars(Poll(c)), with what enables them spelled out. *)
CallRuns(c) == c \in Live /\ (dl[c].pc = "failed" => GuiRuns)
Fairness == \A c \in Downloads :
  /\ []<>~CallRuns(c) \/ []<><<DlNext(c)>>_dl
  /\ []<>~Ticks(c) \/ []<><<Poll(c)>>_dl
FairSpec == Spec /\ Fairness

----------------------------------------------------------------------------
TypeOK ==
  /\ inst \in [PartsOf(route) -> Versions \cup {None, Torn}] /\ backup \in Versions \cup {None, Torn}
  /\ pkg \in [Files -> [state : {"none", "half", "whole"}, v : Versions \cup {None}, good : BOOLEAN]]
  /\ {url, name, sums, asked} \subseteq Versions \cup {None} /\ offers \subseteq Versions
  /\ front \in Downloads \cup {None} /\ quit \in {"no", "stopping", "gone"}
  /\ tmp \in [Downloads -> [dst : Files \cup {None}, v : Versions \cup {None}]]

(* Whatever checks and downloads overlap and whatever release they read half of, a
   finished download holds what a release published under its SHA256SUMS (update.go
   "an unverifiable or incomplete download is a failed download, never a kept one"). *)
KeptIsPublished == \A n \in Files : Finished(n) => pkg[n].good /\ Rel(pkg[n].v).sums

(* While its box is open, what is offered is no older than what runs, and newer when
   that is a release, though a box outlives other checks, an update and a start
   (matchingReleaseAsset; TestMatchingReleaseAssetNoUpdateWhenCurrentVersionMatches).
   A running prerelease is offered its own asset, whose name orders it after its
   version (update.go 343-354); a build without a version takes what there is. *)
OfferIsNews ==
  quit # "gone" /\ Running.ver => \A v \in offers :
    /\ Rank(Rel(v)) >= Rank(Running)
    /\ Running.tag = Plain => Rank(Rel(v)) > Rank(Running)

(* What gets installed is the release the user accepted, in this session, unless
   another check or download met this one: then the file, the names and the dialogs
   may be of two releases (staged_asset_name, updateProgressDialog, the globals). *)
InstallsAccepted ==
  [][inst'["app"] # inst["app"] =>
       inst'["app"] \in {None, Torn, backup, asked} \/ \E c \in Downloads : dl[c].met]_<<inst, vars>>

(* A progress dialog nobody cancels ends by itself: the download completed and was
   staged, or failed and the failure closed it (dialog_update_progress.cpp 100-106).
   Not when another call met it: a check resets the progress it polls. *)
DialogEnds == \A c \in Downloads : c \in Open ~> c \notin Open \/ dl[c].met

(* What is offered is news and what is kept is what was published. *)
DownloadSound == TypeOK /\ KeptIsPublished /\ OfferIsNews

(* What is installed was accepted, and what is started afterwards is whole. *)
InstallSound == InstallsAccepted /\ StartsWhole
=============================================================================
