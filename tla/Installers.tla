----------------------------- MODULE Installers -----------------------------
(* What puts a downloaded update in place of the installed program, once the GUI
   has quit (or, for an AppImage, just before):
     archive   the updater (src/go/cmd/updater), Windows and portable Linux;
     mac       packaging/macos/proxor-app-update.sh, a bundle swapped by renames;
     appimage  one rename in the GUI (AppUpdate.tla).
     inst    the version of each part of the installation, or None, or Torn;
     stage   the parts of the extracted payload that wait to be moved, and its
             version; backup  the bundle the script moved aside;
     pkg     the finished downloads, by their file name;
     job     the installer: its step, the file it installs, the installation it
             found, whether it changed it (moved), the part in its hands, and whether the
             core had stopped before (alone, history);
     started what the installer started last: an installation, or None.
   Faults (a full disk, a held file, a killed installer) are bounded by MaxFaults. *)
EXTENDS Integers, FiniteSets

CONSTANTS Parts,       \* the parts of an installation, for the archive
          Cleared,     \* the parts deleted before the new ones are moved (*.dll, usr)
          Routes,      \* the packagings to check, of {"archive", "mac", "appimage"}
          Versions,    \* the versions ever installed or published; the least is the old one
          Unfit,       \* the published versions that fail the installer's checks of the payload
          MaxFaults, MaxInstalls

None == -1
Torn == -2
ASSUME InstallersAssumption ==
  /\ Cleared \subseteq Parts /\ "app" \in Parts /\ Versions \subseteq Nat /\ Unfit \subseteq Versions
  /\ MaxFaults \in Nat /\ MaxInstalls \in Nat /\ Routes \subseteq {"archive", "mac", "appimage"}

VARIABLES route, windows, inst, stage, backup, pkg, job, started, faults, installs
ivars == <<route, windows, inst, stage, backup, pkg, job, started, faults, installs>>
fixed == <<route, windows>>

(* The AppImage and the bundle are one part. *)
PartsOf(r) == IF r = "archive" THEN Parts ELSE {"app"}
All(v) == [p \in PartsOf(route) |-> v]
Whole(i) == \E v \in Versions : i = All(v)
NoStage == [v |-> None, parts |-> {}]
Idle == [pc |-> "idle", name |-> None, found |-> <<>>, moved |-> FALSE, part |-> "none", alone |-> TRUE]
Finished(n) == pkg[n].state = "whole"
NoFile == [state |-> "none", v |-> None, good |-> TRUE]
Drop(n) == pkg' = [pkg EXCEPT ![n] = NoFile]
Goto(pc) == job' = [job EXCEPT !.pc = pc]
Fault == faults < MaxFaults /\ faults' = faults + 1
Well == UNCHANGED faults

(* The installer is started for the file n, with the core stopped or not. *)
Launch(n, alone) == /\ installs < MaxInstalls /\ installs' = installs + 1
             /\ job' = [Idle EXCEPT !.pc = IF route = "mac" THEN "wait" ELSE "find", !.name = n, !.found = inst,
                                  !.alone = alone]

----------------------------------------------------------------------------
(* The updater. planAfterFailure: Windows starts the program again when it has
   not been touched; anything else ends with exit code 1. *)
(* mutant: the program is started again whatever was moved *)
Mut_RelaunchAlways == /\ job' = [job EXCEPT !.pc = "failed"]
                      /\ started' = IF windows THEN inst ELSE started
ArchiveFailed == /\ job' = [job EXCEPT !.pc = "failed"]
                 /\ started' = IF windows /\ ~job.moved THEN inst ELSE started

(* findUpdatePackage, and the leftovers of an earlier extraction. *)
Find == /\ job.pc = "find" /\ Well
        /\ \/ pkg[job.name].state = "none" /\ ArchiveFailed /\ UNCHANGED stage
           \/ pkg[job.name].state # "none" /\ Goto("extract") /\ stage' = NoStage /\ UNCHANGED started
        /\ UNCHANGED <<fixed, inst, backup, pkg, installs>>

(* extractUpdatePackage, findPayloadRoot and validatePayload; abort removes the
   extracted files. Only Windows looks for proxor.exe. *)
Extract == /\ job.pc = "extract"
           /\ LET f == pkg[job.name]
                  ok == Finished(job.name) /\ f.good /\ (windows => f.v \notin Unfit)
              IN \/ /\ ok /\ Well /\ UNCHANGED started
                    /\ stage' = [v |-> f.v, parts |-> Parts]
                    /\ job' = [job EXCEPT !.pc = "clear", !.moved = TRUE]
                 \/ ~ok /\ Well /\ ArchiveFailed /\ stage' = NoStage
                 \/ ok /\ Fault /\ ArchiveFailed /\ stage' = NoStage
           /\ UNCHANGED <<fixed, inst, backup, pkg, installs>>

(* RemoveAll("./usr"), the obsolete paths, *.dll and *.dmp, one after another and
   without looking at errors. *)
Clear == /\ job.pc = "clear"
         /\ \/ \E p \in Cleared : inst[p] # None /\ inst' = [inst EXCEPT ![p] = None] /\ UNCHANGED job
            \/ inst' = inst /\ Goto("move")
         /\ Well /\ UNCHANGED <<fixed, stage, backup, pkg, started, installs>>

(* moveReplacing: a file at a time, in the order of the directory (any order
   here); replaceFile removes, then renames, then falls back to writing. *)
MoveNext == /\ job.pc = "move" /\ stage.parts # {}
            /\ \E p \in stage.parts :
                 \/ Well /\ inst' = [inst EXCEPT ![p] = None]
                         /\ job' = [job EXCEPT !.pc = "place", !.part = p] /\ UNCHANGED started
                 \/ Fault /\ ArchiveFailed /\ UNCHANGED inst        \* a held file, to the last attempt
            /\ UNCHANGED <<fixed, stage, backup, pkg, installs>>
Place == /\ job.pc = "place"
         /\ \/ /\ Well /\ inst' = [inst EXCEPT ![job.part] = stage.v]
               /\ stage' = [stage EXCEPT !.parts = @ \ {job.part}]
               /\ Goto("move") /\ UNCHANGED started
            \/ /\ Fault /\ ArchiveFailed /\ UNCHANGED stage
               /\ \E left \in {None, Torn} : inst' = [inst EXCEPT ![job.part] = left]
         /\ UNCHANGED <<fixed, backup, pkg, installs>>

(* postCleanup, and main starts the program. *)
(* mutant: the package is removed before the files are moved *)
Mut_CleanFirst == /\ \/ job.pc = "move" /\ stage.parts # {} /\ Finished(job.name) /\ Drop(job.name)
                        /\ UNCHANGED <<job, stage, started>>
                     \/ job.pc = "move" /\ stage.parts = {} /\ Goto("ok") /\ stage' = NoStage
                        /\ started' = inst /\ UNCHANGED pkg
                  /\ Well /\ UNCHANGED <<fixed, inst, backup, installs>>
CleanUp == /\ job.pc = "move" /\ stage.parts = {}
           /\ Goto("ok") /\ stage' = NoStage /\ Drop(job.name) /\ started' = inst
           /\ Well /\ UNCHANGED <<fixed, inst, backup, installs>>

----------------------------------------------------------------------------
(* The script of the macOS app. res writes the result before any start, so the
   step "failed" or "ok" is its line; drop_zip and drop_stage on the way out. *)
FailBefore == /\ Goto("failed") /\ Drop(job.name) /\ stage' = NoStage
Invalid(n) == pkg[n].state = "none" \/ inst = All(None)

Wait == /\ job.pc = "wait" /\ UNCHANGED <<fixed, inst, installs>>
        /\ \/ Invalid(job.name) /\ Goto("failed") /\ Well /\ UNCHANGED <<stage, backup, pkg, started>>
           \/ /\ ~Invalid(job.name) /\ Fault       \* the old process does not quit, or something of the bundle stays
              /\ Goto("failed") /\ Drop(job.name) /\ UNCHANGED <<stage, backup>>
              /\ started' \in {started, inst}
           \/ /\ ~Invalid(job.name) /\ Well        \* ... and the sweep of the siblings
              /\ Goto("unzip") /\ stage' = NoStage /\ backup' = None /\ UNCHANGED <<pkg, started>>

(* Extraction, the checks of the new bundle, and the quarantine flag. *)
Unzip == /\ job.pc = "unzip" /\ UNCHANGED <<fixed, inst, backup, installs>>
         /\ LET f == pkg[job.name]
                ok == Finished(job.name) /\ f.good /\ f.v \notin Unfit
            IN \/ ok /\ Well /\ stage' = [v |-> f.v, parts |-> {"app"}] /\ Goto("aside") /\ UNCHANGED <<pkg, started>>
               \/ (IF ok THEN Fault ELSE Well) /\ FailBefore /\ started' = inst

(* mv target backup. *)
Aside == /\ job.pc = "aside" /\ UNCHANGED <<fixed, installs>>
         /\ \/ /\ Well /\ backup' = inst["app"] /\ inst' = All(None)
               /\ Goto("swap") /\ UNCHANGED <<stage, pkg, started>>
            \/ Fault /\ FailBefore /\ started' = inst /\ UNCHANGED <<inst, backup>>

(* mv new target; when it fails the backup is moved back, and whether that worked
   is not looked at. *)
Swap == /\ job.pc = "swap" /\ UNCHANGED <<fixed, installs>>
        /\ \/ /\ Well /\ inst' = All(stage.v) /\ stage' = NoStage /\ Goto("try")
              /\ started' = inst' /\ UNCHANGED <<backup, pkg>>
           \/ /\ Fault /\ FailBefore
              /\ \/ inst' = All(backup) /\ backup' = None /\ started' = inst'
                 \/ UNCHANGED <<inst, backup, started>>

(* The new version stays alive: the backup goes. Or it does not: the backup comes
   back, or stays as the hidden folder the result names. *)
Try == /\ job.pc = "try" /\ UNCHANGED <<fixed, installs>>
       /\ \/ Well /\ Goto("ok") /\ Drop(job.name) /\ stage' = NoStage /\ backup' = None /\ UNCHANGED <<inst, started>>
          \/ /\ Fault /\ Goto("failed") /\ stage' = NoStage
             /\ \/ inst' = All(backup) /\ backup' = None /\ started' = inst' /\ Drop(job.name)
                \/ UNCHANGED <<inst, backup, started, pkg>>                  \* mv target failed
                \/ inst' = All(None) /\ UNCHANGED <<backup, started, pkg>>   \* mv backup failed

----------------------------------------------------------------------------
(* The installer is killed, or the machine goes down. *)
Busy == job.pc \notin {"idle", "ok", "failed", "killed"}
Killed == /\ Busy /\ Fault /\ Goto("killed")
          /\ UNCHANGED <<fixed, inst, stage, backup, pkg, started, installs>>

InstallStep == \/ Find \/ Extract \/ Clear \/ MoveNext \/ Place \/ CleanUp
               \/ Wait \/ Unzip \/ Aside \/ Swap \/ Try

----------------------------------------------------------------------------
(* An installation that began on a whole program, with faults anywhere, never
   leaves the user without one: it is installed, moved aside, or there is still the
   verified package the updater would install when it runs again (updater.go
   133-134, postCleanup; the script's header, 24-30). *)
NothingLost == job.pc # "idle" /\ job.alone /\ Whole(job.found) =>
                 \/ Whole(inst) \/ backup \in Versions
                 \/ \E n \in DOMAIN pkg : Finished(n) /\ pkg[n].good

(* What an installer starts is a whole installation, the old one or the new one,
   never the mixture a failed move leaves (planAfterFailure); an installation that
   was already mixed when it came may be started as it was found. *)
StartsWhole == [][started' # started /\ job' # Idle => Whole(started') \/ started' = job.found]_<<started, job>>

(* A failed installation leaves what it found: in place, unless the updater said it
   had begun to move files, or as the hidden backup (updater.go 133-134; the
   script: "Failure before the swap leaves the target unchanged"). *)
FailedKeeps == job.pc = "failed" /\ ~job.moved =>
                 \/ inst = job.found
                 \/ route = "mac" /\ All(backup) = job.found

(* Wherever an installation stops, a whole program can be had from what is left. *)
ProgramSurvives == NothingLost /\ FailedKeeps
=============================================================================
