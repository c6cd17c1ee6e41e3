--------------------------- MODULE MiniappInstall ---------------------------
(***************************************************************************)
(* The installer of mini apps                                              *)
(* (apps/crazypod/miniapps/installer/crazypod_miniapp_installer.c and      *)
(* crazypod_miniapp_stage.c), for one app id.  A scan looks at every       *)
(* package file; one that has to be installed is unpacked into the         *)
(* directory .stage-<id>, the installed directory is renamed to            *)
(* .backup-<id>, the stage takes its place and the backup is removed.      *)
(* Recovery, at boot and before each installation, puts a backup without   *)
(* an installed directory back and removes what was left over.             *)
(*                                                                         *)
(* Every action is one disk operation.  Power may be lost between any two, *)
(* and an operation may fail.  Removing a directory takes several          *)
(* operations, and half of one is not valid.  rename() is atomic.  The     *)
(* checks of a package before it is unpacked (format, signature, space)    *)
(* are one choice, Reject.  The limits of the code (64 leftovers looked at *)
(* in a recovery, 32 entries in a directory that is removed) are not       *)
(* reached with one app, so an operation fails only for the disk's sake.   *)
(***************************************************************************)
EXTENDS Integers

CONSTANTS
    Packages,    \* package files: of this id, each with its own contents
    Version,     \* Version[p]: version_code of p
    None,
    MaxScans,    \* bound: scans in a behaviour
    MaxFaults,   \* bound: disk operations that fail
    MaxCrashes   \* bound: power losses

ASSUME VersionAssumption == Version \in [Packages -> Nat \ {0}]
ASSUME NoneAssumption ==
    None \notin Packages \cup [pkg : Packages, whole : BOOLEAN]
ASSUME BoundAssumption == {MaxScans, MaxFaults, MaxCrashes} \subseteq Nat

VARIABLES
    final, stage, backup,   \* the three directories
    indexFile,              \* the package index on the disk
    pc,                     \* where the installer is
    task,                   \* what runs recover_id: a boot pass, or an install
    job,                    \* the package being installed
    unscanned,              \* package files the scan has not reached
    catalog,                \* the app in the catalog of installed apps
    noted, seen,            \* the package index in memory
    changed,                \* scan_publication_changed
    scans, faults, crashes  \* counters for the bounds

dirs == <<final, stage, backup>>
index == <<noted, seen>>
bounds == <<scans, faults, crashes>>
vars == <<dirs, indexFile, pc, task, job, unscanned, catalog, index, changed,
          bounds>>

Whole(p) == [pkg |-> p, whole |-> TRUE]
Part(p) == [pkg |-> p, whole |-> FALSE]
Directories == {None} \cup [pkg : Packages, whole : BOOLEAN]
Unnoted == [p \in Packages |-> 0]
Codes == {Version[p] : p \in Packages}
Indexes == [Packages -> Codes \cup {0}]

TypeOK ==
    /\ {final, stage, backup} \subseteq Directories
    /\ pc \in {"commit", "publish", "rollback"} => stage = Whole(job)
    /\ pc \in {"publish", "rollback"} => final = None
    /\ indexFile \in Indexes /\ noted \in Indexes
    /\ pc \in {"off", "ready", "scan", "recover", "build", "discard",
               "commit", "publish", "rollback", "sweep"}
    /\ task \in {"backup", "stage", "install"}
    /\ job \in Packages
    /\ unscanned \subseteq Packages /\ seen \subseteq Packages
    /\ catalog \in Packages \cup {None}
    /\ changed \in BOOLEAN
    /\ scans \in 0 .. MaxScans
    /\ faults \in 0 .. MaxFaults
    /\ crashes \in 0 .. MaxCrashes

Init ==
    /\ final = None /\ stage = None /\ backup = None
    /\ indexFile = Unnoted
    /\ pc = "off" /\ task = "install" /\ job \in Packages
    /\ unscanned = {} /\ catalog = None
    /\ noted = Unnoted /\ seen = {} /\ changed = FALSE
    /\ scans = 0 /\ faults = 0 /\ crashes = 0

(* What the catalog would list: the installed directory if it is valid.    *)
Installed == IF final # None /\ final.whole THEN final.pkg ELSE None

Fault ==
    /\ faults < MaxFaults
    /\ faults' = faults + 1
    /\ UNCHANGED <<scans, crashes>>

-----------------------------------------------------------------------------
(* crazypod_miniapps_init: recover_all goes over the backups, then over    *)
(* the stages; then the catalog is read from the disk.                     *)
Ready ==
    /\ pc' = "ready"
    /\ catalog' = Installed
    /\ UNCHANGED task

Bug_RecoverBackupsOnly ==
    /\ pc = "off"
    /\ \/ /\ backup # None
          /\ pc' = "recover" /\ task' = "backup" /\ UNCHANGED catalog
       \/ backup = None /\ Ready
    /\ UNCHANGED <<dirs, indexFile, job, unscanned, index, changed, bounds>>

Boot ==
    /\ pc = "off"
    /\ \/ /\ backup # None
          /\ pc' = "recover" /\ task' = "backup" /\ UNCHANGED catalog
       \/ /\ backup = None /\ stage # None
          /\ pc' = "recover" /\ task' = "stage" /\ UNCHANGED catalog
       \/ backup = None /\ stage = None /\ Ready
    /\ UNCHANGED <<dirs, indexFile, job, unscanned, index, changed, bounds>>

(* The power is lost: the disk keeps its state.                            *)
Crash ==
    /\ pc # "off" /\ crashes < MaxCrashes
    /\ crashes' = crashes + 1
    /\ pc' = "off"
    /\ catalog' = None /\ unscanned' = {}
    /\ noted' = Unnoted /\ seen' = {} /\ changed' = FALSE
    /\ UNCHANGED <<dirs, indexFile, task, job, scans, faults>>

-----------------------------------------------------------------------------
(* The scan.                                                               *)

RescanBegin(files) ==
    /\ pc = "ready" /\ scans < MaxScans
    /\ scans' = scans + 1
    /\ pc' = "scan" /\ unscanned' = files
    /\ noted' = indexFile /\ seen' = {} /\ changed' = FALSE
    /\ UNCHANGED <<dirs, indexFile, task, job, catalog, faults, crashes>>

(* cached_package_ready: the index knows this file and the catalog has its *)
(* version or a later one.                                                 *)
PackageReady(p) ==
    /\ noted[p] # 0
    /\ catalog # None /\ Version[catalog] >= noted[p]

Note(p, code) ==
    /\ noted' = [noted EXCEPT ![p] = code]
    /\ seen' = seen \cup {p}

Bug_SkipRepeats(p) ==
    /\ pc = "scan" /\ p \in unscanned
    /\ PackageReady(p)
    /\ Note(p, Version[catalog])
    /\ UNCHANGED <<dirs, indexFile, pc, task, job, unscanned, catalog, changed,
                   bounds>>

Skip(p) ==
    /\ pc = "scan" /\ p \in unscanned
    /\ PackageReady(p)
    /\ unscanned' = unscanned \ {p}
    /\ Note(p, Version[catalog])
    /\ UNCHANGED <<dirs, indexFile, pc, task, job, catalog, changed, bounds>>

Bug_OutdatedSwapped(p) ==
    Installed # None /\ (Version[Installed] < Version[p] \/ Installed = p)

(* DOWNGRADE_IGNORED and ALREADY_INSTALLED: the installed directory, read  *)
(* from the disk, is newer or holds the same contents.                     *)
Outdated(p) ==
    Installed # None /\ (Version[Installed] > Version[p] \/ Installed = p)

Ignore(p) ==
    /\ pc = "scan" /\ p \in unscanned
    /\ ~PackageReady(p) /\ Outdated(p)
    /\ unscanned' = unscanned \ {p}
    /\ Note(p, Version[p])
    /\ UNCHANGED <<dirs, indexFile, pc, task, job, catalog, changed, bounds>>

Reject(p) ==
    /\ pc = "scan" /\ p \in unscanned
    /\ ~PackageReady(p)
    /\ unscanned' = unscanned \ {p}
    /\ UNCHANGED <<dirs, indexFile, pc, task, job, catalog, index, changed, bounds>>

(* crazypod_miniapps_install, up to stage_recover_id.                      *)
Install(p) ==
    /\ pc = "scan" /\ p \in unscanned
    /\ ~PackageReady(p) /\ ~Outdated(p)
    /\ unscanned' = unscanned \ {p}
    /\ job' = p
    /\ pc' = "recover" /\ task' = "install"
    /\ UNCHANGED <<dirs, indexFile, catalog, index, changed, bounds>>

Bug_FinishWithoutRebuild ==
    /\ pc = "scan" /\ unscanned = {}
    /\ pc' = "ready"
    /\ noted' = [p \in Packages |-> IF p \in seen THEN noted[p] ELSE 0]
    /\ \/ indexFile' = noted' /\ UNCHANGED faults
       \/ Fault /\ UNCHANGED indexFile
    /\ UNCHANGED <<dirs, task, job, unscanned, catalog, seen, changed, scans,
                   crashes>>

(* finish_rescan: the index of the files seen is saved, and the catalog is *)
(* read again if anything was installed.                                   *)
RescanFinish ==
    /\ pc = "scan" /\ unscanned = {}
    /\ pc' = "ready"
    /\ noted' = [p \in Packages |-> IF p \in seen THEN noted[p] ELSE 0]
    /\ \/ indexFile' = noted' /\ UNCHANGED faults
       \/ Fault /\ UNCHANGED indexFile
    /\ catalog' = IF changed THEN Installed ELSE catalog
    /\ UNCHANGED <<dirs, task, job, unscanned, seen, changed, scans, crashes>>

-----------------------------------------------------------------------------
(* remove_tree, one step of it: something or everything is gone.           *)
Removed(dir) == {Part(dir.pkg), None}

RemoveBackup ==
    /\ \/ pc = "recover" /\ final # None
       \/ pc \in {"commit", "sweep"}
    /\ backup # None
    /\ backup' \in Removed(backup)
    /\ UNCHANGED <<final, stage, indexFile, pc, task, job, unscanned, catalog,
                   index, changed, bounds>>

RemoveStage ==
    /\ \/ pc = "recover" /\ backup = None
       \/ pc = "discard"
    /\ stage # None
    /\ stage' \in Removed(stage)
    /\ UNCHANGED <<final, backup, indexFile, pc, task, job, unscanned, catalog,
                   index, changed, bounds>>

-----------------------------------------------------------------------------
(* crazypod_miniapp_stage_recover_id.                                      *)

RestoreBackup ==
    /\ pc = "recover" /\ backup # None /\ final = None
    /\ final' = backup /\ backup' = None
    /\ UNCHANGED <<stage, indexFile, pc, task, job, unscanned, catalog, index,
                   changed, bounds>>

RecoverDone ==
    /\ pc = "recover" /\ backup = None /\ stage = None
    /\ \/ task = "install" /\ pc' = "build" /\ UNCHANGED <<task, catalog>>
       \/ task # "install" /\ Ready
    /\ UNCHANGED <<dirs, indexFile, job, unscanned, index, changed, bounds>>

(* A failure ends the installation, but only one pass of recover_all.      *)
RecoverFails ==
    /\ pc = "recover" /\ (backup # None \/ stage # None)
    /\ Fault
    /\ \/ task = "install" /\ pc' = "scan" /\ UNCHANGED <<task, catalog>>
       \/ /\ task = "backup" /\ stage # None
          /\ task' = "stage" /\ UNCHANGED <<pc, catalog>>
       \/ task = "backup" /\ stage = None /\ Ready
       \/ task = "stage" /\ Ready
    /\ UNCHANGED <<dirs, indexFile, job, unscanned, index, changed>>

-----------------------------------------------------------------------------
(* crazypod_miniapp_stage_publish: build, then commit.                     *)

GiveUp ==
    /\ pc' = "scan"
    /\ UNCHANGED <<index, changed>>

Succeed ==
    /\ pc' = "scan"
    /\ Note(job, Version[job])
    /\ changed' = TRUE

MakeStage ==
    /\ pc = "build" /\ stage = None
    /\ stage' = Part(job)
    /\ UNCHANGED <<final, backup, indexFile, pc, task, job, unscanned, catalog,
                   index, changed, bounds>>

Bug_CommitUnfilled ==
    /\ pc = "build" /\ stage # None
    /\ stage' \in {Part(job), Whole(job)}
    /\ pc' = "commit"
    /\ UNCHANGED <<final, backup, indexFile, task, job, unscanned, catalog,
                   index, changed, bounds>>

(* The record that makes the directory valid is written last.              *)
FillStage ==
    /\ pc = "build" /\ stage # None
    /\ stage' = Whole(job)
    /\ pc' = "commit"
    /\ UNCHANGED <<final, backup, indexFile, task, job, unscanned, catalog,
                   index, changed, bounds>>

BuildFails ==
    /\ pc = "build"
    /\ Fault
    /\ pc' = "discard"
    /\ UNCHANGED <<dirs, indexFile, task, job, unscanned, catalog, index, changed>>

(* The package turns out to be bad while it is unpacked: a file that does  *)
(* not fit its entry, or a directory that is not a valid app at the end.   *)
BadPackage ==
    /\ pc = "build" /\ stage # None
    /\ pc' = "discard"
    /\ UNCHANGED <<dirs, indexFile, task, job, unscanned, catalog, index,
                   changed, bounds>>

DiscardDone ==
    /\ pc = "discard"
    /\ \/ stage = None /\ UNCHANGED faults
       \/ stage # None /\ Fault
    /\ GiveUp
    /\ UNCHANGED <<dirs, indexFile, task, job, unscanned, catalog, scans, crashes>>

Bug_RemoveInsteadOfMove ==
    /\ pc = "commit" /\ backup = None /\ final # None
    /\ final' = None
    /\ pc' = "publish"
    /\ UNCHANGED <<stage, backup, indexFile, task, job, unscanned, catalog,
                   index, changed, bounds>>

MoveAway ==
    /\ pc = "commit" /\ backup = None /\ final # None
    /\ backup' = final /\ final' = None
    /\ pc' = "publish"
    /\ UNCHANGED <<stage, indexFile, task, job, unscanned, catalog, index,
                   changed, bounds>>

MoveAwayFails ==
    /\ pc = "commit" /\ (backup # None \/ final # None)
    /\ Fault
    /\ GiveUp
    /\ UNCHANGED <<dirs, indexFile, task, job, unscanned, catalog>>

Publishing == pc = "publish" \/ (pc = "commit" /\ backup = None /\ final = None)

Publish ==
    /\ Publishing
    /\ final' = stage /\ stage' = None
    /\ \/ backup # None /\ pc' = "sweep" /\ UNCHANGED <<index, changed>>
       \/ backup = None /\ Succeed
    /\ UNCHANGED <<backup, indexFile, task, job, unscanned, catalog, bounds>>

PublishFails ==
    /\ Publishing
    /\ Fault
    /\ \/ backup # None /\ pc' = "rollback" /\ UNCHANGED <<index, changed>>
       \/ backup = None /\ GiveUp
    /\ UNCHANGED <<dirs, indexFile, task, job, unscanned, catalog>>

Rollback ==
    /\ pc = "rollback"
    /\ \/ final' = backup /\ backup' = None /\ UNCHANGED faults
       \/ Fault /\ UNCHANGED <<final, backup>>
    /\ GiveUp
    /\ UNCHANGED <<stage, indexFile, task, job, unscanned, catalog, scans, crashes>>

(* The result of removing the backup is ignored.                           *)
SweepDone ==
    /\ pc = "sweep"
    /\ \/ backup = None /\ UNCHANGED faults
       \/ backup # None /\ Fault
    /\ Succeed
    /\ UNCHANGED <<dirs, indexFile, task, job, unscanned, catalog, scans, crashes>>

Next ==
    \/ Boot \/ Crash
    \/ \E files \in SUBSET Packages : RescanBegin(files)
    \/ \E p \in Packages : Skip(p) \/ Ignore(p) \/ Reject(p) \/ Install(p)
    \/ RescanFinish
    \/ RemoveBackup \/ RemoveStage
    \/ RestoreBackup \/ RecoverDone \/ RecoverFails
    \/ MakeStage \/ FillStage \/ BadPackage \/ BuildFails \/ DiscardDone
    \/ MoveAway \/ MoveAwayFails \/ Publish \/ PublishFails \/ Rollback
    \/ SweepDone

Spec == Init /\ [][Next]_vars

(* The installer runs on, and remove_tree comes to an end.                 *)
LiveSpec ==
    Spec /\ WF_vars(Next) /\ SF_vars(RemoveBackup /\ backup' = None)
         /\ SF_vars(RemoveStage /\ stage' = None)

-----------------------------------------------------------------------------
(* The app a reader of the disk would find, or recover.                    *)
App ==
    IF final # None THEN final.pkg
    ELSE IF backup # None /\ backup.whole THEN backup.pkg ELSE None

Atomic == INSTANCE AtomicInstall WITH app <- App

(* The staged directories implement an atomic replacement: through any     *)
(* loss of power there is one complete copy of the app, old or new, and    *)
(* its version never goes down.                                            *)
ImplementsAtomic == Atomic!Spec

(* No half-written or half-removed directory is ever published.            *)
NeverPartial == final # None => final.whole

(* Nothing is left behind: while the disk works, there is no stage and no  *)
(* backup between installations, wherever power was lost before.           *)
NoLeftovers ==
    faults = 0 /\ pc \in {"ready", "scan"} => stage = None /\ backup = None

(* A package the scan has done with, also one it skipped because of the    *)
(* package index, is installed, or a later one is.                         *)
Delivered ==
    \A p \in seen : App # None /\ Version[App] >= Version[p]

(* The catalog that the menus show and the index relies on agrees with the *)
(* disk whenever no scan is running.                                       *)
CatalogTrue == pc = "ready" => catalog = Installed

(* Every scan comes to its end.                                            *)
ScanEnds == pc = "scan" ~> pc \in {"ready", "off"}
=============================================================================
