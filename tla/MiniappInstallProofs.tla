------------------------ MODULE MiniappInstallProofs ------------------------
(***************************************************************************)
(* Theorems about the installer, for any packages and versions, any number *)
(* of scans and power losses.  Those about the app itself assume that at   *)
(* most one disk operation fails: with two, an older package is installed  *)
(* over a backup that has not been put back.                               *)
(***************************************************************************)
EXTENDS MiniappInstall, TLAPS

-----------------------------------------------------------------------------
(* The invariant, for any number of failing operations.                    *)

Installing ==
    \/ pc \in {"build", "discard", "commit", "publish", "rollback"}
    \/ pc = "recover" /\ task = "install"

(* Where the directories can be at each step.                              *)
DirsKept ==
    /\ final # None => final.whole
    /\ final = None /\ backup # None => backup.whole /\ stage # None
    /\ pc \in {"build", "discard", "commit"} => backup = None
    /\ pc \in {"publish", "rollback"} => backup # None
    /\ pc = "sweep" => final = Whole(job) /\ stage = None

(* The app is in the backup only, waiting to be put back.                  *)
Stranded == final = None /\ backup # None

(* How many operations must have failed for the app to be stranded where   *)
(* the installer does not look for it, or for anything to be left over.    *)
FaultsKept ==
    /\ Stranded /\ pc \in {"scan", "ready"} => faults >= 2
    /\ Stranded /\ pc = "recover" /\ task = "install" => faults >= 2
    /\ Stranded /\ pc = "recover" /\ task = "stage" => faults >= 1
    /\ pc = "rollback" => faults >= 1
    /\ pc \in {"ready", "scan"} /\ faults = 0 => stage = None /\ backup = None
    /\ pc = "recover" /\ task # "backup" /\ faults = 0 => backup = None

InstallInv == TypeOK /\ DirsKept /\ FaultsKept

(* What the type invariant needs to know of the operators.                 *)

LEMMA Constants ==
  /\ Version \in [Packages -> Nat \ {0}]
  /\ MaxScans \in Nat /\ MaxFaults \in Nat /\ MaxCrashes \in Nat
BY VersionAssumption, BoundAssumption

LEMMA DirectoryTypes ==
  /\ None \notin Packages
  /\ \A p \in Packages :
        {Whole(p), Part(p)} \subseteq Directories \ {None}
  /\ \A d \in Directories \ {None} :
        d.pkg \in Packages /\ Removed(d) \subseteq Directories
<1>1. None \notin Packages
  BY NoneAssumption
<1>2. ASSUME NEW p \in Packages, NEW b \in BOOLEAN
      PROVE  [pkg |-> p, whole |-> b] \in Directories \ {None}
  BY NoneAssumption DEF Directories
<1>3. ASSUME NEW p \in Packages
      PROVE  {Whole(p), Part(p)} \subseteq Directories \ {None}
  BY <1>2 DEF Whole, Part
<1>4. ASSUME NEW d \in Directories \ {None}
      PROVE  d.pkg \in Packages /\ Removed(d) \subseteq Directories
  <2>1. d.pkg \in Packages
    BY DEF Directories
  <2> QED BY <2>1, <1>3 DEF Removed, Directories
<1> QED BY <1>1, <1>3, <1>4

LEMMA InstalledType ==
  ASSUME TypeOK
  PROVE  Installed \in Packages \cup {None}
BY DirectoryTypes DEF TypeOK, Installed

LEMMA IndexTypes ==
  /\ Unnoted \in Indexes
  /\ \A f \in Indexes, p, q \in Packages :
        [f EXCEPT ![p] = Version[q]] \in Indexes
  /\ \A f \in Indexes : \A s \in SUBSET Packages :
        [p \in Packages |-> IF p \in s THEN f[p] ELSE 0] \in Indexes
BY DEF Unnoted, Indexes, Codes

LEMMA BootKeeps ==
  ASSUME InstallInv, Boot
  PROVE  InstallInv'
<1>1. TypeOK'
  BY Constants, InstalledType
     DEF InstallInv, TypeOK, Boot, Ready, dirs, index, bounds
<1>2. DirsKept'
  BY DEF InstallInv, TypeOK, DirsKept, Boot, Ready, dirs
<1>3. FaultsKept'
  BY Constants
     DEF InstallInv, TypeOK, DirsKept, FaultsKept, Stranded, Boot, Ready, dirs,
         bounds
<1> QED BY <1>1, <1>2, <1>3 DEF InstallInv

LEMMA CrashKeeps ==
  ASSUME InstallInv, Crash
  PROVE  InstallInv'
<1>1. TypeOK'
  <2>1. noted' \in Indexes
    BY IndexTypes DEF Crash
  <2>2. unscanned' = {} /\ seen' = {} /\ changed' = FALSE
    BY DEF Crash
  <2>3. crashes' \in 0 .. MaxCrashes
    BY Constants DEF InstallInv, TypeOK, Crash
  <2> QED BY <2>1, <2>2, <2>3 DEF InstallInv, TypeOK, Crash, dirs, index, bounds
<1>2. DirsKept'
  BY DEF InstallInv, TypeOK, DirsKept, Crash, Unnoted, dirs
<1>3. FaultsKept'
  BY Constants
     DEF InstallInv, TypeOK, DirsKept, FaultsKept, Stranded, Crash, Unnoted,
         dirs, bounds
<1> QED BY <1>1, <1>2, <1>3 DEF InstallInv

LEMMA RescanBeginKeeps ==
  ASSUME NEW files \in SUBSET Packages, InstallInv, RescanBegin(files)
  PROVE  InstallInv'
<1>1. TypeOK'
  <2>1. scans' \in 0 .. MaxScans
    BY Constants DEF InstallInv, TypeOK, RescanBegin
  <2>2. unscanned' \subseteq Packages /\ seen' = {} /\ changed' = FALSE
    BY DEF RescanBegin
  <2> QED BY <2>1, <2>2 DEF InstallInv, TypeOK, RescanBegin, dirs, index, bounds
<1>2. DirsKept'
  BY DEF InstallInv, TypeOK, DirsKept, RescanBegin, dirs
<1>3. FaultsKept'
  BY Constants
     DEF InstallInv, TypeOK, DirsKept, FaultsKept, Stranded, RescanBegin, dirs,
         bounds
<1> QED BY <1>1, <1>2, <1>3 DEF InstallInv

LEMMA SkipKeeps ==
  ASSUME NEW p \in Packages, InstallInv, Skip(p)
  PROVE  InstallInv'
<1>1. TypeOK'
  BY Constants, IndexTypes
     DEF InstallInv, TypeOK, Skip, dirs, index, bounds, Note, PackageReady
<1>2. DirsKept'
  BY DEF InstallInv, TypeOK, DirsKept, Skip, dirs
<1>3. FaultsKept'
  BY Constants
     DEF InstallInv, TypeOK, DirsKept, FaultsKept, Stranded, Skip, dirs, bounds
<1> QED BY <1>1, <1>2, <1>3 DEF InstallInv

LEMMA IgnoreKeeps ==
  ASSUME NEW p \in Packages, InstallInv, Ignore(p)
  PROVE  InstallInv'
<1>1. TypeOK'
  BY Constants, IndexTypes
     DEF InstallInv, TypeOK, Ignore, dirs, index, bounds, Note
<1>2. DirsKept'
  BY DEF InstallInv, TypeOK, DirsKept, Ignore, dirs
<1>3. FaultsKept'
  BY Constants
     DEF InstallInv, TypeOK, DirsKept, FaultsKept, Stranded, Ignore, dirs,
         bounds
<1> QED BY <1>1, <1>2, <1>3 DEF InstallInv

LEMMA RejectKeeps ==
  ASSUME NEW p \in Packages, InstallInv, Reject(p)
  PROVE  InstallInv'
<1>1. TypeOK'
  BY Constants DEF InstallInv, TypeOK, Reject, dirs, index, bounds
<1>2. DirsKept'
  BY DEF InstallInv, TypeOK, DirsKept, Reject, dirs
<1>3. FaultsKept'
  BY Constants
     DEF InstallInv, TypeOK, DirsKept, FaultsKept, Stranded, Reject, dirs,
         bounds
<1> QED BY <1>1, <1>2, <1>3 DEF InstallInv

LEMMA InstallKeeps ==
  ASSUME NEW p \in Packages, InstallInv, Install(p)
  PROVE  InstallInv'
<1>1. TypeOK'
  BY Constants DEF InstallInv, TypeOK, Install, dirs, index, bounds
<1>2. DirsKept'
  BY DEF InstallInv, TypeOK, DirsKept, Install, dirs
<1>3. FaultsKept'
  BY Constants
     DEF InstallInv, TypeOK, DirsKept, FaultsKept, Stranded, Install, dirs,
         bounds
<1> QED BY <1>1, <1>2, <1>3 DEF InstallInv

LEMMA RescanFinishKeeps ==
  ASSUME InstallInv, RescanFinish
  PROVE  InstallInv'
<1>1. TypeOK'
  BY Constants, IndexTypes, InstalledType
     DEF InstallInv, TypeOK, RescanFinish, Fault, dirs, index, bounds
<1>2. DirsKept'
  BY DEF InstallInv, TypeOK, DirsKept, RescanFinish, Fault, dirs
<1>3. FaultsKept'
  BY Constants
     DEF InstallInv, TypeOK, DirsKept, FaultsKept, Stranded, RescanFinish,
         Fault, dirs, bounds
<1> QED BY <1>1, <1>2, <1>3 DEF InstallInv

LEMMA RemoveBackupKeeps ==
  ASSUME InstallInv, RemoveBackup
  PROVE  InstallInv'
<1>1. TypeOK'
  BY Constants, DirectoryTypes
     DEF InstallInv, TypeOK, RemoveBackup, dirs, index, bounds
<1>2. DirsKept'
  BY DEF InstallInv, TypeOK, DirsKept, RemoveBackup, dirs
<1>3. FaultsKept'
  BY Constants
     DEF InstallInv, TypeOK, DirsKept, FaultsKept, Stranded, RemoveBackup,
         dirs, bounds
<1> QED BY <1>1, <1>2, <1>3 DEF InstallInv

LEMMA RemoveStageKeeps ==
  ASSUME InstallInv, RemoveStage
  PROVE  InstallInv'
<1>1. TypeOK'
  BY Constants, DirectoryTypes
     DEF InstallInv, TypeOK, RemoveStage, dirs, index, bounds
<1>2. DirsKept'
  BY DEF InstallInv, TypeOK, DirsKept, RemoveStage, dirs
<1>3. FaultsKept'
  BY Constants
     DEF InstallInv, TypeOK, DirsKept, FaultsKept, Stranded, RemoveStage, dirs,
         bounds
<1> QED BY <1>1, <1>2, <1>3 DEF InstallInv

LEMMA RestoreBackupKeeps ==
  ASSUME InstallInv, RestoreBackup
  PROVE  InstallInv'
<1>1. TypeOK'
  BY Constants DEF InstallInv, TypeOK, RestoreBackup, dirs, index, bounds
<1>2. DirsKept'
  BY DEF InstallInv, TypeOK, DirsKept, RestoreBackup, dirs
<1>3. FaultsKept'
  BY Constants
     DEF InstallInv, TypeOK, DirsKept, FaultsKept, Stranded, RestoreBackup,
         dirs, bounds
<1> QED BY <1>1, <1>2, <1>3 DEF InstallInv

LEMMA RecoverDoneKeeps ==
  ASSUME InstallInv, RecoverDone
  PROVE  InstallInv'
<1>1. TypeOK'
  BY Constants, InstalledType
     DEF InstallInv, TypeOK, RecoverDone, Ready, dirs, index, bounds
<1>2. DirsKept'
  BY DEF InstallInv, TypeOK, DirsKept, RecoverDone, Ready, dirs
<1>3. FaultsKept'
  BY Constants
     DEF InstallInv, TypeOK, DirsKept, FaultsKept, Stranded, RecoverDone,
         Ready, dirs, bounds
<1> QED BY <1>1, <1>2, <1>3 DEF InstallInv

LEMMA RecoverFailsKeeps ==
  ASSUME InstallInv, RecoverFails
  PROVE  InstallInv'
<1>1. TypeOK'
  BY Constants, InstalledType
     DEF InstallInv, TypeOK, RecoverFails, Fault, Ready, dirs, index, bounds
<1>2. DirsKept'
  BY DEF InstallInv, TypeOK, DirsKept, RecoverFails, Fault, Ready, dirs
<1>3. FaultsKept'
  BY Constants
     DEF InstallInv, TypeOK, DirsKept, FaultsKept, Stranded, RecoverFails,
         Fault, Ready, dirs, bounds
<1> QED BY <1>1, <1>2, <1>3 DEF InstallInv

LEMMA MakeStageKeeps ==
  ASSUME InstallInv, MakeStage
  PROVE  InstallInv'
<1>1. TypeOK'
  BY Constants, DirectoryTypes
     DEF InstallInv, TypeOK, MakeStage, dirs, index, bounds
<1>2. DirsKept'
  BY DEF InstallInv, TypeOK, DirsKept, MakeStage, Whole, dirs
<1>3. FaultsKept'
  BY Constants
     DEF InstallInv, TypeOK, DirsKept, FaultsKept, Stranded, MakeStage, Whole,
         dirs, bounds
<1> QED BY <1>1, <1>2, <1>3 DEF InstallInv

LEMMA FillStageKeeps ==
  ASSUME InstallInv, FillStage
  PROVE  InstallInv'
<1>1. TypeOK'
  BY Constants, DirectoryTypes
     DEF InstallInv, TypeOK, FillStage, dirs, index, bounds
<1>2. DirsKept'
  BY DEF InstallInv, TypeOK, DirsKept, FillStage, dirs
<1>3. FaultsKept'
  BY Constants
     DEF InstallInv, TypeOK, DirsKept, FaultsKept, Stranded, FillStage, dirs,
         bounds
<1> QED BY <1>1, <1>2, <1>3 DEF InstallInv

LEMMA BuildFailsKeeps ==
  ASSUME InstallInv, BuildFails
  PROVE  InstallInv'
<1>1. TypeOK'
  BY Constants DEF InstallInv, TypeOK, BuildFails, Fault, dirs, index, bounds
<1>2. DirsKept'
  BY DEF InstallInv, TypeOK, DirsKept, BuildFails, Fault, dirs
<1>3. FaultsKept'
  BY Constants
     DEF InstallInv, TypeOK, DirsKept, FaultsKept, Stranded, BuildFails, Fault,
         dirs, bounds
<1> QED BY <1>1, <1>2, <1>3 DEF InstallInv

LEMMA BadPackageKeeps ==
  ASSUME InstallInv, BadPackage
  PROVE  InstallInv'
<1>1. TypeOK'
  BY Constants DEF InstallInv, TypeOK, BadPackage, dirs, index, bounds
<1>2. DirsKept'
  BY DEF InstallInv, TypeOK, DirsKept, BadPackage, dirs
<1>3. FaultsKept'
  BY Constants
     DEF InstallInv, TypeOK, DirsKept, FaultsKept, Stranded, BadPackage, dirs,
         bounds
<1> QED BY <1>1, <1>2, <1>3 DEF InstallInv

LEMMA DiscardDoneKeeps ==
  ASSUME InstallInv, DiscardDone
  PROVE  InstallInv'
<1>1. TypeOK'
  BY Constants
     DEF InstallInv, TypeOK, DiscardDone, Fault, GiveUp, dirs, index, bounds
<1>2. DirsKept'
  BY DEF InstallInv, TypeOK, DirsKept, DiscardDone, Fault, GiveUp, dirs
<1>3. FaultsKept'
  BY Constants
     DEF InstallInv, TypeOK, DirsKept, FaultsKept, Stranded, DiscardDone,
         Fault, GiveUp, dirs, bounds
<1> QED BY <1>1, <1>2, <1>3 DEF InstallInv

LEMMA MoveAwayKeeps ==
  ASSUME InstallInv, MoveAway
  PROVE  InstallInv'
<1>1. TypeOK'
  <2>1. {final', stage', backup'} \subseteq Directories
    BY DEF InstallInv, TypeOK, MoveAway, Directories
  <2>2. pc' = "publish" /\ stage' = Whole(job') /\ final' = None
    BY DEF InstallInv, TypeOK, MoveAway
  <2> QED BY <2>1, <2>2 DEF InstallInv, TypeOK, MoveAway, index, bounds
<1>2. DirsKept'
  <2>1. stage # None
    BY DirectoryTypes DEF InstallInv, TypeOK, MoveAway
  <2> QED BY <2>1 DEF InstallInv, DirsKept, MoveAway
<1>3. FaultsKept'
  BY Constants
     DEF InstallInv, TypeOK, DirsKept, FaultsKept, Stranded, MoveAway, Whole,
         dirs, bounds
<1> QED BY <1>1, <1>2, <1>3 DEF InstallInv

LEMMA MoveAwayFailsKeeps ==
  ASSUME InstallInv, MoveAwayFails
  PROVE  InstallInv'
<1>1. TypeOK'
  BY Constants
     DEF InstallInv, TypeOK, MoveAwayFails, Fault, GiveUp, dirs, index, bounds
<1>2. DirsKept'
  BY DEF InstallInv, TypeOK, DirsKept, MoveAwayFails, Fault, GiveUp, dirs
<1>3. FaultsKept'
  BY Constants
     DEF InstallInv, TypeOK, DirsKept, FaultsKept, Stranded, MoveAwayFails,
         Fault, GiveUp, dirs, bounds
<1> QED BY <1>1, <1>2, <1>3 DEF InstallInv

LEMMA PublishKeeps ==
  ASSUME InstallInv, Publish
  PROVE  InstallInv'
<1>1. TypeOK'
  <2>1. noted' \in Indexes /\ seen' \subseteq Packages /\ changed' \in BOOLEAN
    <3>1. noted \in Indexes /\ seen \subseteq Packages /\ changed \in BOOLEAN
          /\ job \in Packages
      BY DEF InstallInv, TypeOK
    <3>2. [noted EXCEPT ![job] = Version[job]] \in Indexes
      BY <3>1, IndexTypes
    <3> QED BY <3>1, <3>2 DEF Publish, Succeed, Note, index
  <2>2. final' \in Directories /\ stage' = None /\ backup' \in Directories
    BY DEF InstallInv, TypeOK, Publish
  <2> QED BY <2>1, <2>2
      DEF InstallInv, TypeOK, Publish, Succeed, Directories, bounds
<1>2. DirsKept'
  BY DEF InstallInv, TypeOK, DirsKept, Publish, Publishing, Succeed, Whole,
         dirs
<1>3. FaultsKept'
  BY Constants
     DEF InstallInv, TypeOK, DirsKept, FaultsKept, Stranded, Publish,
         Publishing, Succeed, Whole, dirs, bounds
<1> QED BY <1>1, <1>2, <1>3 DEF InstallInv

LEMMA PublishFailsKeeps ==
  ASSUME InstallInv, PublishFails
  PROVE  InstallInv'
<1>1. TypeOK'
  BY Constants
     DEF InstallInv, TypeOK, PublishFails, Publishing, Fault, GiveUp, dirs,
         index, bounds
<1>2. DirsKept'
  BY DEF InstallInv, TypeOK, DirsKept, PublishFails, Publishing, Fault, GiveUp,
         dirs
<1>3. FaultsKept'
  BY Constants
     DEF InstallInv, TypeOK, DirsKept, FaultsKept, Stranded, PublishFails,
         Publishing, Fault, GiveUp, dirs, bounds
<1> QED BY <1>1, <1>2, <1>3 DEF InstallInv

LEMMA RollbackKeeps ==
  ASSUME InstallInv, Rollback
  PROVE  InstallInv'
<1>1. TypeOK'
  BY Constants
     DEF InstallInv, TypeOK, Rollback, Fault, GiveUp, Whole, dirs, index,
         bounds
<1>2. DirsKept'
  BY DEF InstallInv, TypeOK, DirsKept, Rollback, Fault, GiveUp, Whole, dirs
<1>3. FaultsKept'
  BY Constants
     DEF InstallInv, TypeOK, DirsKept, FaultsKept, Stranded, Rollback, Fault,
         GiveUp, Whole, dirs, bounds
<1> QED BY <1>1, <1>2, <1>3 DEF InstallInv

LEMMA SweepDoneKeeps ==
  ASSUME InstallInv, SweepDone
  PROVE  InstallInv'
<1>1. TypeOK'
  <2>1. noted' \in Indexes /\ seen' \subseteq Packages /\ changed' = TRUE
    BY IndexTypes DEF InstallInv, TypeOK, SweepDone, Succeed, Note
  <2>2. faults' \in 0 .. MaxFaults
    BY Constants DEF InstallInv, TypeOK, SweepDone, Fault
  <2> QED BY <2>1, <2>2 DEF InstallInv, TypeOK, SweepDone, Succeed, dirs
<1>2. DirsKept'
  BY DEF InstallInv, TypeOK, DirsKept, SweepDone, Fault, Succeed, dirs
<1>3. FaultsKept'
  BY Constants
     DEF InstallInv, TypeOK, DirsKept, FaultsKept, Stranded, SweepDone, Fault,
         Succeed, dirs, bounds
<1> QED BY <1>1, <1>2, <1>3 DEF InstallInv

LEMMA InstallInvInit == Init => InstallInv
<1>1. Init => TypeOK
  <2>1. 0 \in 0 .. MaxScans /\ 0 \in 0 .. MaxFaults /\ 0 \in 0 .. MaxCrashes
    BY Constants
  <2>2. None \in Directories
    BY DEF Directories
  <2> QED BY <2>1, <2>2, IndexTypes DEF Init, TypeOK
<1> QED BY <1>1 DEF Init, InstallInv, DirsKept, FaultsKept, Stranded

LEMMA InstallInvStutters ==
  ASSUME InstallInv, UNCHANGED vars
  PROVE  InstallInv'
BY DEF InstallInv, TypeOK, DirsKept, FaultsKept, Stranded, vars, dirs, index,
       bounds

LEMMA InstallInvKept == Spec => []InstallInv
<1>1. InstallInv /\ [Next]_vars => InstallInv'
  BY BootKeeps, CrashKeeps, RescanBeginKeeps, SkipKeeps, IgnoreKeeps,
     RejectKeeps, InstallKeeps, RescanFinishKeeps, RemoveBackupKeeps,
     RemoveStageKeeps, RestoreBackupKeeps, RecoverDoneKeeps,
     RecoverFailsKeeps, MakeStageKeeps, FillStageKeeps, BadPackageKeeps,
     BuildFailsKeeps,
     DiscardDoneKeeps, MoveAwayKeeps, MoveAwayFailsKeeps, PublishKeeps,
     PublishFailsKeeps, RollbackKeeps, SweepDoneKeeps, InstallInvStutters
     DEF Next
<1> QED BY InstallInvInit, <1>1, PTL DEF Spec

(* The type invariant of the installer, for any packages and any number of *)
(* failures and power losses.                                              *)
THEOREM InstallTyped == Spec => []TypeOK
<1>1. InstallInv => TypeOK
  BY DEF InstallInv
<1> QED BY InstallInvKept, <1>1, PTL

(* What crazypod_miniapp_stage.c publishes is always complete, however     *)
(* many operations fail.                                                   *)
THEOREM NeverHalfInstalled == Spec => []NeverPartial
<1>1. InstallInv => NeverPartial
  BY DEF InstallInv, DirsKept, NeverPartial
<1> QED BY InstallInvKept, <1>1, PTL

(* While the disk works, neither a stage nor a backup is left between      *)
(* installations, wherever power was lost.                                 *)
THEOREM NothingLeftOver == Spec => []NoLeftovers
<1>1. InstallInv => NoLeftovers
  BY DEF InstallInv, FaultsKept, NoLeftovers
<1> QED BY InstallInvKept, <1>1, PTL

-----------------------------------------------------------------------------
(* With at most one failure: the app, the catalog and the index.           *)

AtLeast(p) == App # None /\ Version[App] >= Version[p]

(* The installer decides by the installed directory and the catalog, which *)
(* must agree with the app wherever it does.                               *)
AppKept ==
    /\ Installing /\ App # None => Version[App] <= Version[job]
    /\ catalog # None => AtLeast(catalog)
    /\ \A p \in seen : AtLeast(p)
    /\ ~changed /\ (pc = "scan" \/ Installing) => catalog = App
    /\ pc = "ready" => catalog = App

(* The index never knows a package by less than its own version.           *)
IndexKept ==
    \A p \in Packages :
        /\ noted[p] # 0 => noted[p] >= Version[p]
        /\ indexFile[p] # 0 => indexFile[p] >= Version[p]

AtomicInv == InstallInv /\ AppKept /\ IndexKept

LEMMA AppType ==
  ASSUME InstallInv
  PROVE  App \in Packages \cup {None}
BY DirectoryTypes DEF InstallInv, TypeOK, App

(* Unless the app is stranded, who looks at the installed directory finds  *)
(* it.                                                                     *)
LEMMA AppIsInstalled ==
  ASSUME InstallInv, ~Stranded
  PROVE  App = Installed
BY DEF InstallInv, DirsKept, Stranded, App, Installed

LEMMA NotStranded ==
  ASSUME MaxFaults <= 1, InstallInv
  PROVE  pc \in {"scan", "ready"} => ~Stranded
BY Constants DEF InstallInv, TypeOK, FaultsKept

(* Only the rename of the stage changes the app.                           *)
LEMMA AppStays ==
  ASSUME InstallInv,
         \/ UNCHANGED dirs
         \/ RemoveBackup \/ RemoveStage \/ RestoreBackup
         \/ MakeStage \/ FillStage \/ MoveAway \/ Rollback
  PROVE  App' = App
<1>1. CASE UNCHANGED dirs
  BY <1>1 DEF dirs, App
<1>2. CASE RemoveBackup
  BY <1>2 DEF InstallInv, DirsKept, TypeOK, RemoveBackup, App
<1>3. CASE RemoveStage \/ MakeStage \/ FillStage
  BY <1>3 DEF RemoveStage, MakeStage, FillStage, App
<1>4. CASE RestoreBackup
  BY <1>4 DEF InstallInv, DirsKept, RestoreBackup, App
<1>5. CASE MoveAway
  BY <1>5 DEF InstallInv, DirsKept, MoveAway, App
<1>6. CASE Rollback
  BY <1>6 DEF InstallInv, DirsKept, TypeOK, Rollback, App
<1> QED BY <1>1, <1>2, <1>3, <1>4, <1>5, <1>6

LEMMA PublishReplaces ==
  ASSUME InstallInv, AppKept, Publish
  PROVE  /\ App' = job
         /\ App # None => Version[App] <= Version[job]
<1>1. stage = Whole(job) /\ job \in Packages
  BY DEF InstallInv, TypeOK, Publish, Publishing
<1>2. App' = job
  <2>1. final' = Whole(job) /\ Whole(job) # None
    BY <1>1, DirectoryTypes DEF Publish
  <2> QED BY <2>1 DEF App, Whole
<1>3. Installing
  BY DEF Publish, Publishing, Installing
<1> QED BY <1>2, <1>3 DEF AppKept

-----------------------------------------------------------------------------
(* The app, the catalog and the index: the steps of the installer.         *)

LEMMA AppKeptQuietly ==
  ASSUME AppKept, App' = App, UNCHANGED <<catalog, seen, changed, job>>,
         Installing' => Installing,
         pc' = "scan" => pc = "scan" \/ Installing,
         pc' = "ready" => pc = "ready"
  PROVE  AppKept'
BY DEF AppKept, AtLeast

LEMMA AppKeptReady ==
  ASSUME MaxFaults <= 1, InstallInv, InstallInv', AppKept,
         App' = App, Ready, UNCHANGED <<dirs, seen, changed, job>>
  PROVE  AppKept'
<1>1. ~Stranded'
  BY Constants DEF Ready, InstallInv, TypeOK, FaultsKept
<1>2. catalog' = App
  <2>1. Installed' = Installed /\ Stranded' = Stranded
    BY DEF dirs, Installed, Stranded
  <2> QED BY <1>1, <2>1, AppIsInstalled DEF Ready
<1>3. App # None => Version[App] \in Nat
  BY Constants, AppType
<1> QED BY <1>2, <1>3 DEF Ready, AppKept, AtLeast, Installing

LEMMA InstallerKeepsApp ==
  ASSUME InstallInv, AppKept,
         \/ RemoveBackup \/ RemoveStage \/ RestoreBackup
         \/ MakeStage \/ FillStage \/ BadPackage \/ BuildFails \/ DiscardDone
         \/ MoveAway \/ MoveAwayFails \/ PublishFails \/ Rollback
  PROVE  AppKept' /\ App' = App
<1>1. App' = App
  BY AppStays
     DEF BadPackage, BuildFails, DiscardDone, MoveAwayFails, PublishFails
<1>2. UNCHANGED <<catalog, seen, changed, job>>
  BY DEF RemoveBackup, RemoveStage, RestoreBackup, MakeStage, FillStage,
         BadPackage, BuildFails, DiscardDone, MoveAway, MoveAwayFails,
         PublishFails, Rollback, GiveUp, index
<1>3. /\ Installing' => Installing
      /\ pc' = "scan" => pc = "scan" \/ Installing
      /\ pc' = "ready" => pc = "ready"
  BY DEF RemoveBackup, RemoveStage, RestoreBackup, MakeStage, FillStage,
         BadPackage, BuildFails, DiscardDone, MoveAway, MoveAwayFails,
         PublishFails, Publishing, Rollback, GiveUp, Installing
<1> QED BY <1>1, <1>2, <1>3, AppKeptQuietly

LEMMA RecoveryKeepsApp ==
  ASSUME MaxFaults <= 1, InstallInv, InstallInv', AppKept,
         Boot \/ RecoverDone \/ RecoverFails
  PROVE  AppKept' /\ App' = App
<1>1. UNCHANGED <<dirs, seen, changed, job>>
  BY DEF Boot, RecoverDone, RecoverFails, index
<1>2. App' = App
  BY <1>1, AppStays
<1>3. CASE Ready
  BY <1>1, <1>2, <1>3, AppKeptReady
<1>4. CASE ~Ready
  <2>1. /\ UNCHANGED catalog
        /\ Installing' => Installing
        /\ pc' = "scan" => pc = "scan" \/ Installing
        /\ pc' = "ready" => pc = "ready"
    BY <1>4 DEF Boot, RecoverDone, RecoverFails, Installing
  <2> QED BY <1>1, <1>2, <2>1, AppKeptQuietly
<1> QED BY <1>2, <1>3, <1>4

LEMMA CrashKeepsApp ==
  ASSUME InstallInv, AppKept, Crash
  PROVE  AppKept' /\ App' = App
<1>1. App' = App
  BY AppStays DEF Crash
<1> QED BY <1>1 DEF Crash, AppKept, Installing

LEMMA ScanStartKeepsApp ==
  ASSUME NEW files \in SUBSET Packages, InstallInv, AppKept, RescanBegin(files)
  PROVE  AppKept' /\ App' = App
<1>1. App' = App
  BY AppStays DEF RescanBegin
<1> QED BY <1>1 DEF RescanBegin, AppKept, AtLeast, Installing

(* A package that is skipped is known to the index by its version or more, *)
(* and the app is at least what the catalog has.                           *)
LEMMA SkipKeepsApp ==
  ASSUME NEW p \in Packages, InstallInv, AppKept, IndexKept, Skip(p)
  PROVE  AppKept' /\ App' = App
<1>1. App' = App
  BY AppStays DEF Skip
<1>2. AtLeast(p)
  <2>1. /\ catalog # None /\ catalog \in Packages
        /\ App # None /\ App \in Packages
        /\ noted[p] \in Nat
    BY Constants, AppType
       DEF Skip, PackageReady, AppKept, AtLeast, InstallInv, TypeOK, Indexes, Codes
  <2>2. Version[App] >= Version[catalog]
    BY <2>1 DEF AppKept, AtLeast
  <2>3. Version[catalog] >= noted[p] /\ noted[p] >= Version[p]
    BY DEF Skip, PackageReady, IndexKept
  <2>4. {Version[App], Version[catalog], Version[p]} \subseteq Nat
    BY <2>1, Constants
  <2> QED BY <2>1, <2>2, <2>3, <2>4 DEF AtLeast
<1>3. /\ UNCHANGED <<catalog, changed, job, pc, task>>
      /\ seen' = seen \cup {p}
  BY DEF Skip, Note
<1> QED BY <1>1, <1>2, <1>3 DEF AppKept, AtLeast, Installing

(* One that is ignored is older than what is installed, or the same.       *)
LEMMA IgnoreKeepsApp ==
  ASSUME MaxFaults <= 1, NEW p \in Packages, InstallInv, AppKept, Ignore(p)
  PROVE  AppKept' /\ App' = App
<1>1. App' = App
  BY AppStays DEF Ignore
<1>2. AtLeast(p)
  <2>1. App = Installed
    BY NotStranded, AppIsInstalled DEF Ignore
  <2>2. Version[p] \in Nat /\ (App # None => Version[App] \in Nat)
    BY Constants, AppType
  <2> QED BY <2>1, <2>2 DEF Ignore, Outdated, AtLeast
<1>3. /\ UNCHANGED <<catalog, changed, job, pc, task>>
      /\ seen' = seen \cup {p}
  BY DEF Ignore, Note
<1> QED BY <1>1, <1>2, <1>3 DEF AppKept, AtLeast, Installing

LEMMA RejectKeepsApp ==
  ASSUME NEW p \in Packages, InstallInv, AppKept, Reject(p)
  PROVE  AppKept' /\ App' = App
<1>1. App' = App
  BY AppStays DEF Reject
<1> QED BY <1>1, AppKeptQuietly DEF Reject, Installing, index

(* What is to be installed is at least as new as the app.                  *)
LEMMA InstallKeepsApp ==
  ASSUME MaxFaults <= 1, NEW p \in Packages, InstallInv, AppKept, Install(p)
  PROVE  AppKept' /\ App' = App
<1>1. App' = App
  BY AppStays DEF Install
<1>2. App # None => Version[App] <= Version[p]
  <2>1. App = Installed
    BY NotStranded, AppIsInstalled DEF Install
  <2>2. Version[p] \in Nat /\ (App # None => Version[App] \in Nat)
    BY Constants, AppType
  <2> QED BY <2>1, <2>2 DEF Install, Outdated
<1>3. /\ UNCHANGED <<catalog, changed, seen>>
      /\ job' = p /\ pc = "scan" /\ pc' = "recover" /\ task' = "install"
  BY DEF Install, index
<1> QED BY <1>1, <1>2, <1>3 DEF AppKept, AtLeast, Installing

LEMMA FinishKeepsApp ==
  ASSUME MaxFaults <= 1, InstallInv, AppKept, RescanFinish
  PROVE  AppKept' /\ App' = App
<1>1. App' = App
  BY AppStays DEF RescanFinish
<1>2. App = Installed
  BY NotStranded, AppIsInstalled DEF RescanFinish
<1>3. catalog' = App
  BY <1>2 DEF RescanFinish, AppKept, InstallInv, TypeOK
<1>4. App # None => Version[App] \in Nat
  BY Constants, AppType
<1> QED BY <1>1, <1>3, <1>4 DEF RescanFinish, AppKept, AtLeast, Installing

(* The new app is at least as new as the old, so that what the catalog and *)
(* the index know of the old still holds.                                  *)
LEMMA PublishKeepsApp ==
  ASSUME InstallInv, AppKept, Publish
  PROVE  AppKept'
<1>1. /\ App' = job /\ job \in Packages /\ job # None
      /\ App # None => Version[App] <= Version[job]
  BY PublishReplaces, DirectoryTypes DEF InstallInv, TypeOK
<1>2. \A q \in Packages : AtLeast(q) => AtLeast(q)'
  <2> SUFFICES ASSUME NEW q \in Packages, AtLeast(q)
               PROVE  Version[job] >= Version[q]
    BY <1>1 DEF AtLeast
  <2>1. {Version[App], Version[job], Version[q]} \subseteq Nat
    BY <1>1, AppType, Constants DEF AtLeast
  <2> QED BY <1>1, <2>1 DEF AtLeast
<1>3. /\ AtLeast(job)'
      /\ UNCHANGED <<catalog, job>>
      /\ \/ pc' = "sweep" /\ UNCHANGED <<seen, changed>>
         \/ pc' = "scan" /\ seen' = seen \cup {job} /\ changed' = TRUE
  <2>1. AtLeast(job)'
    BY <1>1, Constants DEF AtLeast, Publish
  <2> QED BY <2>1 DEF Publish, Succeed, Note, index
<1>4. seen \subseteq Packages /\ catalog \in Packages \cup {None}
  BY DEF InstallInv, TypeOK
<1> QED BY <1>2, <1>3, <1>4 DEF AppKept, Installing

LEMMA SweepKeepsApp ==
  ASSUME InstallInv, AppKept, SweepDone
  PROVE  AppKept' /\ App' = App
<1>1. App' = App
  BY AppStays DEF SweepDone
<1>2. AtLeast(job)
  <2>1. final = Whole(job) /\ job \in Packages /\ job # None
    BY DirectoryTypes DEF InstallInv, DirsKept, TypeOK, SweepDone
  <2>2. App = job
    BY <2>1, DirectoryTypes DEF App, Whole
  <2> QED BY <2>1, <2>2, Constants DEF AtLeast
<1>3. /\ UNCHANGED <<catalog, job>> /\ pc' = "scan"
      /\ seen' = seen \cup {job} /\ changed' = TRUE
  BY DEF SweepDone, Succeed, Note
<1> QED BY <1>1, <1>2, <1>3 DEF AppKept, AtLeast, Installing

-----------------------------------------------------------------------------
(* The package index.                                                      *)

LEMMA NoteKeepsIndex ==
  ASSUME NEW p \in Packages, NEW n \in Nat, InstallInv, IndexKept,
         noted' = [noted EXCEPT ![p] = n], n >= Version[p],
         UNCHANGED indexFile
  PROVE  IndexKept'
BY DEF IndexKept, InstallInv, TypeOK, Indexes

LEMMA IndexStays ==
  ASSUME InstallInv, IndexKept, UNCHANGED indexFile,
         UNCHANGED noted \/ noted' = indexFile \/ noted' = Unnoted
  PROVE  IndexKept'
BY DEF IndexKept, Unnoted

LEMMA SkipKeepsIndex ==
  ASSUME NEW p \in Packages, InstallInv, IndexKept, Skip(p)
  PROVE  IndexKept'
<1>1. catalog \in Packages /\ Version[catalog] \in Nat /\ Version[p] \in Nat
  BY Constants DEF InstallInv, TypeOK, Skip, PackageReady
<1>2. noted[p] \in Nat
  BY Constants DEF InstallInv, TypeOK, Indexes, Codes
<1>3. Version[catalog] >= Version[p]
  BY <1>1, <1>2 DEF IndexKept, Skip, PackageReady
<1> QED BY <1>1, <1>3, NoteKeepsIndex DEF Skip, Note

LEMMA FinishKeepsIndex ==
  ASSUME InstallInv, IndexKept, RescanFinish
  PROVE  IndexKept'
<1>1. \A p \in Packages : noted'[p] = IF p \in seen THEN noted[p] ELSE 0
  BY DEF RescanFinish
<1>2. indexFile' = noted' \/ indexFile' = indexFile
  BY DEF RescanFinish
<1> QED BY <1>1, <1>2 DEF IndexKept

LEMMA SucceedKeepsIndex ==
  ASSUME InstallInv, IndexKept, Publish \/ SweepDone
  PROVE  IndexKept'
<1>1. UNCHANGED indexFile /\ (UNCHANGED noted \/ Note(job, Version[job]))
  BY DEF Publish, SweepDone, Succeed, index
<1>2. job \in Packages /\ Version[job] \in Nat /\ Version[job] >= Version[job]
  BY Constants DEF InstallInv, TypeOK
<1> QED BY <1>1, <1>2, NoteKeepsIndex, IndexStays DEF Note

LEMMA IndexKeptByScan ==
  ASSUME NEW p \in Packages, InstallInv, IndexKept,
         Ignore(p) \/ Reject(p) \/ Install(p)
  PROVE  IndexKept'
<1>1. Version[p] \in Nat /\ Version[p] >= Version[p]
  BY Constants
<1>2. CASE Ignore(p)
  BY <1>1, <1>2, NoteKeepsIndex DEF Ignore, Note
<1>3. CASE Reject(p) \/ Install(p)
  BY <1>3, IndexStays DEF Reject, Install, index
<1> QED BY <1>2, <1>3

LEMMA OthersKeepIndex ==
  ASSUME InstallInv, IndexKept,
         \/ Boot \/ Crash \/ RecoverDone \/ RecoverFails
         \/ \E files \in SUBSET Packages : RescanBegin(files)
         \/ RemoveBackup \/ RemoveStage \/ RestoreBackup
         \/ MakeStage \/ FillStage \/ BadPackage \/ BuildFails \/ DiscardDone
         \/ MoveAway \/ MoveAwayFails \/ PublishFails \/ Rollback
  PROVE  IndexKept'
<1>1. UNCHANGED indexFile
  BY DEF Boot, Crash, RecoverDone, RecoverFails, RescanBegin, RemoveBackup,
         RemoveStage, RestoreBackup, MakeStage, FillStage, BadPackage,
         BuildFails, DiscardDone, MoveAway, MoveAwayFails,
         PublishFails, Rollback
<1>2. UNCHANGED noted \/ noted' = indexFile \/ noted' = Unnoted
  BY DEF Boot, Crash, RecoverDone, RecoverFails, RescanBegin, RemoveBackup,
         RemoveStage, RestoreBackup, MakeStage, FillStage, BadPackage,
         BuildFails, DiscardDone, MoveAway, MoveAwayFails,
         PublishFails, Rollback,
         GiveUp, index
<1> QED BY <1>1, <1>2, IndexStays

-----------------------------------------------------------------------------
(* The theorems that take at most one failure.                             *)

LEMMA AtomicInvInit == Init => AtomicInv /\ Atomic!Init
<1>1. Init => App = None
  BY DEF Init, App
<1>2. Init => AppKept /\ IndexKept
  BY <1>1 DEF Init, AppKept, IndexKept, Installing, Unnoted
<1> QED BY <1>1, <1>2, InstallInvInit DEF AtomicInv, Atomic!Init

(* Every step is a replacement of the app, or leaves it as it is.          *)
LEMMA AtomicStep ==
  ASSUME MaxFaults <= 1, AtomicInv, InstallInv', [Next]_vars
  PROVE  AppKept' /\ IndexKept' /\ [Atomic!Next]_App
<1> USE DEF AtomicInv
<1>1. CASE Boot \/ RecoverDone \/ RecoverFails
  BY <1>1, RecoveryKeepsApp, OthersKeepIndex
<1>2. CASE Crash
  BY <1>2, CrashKeepsApp, OthersKeepIndex
<1>3. CASE \E files \in SUBSET Packages : RescanBegin(files)
  BY <1>3, ScanStartKeepsApp, OthersKeepIndex
<1>4. ASSUME NEW p \in Packages, Skip(p)
      PROVE  AppKept' /\ IndexKept' /\ App' = App
  BY <1>4, SkipKeepsApp, SkipKeepsIndex
<1>5. ASSUME NEW p \in Packages, Ignore(p) \/ Reject(p) \/ Install(p)
      PROVE  AppKept' /\ IndexKept' /\ App' = App
  BY <1>5, IgnoreKeepsApp, RejectKeepsApp, InstallKeepsApp, IndexKeptByScan
<1>6. CASE RescanFinish
  BY <1>6, FinishKeepsApp, FinishKeepsIndex
<1>7. CASE \/ RemoveBackup \/ RemoveStage \/ RestoreBackup
           \/ MakeStage \/ FillStage \/ BadPackage \/ BuildFails \/ DiscardDone
           \/ MoveAway \/ MoveAwayFails \/ PublishFails \/ Rollback
  BY <1>7, InstallerKeepsApp, OthersKeepIndex
<1>8. CASE Publish
  <2>1. job \in Packages
    BY DEF InstallInv, TypeOK
  <2>2. Version[job] \in Nat /\ (App # None => Version[App] \in Nat)
    BY <2>1, AppType, Constants
  <2>3. Atomic!Install(job)
    BY <1>8, <2>2, PublishReplaces DEF Atomic!Install
  <2> QED BY <1>8, <2>1, <2>3, PublishKeepsApp, SucceedKeepsIndex DEF Atomic!Next
<1>9. CASE SweepDone
  BY <1>9, SweepKeepsApp, SucceedKeepsIndex
<1>10. CASE UNCHANGED vars
  <2>1. App' = App
    BY <1>10, AppStays DEF vars
  <2> QED BY <1>10, <2>1
      DEF vars, index, AppKept, AtLeast, Installing, IndexKept
<1> QED BY <1>1, <1>2, <1>3, <1>4, <1>5, <1>6, <1>7, <1>8, <1>9, <1>10
    DEF Next

LEMMA AtomicInvKept ==
  ASSUME MaxFaults <= 1
  PROVE  Spec => []AtomicInv
<1>1. AtomicInv /\ InstallInv' /\ [Next]_vars => AtomicInv'
  BY AtomicStep DEF AtomicInv
<1> QED BY AtomicInvInit, InstallInvKept, <1>1, PTL DEF Spec

(* What a scan is done with is installed, or something newer is.           *)
THEOREM WhatWasSeenIsDelivered ==
  ASSUME MaxFaults <= 1
  PROVE  Spec => []Delivered
<1>1. AtomicInv => Delivered
  BY DEF AtomicInv, AppKept, AtLeast, Delivered
<1> QED BY AtomicInvKept, <1>1, PTL

(* The catalog and the disk agree whenever no scan is running.             *)
THEOREM CatalogIsTold ==
  ASSUME MaxFaults <= 1
  PROVE  Spec => []CatalogTrue
<1>1. AtomicInv => CatalogTrue
  BY NotStranded, AppIsInstalled DEF AtomicInv, AppKept, CatalogTrue
<1> QED BY AtomicInvKept, <1>1, PTL

(* The renames of the staged directories, the recovery and the scan        *)
(* implement an atomic replacement of the app by one no older, wherever    *)
(* power is lost.                                                          *)
THEOREM InstallIsAtomic ==
  ASSUME MaxFaults <= 1
  PROVE  Spec => ImplementsAtomic
<1>1. AtomicInv /\ InstallInv' /\ [Next]_vars => [Atomic!Next]_App
  BY AtomicStep
<1> QED BY AtomicInvInit, AtomicInvKept, InstallInvKept, <1>1, PTL
    DEF Spec, ImplementsAtomic, Atomic!Spec
=============================================================================
