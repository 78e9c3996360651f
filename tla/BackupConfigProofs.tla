------------------------- MODULE BackupConfigProofs -------------------------
(***************************************************************************)
(* Proofs about UpdateInstanceConfigStoragePool (BackupConfig), for every *)
(* set of pools and every backup.yaml of any number of snapshots.         *)
(***************************************************************************)
EXTENDS BackupConfig, SequenceTheorems, TLAPS

USE BackupConfigAssumption

-----------------------------------------------------------------------------
(* The operators the model is built from.                                  *)

\* updateRootDevicePool keeps a devices map a devices map, moves its root
\* disk, if any, to the pool, and leaves its data disk and which disks it
\* has alone.
LEMMA UpdateRootDevicePoolFacts ==
    ASSUME NEW d \in Devices, NEW p \in Pools
    PROVE  /\ updateRootDevicePool(d, p) \in Devices
           /\ Retargeted(d, updateRootDevicePool(d, p), p)
  BY DEF updateRootDevicePool, Devices, Disks, Retargeted

\* Retarget changes a Config into a Config with the same number of
\* snapshots.
LEMMA RetargetType ==
    ASSUME NEW c \in Config, NEW p \in Pools
    PROVE  /\ Retarget(c, p) \in Config
           /\ Len(Retarget(c, p).snapshots) = Len(c.snapshots)
           /\ \A i \in DOMAIN c.snapshots :
                 Retarget(c, p).snapshots[i] =
                   [devices |-> updateRootDevicePool(c.snapshots[i].devices, p),
                    expanded |-> updateRootDevicePool(c.snapshots[i].expanded, p)]
<1> DEFINE s == c.snapshots
           e(i) == [devices |-> updateRootDevicePool(s[i].devices, p),
                    expanded |-> updateRootDevicePool(s[i].expanded, p)]
<1>1. s \in Seq(Snapshot) /\ DOMAIN s = 1..Len(s) /\ Len(s) \in Nat
  BY LenProperties DEF Config
<1>2. \A i \in 1..Len(s) : e(i) \in Snapshot
  <2> SUFFICES ASSUME NEW i \in 1..Len(s) PROVE e(i) \in Snapshot
    OBVIOUS
  <2>1. s[i] \in Snapshot
    BY <1>1, ElementOfSeq
  <2>2. s[i].devices \in Devices /\ s[i].expanded \in Devices
    BY <2>1 DEF Snapshot
  <2>3. QED
    BY <2>2, UpdateRootDevicePoolFacts DEF Snapshot
<1>3. [i \in 1..Len(s) |-> e(i)] \in Seq(Snapshot)
  BY <1>1, <1>2, IsASeq
<1>4. Len([i \in 1..Len(s) |-> e(i)]) = Len(s)
  BY <1>1, <1>3, LenProperties
<1>5. Retarget(c, p).snapshots = [i \in 1..Len(s) |-> e(i)]
  BY <1>1 DEF Retarget, Config
<1>6. updateRootDevicePool(c.devices, p) \in Devices
      /\ updateRootDevicePool(c.expanded, p) \in Devices
  BY UpdateRootDevicePoolFacts DEF Config
<1>7. Retarget(c, p) \in Config
  BY <1>3, <1>5, <1>6 DEF Retarget, Config
<1>8. QED
  BY <1>1, <1>4, <1>5, <1>7

\* The retargeted config satisfies what SuccessRetargetsRoots asks of the
\* written file.
LEMMA RetargetRetargets ==
    ASSUME NEW c \in Config, NEW p \in Pools
    PROVE  LET f == Retarget(c, p) IN
           /\ f.pool = p
           /\ Retargeted(c.devices, f.devices, p)
           /\ Retargeted(c.expanded, f.expanded, p)
           /\ Len(f.snapshots) = Len(c.snapshots)
           /\ \A i \in DOMAIN c.snapshots :
                  /\ Retargeted(c.snapshots[i].devices, f.snapshots[i].devices, p)
                  /\ Retargeted(c.snapshots[i].expanded, f.snapshots[i].expanded, p)
<1>1. \A i \in DOMAIN c.snapshots : c.snapshots[i] \in Snapshot
  BY LenProperties DEF Config
<1>2. QED
  BY <1>1, RetargetType, UpdateRootDevicePoolFacts DEF Retarget, Config, Snapshot

LEMMA BackupFilesAreConfigs == BackupFiles \subseteq Config
  BY DEF BackupFiles

-----------------------------------------------------------------------------
(* The inductive invariant.                                                *)

\* The strengthening of both invariants.  Until the file is parsed it is
\* the original; from the root device check on, the original was usable and
\* the config in memory is the original retargeted; success writes that
\* config and ends the function.  UnusableBackupUntouched needs the first
\* two facts, because Create changes the file on the strength of a check
\* made by Parse one step before; SuccessRetargetsRoots needs the others,
\* because Write stores mem and not a function of the original.  The
\* refinement needs the file to be the original until Create truncates
\* it and empty while Write runs, and no result before the function
\* returns.
IInv ==
    /\ TypeOK
    /\ pc \in {"start", "parse", "create"} => file = orig
    /\ pc = "write" => file = Unreadable
    /\ pc # "returned" => result = "none"
    /\ pc \in {"create", "write"} => Usable(orig) /\ mem = Retarget(orig, target)
    /\ file # orig => Usable(orig)
    /\ result = "ok" => pc = "returned" /\ Usable(orig) /\ file = Retarget(orig, target)

LEMMA IInvInit == Init => IInv
<1> SUFFICES ASSUME Init PROVE IInv
  OBVIOUS
<1>1. orig \in Config \cup {Unreadable}
  BY BackupFilesAreConfigs DEF Init
<1>2. QED
  BY <1>1 DEF Init, IInv, TypeOK

LEMMA IInvStep == IInv /\ [Next]_vars => IInv'
<1> SUFFICES ASSUME IInv, [Next]_vars PROVE IInv'
  OBVIOUS
<1> USE DEF IInv, TypeOK
<1>1. CASE LoadPool
  BY <1>1 DEF LoadPool, Return
<1>2. CASE Parse
  <2>1. CASE file = Unreadable \/ ~file.container
    BY <1>2, <2>1 DEF Parse, Return
  <2>2. CASE file # Unreadable /\ file.container
    <3>1. file = orig /\ file \in Config
      BY <1>2, <2>2, BackupFilesAreConfigs DEF Parse
    <3>2. Retarget(file, target) \in Config
      BY <3>1, RetargetType
    <3>3. CASE RootIn(file.devices) \/ RootIn(file.expanded)
      BY <1>2, <2>2, <3>1, <3>2, <3>3 DEF Parse, Return, Usable
    <3>4. CASE ~(RootIn(file.devices) \/ RootIn(file.expanded))
      BY <1>2, <2>2, <3>1, <3>2, <3>4 DEF Parse, Return
    <3>5. QED
      BY <3>3, <3>4
  <2>3. QED
    BY <2>1, <2>2
<1>3. CASE Create
  BY <1>3 DEF Create, Return
<1>4. CASE Write
  BY <1>4 DEF Write, Return
<1>5. CASE Crash
  BY <1>5 DEF Crash
<1>6. CASE UNCHANGED vars
  BY <1>6 DEF vars
<1>7. QED
  BY <1>1, <1>2, <1>3, <1>4, <1>5, <1>6 DEF Next

\* Every step keeps the original file, the target, the file, the config in
\* memory and the function's progress in their types.
THEOREM TypeCorrect == Spec => []TypeOK
<1>1. IInv => TypeOK
  BY DEF IInv
<1>2. QED
  BY <1>1, IInvInit, IInvStep, PTL DEF Spec

\* A backup.yaml without an instance or without a root disk is never
\* changed by UpdateInstanceConfigStoragePool, whichever call fails and
\* wherever the daemon stops.
THEOREM UnusableBackupUntouchedHolds == Spec => []UnusableBackupUntouched
<1>1. IInv => UnusableBackupUntouched
  BY DEF IInv, Usable, UnusableBackupUntouched
<1>2. QED
  BY <1>1, IInvInit, IInvStep, PTL DEF Spec

\* When UpdateInstanceConfigStoragePool succeeds, the written backup.yaml
\* has the target pool and exactly the root disks moved to it, for backups
\* with any number of snapshots.
THEOREM SuccessRetargetsRootsHolds == Spec => []SuccessRetargetsRoots
<1>1. IInv => SuccessRetargetsRoots
  <2> SUFFICES ASSUME IInv, result = "ok" PROVE SuccessRetargetsRoots
    BY DEF SuccessRetargetsRoots
  <2>1. Usable(orig) /\ file = Retarget(orig, target) /\ target \in Pools
    BY DEF IInv, TypeOK
  <2>2. orig \in Config /\ file \in Config
    BY <2>1, RetargetType DEF Usable
  <2>3. Unreadable \notin Config
    OBVIOUS
  <2>4. QED
    BY <2>1, <2>2, <2>3, RetargetRetargets DEF SuccessRetargetsRoots, Usable
<1>2. QED
  BY <1>1, IInvInit, IInvStep, PTL DEF Spec

-----------------------------------------------------------------------------
(* Refinement of the abstract specification.                               *)

\* The abstract specification's view of backup.yaml is the detailed one's:
\* both extend BackupYaml with the same constants.
LEMMA AbsData ==
    /\ Abs!BackupFiles = BackupFiles
    /\ \A c : Abs!Usable(c) = Usable(c)
    /\ \A c, p : Abs!Retarget(c, p) = Retarget(c, p)
<1>1. Abs!Config = Config /\ Abs!Snapshot = Snapshot /\ Abs!Devices = Devices
  BY DEF Abs!Config, Config, Abs!Snapshot, Snapshot, Abs!Devices, Devices,
         Abs!Disks, Disks
<1>2. Abs!BackupFiles = BackupFiles
  BY <1>1 DEF Abs!BackupFiles, BackupFiles, Abs!ConsistentConfig, ConsistentConfig,
               Abs!Expanded, Expanded, Abs!Disks, Disks
<1>3. \A c : Abs!Usable(c) = Usable(c)
  BY <1>1 DEF Abs!Usable, Usable, Abs!RootIn, RootIn
<1>4. \A c, p : Abs!Retarget(c, p) = Retarget(c, p)
  BY DEF Abs!Retarget, Retarget, Abs!updateRootDevicePool, updateRootDevicePool
<1>5. QED
  BY <1>2, <1>3, <1>4

LEMMA AbsInit == Init => Abs!Init
  BY AbsData DEF Init, Abs!Init

\* Each step of the function is a step of the abstract specification, or
\* leaves the original, the target, the file and the result alone.
LEMMA AbsStep == IInv /\ [Next]_vars => [Abs!Next]_Abs!vars
<1> SUFFICES ASSUME IInv, [Next]_vars PROVE [Abs!Next]_Abs!vars
  OBVIOUS
<1> USE AbsData DEF IInv, TypeOK, Abs!vars, Return
<1>1. CASE LoadPool
  <2>1. CASE result' = "error"
    BY <1>1, <2>1 DEF LoadPool, Abs!Next, Abs!Fail
  <2>2. CASE result' # "error"
    BY <1>1, <2>2 DEF LoadPool
  <2>3. QED
    BY <2>1, <2>2
<1>2. CASE Parse
  <2>1. CASE pc' = "returned"
    BY <1>2, <2>1 DEF Parse, Abs!Next, Abs!Fail
  <2>2. CASE pc' # "returned"
    BY <1>2, <2>2 DEF Parse
  <2>3. QED
    BY <2>1, <2>2
<1>3. CASE Create
  <2>1. CASE pc' = "returned"
    BY <1>3, <2>1 DEF Create, Abs!Next, Abs!Fail
  <2>2. CASE pc' # "returned"
    BY <1>3, <2>2 DEF Create, Abs!Next, Abs!Truncate
  <2>3. QED
    BY <2>1, <2>2
<1>4. CASE Write
  <2>1. CASE result' = "ok"
    BY <1>4, <2>1 DEF Write, Abs!Next, Abs!Commit
  <2>2. CASE result' # "ok"
    BY <1>4, <2>2 DEF Write, Abs!Next, Abs!Fail
  <2>3. QED
    BY <2>1, <2>2
<1>5. CASE Crash
  BY <1>5 DEF Crash
<1>6. CASE UNCHANGED vars
  BY <1>6 DEF vars
<1>7. QED
  BY <1>1, <1>2, <1>3, <1>4, <1>5, <1>6 DEF Next

\* UpdateInstanceConfigStoragePool implements its abstract specification
\* for every set of pools and every backup.yaml: the file only ever holds
\* the original, nothing, or the original moved to the target pool, and
\* success is reported only once the moved config is written.
THEOREM Refinement == Spec => ImplementsAbstract
<1>1. IInv /\ [][Next]_vars => [][Abs!Next]_Abs!vars
  BY AbsStep, IInvStep, PTL
<1>2. QED
  BY <1>1, AbsInit, IInvInit, PTL DEF Spec, ImplementsAbstract, Abs!Spec

=============================================================================
