---------------------------- MODULE BackupConfig ----------------------------
(***************************************************************************)
(* UpdateInstanceConfigStoragePool (src/lxd-agent/devlxd.go, backup        *)
(* package): when an instance backup is imported into another pool, the  *)
(* backup.yaml on the mounted volume is read, its pool and the pool of    *)
(* every root disk device are changed to the target pool, and the file is *)
(* rewritten in place: os.Create truncates it, then the YAML is written.  *)
(* The daemon may stop at any point between two steps; the file on the    *)
(* volume is what survives it.                                            *)
(* The backup.yaml and the changes in memory are in BackupYaml.          *)
(***************************************************************************)
EXTENDS BackupYaml

VARIABLES
    orig,    \* backup.yaml when the import started
    target,  \* b.Pool
    file,    \* backup.yaml on the volume
    mem,     \* the Config decoded and changed in memory
    found,   \* rootDiskDeviceFound
    pc,      \* "start", "parse", "create", "write", "returned", "crashed"
    result   \* "none", "ok" or "error"

vars == <<orig, target, file, mem, found, pc, result>>

TypeOK ==
    /\ orig \in BackupFiles \cup {Unreadable}
    /\ target \in Pools
    /\ file \in Config \cup {Unreadable}
    /\ mem \in Config \cup {Unreadable}
    /\ found \in BOOLEAN
    /\ pc \in {"start", "parse", "create", "write", "returned", "crashed"}
    /\ result \in {"none", "ok", "error"}

Init ==
    /\ orig \in BackupFiles \cup {Unreadable}
    /\ target \in Pools
    /\ file = orig
    /\ mem = Unreadable
    /\ found = FALSE
    /\ pc = "start"
    /\ result = "none"

Return(r) == pc' = "returned" /\ result' = r

\* c.GetStoragePool(b.Pool) fails, or the pool is loaded.
LoadPool ==
    /\ pc = "start"
    /\ \/ Return("error")
       \/ pc' = "parse" /\ UNCHANGED result
    /\ UNCHANGED <<orig, target, file, mem, found>>

\* Mutant: the "No root device could be found" check dropped.
ParseIgnoringRootCheck ==
    /\ pc = "parse"
    /\ IF file = Unreadable \/ ~file.container
       THEN Return("error") /\ UNCHANGED <<mem, found>>
       ELSE /\ mem' = Retarget(file, target)
            /\ found' = (RootIn(file.devices) \/ RootIn(file.expanded))
            /\ pc' = "create" /\ UNCHANGED result
    /\ UNCHANGED <<orig, target, file>>

\* ParseConfigYamlFile, the Container check, the changes in memory and the
\* root device check: nothing is written before the file is created.
Parse ==
    /\ pc = "parse"
    /\ IF file = Unreadable \/ ~file.container
       THEN Return("error") /\ UNCHANGED <<mem, found>>
       ELSE /\ mem' = Retarget(file, target)
            /\ found' = (RootIn(file.devices) \/ RootIn(file.expanded))
            /\ IF found' THEN pc' = "create" /\ UNCHANGED result
                         ELSE Return("error")
    /\ UNCHANGED <<orig, target, file>>

\* os.Create fails, or truncates backup.yaml.
Create ==
    /\ pc = "create"
    /\ \/ Return("error") /\ UNCHANGED file
       \/ file' = Unreadable /\ pc' = "write" /\ UNCHANGED result
    /\ UNCHANGED <<orig, target, mem, found>>

\* Mutant: the error of file.Write is dropped and success reported.
WriteIgnoringError ==
    /\ pc = "write"
    /\ \/ file' = mem /\ Return("ok")
       \/ file' = Unreadable /\ Return("ok")
    /\ UNCHANGED <<orig, target, mem, found>>

\* yaml.Marshal and file.Write: the new config, or an error that leaves the
\* truncated or partly written file.
Write ==
    /\ pc = "write"
    /\ \/ file' = mem /\ Return("ok")
       \/ file' = Unreadable /\ Return("error")
    /\ UNCHANGED <<orig, target, mem, found>>

\* The daemon stops between two steps; only the file survives.
Crash ==
    /\ pc \in {"start", "parse", "create", "write"}
    /\ pc' = "crashed"
    /\ UNCHANGED <<orig, target, file, mem, found, result>>

Next == LoadPool \/ Parse \/ Create \/ Write \/ Crash

Spec == Init /\ [][Next]_vars

-----------------------------------------------------------------------------
(* Properties *)

\* Two device maps hold the same disks, the data disk on the same pool, and
\* the root disk, if any, on pool p.
Retargeted(o, f, p) ==
    /\ \A k \in Disks : (o[k] = None) <=> (f[k] = None)
    /\ f["data"] = o["data"]
    /\ o["root"] # None => f["root"] = p

\* When UpdateInstanceConfigStoragePool succeeds, backup.yaml names the
\* target pool, every root disk of the instance and of its snapshots is on
\* that pool, every other disk is where it was, and the instance had a root
\* disk to move.
SuccessRetargetsRoots ==
    result = "ok" =>
        /\ orig # Unreadable /\ file # Unreadable
        /\ RootIn(orig.devices) \/ RootIn(orig.expanded)
        /\ file.pool = target
        /\ Retargeted(orig.devices, file.devices, target)
        /\ Retargeted(orig.expanded, file.expanded, target)
        /\ Len(file.snapshots) = Len(orig.snapshots)
        /\ \A i \in DOMAIN orig.snapshots :
               /\ Retargeted(orig.snapshots[i].devices, file.snapshots[i].devices, target)
               /\ Retargeted(orig.snapshots[i].expanded, file.snapshots[i].expanded, target)

\* A backup.yaml with no instance, or whose instance has no root disk, is
\* left exactly as it was, whichever step fails and wherever the daemon
\* stops: it is rejected before os.Create truncates it.
UnusableBackupUntouched ==
    file # orig =>
        /\ orig # Unreadable /\ orig.container
        /\ RootIn(orig.devices) \/ RootIn(orig.expanded)

\* The abstract specification, with the detailed model's file, original,
\* target and result; the program counter and the config in memory are
\* hidden.
Abs == INSTANCE BackupConfigAbstract

\* UpdateInstanceConfigStoragePool implements what it promises: every step
\* of the function, whichever call fails and wherever the daemon stops,
\* leaves backup.yaml as it was, empties a usable one, replaces the empty
\* file by the original moved to the target pool while reporting success,
\* or reports a failure without touching the file.
ImplementsAbstract == Abs!Spec

=============================================================================
