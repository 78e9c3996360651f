------------------------------ MODULE BackupYaml ------------------------------
(***************************************************************************)
(* The backup.yaml of an instance backup (backup.Config, src/lxd-agent/    *)
(* devlxd.go) and what UpdateInstanceConfigStoragePool does to it in       *)
(* memory: the data shared by the detailed model of the function          *)
(* (BackupConfig) and the abstract one of what it promises                *)
(* (BackupConfigAbstract).                                                *)
(*                                                                         *)
(* A devices map is a function from the two kinds of disk an instance may *)
(* have, its root disk (path "/") and a custom-volume disk, to the pool   *)
(* it names, or None when the map has no such device (a nil map has      *)
(* neither).  The file is a Config record, or Unreadable when it is empty *)
(* or cut short and yaml.Unmarshal fails.                                 *)
(***************************************************************************)
EXTENDS Naturals, Sequences

CONSTANTS
    Pools,      \* storage pool names
    None,       \* no such device in the map
    Unreadable  \* a backup.yaml that does not parse


Disks == {"root", "data"}
Devices == [Disks -> Pools \cup {None}]

\* ExpandedDevices holds the instance's own devices over its profiles'.
Expanded(dev) == {exp \in Devices : \A k \in Disks : dev[k] # None => exp[k] = dev[k]}

Snapshot == [devices : Devices, expanded : Devices]

Config == [container : BOOLEAN, pool : Pools, devices : Devices,
           expanded : Devices, snapshots : Seq(Snapshot)]

\* None and Unreadable are markers, not pools or configs.
ASSUME BackupConfigAssumption ==
    /\ Pools # {}
    /\ None \notin Pools
    /\ Unreadable \notin Config

\* Backup files an import can find: any number of snapshots, each devices
\* map's ExpandedDevices consistent with its Devices.
ConsistentConfig(c) ==
    /\ c.expanded \in Expanded(c.devices)
    /\ \A i \in DOMAIN c.snapshots :
          c.snapshots[i].expanded \in Expanded(c.snapshots[i].devices)

BackupFiles == {c \in Config : ConsistentConfig(c)}

(* Mutant: every disk of the map is moved to the pool, not only the root. *)
updateRootDevicePoolAll(devices, poolName) ==
    [k \in Disks |-> IF devices[k] # None THEN poolName ELSE None]

\* updateRootDevicePool: shared.GetRootDiskDevice finds the disk with path
\* "/" (an error, and FALSE, when there is none or the map is nil); its pool
\* is set and TRUE returned.  The new map is returned here, the Boolean is
\* RootIn of the old one.
updateRootDevicePool(devices, poolName) ==
    IF devices["root"] # None
    THEN [devices EXCEPT !["root"] = poolName]
    ELSE devices

RootIn(devices) == devices["root"] # None

\* backup.Pool = pool, then updateRootDevicePool on the instance's Devices
\* and ExpandedDevices and on each snapshot's.
Retarget(c, p) ==
    [c EXCEPT !.pool = p,
              !.devices = updateRootDevicePool(c.devices, p),
              !.expanded = updateRootDevicePool(c.expanded, p),
              !.snapshots = [i \in DOMAIN c.snapshots |->
                               [devices |-> updateRootDevicePool(c.snapshots[i].devices, p),
                                expanded |-> updateRootDevicePool(c.snapshots[i].expanded, p)]]]

\* A backup.yaml the function may rewrite: it parses, holds an instance,
\* and the instance has a root disk.
Usable(c) ==
    /\ c # Unreadable /\ c \in Config /\ c.container
    /\ RootIn(c.devices) \/ RootIn(c.expanded)

=============================================================================
