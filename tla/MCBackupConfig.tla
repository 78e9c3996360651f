--------------------------- MODULE MCBackupConfig ---------------------------
(* Model-checking instance of BackupConfig: pools are model values.       *)
EXTENDS BackupConfig, TLC

MCPoolSymmetry == Permutations(Pools)

\* The backup files TLC draws from: at most MCMaxSnapshots snapshots, so
\* that a root disk moved in one snapshot and not in another shows.
MCMaxSnapshots == 2
MCBackupFiles ==
    {c \in [container : BOOLEAN, pool : Pools, devices : Devices,
            expanded : Devices,
            snapshots : UNION {[1..n -> Snapshot] : n \in 0..MCMaxSnapshots}] :
        ConsistentConfig(c)}
=============================================================================
