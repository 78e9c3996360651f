\* Two pools, so that the backup's own pool and the target differ or agree,
\* a root and a data disk in each devices map, and up to two snapshots.
SPECIFICATION Spec
CONSTANTS
    Pools = {p1, p2}
    None = None
    Unreadable = Unreadable
    BackupFiles <- MCBackupFiles
SYMMETRY MCPoolSymmetry
INVARIANTS
    SuccessRetargetsRoots
    UnusableBackupUntouched
PROPERTY
    ImplementsAbstract
\* UpdateInstanceConfigStoragePool returns, or the daemon stopped.
CHECK_DEADLOCK FALSE
