------------------------- MODULE BackupConfigAbstract -------------------------
(***************************************************************************)
(* What UpdateInstanceConfigStoragePool promises about backup.yaml, with  *)
(* no program counter and no config in memory.  The file on the volume   *)
(* holds the original, or is empty (the update truncated it and did not   *)
(* finish), or holds the original moved to the target pool.  Only a file  *)
(* that the function may rewrite (Usable) is ever emptied, and a success  *)
(* is reported only when the moved config has replaced the empty file.   *)
(* A failure is reported with the file left as it was.  The function     *)
(* reports at most once.  A daemon stop is no step at all: the file       *)
(* simply keeps its last contents.                                        *)
(***************************************************************************)
EXTENDS BackupYaml

VARIABLES
    orig,    \* backup.yaml when the import started
    target,  \* b.Pool
    file,    \* backup.yaml on the volume
    result   \* "none", "ok" or "error"

vars == <<orig, target, file, result>>

Init ==
    /\ orig \in BackupFiles \cup {Unreadable}
    /\ target \in Pools
    /\ file = orig
    /\ result = "none"

\* The file is truncated before it is rewritten.
Truncate ==
    /\ result = "none"
    /\ Usable(orig) /\ file = orig
    /\ file' = Unreadable
    /\ UNCHANGED <<orig, target, result>>

\* The moved config replaces the emptied file, and success is reported.
Commit ==
    /\ result = "none"
    /\ Usable(orig) /\ file = Unreadable
    /\ file' = Retarget(orig, target)
    /\ result' = "ok"
    /\ UNCHANGED <<orig, target>>

\* A failure is reported, and the file is left as it was.
Fail ==
    /\ result = "none"
    /\ result' = "error"
    /\ UNCHANGED <<orig, target, file>>

Next == Truncate \/ Commit \/ Fail

Spec == Init /\ [][Next]_vars

=============================================================================
