-------------------------- MODULE MCBackupRestore --------------------------
(* Instances of BackupRestore: the two versions need one rule of their own *)
(* each and share another.                                                 *)
EXTENDS BackupRestore

WantedRules == [old |-> {"a", "c"}, new |-> {"b", "c"}]
AllFaults == FaultKinds
\* Without a stop that is ignored, see README.
HonestStops == FaultKinds \ {"restop"}
\* Nothing fails but what RestoreReboot.cfg and RestoreWatch.cfg are about.
Reboots == {"kill", "tmp"}
Watches == {"watch"}
=============================================================================
