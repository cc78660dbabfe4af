------------------------ MODULE MCNodeTransactions ------------------------
(* Instances of NodeTransactions: two node ids, one or two processes.      *)
EXTENDS NodeTransactions

CONSTANTS server, cli

OneProcess == {server}
TwoProcesses == {server, cli}
=============================================================================
