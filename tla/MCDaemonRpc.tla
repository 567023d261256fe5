---------------------------- MODULE MCDaemonRpc ----------------------------
(* One client thread and the main loop on one connection.                   *)
EXTENDS DaemonRpc

CONSTANTS t1

MCThreads == {t1}
MCIds == 1..4
=============================================================================
