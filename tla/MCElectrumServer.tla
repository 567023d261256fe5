-------------------------- MODULE MCElectrumServer --------------------------
(* One client, the header and one script.                                    *)
EXTENDS ElectrumServer

CONSTANTS c1, s1

MCClients == {c1}
MCScripts == {s1}
=============================================================================
