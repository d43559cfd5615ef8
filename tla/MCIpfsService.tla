---------------------------- MODULE MCIpfsService ----------------------------
(* TLC instances of IpfsService. *)
EXTENDS IpfsService

CONSTANTS p1, c1, live

MCPeers  == {p1}
MCCids   == {c1}
MCTopics == {live}
==============================================================================
