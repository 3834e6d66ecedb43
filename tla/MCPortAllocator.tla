-------------------------- MODULE MCPortAllocator ---------------------------
(* Instances of PortAllocator.                                             *)
EXTENDS PortAllocator

CONSTANTS eth0, ip1

OneNet  == {eth0}
OneIp   == {ip1}
=============================================================================
