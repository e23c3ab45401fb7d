------------------------ MODULE MCServiceDiscovery ------------------------
(* A small cluster for ServiceDiscovery. *)
EXTENDS ServiceDiscovery

CONSTANTS b1, b2

MCUrlKinds == {{"plain", "tls"}}
=============================================================================
