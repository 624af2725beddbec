----------------------------- MODULE MCDiscovery -----------------------------
(* Two modules, one of them on both interfaces of the host, and a request    *)
(* with room for one address.                                                *)
EXTENDS Discovery

CONSTANTS m1, m2
MCReach == m1 :> {1} @@ m2 :> {1, 2}
=============================================================================
