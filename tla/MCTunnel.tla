------------------------------ MODULE MCTunnel ------------------------------
(***************************************************************************)
(* Small instance of Tunnel: three requests whose relays carry nothing, or *)
(* one relay with two chunks in each direction, its upgrade a plain one.   *)
(***************************************************************************)
EXTENDS Tunnel

CONSTANTS r1, r2, r3, n1, n2

MCRequests == {r1, r2, r3}
MCFollowed == {{}, {r1}}

MCNext ==
  /\ TunnelNext
  /\ DOMAIN tunnel # {} => /\ \A r \in {r2, r3} : stage'[r] = "absent"
                           /\ now' = 0 /\ \A n \in DOMAIN expiry' : n = n1 /\ expiry'[n] = 0

MCSpec == TunnelInit /\ [][MCNext]_tunnelVars /\ TunnelFairness
=============================================================================
