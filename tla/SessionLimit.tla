---------------------------- MODULE SessionLimit ----------------------------
(***************************************************************************)
(* What the per-user session registry promises, without leases or clocks:  *)
(* a pool of at most Maximum holders.  A session enters only while there   *)
(* is room, leaves when it asks to, and may be expired by the passage of   *)
(* time; nothing else changes the pool.  SessionRegistry implements this   *)
(* specification (see Holders there).                                      *)
(***************************************************************************)
EXTENDS Naturals, FiniteSets

CONSTANTS Sessions,     \* the session ids of one owner
          Maximum       \* the owner's session limit

VARIABLE holders        \* the sessions that hold a slot now

Init == holders = {}

Enter(s) ==
  /\ s \notin holders
  /\ Cardinality(holders) < Maximum
  /\ holders' = holders \cup {s}

Leave(s) ==
  /\ s \in holders
  /\ holders' = holders \ {s}

Expire(gone) ==
  /\ gone # {}
  /\ holders' = holders \ gone

Next ==
  \/ \E s \in Sessions : Enter(s) \/ Leave(s)
  \/ \E gone \in SUBSET holders : Expire(gone)

Spec == Init /\ [][Next]_holders
=============================================================================
