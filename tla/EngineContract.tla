--------------------------- MODULE EngineContract ---------------------------
(***************************************************************************)
(* What a session object relies on when it starts SSH engines (the engine  *)
(* of SshSession, for several sessions at once): the phases an engine goes *)
(* through, in this order, and that closing is final.  Ssh2Engine          *)
(* implements this specification.                                          *)
(***************************************************************************)
CONSTANT Engines

VARIABLE phase

Running == {"dialing", "confirming", "authenticating", "opening", "ready"}

\* From which phases an engine may enter another one.
Before(next) ==
  CASE next = "dialing"        -> {"idle"}
    [] next = "refused"        -> {"idle"}
    [] next = "confirming"     -> {"dialing"}
    [] next = "authenticating" -> {"dialing", "confirming"}
    [] next = "opening"        -> {"authenticating"}
    [] next = "ready"          -> {"opening"}
    [] next = "closed"         -> Running \cup {"refused"}

Advance(e, next) ==
  /\ phase[e] \in Before(next)
  /\ phase' = [phase EXCEPT ![e] = next]

Init == phase = [e \in Engines |-> "idle"]

Next == \E e \in Engines, next \in Running \cup {"refused", "closed"} : Advance(e, next)

Spec == Init /\ [][Next]_phase
=============================================================================
