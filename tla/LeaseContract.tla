--------------------------- MODULE LeaseContract ----------------------------
(***************************************************************************)
(* What a session does with its lease, and what it may rely on, without    *)
(* handlers, renewals or clocks.  Two modules look at the same session:    *)
(* SshSession has the whole life of one and takes for granted that a lease *)
(* lasts while it is in use; LeaseRenewal has the timers that make it last *)
(* and takes for granted how sessions begin and end.  Both implement this. *)
(***************************************************************************)
VARIABLES stage,        \* where the session is with its lease
          held,         \* the registry holds an unexpired lease for it
          wire          \* requests sent to the registry and not yet processed

vars == <<stage, held, wire>>

\* "granted": the registry has agreed and the session has not heard of it yet.
InUse == {"granted", "holding", "live"}

Init == stage = "out" /\ held = FALSE /\ wire = {}

\* A session asks for a lease only when it is not giving one back.
Ask ==
  /\ stage = "out" /\ "release" \notin wire
  /\ stage' = "asking"
  /\ wire' = wire \cup {"acquire"}
  /\ UNCHANGED held

\* An answer to a session that has given up changes nothing there.
Grant ==
  /\ "acquire" \in wire
  /\ held' = TRUE
  /\ \/ stage = "asking" /\ stage' \in {"granted", "holding"}
     \/ stage # "asking" /\ stage' = stage
  /\ wire' = wire \ {"acquire"}

Refuse ==
  /\ "acquire" \in wire
  /\ \/ stage = "asking" /\ stage' = "out"
     \/ stage # "asking" /\ stage' = stage
  /\ wire' = wire \ {"acquire"}
  /\ UNCHANGED held

Hear == stage = "granted" /\ stage' = "holding" /\ UNCHANGED <<held, wire>>

GoLive == stage = "holding" /\ stage' = "live" /\ UNCHANGED <<held, wire>>

\* However a start-up or a session ends, its lease goes back; a release that
\* failed may be sent again, and a restarted object sends what it finds undone.
GiveBack ==
  /\ stage \in InUse \cup {"out"}
  /\ stage' = "out"
  /\ wire' = wire \cup {"release"}
  /\ UNCHANGED held

\* The acquire call throws, or the object crashes with requests under way.
Fail ==
  /\ stage' = "out"
  /\ wire' \in SUBSET (wire \cup {"release"})
  /\ UNCHANGED held

Released ==
  /\ "release" \in wire
  /\ held' = FALSE
  /\ wire' = wire \ {"release"}
  /\ UNCHANGED stage

Lost == \E r \in wire : wire' = wire \ {r} /\ UNCHANGED <<stage, held>>

\* A lease lapses only while it is not in use.
Lapse == stage \notin InUse /\ held' = FALSE /\ UNCHANGED <<stage, wire>>

Next ==
  \/ Ask \/ Grant \/ Refuse \/ Hear \/ GoLive
  \/ GiveBack \/ Fail \/ Released \/ Lost \/ Lapse

Spec == Init /\ [][Next]_vars

(***************************************************************************)
(* What the contract is for: the lease of a session that starts or lives   *)
(* is held, and nobody is giving it back.                                  *)
(***************************************************************************)
InUseIsHeld == stage \in InUse => held /\ "release" \notin wire
=============================================================================
