----------------------- MODULE TailnetConnectorProofs -----------------------
(***************************************************************************)
(* Proofs about the Tailnet Connector, for any set of requests, any        *)
(* connection limit and any authentication window: the reservations are    *)
(* counted exactly, no target socket is left open, and no handshake is     *)
(* accepted twice; and for relays of any length with buffers of any size:  *)
(* no chunk is lost in the middle, repeated or swapped.                    *)
(***************************************************************************)
EXTENDS Tunnel, FiniteSetTheorems, TLAPS

(***************************************************************************)
(* What the nonce cache keeps.  A nonce that has been presented stays in   *)
(* it as long as its handshake is valid; this is why forgetting expired    *)
(* nonces is safe.                                                         *)
(***************************************************************************)
NoncesKept ==
  /\ \A n \in Signed : expiry[n] \in Nat
  /\ \A r \in Requests : \A n \in presented[r] : expiry[n] >= now => n \in cache
  /\ \A r \in Requests : stage[r] \in {"absent", "new"} => presented[r] = {}

\* A socket that is still connecting is awaited, or its request is over.
SocketsAwaited ==
  \A r \in Requests : tcp[r] = "connecting" => stage[r] \in {"dialing", "over"}

ConnectorInv ==
  /\ TypeOK
  /\ IsFiniteSet(Holding) /\ ReservationsExact
  /\ NoOrphanSocket /\ SocketsAwaited
  /\ NonceOnce /\ NoncesKept

LEMMA ConnectorInvInit == Init => ConnectorInv
<1> SUFFICES ASSUME Init PROVE ConnectorInv
  OBVIOUS
<1>1. Holding = {}
  BY DEF Init, Holding, Pending, Awaiting
<1>2. IsFiniteSet(Holding) /\ Cardinality(Holding) = 0
  BY <1>1, FS_EmptySet
<1>3. TypeOK
  <2>1. Signed = {}
    BY DEF Init, Signed
  <2>2. now \in 0..Horizon
    BY ConnectorAssumption DEF Init
  <2>3. reserved \in 0..MaxConnections
    BY ConnectorAssumption DEF Init
  <2>4. stopping \in BOOLEAN
    BY DEF Init
  <2>5. presented \in [Requests -> SUBSET Signed]
    BY DEF Init
  <2> QED BY <2>1, <2>2, <2>3, <2>4, <2>5 DEF Init, TypeOK
<1>4. ReservationsExact
  BY <1>2, ConnectorAssumption DEF Init, ReservationsExact
<1>5. NoOrphanSocket /\ SocketsAwaited /\ NonceOnce
  BY DEF Init, NoOrphanSocket, SocketsAwaited, NonceOnce
<1>6. NoncesKept
  BY DEF Init, NoncesKept, Signed
<1> QED BY <1>2, <1>3, <1>4, <1>5, <1>6 DEF ConnectorInv

-----------------------------------------------------------------------------
(* Reservations.  A step of the Connector leaves the holders alone, adds   *)
(* one while there is room, or removes one, and counts accordingly.        *)

Keeps == Holding' = Holding /\ reserved' = reserved

Adds(r) ==
  /\ r \notin Holding /\ reserved < MaxConnections
  /\ Holding' = Holding \cup {r} /\ reserved' = reserved + 1

Drops(r) ==
  /\ r \in Holding
  /\ Holding' = Holding \ {r} /\ reserved' = reserved - 1

LEMMA StageMoves ==
  ASSUME TypeOK, NEW r \in Requests, NEW next,
         stage' = [stage EXCEPT ![r] = next]
  PROVE  /\ next \in Pending \cup {"relaying"} => Holding' = Holding \cup {r}
         /\ next \notin Pending \cup {"relaying"} => Holding' = Holding \ {r}
BY DEF TypeOK, Holding

LEMMA GiveUpDrops ==
  ASSUME TypeOK, NEW r \in Requests, r \in Holding, GiveUp(r)
  PROVE  Drops(r)
<1>1. stage' = [stage EXCEPT ![r] = "over"] /\ reserved' = reserved - 1
  BY DEF GiveUp
<1>2. "over" \notin Pending \cup {"relaying"}
  BY DEF Pending, Awaiting
<1>3. Holding' = Holding \ {r}
  BY <1>1, <1>2, StageMoves
<1> QED BY <1>1, <1>3 DEF Drops

LEMMA HandlerCounts ==
  ASSUME TypeOK, NEW r \in Requests, Handle(r)
  PROVE  Keeps \/ Adds(r) \/ Drops(r)
<1> USE DEF Pending, Awaiting
<1>1. r \in Holding <=> stage[r] \in Pending \cup {"relaying"}
  BY DEF Holding
<1>2. CASE Arrive(r) \/ Unauthorized(r) \/ Replayed(r)
  <2>1. r \notin Holding
    BY <1>1, <1>2 DEF Arrive, Unauthorized, Replayed
  <2>2. Holding' = Holding \ {r} /\ reserved' = reserved
    BY <1>2, StageMoves DEF Arrive, Unauthorized, Replayed, Reject
  <2> QED BY <2>1, <2>2 DEF Keeps
<1>3. CASE Upgrade(r)
  <2>1. r \notin Holding
    BY <1>1, <1>3 DEF Upgrade
  <2>2. CASE reserved >= MaxConnections
    <3>1. Holding' = Holding \ {r} /\ reserved' = reserved
      BY <1>3, <2>2, StageMoves DEF Upgrade, Admit, Reject
    <3> QED BY <2>1, <3>1 DEF Keeps
  <2>3. CASE ~(reserved >= MaxConnections)
    <3>1. Holding' = Holding \cup {r} /\ reserved' = reserved + 1
      BY <1>3, <2>3, StageMoves DEF Upgrade, Admit
    <3>2. reserved < MaxConnections
      BY <2>3, ConnectorAssumption DEF TypeOK
    <3> QED BY <2>1, <3>1, <3>2 DEF Adds
  <2> QED BY <2>2, <2>3
<1>4. CASE ClientLeaves(r)
  BY <1>4 DEF ClientLeaves, Keeps, Holding
<1>5. CASE ClientGone(r) \/ Deadline(r) \/ Abandon(r) \/ RelayEnds(r)
  BY <1>1, <1>5, GiveUpDrops DEF ClientGone, Deadline, Abandon, RelayEnds
<1>6. CASE Resolves(r)
  <2>1. r \in Holding
    BY <1>1, <1>6 DEF Resolves
  <2>2. CASE GiveUp(r)
    BY <2>1, <2>2, GiveUpDrops
  <2>3. CASE stage' = [stage EXCEPT ![r] = "dialing"] /\ reserved' = reserved
    <3>1. Holding' = Holding \cup {r}
      BY <2>3, StageMoves
    <3> QED BY <2>1, <2>3, <3>1 DEF Keeps
  <2> QED BY <1>6, <2>2, <2>3 DEF Resolves
<1>7. CASE TcpOpens(r)
  <2>1. CASE stage[r] = "dialing" /\ stage' = [stage EXCEPT ![r] = "connected"]
    <3>1. Holding' = Holding \cup {r} /\ r \in Holding
      BY <1>1, <2>1, StageMoves
    <3> QED BY <1>7, <3>1 DEF Keeps, TcpOpens
  <2>2. CASE stage' = stage
    BY <1>7, <2>2 DEF Keeps, TcpOpens, Holding
  <2> QED BY <1>7, <2>1, <2>2 DEF TcpOpens
<1>8. CASE TcpFails(r)
  <2>1. CASE stage[r] = "dialing" /\ GiveUp(r)
    BY <1>1, <2>1, GiveUpDrops
  <2>2. CASE UNCHANGED <<stage, reserved>>
    BY <2>2 DEF Keeps, Holding
  <2> QED BY <1>8, <2>1, <2>2 DEF TcpFails
<1>9. CASE Relay(r)
  <2>1. Holding' = Holding \cup {r} /\ r \in Holding /\ reserved' = reserved
    BY <1>1, <1>9, StageMoves DEF Relay
  <2> QED BY <2>1 DEF Keeps
<1> QED BY <1>2, <1>3, <1>4, <1>5, <1>6, <1>7, <1>8, <1>9 DEF Handle

LEMMA Counted ==
  ASSUME ConnectorInv, [Next]_vars
  PROVE  IsFiniteSet(Holding') /\ ReservationsExact'
<1>1. Keeps \/ \E r \in Requests : Adds(r) \/ Drops(r)
  <2>1. CASE \E r \in Requests : Handle(r)
    BY <2>1, HandlerCounts DEF ConnectorInv
  <2>2. CASE UNCHANGED vars \/ (\E n \in Nonces : Sign(n)) \/ Shutdown \/ Tick
    BY <2>2 DEF Keeps, Holding, vars, Sign, Shutdown, Tick, upgradeVars
  <2> QED BY <2>1, <2>2 DEF Next
<1>2. CASE Keeps
  BY <1>2 DEF Keeps, ConnectorInv, ReservationsExact
<1>3. ASSUME NEW r \in Requests, Adds(r) PROVE IsFiniteSet(Holding') /\ ReservationsExact'
  <2>1. IsFiniteSet(Holding \cup {r}) /\ Cardinality(Holding \cup {r}) = Cardinality(Holding) + 1
    BY <1>3, FS_AddElement DEF Adds, ConnectorInv
  <2>2. reserved + 1 <= MaxConnections
    BY <1>3, ConnectorAssumption DEF Adds, ConnectorInv, TypeOK
  <2> QED BY <1>3, <2>1, <2>2 DEF Adds, ConnectorInv, ReservationsExact
<1>4. ASSUME NEW r \in Requests, Drops(r) PROVE IsFiniteSet(Holding') /\ ReservationsExact'
  <2>1. IsFiniteSet(Holding \ {r}) /\ Cardinality(Holding \ {r}) = Cardinality(Holding) - 1
    BY <1>4, FS_RemoveElement DEF Drops, ConnectorInv
  <2>2. reserved - 1 <= MaxConnections
    BY ConnectorAssumption DEF ConnectorInv, TypeOK
  <2> QED BY <1>4, <2>1, <2>2 DEF Drops, ConnectorInv, ReservationsExact
<1> QED BY <1>1, <1>2, <1>3, <1>4

-----------------------------------------------------------------------------
(* Types, sockets and nonces.                                              *)

\* What a handler's step does to the parts that authentication keeps.
LEMMA HandlerTypes ==
  ASSUME ConnectorInv, ReservationsExact', IsFiniteSet(Holding'), NEW r \in Requests, Handle(r)
  PROVE  TypeOK'
<1> USE DEF ConnectorInv, TypeOK, Pending, Awaiting, authVars
<1>1. reserved' \in 0..MaxConnections
  <2>1. Cardinality(Holding') \in Nat
    BY FS_CardinalityType
  <2> QED BY <2>1, ConnectorAssumption DEF ReservationsExact
<1>2. CASE Arrive(r) \/ Unauthorized(r) \/ Replayed(r)
  BY <1>1, <1>2 DEF Arrive, Unauthorized, Replayed, Reject, Remembered, Signed
<1>3. CASE Upgrade(r)
  BY <1>1, <1>3 DEF Upgrade, Admit, Reject, Authentic, Remembered, Signed
<1>4. CASE ClientLeaves(r) \/ ClientGone(r) \/ Deadline(r) \/ Abandon(r) \/ Relay(r) \/ RelayEnds(r)
  BY <1>1, <1>4 DEF ClientLeaves, ClientGone, Deadline, Abandon, Relay, RelayEnds, GiveUp, Signed
<1>5. CASE Resolves(r)
  BY <1>1, <1>5 DEF Resolves, GiveUp, Signed
<1>6. CASE TcpOpens(r) \/ TcpFails(r)
  BY <1>1, <1>6 DEF TcpOpens, TcpFails, GiveUp, Signed
<1> QED BY <1>2, <1>3, <1>4, <1>5, <1>6 DEF Handle

LEMMA OtherTypes ==
  ASSUME ConnectorInv, (\E n \in Nonces : Sign(n)) \/ Shutdown \/ Tick \/ UNCHANGED vars
  PROVE  TypeOK'
<1> USE DEF ConnectorInv, TypeOK, upgradeVars, authVars
<1>1. CASE \E n \in Nonces : Sign(n)
  BY <1>1 DEF Sign, Signed
<1>2. CASE Shutdown
  BY <1>2 DEF Shutdown, Signed
<1>3. CASE Tick
  BY <1>3, ConnectorAssumption DEF Tick, Signed
<1>4. CASE UNCHANGED vars
  BY <1>4 DEF vars, Signed
<1> QED BY <1>1, <1>2, <1>3, <1>4

LEMMA SocketsOwned ==
  ASSUME ConnectorInv, [Next]_vars
  PROVE  NoOrphanSocket' /\ SocketsAwaited'
<1> USE DEF ConnectorInv, TypeOK, NoOrphanSocket, SocketsAwaited, Pending, Awaiting
<1>1. ASSUME NEW r \in Requests, Handle(r) PROVE NoOrphanSocket' /\ SocketsAwaited'
  <2>1. CASE Arrive(r) \/ Unauthorized(r) \/ Replayed(r) \/ Upgrade(r)
    BY <2>1 DEF Arrive, Unauthorized, Replayed, Upgrade, Admit, Reject
  <2>2. CASE ClientLeaves(r) \/ ClientGone(r) \/ Deadline(r) \/ Abandon(r) \/ Relay(r) \/ RelayEnds(r)
    BY <2>2 DEF ClientLeaves, ClientGone, Deadline, Abandon, Relay, RelayEnds, GiveUp
  <2>3. CASE Resolves(r)
    BY <2>3 DEF Resolves, GiveUp
  <2>4. CASE TcpOpens(r) \/ TcpFails(r)
    BY <2>4 DEF TcpOpens, TcpFails, GiveUp
  <2> QED BY <1>1, <2>1, <2>2, <2>3, <2>4 DEF Handle
<1>2. CASE (\E n \in Nonces : Sign(n)) \/ Shutdown \/ Tick \/ UNCHANGED vars
  BY <1>2 DEF Sign, Shutdown, Tick, vars, upgradeVars
<1> QED BY <1>1, <1>2 DEF Next

\* An upgrade takes a nonce that is not in the cache, so nobody has presented it.
LEMMA UpgradeIsFirst ==
  ASSUME ConnectorInv, NEW r \in Requests, Upgrade(r)
  PROVE  NonceOnce' /\ NoncesKept'
<1>1. PICK n \in Nonces : /\ Authentic(n)
                          /\ cache' = Remembered \cup {n}
                          /\ presented' = [presented EXCEPT ![r] = {n}]
  BY DEF Upgrade
<1>2. now' = now /\ expiry' = expiry /\ Signed' = Signed
  BY DEF Upgrade, Signed
<1>3. \A q \in Requests : presented'[q] = IF q = r THEN {n} ELSE presented[q]
  BY <1>1 DEF ConnectorInv, TypeOK
<1>4. \A q \in Requests : n \notin presented[q]
  BY <1>1 DEF ConnectorInv, NoncesKept, Authentic, Remembered
<1>5. NonceOnce'
  BY <1>3, <1>4 DEF ConnectorInv, NonceOnce
<1>6. \A q \in Requests : \A m \in presented'[q] : expiry[m] >= now => m \in cache'
  BY <1>1, <1>3 DEF ConnectorInv, NoncesKept, Remembered
<1>7. \A q \in Requests : stage'[q] \in {"absent", "new"} => q # r /\ stage'[q] = stage[q]
  BY DEF ConnectorInv, TypeOK, Upgrade, Admit, Reject
<1> QED BY <1>2, <1>3, <1>5, <1>6, <1>7 DEF ConnectorInv, NoncesKept

LEMMA NoncesStayOnce ==
  ASSUME ConnectorInv, [Next]_vars
  PROVE  NonceOnce' /\ NoncesKept'
<1> USE DEF ConnectorInv, TypeOK, NonceOnce, NoncesKept
<1>1. ASSUME NEW r \in Requests, Handle(r) PROVE NonceOnce' /\ NoncesKept'
  <2>1. CASE Upgrade(r)
    BY <2>1, UpgradeIsFirst
  <2>2. CASE Arrive(r) \/ Unauthorized(r) \/ Replayed(r)
    <3>1. UNCHANGED <<now, expiry, presented>> /\ Signed' = Signed
      BY <2>2 DEF Arrive, Unauthorized, Replayed, authVars, Signed
    <3>2. \A q \in Requests : stage'[q] \in {"absent", "new"} => stage[q] \in {"absent", "new"}
      BY <2>2 DEF Arrive, Unauthorized, Replayed, Reject
    <3>3. \A n \in cache : expiry[n] >= now => n \in cache'
      BY <2>2 DEF Arrive, Unauthorized, Replayed, authVars, Remembered
    <3> QED BY <3>1, <3>2, <3>3
  <2>3. CASE \/ ClientLeaves(r) \/ ClientGone(r) \/ Resolves(r) \/ Deadline(r)
             \/ TcpOpens(r) \/ TcpFails(r) \/ Abandon(r) \/ Relay(r) \/ RelayEnds(r)
    <3>1. UNCHANGED authVars /\ Signed' = Signed
      BY <2>3 DEF ClientLeaves, ClientGone, Resolves, Deadline, TcpOpens, TcpFails,
                  Abandon, Relay, RelayEnds, authVars, Signed
    <3>2. \A q \in Requests : stage'[q] \in {"absent", "new"} => stage[q] \in {"absent", "new"}
      BY <2>3 DEF ClientLeaves, ClientGone, Resolves, Deadline, TcpOpens, TcpFails,
                  Abandon, Relay, RelayEnds, GiveUp
    <3> QED BY <3>1, <3>2 DEF authVars
  <2> QED BY <1>1, <2>1, <2>2, <2>3 DEF Handle
<1>2. ASSUME NEW n \in Nonces, Sign(n) PROVE NonceOnce' /\ NoncesKept'
  <2>1. PICK until \in now..(now + Window + 1) :
          expiry' = [m \in Signed \cup {n} |-> IF m = n THEN until ELSE expiry[m]]
    BY <1>2 DEF Sign
  <2>2. until \in Nat
    BY ConnectorAssumption
  <2>3. UNCHANGED <<now, cache, presented, stage>> /\ n \notin Signed
    BY <1>2 DEF Sign, upgradeVars
  <2>4. Signed' = Signed \cup {n}
    BY <2>1 DEF Signed
  <2>5. \A m \in Signed : expiry'[m] = expiry[m]
    BY <2>1, <2>3
  <2>6. expiry'[n] = until
    BY <2>1
  <2> QED BY <2>2, <2>3, <2>4, <2>5, <2>6
<1>3. CASE Tick
  BY <1>3 DEF Tick, upgradeVars, Signed
<1>4. CASE Shutdown \/ UNCHANGED vars
  BY <1>4 DEF Shutdown, vars, upgradeVars, authVars, Signed
<1> QED BY <1>1, <1>2, <1>3, <1>4 DEF Next

-----------------------------------------------------------------------------
LEMMA ConnectorInvKept ==
  ASSUME ConnectorInv, [Next]_vars
  PROVE  ConnectorInv'
<1>1. IsFiniteSet(Holding') /\ ReservationsExact'
  BY Counted
<1>2. TypeOK'
  BY <1>1, HandlerTypes, OtherTypes DEF Next
<1> QED BY <1>1, <1>2, SocketsOwned, NoncesStayOnce DEF ConnectorInv

\* Every reachable state of the Connector satisfies the invariant.
THEOREM ConnectorInvHolds == Spec => []ConnectorInv
BY ConnectorInvInit, ConnectorInvKept, PTL DEF Spec

\* The Connector's variables keep their types.
THEOREM ConnectorTypes == Spec => []TypeOK
<1>1. ConnectorInv => TypeOK
  BY DEF ConnectorInv
<1> QED BY <1>1, ConnectorInvHolds, PTL

\* Reservations are counted exactly and never exceed the limit.
THEOREM ReservationsHold == Spec => []ReservationsExact
<1>1. ConnectorInv => ReservationsExact
  BY DEF ConnectorInv
<1> QED BY <1>1, ConnectorInvHolds, PTL

\* An open target socket always has an owner.
THEOREM SocketsHold == Spec => []NoOrphanSocket
<1>1. ConnectorInv => NoOrphanSocket
  BY DEF ConnectorInv
<1> QED BY <1>1, ConnectorInvHolds, PTL

\* No handshake authenticates two upgrades.
THEOREM NonceHolds == Spec => []NonceOnce
<1>1. ConnectorInv => NonceOnce
  BY DEF ConnectorInv
<1> QED BY <1>1, ConnectorInvHolds, PTL

-----------------------------------------------------------------------------
(* What a tunnel carries (module Tunnel).                                   *)

Frames == [kind : {"data", "close"}, n : Nat, clean : BOOLEAN, target : BOOLEAN]

Tunnels ==
  [link : {"none", "up", "broken"}, up : Seq(Frames), down : Seq(Frames),
   sent : Nat, writing : BOOLEAN, closing : {"none", "pending", "done"},
   socketClosed : BOOLEAN, destroyed : BOOLEAN, readableFinished : BOOLEAN, unread : Nat,
   read : Seq(Nat), targetClosed : BOOLEAN,
   ws : {"open", "closing", "closed"}, paused : BOOLEAN, buffered : Seq(Nat),
   sending : BOOLEAN, taken : Nat, arrived : Seq(Nat)]

\* Bytes that have reached the Connector, of those the Worker sent.
Relayed(t) == Len(t.arrived) + Len(t.buffered)

\* Towards the target: what has arrived, what waits and what is on the wire are
\* one run of the numbers; a close frame is the last.  s is the relay's stage.
UpOk(t, s) ==
  /\ InOrder(t.arrived) /\ Relayed(t) =< t.sent
  /\ \A i \in DOMAIN t.buffered : t.buffered[i] = Len(t.arrived) + i
  /\ Len(t.buffered) =< HighWater /\ (~t.paused => Len(t.buffered) < HighWater)
  /\ s = "relaying" => \A i \in DOMAIN t.up : t.up[i].kind = "data" =>
                         t.up[i].n = Relayed(t) + i /\ t.up[i].n =< t.sent
  /\ \A i \in DOMAIN t.up : t.up[i].kind = "close" => i = Len(t.up) /\ t.closing # "none"
  /\ s = "relaying" /\ t.link = "up" /\ t.closing = "none" /\ ~t.socketClosed =>
       Relayed(t) + Len(t.up) = t.sent

\* The Worker's side still passes on what it receives.
Accepts(t) == ~t.socketClosed /\ ~t.destroyed

\* The Worker's side has not ended the tunnel itself.
Unended(t) == t.closing = "none" /\ ~t.destroyed

\* Towards the Worker: the same, and a close frame that speaks of the target's
\* end follows the last chunk the target has sent.
DownOk(t, s) ==
  /\ InOrder(t.read) /\ Len(t.read) =< t.taken
  /\ Accepts(t) => \A i \in DOMAIN t.down : t.down[i].kind = "data" =>
                     t.down[i].n = Len(t.read) + i /\ t.down[i].n =< t.taken
  /\ Accepts(t) /\ t.ws = "open" /\ t.link = "up" => Len(t.read) + Len(t.down) = t.taken
  /\ \A i \in DOMAIN t.down : t.down[i].kind = "close" => i = Len(t.down) /\ t.ws # "open"
  /\ \A i \in DOMAIN t.down : t.down[i].kind = "close" /\ t.down[i].target =>
       s # "relaying" /\ (Unended(t) => Len(t.read) + Len(t.down) = t.taken + 1)
  /\ t.targetClosed => s # "relaying" /\ (Unended(t) => Len(t.read) = t.taken)
  /\ t.socketClosed /\ Unended(t) => t.ws # "open" /\ t.down = <<>>

TunnelOk(t, s) ==
  /\ t \in Tunnels /\ UpOk(t, s) /\ DownOk(t, s)
  /\ t.link = "none" => t = Unopened /\ s # "relaying"
  /\ t.link # "none" => s \in {"relaying", "over"}

TunnelInv ==
  /\ DOMAIN tunnel \subseteq Requests
  /\ \A r \in DOMAIN tunnel : TunnelOk(tunnel[r], stage[r])

LEMMA Appended ==
  ASSUME NEW S, NEW q \in Seq(S), NEW e \in S
  PROVE  /\ Append(q, e) \in Seq(S) /\ Len(Append(q, e)) = Len(q) + 1
         /\ DOMAIN Append(q, e) = 1 .. Len(q) + 1
         /\ \A i \in DOMAIN q : Append(q, e)[i] = q[i]
         /\ Append(q, e)[Len(q) + 1] = e
OBVIOUS

LEMMA HeadAndTail ==
  ASSUME NEW S, NEW q \in Seq(S), q # <<>>
  PROVE  /\ Tail(q) \in Seq(S) /\ Len(Tail(q)) = Len(q) - 1 /\ Len(q) > 0
         /\ DOMAIN Tail(q) = 1 .. Len(q) - 1
         /\ \A i \in DOMAIN Tail(q) : i + 1 \in DOMAIN q /\ Tail(q)[i] = q[i + 1]
         /\ Head(q) = q[1] /\ 1 \in DOMAIN q
OBVIOUS

LEMMA OnlyOne ==
  ASSUME NEW S, NEW q \in Seq(S), Len(q) = 1
  PROVE  Tail(q) = <<>>
<1>1. Tail(q) \in Seq(S) /\ Len(Tail(q)) = 0
  OBVIOUS
<1> QED
  BY <1>1, HeadAndTail

LEMMA Lengths ==
  ASSUME NEW t \in Tunnels
  PROVE  /\ Len(t.arrived) \in Nat /\ Len(t.buffered) \in Nat /\ Len(t.up) \in Nat
         /\ Len(t.read) \in Nat /\ Len(t.down) \in Nat /\ t.sent \in Nat /\ t.taken \in Nat
         /\ DOMAIN t.arrived = 1 .. Len(t.arrived) /\ DOMAIN t.buffered = 1 .. Len(t.buffered)
         /\ DOMAIN t.up = 1 .. Len(t.up) /\ DOMAIN t.read = 1 .. Len(t.read)
         /\ DOMAIN t.down = 1 .. Len(t.down)
         /\ Relayed(t) \in Nat
         /\ HighWater \in Nat \ {0}
BY TunnelAssumption DEF Tunnels, Relayed

LEMMA OneMore ==
  ASSUME NEW a \in Nat, NEW b \in Nat, NEW c \in Nat, a + b = c
  PROVE  a + (b + 1) = c + 1
OBVIOUS

LEMMA Shifted ==
  ASSUME NEW a \in Nat, NEW i \in Nat
  PROVE  a + (i + 1) = (a + 1) + i
OBVIOUS

LEMMA FramesAre ==
  /\ \A n \in Nat : Data(n) \in Frames /\ Data(n).kind = "data" /\ Data(n).n = n
  /\ \A clean \in BOOLEAN, target \in BOOLEAN :
       /\ CloseFrame(clean, target) \in Frames
       /\ CloseFrame(clean, target).kind = "close"
       /\ CloseFrame(clean, target).target = target
BY DEF Data, CloseFrame, Frames

-----------------------------------------------------------------------------
(* The invariant looks at some fields only.                                 *)

SameUp(t, u) ==
  /\ u.arrived = t.arrived /\ u.buffered = t.buffered /\ u.up = t.up /\ u.sent = t.sent
  /\ u.paused = t.paused /\ u.link = t.link /\ u.closing = t.closing
  /\ u.socketClosed = t.socketClosed

SameDown(t, u) ==
  /\ u.read = t.read /\ u.down = t.down /\ u.taken = t.taken /\ u.ws = t.ws
  /\ u.link = t.link /\ u.closing = t.closing /\ u.socketClosed = t.socketClosed
  /\ u.destroyed = t.destroyed /\ u.targetClosed = t.targetClosed

LEMMA SameUpOk ==
  ASSUME NEW t, NEW u, NEW s, UpOk(t, s), SameUp(t, u)
  PROVE  UpOk(u, s)
BY DEF UpOk, SameUp, Relayed

LEMMA SameDownOk ==
  ASSUME NEW t, NEW u, NEW s, DownOk(t, s), SameDown(t, u)
  PROVE  DownOk(u, s)
BY DEF DownOk, SameDown, Accepts, Unended

LEMMA PlainOk ==
  ASSUME NEW t, NEW u \in Tunnels, NEW s, TunnelOk(t, s), t.link # "none",
         SameUp(t, u), SameDown(t, u)
  PROVE  TunnelOk(u, s)
BY SameUpOk, SameDownOk DEF TunnelOk, SameUp

\* A relay that ends passes on nothing more.
LEMMA EndedOk ==
  ASSUME NEW t, NEW s, TunnelOk(t, s), t.link # "none"
  PROVE  TunnelOk([t EXCEPT !.buffered = <<>>], "over")
<1> DEFINE u == [t EXCEPT !.buffered = <<>>]
<1>1. u \in Tunnels
  <2>1. <<>> \in Seq(Nat) /\ t \in Tunnels
    BY DEF TunnelOk
  <2> QED
    BY <2>1 DEF Tunnels
<1>2. /\ SameDown(t, u) /\ u.buffered = <<>> /\ u.arrived = t.arrived /\ u.up = t.up
      /\ u.sent = t.sent /\ u.link = t.link /\ u.closing = t.closing
  BY DEF TunnelOk, Tunnels, SameDown
<1> HIDE DEF u
<1>3. Len(u.buffered) = 0 /\ DOMAIN u.buffered = {} /\ Relayed(u) =< Relayed(t)
  BY <1>2, Lengths DEF TunnelOk, Relayed
<1>4. UpOk(u, "over")
  <2>1. InOrder(u.arrived) /\ Relayed(u) =< u.sent
    <3>1. Relayed(u) \in Nat /\ Relayed(t) \in Nat /\ t.sent \in Nat /\ Relayed(t) =< t.sent
      BY <1>1, Lengths DEF TunnelOk, UpOk
    <3> QED
      BY <1>2, <1>3, <3>1 DEF TunnelOk, UpOk
  <2>2. 0 < HighWater /\ 0 =< HighWater
    BY TunnelAssumption
  <2>3. \A i \in DOMAIN u.up : u.up[i].kind = "close" => i = Len(u.up) /\ u.closing # "none"
    BY <1>2 DEF TunnelOk, UpOk
  <2> QED
    BY <1>2, <1>3, <2>1, <2>2, <2>3 DEF UpOk
<1>5. DownOk(t, "over")
  BY DEF TunnelOk, DownOk
<1>6. DownOk(u, "over")
  BY <1>2, <1>5, SameDownOk
<1> QED
  BY <1>1, <1>2, <1>4, <1>6 DEF TunnelOk, u

\* The Connector's end sends its close frame.
LEMMA CloseFrameOk ==
  ASSUME NEW t, NEW s, NEW next, TunnelOk(t, s), t.link # "none", t.ws = "open",
         NEW clean \in BOOLEAN, NEW target \in BOOLEAN, NEW ws \in {"closing", "closed"},
         next \in {s, "over"}, target = FALSE \/ next = "over"
  PROVE  LET u == [t EXCEPT !.ws = ws, !.down = Put(t, @, CloseFrame(clean, target))]
         IN  u \in Tunnels /\ SameUp(t, u) /\ DownOk(u, next)
<1> DEFINE frame == CloseFrame(clean, target)
           down == Put(t, t.down, frame)
           u == [t EXCEPT !.ws = ws, !.down = down]
<1>1. /\ frame \in Frames /\ frame.kind = "close" /\ frame.target = target
      /\ t.down \in Seq(Frames) /\ t \in Tunnels
  BY FramesAre DEF TunnelOk, Tunnels
<1> HIDE DEF frame
<1>2. down \in Seq(Frames)
  BY <1>1 DEF Put
<1>3. CASE t.link = "up"
  <2>1. /\ Len(down) = Len(t.down) + 1 /\ DOMAIN down = 1 .. Len(t.down) + 1
        /\ \A i \in DOMAIN t.down : down[i] = t.down[i]
        /\ down[Len(t.down) + 1] = frame
    BY <1>1, <1>3, Appended DEF Put
  <2> HIDE DEF down
  <2>0. PICK v : v = u
    OBVIOUS
  <2>2. /\ v \in Tunnels /\ SameUp(t, v) /\ v.ws = ws /\ v.down = down
        /\ v.read = t.read /\ v.taken = t.taken /\ v.closing = t.closing
        /\ v.socketClosed = t.socketClosed /\ v.destroyed = t.destroyed
        /\ v.targetClosed = t.targetClosed
    BY <1>1, <1>2, <2>0 DEF Tunnels, SameUp
  <2> HIDE DEF u
  <2>3. DownOk(t, s) /\ Len(t.down) \in Nat /\ DOMAIN t.down = 1 .. Len(t.down)
        /\ Len(t.read) \in Nat /\ t.taken \in Nat
    BY <1>1, Lengths DEF TunnelOk
  <2>4. Unended(t) => Accepts(t)
    BY <2>3 DEF DownOk, Accepts, Unended
  <2>5. \A i \in DOMAIN t.down : t.down[i].kind # "close"
    BY <2>3 DEF DownOk
  <2>6. \A i \in DOMAIN down : i \in DOMAIN t.down \/ i = Len(t.down) + 1
    BY <2>1, <2>3
  <2>7. Unended(t) => Len(t.read) + Len(t.down) = t.taken
    BY <1>3, <2>3, <2>4 DEF DownOk
  <2>15. ASSUME Unended(v) PROVE Len(v.read) + Len(v.down) = v.taken + 1
    <3>1. Unended(t)
      BY <2>2, <2>15 DEF Unended
    <3>2. Len(t.read) + Len(t.down) = t.taken
      BY <2>7, <3>1
    <3>3. Len(v.read) = Len(t.read) /\ Len(v.down) = Len(t.down) + 1 /\ v.taken = t.taken
      BY <2>1, <2>2
    <3>4. PICK a \in Nat, b \in Nat, c \in Nat :
              a = Len(t.read) /\ b = Len(t.down) /\ c = t.taken
      BY <2>3
    <3>5. a + b = c
      BY <3>2, <3>4
    <3>6. a + (b + 1) = c + 1
      BY <3>5, OneMore
    <3> QED
      BY <3>3, <3>4, <3>6
  <2>8. Accepts(v) => \A i \in DOMAIN v.down : v.down[i].kind = "data" =>
          v.down[i].n = Len(v.read) + i /\ v.down[i].n =< v.taken
    BY <1>1, <2>1, <2>2, <2>3, <2>6 DEF DownOk, Accepts
  <2>9. \A i \in DOMAIN v.down : v.down[i].kind = "close" => i = Len(v.down) /\ v.ws # "open"
    BY <2>1, <2>2, <2>5, <2>6
  <2>10. \A i \in DOMAIN v.down : v.down[i].kind = "close" /\ v.down[i].target =>
           next # "relaying" /\ (Unended(v) => Len(v.read) + Len(v.down) = v.taken + 1)
    <3> SUFFICES ASSUME NEW i \in DOMAIN v.down, v.down[i].kind = "close", v.down[i].target
                 PROVE  next # "relaying" /\ (Unended(v) => Len(v.read) + Len(v.down) = v.taken + 1)
      OBVIOUS
    <3>1. i = Len(t.down) + 1 /\ v.down[i] = frame
      BY <2>1, <2>2, <2>5, <2>6
    <3>2. next = "over"
      <4>1. frame.target
        BY <3>1
      <4>2. target
        BY <1>1, <4>1
      <4> QED
        BY <4>2
    <3> QED
      BY <2>15, <3>2
  <2>11. v.targetClosed => next # "relaying" /\ (Unended(v) => Len(v.read) = v.taken)
    BY <2>2, <2>3 DEF DownOk, Unended
  <2>12. ~(v.socketClosed /\ Unended(v))
    BY <2>2, <2>3 DEF DownOk, Unended
  <2>13. InOrder(v.read) /\ Len(v.read) =< v.taken
    BY <2>2, <2>3 DEF DownOk
  <2>14. v.ws # "open"
    BY <2>2
  <2>16. DownOk(v, next)
    BY <2>8, <2>9, <2>10, <2>11, <2>12, <2>13, <2>14 DEF DownOk
  <2> QED
    BY <2>0, <2>2, <2>16 DEF u, down, frame
<1>4. CASE t.link # "up"
  <2>1. down = t.down
    BY <1>4 DEF Put
  <2> HIDE DEF down
  <2>2. /\ u \in Tunnels /\ SameUp(t, u) /\ u.ws = ws /\ u.down = t.down
        /\ u.read = t.read /\ u.taken = t.taken /\ u.closing = t.closing
        /\ u.socketClosed = t.socketClosed /\ u.destroyed = t.destroyed
        /\ u.targetClosed = t.targetClosed
    BY <1>1, <1>2, <2>1 DEF Tunnels, SameUp
  <2> HIDE DEF u
  <2>3. DownOk(u, next)
    BY <2>2 DEF TunnelOk, DownOk, Accepts, Unended
  <2> QED
    BY <2>2, <2>3 DEF u, down, frame
<1> QED
  BY <1>3, <1>4

LEMMA FinishedOk ==
  ASSUME NEW t, NEW s, TunnelOk(t, s), t.link # "none",
         NEW clean \in BOOLEAN, NEW target \in BOOLEAN
  PROVE  TunnelOk(Finished(t, clean, target), "over") /\ Finished(t, clean, target).link # "none"
<1>1. CASE t.ws = "open"
  <2>1. PICK u : u = [t EXCEPT !.ws = "closing", !.down = Put(t, @, CloseFrame(clean, target))]
    OBVIOUS
  <2>2. u \in Tunnels /\ SameUp(t, u) /\ DownOk(u, "over")
    BY <1>1, <2>1, CloseFrameOk
  <2>3. UpOk(t, "over")
    BY DEF TunnelOk, UpOk
  <2>4. TunnelOk(u, "over") /\ u.link # "none"
    BY <2>2, <2>3, SameUpOk DEF TunnelOk, SameUp
  <2>5. Finished(t, clean, target) = [u EXCEPT !.buffered = <<>>]
    BY <1>1, <2>1 DEF Finished, TunnelOk, Tunnels
  <2>6. [u EXCEPT !.buffered = <<>>].link = u.link
    BY <2>2 DEF Tunnels
  <2> QED
    BY <2>4, <2>5, <2>6, EndedOk
<1>2. CASE t.ws # "open"
  <2>1. Finished(t, clean, target) = [t EXCEPT !.buffered = <<>>]
    BY <1>2 DEF Finished, TunnelOk, Tunnels
  <2>2. [t EXCEPT !.buffered = <<>>].link = t.link
    BY DEF TunnelOk, Tunnels
  <2> QED
    BY <2>1, <2>2, EndedOk
<1> QED
  BY <1>1, <1>2

\* The Worker's side ends the tunnel, or hears that it has ended.
LEMMA ClosedOk ==
  ASSUME NEW t, NEW s, TunnelOk(t, s), t.link # "none"
  PROVE  TunnelOk(Closed(t), s)
<1>0. PICK frame \in Frames :
        frame = CloseFrame(TRUE, FALSE) /\ frame.kind = "close" /\ frame.target = FALSE
  BY FramesAre
<1>4. t \in Tunnels /\ t.up \in Seq(Frames)
  BY DEF TunnelOk, Tunnels
<1>1. CASE t.socketClosed
  <2>1. PICK u : u = [t EXCEPT !.readableFinished = TRUE]
    OBVIOUS
  <2>2. u \in Tunnels /\ SameUp(t, u) /\ SameDown(t, u)
    BY <1>4, <2>1 DEF Tunnels, SameUp, SameDown
  <2> QED
    BY <1>1, <2>1, <2>2, PlainOk DEF Closed
<1>2. CASE ~t.socketClosed /\ t.closing # "none"
  BY <1>2 DEF Closed
<1>3. CASE ~t.socketClosed /\ t.closing = "none"
  <2>1. PICK up \in Seq(Frames) : up = Put(t, t.up, frame)
    <3>1. Append(t.up, frame) \in Seq(Frames)
      BY <1>4, Appended
    <3> QED
      BY <1>4, <3>1 DEF Put
  <2>2. PICK u : u = [t EXCEPT !.closing = "pending", !.up = up]
    OBVIOUS
  <2>3. /\ u \in Tunnels /\ u.closing = "pending" /\ u.up = up /\ u.link = t.link
        /\ u.arrived = t.arrived /\ u.buffered = t.buffered /\ u.sent = t.sent
        /\ u.paused = t.paused /\ Relayed(u) = Relayed(t)
        /\ u.read = t.read /\ u.down = t.down /\ u.taken = t.taken /\ u.ws = t.ws
        /\ u.socketClosed = t.socketClosed /\ u.destroyed = t.destroyed
        /\ u.targetClosed = t.targetClosed
    BY <1>4, <2>2 DEF Tunnels, Relayed
  <2>4. DownOk(u, s)
    BY <1>3, <2>3 DEF TunnelOk, DownOk, Accepts, Unended
  <2>5. Len(t.up) \in Nat /\ DOMAIN t.up = 1 .. Len(t.up)
    BY <1>4
  <2>6. \A i \in DOMAIN t.up : t.up[i].kind # "close"
    BY <1>3 DEF TunnelOk, UpOk
  <2>7. /\ \A i \in DOMAIN up : /\ up[i].kind = "data" => i \in DOMAIN t.up /\ up[i] = t.up[i]
                                /\ up[i].kind = "close" => i = Len(up)
    <3>1. CASE t.link = "up"
      <4>1. /\ Len(up) = Len(t.up) + 1 /\ DOMAIN up = 1 .. Len(t.up) + 1
            /\ \A i \in DOMAIN t.up : up[i] = t.up[i]
            /\ up[Len(t.up) + 1] = frame
        BY <1>4, <2>1, <3>1, Appended DEF Put
      <4> QED
        <5>1. \A i \in DOMAIN up : i \in DOMAIN t.up \/ (i = Len(up) /\ up[i] = frame)
          BY <2>5, <4>1
        <5> QED
          BY <1>0, <2>6, <4>1, <5>1
    <3>2. CASE t.link # "up"
      BY <2>1, <2>6, <3>2 DEF Put
    <3> QED
      BY <3>1, <3>2
  <2>8. UpOk(u, s)
    BY <2>3, <2>7 DEF TunnelOk, UpOk
  <2>9. Closed(t) = u
    BY <1>0, <1>3, <2>1, <2>2 DEF Closed
  <2> QED
    BY <2>3, <2>4, <2>8, <2>9 DEF TunnelOk
<1> QED
  BY <1>1, <1>2, <1>3

LEMMA DestroyOk ==
  ASSUME NEW t, NEW s, TunnelOk(t, s), t.link # "none"
  PROVE  /\ TunnelOk([t EXCEPT !.destroyed = TRUE], s)
         /\ [t EXCEPT !.destroyed = TRUE].link # "none"
         /\ [t EXCEPT !.destroyed = TRUE].destroyed
<1>1. PICK u : u = [t EXCEPT !.destroyed = TRUE]
  OBVIOUS
<1>2. /\ u \in Tunnels /\ SameUp(t, u) /\ u.destroyed
      /\ u.read = t.read /\ u.down = t.down /\ u.taken = t.taken /\ u.ws = t.ws
      /\ u.socketClosed = t.socketClosed /\ u.targetClosed = t.targetClosed
  BY <1>1 DEF TunnelOk, Tunnels, SameUp
<1>3. DownOk(u, s)
  BY <1>2 DEF TunnelOk, DownOk, Accepts, Unended
<1>4. UpOk(u, s) /\ u.link # "none"
  BY <1>2, SameUpOk DEF TunnelOk, SameUp
<1> QED
  BY <1>1, <1>2, <1>3, <1>4 DEF TunnelOk

LEMMA DestroyedOk ==
  ASSUME NEW t, NEW s, TunnelOk(t, s), t.link # "none"
  PROVE  TunnelOk(Destroyed(t), s)
BY DestroyOk, ClosedOk DEF Destroyed

LEMMA SocketClosedOk ==
  ASSUME NEW t, NEW s, TunnelOk(t, s), t.link # "none", ~Unended(t)
  PROVE  TunnelOk(SocketClosed(t), s)
<1>1. PICK u : u = SocketClosed(t)
  OBVIOUS
<1>2. /\ u \in Tunnels /\ u.socketClosed /\ (u.closing = "none" <=> t.closing = "none")
      /\ u.arrived = t.arrived /\ u.buffered = t.buffered /\ u.sent = t.sent
      /\ u.up = t.up /\ u.paused = t.paused /\ Relayed(u) = Relayed(t) /\ u.link = t.link
      /\ u.read = t.read /\ u.down = t.down /\ u.taken = t.taken /\ u.ws = t.ws
      /\ u.destroyed = t.destroyed /\ u.targetClosed = t.targetClosed
  BY <1>1 DEF TunnelOk, Tunnels, SocketClosed, Relayed
<1>3. DownOk(u, s)
  BY <1>2 DEF TunnelOk, DownOk, Accepts, Unended
<1>4. UpOk(u, s)
  BY <1>2 DEF TunnelOk, UpOk
<1> QED
  BY <1>1, <1>2, <1>3, <1>4 DEF TunnelOk

\* A chunk goes onto the wire.
LEMMA SendOk ==
  ASSUME NEW t, NEW s, TunnelOk(t, s), t.link # "none", WS_OPEN(t)
  PROVE  TunnelOk([t EXCEPT !.writing = FALSE, !.sent = @ + 1,
                            !.up = Put(t, @, Data(t.sent + 1))], s)
<1>1. /\ t \in Tunnels /\ t.up \in Seq(Frames) /\ t.sent \in Nat
      /\ Len(t.up) \in Nat /\ DOMAIN t.up = 1 .. Len(t.up) /\ Relayed(t) \in Nat
      /\ UpOk(t, s) /\ DownOk(t, s)
  BY Lengths DEF TunnelOk, Tunnels
<1>2. PICK frame \in Frames : frame = Data(t.sent + 1) /\ frame.kind = "data" /\ frame.n = t.sent + 1
  BY <1>1, FramesAre
<1>3. PICK up \in Seq(Frames) : up = Put(t, t.up, frame)
  <2>1. Append(t.up, frame) \in Seq(Frames)
    BY <1>1, Appended
  <2> QED
    BY <1>1, <2>1 DEF Put
<1>0. PICK sent \in Nat : sent = t.sent + 1
  BY <1>1
<1>4. PICK u : u = [t EXCEPT !.writing = FALSE, !.sent = sent, !.up = up]
  OBVIOUS
<1>5. /\ u \in Tunnels /\ SameDown(t, u) /\ u.sent = sent /\ u.up = up
      /\ u.arrived = t.arrived /\ u.buffered = t.buffered /\ u.paused = t.paused
      /\ u.link = t.link /\ u.closing = t.closing /\ u.socketClosed = t.socketClosed
  BY <1>1, <1>4 DEF Tunnels, SameDown
<1>6. Relayed(u) = Relayed(t) /\ Relayed(u) =< u.sent
  <2>1. Relayed(t) =< t.sent
    BY <1>1 DEF UpOk
  <2>2. Relayed(u) = Relayed(t)
    BY <1>5 DEF Relayed
  <2> QED
    BY <1>0, <1>1, <1>5, <2>1, <2>2
<1>7. \A i \in DOMAIN t.up : t.up[i].kind # "close"
  BY <1>1 DEF UpOk, WS_OPEN
<1>8. CASE t.link = "up"
  <2>1. /\ Len(up) = Len(t.up) + 1 /\ DOMAIN up = 1 .. Len(t.up) + 1
        /\ \A i \in DOMAIN t.up : up[i] = t.up[i]
        /\ up[Len(t.up) + 1] = frame
    BY <1>1, <1>3, <1>8, Appended DEF Put
  <2>2. \A i \in DOMAIN up : i \in DOMAIN t.up \/ (i = Len(t.up) + 1 /\ up[i] = frame)
    BY <1>1, <2>1
  <2>3. s = "relaying" => Relayed(t) + Len(t.up) = t.sent
    BY <1>1, <1>8 DEF UpOk, WS_OPEN
  <2>4. s = "relaying" => \A i \in DOMAIN up : up[i].kind = "data" =>
                            up[i].n = Relayed(t) + i /\ up[i].n =< t.sent + 1
    <3> SUFFICES ASSUME s = "relaying", NEW i \in DOMAIN up, up[i].kind = "data"
                 PROVE  up[i].n = Relayed(t) + i /\ up[i].n =< t.sent + 1
      OBVIOUS
    <3>1. CASE i \in DOMAIN t.up
      <4>1. t.up[i].n = Relayed(t) + i /\ t.up[i].n =< t.sent /\ up[i] = t.up[i] /\ i \in Nat
        BY <1>1, <2>1, <3>1 DEF UpOk
      <4> QED
        BY <1>1, <4>1
    <3>2. CASE i = Len(t.up) + 1 /\ up[i] = frame
      <4>1. PICK a \in Nat, b \in Nat, c \in Nat :
                a = Relayed(t) /\ b = Len(t.up) /\ c = t.sent
        BY <1>1
      <4>2. a + b = c
        BY <2>3, <4>1
      <4>3. a + (b + 1) = c + 1 /\ c + 1 =< c + 1
        BY <4>2, OneMore
      <4> QED
        BY <1>2, <3>2, <4>1, <4>3
    <3> QED
      BY <2>2, <3>1, <3>2
  <2>5. \A i \in DOMAIN up : up[i].kind # "close"
    BY <1>2, <1>7, <2>1, <2>2
  <2>6. s = "relaying" => Relayed(t) + Len(up) = t.sent + 1
    BY <1>1, <2>1, <2>3
  <2>7. UpOk(u, s)
    BY <1>0, <1>1, <1>5, <1>6, <2>4, <2>5, <2>6 DEF UpOk
  <2> QED
    BY <1>0, <1>1, <1>2, <1>3, <1>4, <1>5, <2>7, SameDownOk DEF TunnelOk
<1>9. CASE t.link # "up"
  <2>1. up = t.up
    BY <1>3, <1>9 DEF Put
  <2>2. s = "relaying" => \A i \in DOMAIN t.up : t.up[i].kind = "data" =>
                            t.up[i].n = Relayed(t) + i /\ t.up[i].n =< t.sent + 1
    <3> SUFFICES ASSUME s = "relaying", NEW i \in DOMAIN t.up, t.up[i].kind = "data"
                 PROVE  t.up[i].n = Relayed(t) + i /\ t.up[i].n =< t.sent + 1
      OBVIOUS
    <3>1. t.up[i].n = Relayed(t) + i /\ t.up[i].n =< t.sent /\ i \in Nat
      BY <1>1 DEF UpOk
    <3> QED
      BY <1>1, <3>1
  <2>3. UpOk(u, s)
    BY <1>0, <1>1, <1>5, <1>6, <1>7, <1>9, <2>1, <2>2 DEF UpOk
  <2> QED
    BY <1>0, <1>1, <1>2, <1>3, <1>4, <1>5, <2>3, SameDownOk DEF TunnelOk
<1> QED
  BY <1>8, <1>9

\* A frame is taken that the Worker's side no longer passes on.
LEMMA DroppedOk ==
  ASSUME NEW t, NEW s, TunnelOk(t, s), t.link # "none", t.down # <<>>, ~Accepts(t)
  PROVE  TunnelOk([t EXCEPT !.down = Tail(@)], s)
<1>1. PICK u : u = [t EXCEPT !.down = Tail(@)]
  OBVIOUS
<1>2. /\ t \in Tunnels /\ t.down \in Seq(Frames) /\ UpOk(t, s) /\ DownOk(t, s)
  BY DEF TunnelOk, Tunnels
<1>3. /\ Tail(t.down) \in Seq(Frames) /\ Len(Tail(t.down)) = Len(t.down) - 1
      /\ \A i \in DOMAIN Tail(t.down) : /\ i \in Nat /\ i + 1 \in DOMAIN t.down
                                        /\ Tail(t.down)[i] = t.down[i + 1]
  BY <1>2, HeadAndTail
<1>4. /\ u \in Tunnels /\ SameUp(t, u) /\ u.down = Tail(t.down)
      /\ u.read = t.read /\ u.taken = t.taken /\ u.ws = t.ws /\ u.link = t.link
      /\ u.closing = t.closing /\ u.socketClosed = t.socketClosed
      /\ u.destroyed = t.destroyed /\ u.targetClosed = t.targetClosed
  BY <1>1, <1>2, <1>3 DEF Tunnels, SameUp
<1>5. ~Unended(t)
  BY <1>2 DEF DownOk, Accepts, Unended
<1>6. ~Accepts(u) /\ ~Unended(u)
  BY <1>4, <1>5 DEF Accepts, Unended
<1>7. \A i \in DOMAIN u.down : u.down[i].kind = "close" =>
        i = Len(u.down) /\ u.ws # "open" /\ (u.down[i].target => s # "relaying")
  <2> SUFFICES ASSUME NEW i \in DOMAIN u.down, u.down[i].kind = "close"
               PROVE  i = Len(u.down) /\ u.ws # "open" /\ (u.down[i].target => s # "relaying")
    OBVIOUS
  <2>1. i \in Nat /\ i + 1 \in DOMAIN t.down /\ u.down[i] = t.down[i + 1]
    BY <1>3, <1>4
  <2>2. i + 1 = Len(t.down) /\ t.ws # "open" /\ (t.down[i + 1].target => s # "relaying")
    BY <1>2, <2>1 DEF DownOk
  <2>3. i = Len(t.down) - 1
    BY <2>1, <2>2
  <2> QED
    BY <1>3, <1>4, <2>1, <2>2, <2>3
<1>8. u.targetClosed => s # "relaying"
  BY <1>2, <1>4 DEF DownOk
<1>9. InOrder(u.read) /\ Len(u.read) =< u.taken
  BY <1>2, <1>4 DEF DownOk
<1>10. DownOk(u, s)
  BY <1>6, <1>7, <1>8, <1>9 DEF DownOk
<1> QED
  BY <1>1, <1>2, <1>4, <1>10, SameUpOk DEF TunnelOk

\* A chunk is passed on to the SSH client.
LEMMA PassedOk ==
  ASSUME NEW t, NEW s, TunnelOk(t, s), t.link # "none", t.down # <<>>, Accepts(t),
         Head(t.down).kind = "data"
  PROVE  TunnelOk([t EXCEPT !.down = Tail(@), !.read = Append(@, Head(t.down).n),
                            !.unread = @ + 1], s)
<1>1. PICK n : n = Head(t.down).n
  OBVIOUS
<1>0. PICK unread \in Nat : unread = t.unread + 1
  BY DEF TunnelOk, Tunnels
<1>2. PICK u : u = [t EXCEPT !.down = Tail(@), !.read = Append(@, n), !.unread = unread]
  OBVIOUS
<1>3. /\ t \in Tunnels /\ t.down \in Seq(Frames) /\ t.read \in Seq(Nat)
      /\ UpOk(t, s) /\ DownOk(t, s) /\ Len(t.read) \in Nat /\ Len(t.down) \in Nat
      /\ t.taken \in Nat /\ DOMAIN t.read = 1 .. Len(t.read)
  BY Lengths DEF TunnelOk, Tunnels
<1>4. /\ Tail(t.down) \in Seq(Frames) /\ Len(Tail(t.down)) = Len(t.down) - 1
      /\ \A i \in DOMAIN Tail(t.down) : /\ i \in Nat /\ i + 1 \in DOMAIN t.down
                                        /\ Tail(t.down)[i] = t.down[i + 1]
      /\ Head(t.down) = t.down[1] /\ 1 \in DOMAIN t.down
  BY <1>3, HeadAndTail
<1>5. n = Len(t.read) + 1 /\ n =< t.taken
  BY <1>1, <1>3, <1>4 DEF DownOk
<1>6. /\ Append(t.read, n) \in Seq(Nat) /\ Len(Append(t.read, n)) = Len(t.read) + 1
      /\ DOMAIN Append(t.read, n) = 1 .. Len(t.read) + 1
      /\ \A i \in DOMAIN t.read : Append(t.read, n)[i] = t.read[i]
      /\ Append(t.read, n)[Len(t.read) + 1] = n
  BY <1>3, <1>5, Appended
<1>7. /\ u \in Tunnels /\ SameUp(t, u) /\ u.down = Tail(t.down) /\ u.read = Append(t.read, n)
      /\ u.taken = t.taken /\ u.ws = t.ws /\ u.link = t.link
      /\ u.closing = t.closing /\ u.socketClosed = t.socketClosed
      /\ u.destroyed = t.destroyed /\ u.targetClosed = t.targetClosed
  BY <1>2, <1>3, <1>4, <1>6 DEF Tunnels, SameUp
<1>8. InOrder(u.read) /\ Len(u.read) =< u.taken
  <2>1. \A i \in DOMAIN u.read : i \in DOMAIN t.read \/ i = n
    BY <1>3, <1>5, <1>6, <1>7
  <2>2. \A i \in DOMAIN u.read : u.read[i] = i
    BY <1>3, <1>5, <1>6, <1>7, <2>1 DEF DownOk, InOrder
  <2> QED
    BY <1>5, <1>6, <1>7, <2>2 DEF InOrder
<1>9. \A i \in DOMAIN u.down : u.down[i].kind = "data" =>
        u.down[i].n = Len(u.read) + i /\ u.down[i].n =< u.taken
  <2> SUFFICES ASSUME NEW i \in DOMAIN u.down, u.down[i].kind = "data"
               PROVE  u.down[i].n = Len(u.read) + i /\ u.down[i].n =< u.taken
    OBVIOUS
  <2>1. i \in Nat /\ i + 1 \in DOMAIN t.down /\ u.down[i] = t.down[i + 1]
    BY <1>4, <1>7
  <2>2. t.down[i + 1].n = Len(t.read) + (i + 1) /\ t.down[i + 1].n =< t.taken
    BY <1>3, <2>1 DEF DownOk
  <2>3. Len(t.read) + (i + 1) = (Len(t.read) + 1) + i
    <3>1. Len(t.read) \in Nat /\ i \in Nat
      BY <1>3, <2>1
    <3> QED
      BY <3>1, Shifted
  <2> QED
    BY <1>6, <1>7, <2>1, <2>2, <2>3
<1>10. \A i \in DOMAIN u.down : u.down[i].kind = "close" =>
        /\ i = Len(u.down) /\ u.ws # "open"
        /\ u.down[i].target => s # "relaying" /\
             (Unended(u) => Len(u.read) + Len(u.down) = u.taken + 1)
  <2> SUFFICES ASSUME NEW i \in DOMAIN u.down, u.down[i].kind = "close"
               PROVE  /\ i = Len(u.down) /\ u.ws # "open"
                      /\ u.down[i].target => s # "relaying" /\
                           (Unended(u) => Len(u.read) + Len(u.down) = u.taken + 1)
    OBVIOUS
  <2>1. i \in Nat /\ i + 1 \in DOMAIN t.down /\ u.down[i] = t.down[i + 1]
    BY <1>4, <1>7
  <2>2. /\ i + 1 = Len(t.down) /\ t.ws # "open"
        /\ t.down[i + 1].target => s # "relaying" /\
             (Unended(t) => Len(t.read) + Len(t.down) = t.taken + 1)
    BY <1>3, <2>1 DEF DownOk
  <2>3. i = Len(t.down) - 1
    BY <2>1, <2>2
  <2>4. Unended(u) <=> Unended(t)
    BY <1>7 DEF Unended
  <2>5. Len(u.read) = Len(t.read) + 1 /\ Len(u.down) = Len(t.down) - 1
    BY <1>4, <1>6, <1>7
  <2>6. Len(t.read) + Len(t.down) = t.taken + 1 => Len(u.read) + Len(u.down) = u.taken + 1
    <3>1. Len(t.read) \in Nat /\ Len(t.down) \in Nat /\ t.taken \in Nat /\ u.taken = t.taken
      BY <1>3, <1>7
    <3>2. Len(u.read) \in Nat /\ Len(u.down) \in Nat
      BY <1>7, Lengths
    <3>4. PICK a \in Nat, b \in Nat, c \in Nat, d \in Nat, e \in Nat :
            /\ a = Len(t.read) /\ b = Len(t.down) /\ c = t.taken
            /\ d = Len(u.read) /\ e = Len(u.down)
      BY <3>1, <3>2
    <3>5. d = a + 1 /\ e = b - 1
      BY <2>5, <3>4
    <3>6. a + b = c + 1 => d + e = c + 1
      BY ONLY <3>5
    <3> QED
      BY <3>1, <3>4, <3>6
  <2> QED
    BY <1>4, <1>7, <2>1, <2>2, <2>3, <2>4, <2>6
<1>11. u.ws = "open" /\ u.link = "up" => Len(u.read) + Len(u.down) = u.taken
  <2>1. Len(u.read) = Len(t.read) + 1 /\ Len(u.down) = Len(t.down) - 1
    BY <1>4, <1>6, <1>7
  <2>2. t.ws = "open" /\ t.link = "up" => Len(t.read) + Len(t.down) = t.taken
    BY <1>3 DEF DownOk
  <2>3. Len(t.read) + Len(t.down) = t.taken => Len(u.read) + Len(u.down) = u.taken
    <3>1. Len(t.read) \in Nat /\ Len(t.down) \in Nat /\ t.taken \in Nat /\ u.taken = t.taken
      BY <1>3, <1>7
    <3>2. Len(u.read) \in Nat /\ Len(u.down) \in Nat
      BY <1>7, Lengths
    <3>4. PICK a \in Nat, b \in Nat, c \in Nat, d \in Nat, e \in Nat :
            /\ a = Len(t.read) /\ b = Len(t.down) /\ c = t.taken
            /\ d = Len(u.read) /\ e = Len(u.down)
      BY <3>1, <3>2
    <3>5. d = a + 1 /\ e = b - 1
      BY <2>1, <3>4
    <3>6. a + b = c => d + e = c
      BY ONLY <3>5
    <3> QED
      BY <3>1, <3>4, <3>6
  <2> QED
    BY <1>7, <2>2, <2>3
<1>12. u.targetClosed => s # "relaying" /\ (Unended(u) => Len(u.read) = u.taken)
  <2>1. t.targetClosed => s # "relaying" /\ (Unended(t) => Len(t.read) = t.taken)
    BY <1>3 DEF DownOk
  <2>2. Len(t.read) # t.taken
    BY <1>3, <1>5
  <2>3. Unended(u) <=> Unended(t)
    BY <1>7 DEF Unended
  <2> QED
    BY <1>7, <2>1, <2>2, <2>3
<1>13. ~u.socketClosed
  BY <1>7 DEF Accepts
<1>14. DownOk(u, s)
  BY <1>8, <1>9, <1>10, <1>11, <1>12, <1>13 DEF DownOk
<1> QED
  BY <1>0, <1>1, <1>2, <1>3, <1>7, <1>14, SameUpOk DEF TunnelOk

\* The Worker hears that the Connector's end has closed.
LEMMA ClosedByPeerOk ==
  ASSUME NEW t, NEW s, TunnelOk(t, s), t.link # "none", t.down # <<>>,
         Head(t.down).kind # "data"
  PROVE  TunnelOk(ClosedByPeer([t EXCEPT !.down = Tail(@)], Head(t.down)), s)
<1>1. PICK head \in Frames : head = Head(t.down)
  BY HeadAndTail DEF TunnelOk, Tunnels
<1>2. PICK u : u = ClosedByPeer([t EXCEPT !.down = Tail(@)], head)
  OBVIOUS
<1>3. /\ t \in Tunnels /\ t.down \in Seq(Frames) /\ UpOk(t, s) /\ DownOk(t, s)
      /\ Len(t.read) \in Nat /\ t.taken \in Nat
  BY Lengths DEF TunnelOk, Tunnels
<1>4. /\ Tail(t.down) \in Seq(Frames) /\ Len(Tail(t.down)) = Len(t.down) - 1
      /\ Head(t.down) = t.down[1] /\ 1 \in DOMAIN t.down
  BY <1>3, HeadAndTail
<1>5. head = t.down[1] /\ head.kind = "close"
  BY <1>1, <1>4 DEF Frames
<1>6. 1 = Len(t.down) /\ t.ws # "open"
  BY <1>3, <1>4, <1>5 DEF DownOk
<1>7. Tail(t.down) = <<>>
  BY <1>3, <1>6, OnlyOne
<1>8. /\ u \in Tunnels /\ u.socketClosed /\ (u.closing = "none" <=> t.closing = "none")
      /\ u.arrived = t.arrived /\ u.buffered = t.buffered /\ u.sent = t.sent
      /\ u.up = t.up /\ u.paused = t.paused /\ Relayed(u) = Relayed(t) /\ u.link = t.link
      /\ u.read = t.read /\ u.down = <<>> /\ u.taken = t.taken /\ u.ws = t.ws
      /\ (t.destroyed => u.destroyed) /\ u.targetClosed = head.target
  BY <1>2, <1>3, <1>4, <1>7, ZenonT(40) DEF Tunnels, ClosedByPeer, SocketClosed, Relayed, Frames
<1>9. head.target => s # "relaying" /\ (Unended(t) => Len(t.read) + Len(t.down) = t.taken + 1)
  BY <1>3, <1>4, <1>5 DEF DownOk
<1>10. Len(t.read) + Len(t.down) = t.taken + 1 => Len(t.read) = t.taken
  <2>1. PICK a \in Nat, c \in Nat : a = Len(t.read) /\ c = t.taken
    BY <1>3
  <2>2. a + 1 = c + 1 => a = c
    BY ONLY TRUE
  <2> QED
    BY <1>6, <2>1, <2>2
<1>11. Unended(u) => Unended(t)
  BY <1>8 DEF Unended
<1>12. DownOk(u, s)
  <2>1. ~Accepts(u) /\ DOMAIN u.down = {}
    BY <1>8 DEF Accepts
  <2>2. u.targetClosed => s # "relaying" /\ (Unended(u) => Len(u.read) = u.taken)
    BY <1>8, <1>9, <1>10, <1>11
  <2>3. u.ws # "open" /\ InOrder(u.read) /\ Len(u.read) =< u.taken
    BY <1>3, <1>6, <1>8 DEF DownOk
  <2> QED
    BY <1>8, <2>1, <2>2, <2>3 DEF DownOk
<1>13. UpOk(u, s)
  BY <1>3, <1>8 DEF UpOk
<1> QED
  BY <1>1, <1>2, <1>8, <1>12, <1>13 DEF TunnelOk

\* The link breaks: what is on the wire is lost, in both directions.
LEMMA BrokenOk ==
  ASSUME NEW t, NEW s, TunnelOk(t, s), t.link # "none"
  PROVE  LET u == [t EXCEPT !.link = "broken", !.up = <<>>, !.down = <<>>]
         IN  TunnelOk(u, s) /\ u.link # "none"
<1>1. PICK u : u = [t EXCEPT !.link = "broken", !.up = <<>>, !.down = <<>>]
  OBVIOUS
<1>2. <<>> \in Seq(Frames) /\ t \in Tunnels /\ UpOk(t, s) /\ DownOk(t, s)
  BY DEF TunnelOk
<1>3. /\ u \in Tunnels /\ u.link = "broken" /\ u.up = <<>> /\ u.down = <<>>
      /\ u.arrived = t.arrived /\ u.buffered = t.buffered /\ u.sent = t.sent
      /\ u.paused = t.paused /\ u.closing = t.closing /\ u.socketClosed = t.socketClosed
      /\ u.read = t.read /\ u.taken = t.taken /\ u.ws = t.ws
      /\ u.destroyed = t.destroyed /\ u.targetClosed = t.targetClosed
      /\ Relayed(u) = Relayed(t)
  BY <1>1, <1>2 DEF Tunnels, Relayed
<1>4. DOMAIN u.up = {} /\ DOMAIN u.down = {}
  BY <1>3
<1>5. UpOk(u, s)
  BY <1>2, <1>3, <1>4 DEF UpOk
<1>6. DownOk(u, s)
  BY <1>2, <1>3, <1>4 DEF DownOk, Unended
<1> QED
  BY <1>1, <1>3, <1>5, <1>6 DEF TunnelOk

\* The Connector's WebSocket is known to be closed, after it was closing or
\* over a broken link.
LEMMA WsClosedOk ==
  ASSUME NEW t, NEW s, TunnelOk(t, s), t.link # "none",
         t.ws # "open" \/ (t.link = "broken" /\ t.down = <<>>)
  PROVE  LET u == [t EXCEPT !.ws = "closed"]
         IN  TunnelOk(u, s) /\ u.link = t.link
<1>1. PICK u : u = [t EXCEPT !.ws = "closed"]
  OBVIOUS
<1>2. t \in Tunnels /\ UpOk(t, s) /\ DownOk(t, s)
  BY DEF TunnelOk
<1>3. /\ u \in Tunnels /\ SameUp(t, u) /\ u.ws = "closed" /\ u.link = t.link
      /\ u.read = t.read /\ u.down = t.down /\ u.taken = t.taken
      /\ u.closing = t.closing /\ u.socketClosed = t.socketClosed
      /\ u.destroyed = t.destroyed /\ u.targetClosed = t.targetClosed
  BY <1>1, <1>2 DEF Tunnels, SameUp
<1>4. DownOk(u, s)
  BY <1>2, <1>3 DEF DownOk, Accepts, Unended
<1> QED
  BY <1>1, <1>2, <1>3, <1>4, SameUpOk DEF TunnelOk

\* A relay that starts has carried nothing.
LEMMA StartedOk ==
  /\ TunnelOk([Unopened EXCEPT !.link = "up"], "relaying")
  /\ \A s : s # "relaying" => TunnelOk(Unopened, s)
<1>1. <<>> \in Seq(Frames) /\ <<>> \in Seq(Nat) /\ HighWater \in Nat /\ 0 < HighWater
  BY TunnelAssumption
<1>2. ASSUME NEW link \in {"none", "up"}, NEW s, NEW u, u = [Unopened EXCEPT !.link = link]
      PROVE  u \in Tunnels /\ UpOk(u, s) /\ DownOk(u, s)
  <2>1. /\ u.link = link /\ u.up = <<>> /\ u.down = <<>> /\ u.sent = 0 /\ u.closing = "none"
        /\ u.socketClosed = FALSE /\ u.destroyed = FALSE /\ u.read = <<>>
        /\ u.targetClosed = FALSE /\ u.paused = FALSE /\ u.buffered = <<>> /\ u.taken = 0
        /\ u.arrived = <<>> /\ u.ws = "open"
    BY <1>2 DEF Unopened
  <2>2. u \in Tunnels
    BY <1>1, <1>2 DEF Tunnels, Unopened
  <2>3. /\ Len(u.arrived) = 0 /\ Len(u.buffered) = 0 /\ Len(u.read) = 0 /\ Len(u.up) = 0
        /\ Len(u.down) = 0 /\ DOMAIN u.arrived = {} /\ DOMAIN u.buffered = {}
        /\ DOMAIN u.read = {} /\ DOMAIN u.up = {} /\ DOMAIN u.down = {} /\ Relayed(u) = 0
    BY <2>1 DEF Relayed
  <2>4. UpOk(u, s)
    BY <1>1, <2>1, <2>3 DEF UpOk, InOrder
  <2>5. DownOk(u, s)
    BY <2>1, <2>3 DEF DownOk, InOrder
  <2> QED
    BY <2>2, <2>4, <2>5
<1>3. \A s : s # "relaying" => TunnelOk(Unopened, s)
  <2>1. Unopened = [Unopened EXCEPT !.link = "none"] /\ Unopened.link = "none"
    BY DEF Unopened
  <2> QED
    BY <1>2, <2>1 DEF TunnelOk
<1>4. TunnelOk([Unopened EXCEPT !.link = "up"], "relaying")
  <2>1. [Unopened EXCEPT !.link = "up"].link = "up"
    BY DEF Unopened
  <2> QED
    BY <1>2, <2>1 DEF TunnelOk
<1> QED
  BY <1>3, <1>4

\* A frame is taken from the wire by the Connector after the relay has ended,
\* or it is the Worker's close frame: nothing is passed on.
LEMMA IgnoredOk ==
  ASSUME NEW t, NEW s, TunnelOk(t, s), t.link # "none", t.up # <<>>,
         NEW paused \in BOOLEAN, t.paused => paused,
         s # "relaying" \/ Head(t.up).kind = "close"
  PROVE  LET u == [t EXCEPT !.up = Tail(@), !.paused = paused]
         IN  TunnelOk(u, s) /\ u.link = t.link
<1>1. PICK u : u = [t EXCEPT !.up = Tail(@), !.paused = paused]
  OBVIOUS
<1>2. /\ t \in Tunnels /\ t.up \in Seq(Frames) /\ UpOk(t, s) /\ DownOk(t, s)
      /\ Len(t.up) \in Nat
  BY Lengths DEF TunnelOk, Tunnels
<1>3. /\ Tail(t.up) \in Seq(Frames) /\ Len(Tail(t.up)) = Len(t.up) - 1
      /\ \A i \in DOMAIN Tail(t.up) : /\ i \in Nat /\ i + 1 \in DOMAIN t.up
                                      /\ Tail(t.up)[i] = t.up[i + 1]
      /\ Head(t.up) = t.up[1] /\ 1 \in DOMAIN t.up
  BY <1>2, HeadAndTail
<1>4. /\ u \in Tunnels /\ SameDown(t, u) /\ u.up = Tail(t.up) /\ u.paused = paused
      /\ u.arrived = t.arrived /\ u.buffered = t.buffered /\ u.sent = t.sent
      /\ u.link = t.link /\ u.closing = t.closing /\ u.socketClosed = t.socketClosed
      /\ Relayed(u) = Relayed(t)
  BY <1>1, <1>2, <1>3 DEF Tunnels, SameDown, Relayed
<1>5. \A i \in DOMAIN u.up : u.up[i].kind = "close" => i = Len(u.up) /\ u.closing # "none"
  <2> SUFFICES ASSUME NEW i \in DOMAIN u.up, u.up[i].kind = "close"
               PROVE  i = Len(u.up) /\ u.closing # "none"
    OBVIOUS
  <2>1. i \in Nat /\ i + 1 \in DOMAIN t.up /\ u.up[i] = t.up[i + 1]
    BY <1>3, <1>4
  <2>2. i + 1 = Len(t.up) /\ t.closing # "none"
    BY <1>2, <2>1 DEF UpOk
  <2>3. i = Len(t.up) - 1
    BY <2>1, <2>2
  <2> QED
    BY <1>3, <1>4, <2>2, <2>3
<1>6. CASE s # "relaying"
  <2>1. UpOk(u, s)
    BY <1>2, <1>4, <1>5, <1>6 DEF UpOk
  <2> QED
    BY <1>1, <1>2, <1>4, <2>1, SameDownOk DEF TunnelOk
<1>7. CASE Head(t.up).kind = "close"
  <2>1. 1 = Len(t.up) /\ t.closing # "none"
    BY <1>2, <1>3, <1>7 DEF UpOk
  <2>2. u.up = <<>> /\ DOMAIN u.up = {}
    BY <1>2, <1>4, <2>1, OnlyOne
  <2>3. UpOk(u, s)
    BY <1>2, <1>4, <1>5, <2>1, <2>2 DEF UpOk
  <2> QED
    BY <1>1, <1>2, <1>4, <2>3, SameDownOk DEF TunnelOk
<1> QED
  BY <1>6, <1>7

\* A chunk goes on to the target.
LEMMA RelayedOk ==
  ASSUME NEW t, TunnelOk(t, "relaying"), t.link # "none", t.up # <<>>, ~t.paused,
         Head(t.up).kind = "data"
  PROVE  LET u == [t EXCEPT !.up = Tail(@), !.buffered = Append(@, Head(t.up).n),
                            !.paused = Len(t.buffered) + 1 >= HighWater]
         IN  TunnelOk(u, "relaying")
<1>1. PICK n : n = Head(t.up).n
  OBVIOUS
<1>2. PICK paused \in BOOLEAN : paused <=> Len(t.buffered) + 1 >= HighWater
  OBVIOUS
<1>3. PICK u : u = [t EXCEPT !.up = Tail(@), !.buffered = Append(@, n), !.paused = paused]
  OBVIOUS
<1>4. /\ t \in Tunnels /\ t.up \in Seq(Frames) /\ t.buffered \in Seq(Nat)
      /\ UpOk(t, "relaying") /\ DownOk(t, "relaying")
      /\ Len(t.up) \in Nat /\ Len(t.buffered) \in Nat /\ Len(t.arrived) \in Nat
      /\ Relayed(t) \in Nat /\ t.sent \in Nat /\ HighWater \in Nat
      /\ DOMAIN t.buffered = 1 .. Len(t.buffered)
  BY Lengths DEF TunnelOk, Tunnels
<1>5. /\ Tail(t.up) \in Seq(Frames) /\ Len(Tail(t.up)) = Len(t.up) - 1
      /\ \A i \in DOMAIN Tail(t.up) : /\ i \in Nat /\ i + 1 \in DOMAIN t.up
                                      /\ Tail(t.up)[i] = t.up[i + 1]
      /\ Head(t.up) = t.up[1] /\ 1 \in DOMAIN t.up
  BY <1>4, HeadAndTail
<1>6. n = Relayed(t) + 1 /\ n =< t.sent
  BY <1>1, <1>4, <1>5 DEF UpOk
<1>7. /\ Append(t.buffered, n) \in Seq(Nat) /\ Len(Append(t.buffered, n)) = Len(t.buffered) + 1
      /\ DOMAIN Append(t.buffered, n) = 1 .. Len(t.buffered) + 1
      /\ \A i \in DOMAIN t.buffered : Append(t.buffered, n)[i] = t.buffered[i]
      /\ Append(t.buffered, n)[Len(t.buffered) + 1] = n
  BY <1>4, <1>6, Appended
<1>8. /\ u \in Tunnels /\ SameDown(t, u) /\ u.up = Tail(t.up) /\ u.paused = paused
      /\ u.buffered = Append(t.buffered, n) /\ u.arrived = t.arrived /\ u.sent = t.sent
      /\ u.link = t.link /\ u.closing = t.closing /\ u.socketClosed = t.socketClosed
  BY <1>3, <1>4, <1>5, <1>7 DEF Tunnels, SameDown
<1>9. Relayed(u) = Relayed(t) + 1
  <2>1. PICK a \in Nat, b \in Nat, c \in Nat :
          a = Len(t.arrived) /\ b = Len(t.buffered) /\ c = Len(u.buffered)
    BY <1>4, <1>8, Lengths
  <2>2. c = b + 1
    BY <1>7, <1>8, <2>1
  <2>3. a + c = (a + b) + 1
    BY ONLY <2>2
  <2> QED
    BY <1>8, <2>1, <2>3 DEF Relayed
<1>10. \A i \in DOMAIN u.buffered : u.buffered[i] = Len(u.arrived) + i
  <2> SUFFICES ASSUME NEW i \in DOMAIN u.buffered
               PROVE  u.buffered[i] = Len(u.arrived) + i
    OBVIOUS
  <2>1. CASE i \in DOMAIN t.buffered
    BY <1>4, <1>7, <1>8, <2>1 DEF UpOk
  <2>2. CASE i = Len(t.buffered) + 1
    <3>1. PICK a \in Nat, b \in Nat : a = Len(t.arrived) /\ b = Len(t.buffered)
      BY <1>4
    <3>2. n = (a + b) + 1
      BY <1>6, <3>1 DEF Relayed
    <3>3. (a + b) + 1 = a + (b + 1)
      BY ONLY TRUE
    <3> QED
      BY <1>7, <1>8, <2>2, <3>1, <3>2, <3>3
  <2>3. i \in DOMAIN t.buffered \/ i = Len(t.buffered) + 1
    BY <1>4, <1>7, <1>8
  <2> QED
    BY <2>1, <2>2, <2>3
<1>11. Len(u.buffered) =< HighWater /\ (~u.paused => Len(u.buffered) < HighWater)
  <2>1. Len(t.buffered) < HighWater
    BY <1>4 DEF UpOk
  <2> QED
    BY <1>2, <1>4, <1>7, <1>8, <2>1
<1>12. \A i \in DOMAIN u.up : u.up[i].kind = "data" =>
         u.up[i].n = Relayed(u) + i /\ u.up[i].n =< u.sent
  <2> SUFFICES ASSUME NEW i \in DOMAIN u.up, u.up[i].kind = "data"
               PROVE  u.up[i].n = Relayed(u) + i /\ u.up[i].n =< u.sent
    OBVIOUS
  <2>1. i \in Nat /\ i + 1 \in DOMAIN t.up /\ u.up[i] = t.up[i + 1]
    BY <1>5, <1>8
  <2>2. t.up[i + 1].n = Relayed(t) + (i + 1) /\ t.up[i + 1].n =< t.sent
    BY <1>4, <2>1 DEF UpOk
  <2>3. Relayed(t) + (i + 1) = (Relayed(t) + 1) + i
    <3>1. Relayed(t) \in Nat /\ i \in Nat
      BY <1>4, <2>1
    <3> QED
      BY <3>1, Shifted
  <2> QED
    BY <1>8, <1>9, <2>1, <2>2, <2>3
<1>13. \A i \in DOMAIN u.up : u.up[i].kind = "close" => i = Len(u.up) /\ u.closing # "none"
  <2> SUFFICES ASSUME NEW i \in DOMAIN u.up, u.up[i].kind = "close"
               PROVE  i = Len(u.up) /\ u.closing # "none"
    OBVIOUS
  <2>1. i \in Nat /\ i + 1 \in DOMAIN t.up /\ u.up[i] = t.up[i + 1]
    BY <1>5, <1>8
  <2>2. i + 1 = Len(t.up) /\ t.closing # "none"
    BY <1>4, <2>1 DEF UpOk
  <2>3. i = Len(t.up) - 1
    BY <2>1, <2>2
  <2> QED
    BY <1>5, <1>8, <2>2, <2>3
<1>14. u.link = "up" /\ u.closing = "none" /\ ~u.socketClosed => Relayed(u) + Len(u.up) = u.sent
  <2>1. PICK a \in Nat, b \in Nat, c \in Nat, d \in Nat :
          a = Relayed(t) /\ b = Len(t.up) /\ c = t.sent /\ d = Len(u.up)
    BY <1>4, <1>8, Lengths
  <2>2. d = b - 1
    BY <1>5, <1>8, <2>1
  <2>3. a + b = c => (a + 1) + d = c
    BY ONLY <2>2
  <2>4. u.link = "up" /\ u.closing = "none" /\ ~u.socketClosed => a + b = c
    BY <1>4, <1>8, <2>1 DEF UpOk
  <2> QED
    BY <1>8, <1>9, <2>1, <2>3, <2>4
<1>15. InOrder(u.arrived) /\ Relayed(u) =< u.sent
  BY <1>4, <1>6, <1>8, <1>9 DEF UpOk
<1>16. UpOk(u, "relaying")
  BY <1>10, <1>11, <1>12, <1>13, <1>14, <1>15 DEF UpOk
<1>17. u = [t EXCEPT !.up = Tail(@), !.buffered = Append(@, Head(t.up).n),
                     !.paused = Len(t.buffered) + 1 >= HighWater]
  <2>1. paused = (Len(t.buffered) + 1 >= HighWater)
    BY <1>2
  <2> QED
    BY <1>1, <1>3, <2>1
<1> QED
  BY <1>4, <1>8, <1>16, <1>17, SameDownOk DEF TunnelOk

\* The target reads a chunk.
LEMMA ArrivedOk ==
  ASSUME NEW t, NEW s, TunnelOk(t, s), t.link # "none", t.buffered # <<>>
  PROVE  TunnelOk([t EXCEPT !.buffered = Tail(@), !.arrived = Append(@, Head(t.buffered))], s)
<1>1. PICK n : n = Head(t.buffered)
  OBVIOUS
<1>2. PICK u : u = [t EXCEPT !.buffered = Tail(@), !.arrived = Append(@, n)]
  OBVIOUS
<1>3. /\ t \in Tunnels /\ t.buffered \in Seq(Nat) /\ t.arrived \in Seq(Nat)
      /\ UpOk(t, s) /\ DownOk(t, s)
      /\ Len(t.buffered) \in Nat /\ Len(t.arrived) \in Nat /\ HighWater \in Nat
      /\ DOMAIN t.arrived = 1 .. Len(t.arrived)
  BY Lengths DEF TunnelOk, Tunnels
<1>4. /\ Tail(t.buffered) \in Seq(Nat) /\ Len(Tail(t.buffered)) = Len(t.buffered) - 1
      /\ \A i \in DOMAIN Tail(t.buffered) : /\ i \in Nat /\ i + 1 \in DOMAIN t.buffered
                                            /\ Tail(t.buffered)[i] = t.buffered[i + 1]
      /\ Head(t.buffered) = t.buffered[1] /\ 1 \in DOMAIN t.buffered
  BY <1>3, HeadAndTail
<1>5. n = Len(t.arrived) + 1 /\ n \in Nat
  BY <1>1, <1>3, <1>4 DEF UpOk
<1>6. /\ Append(t.arrived, n) \in Seq(Nat) /\ Len(Append(t.arrived, n)) = Len(t.arrived) + 1
      /\ DOMAIN Append(t.arrived, n) = 1 .. Len(t.arrived) + 1
      /\ \A i \in DOMAIN t.arrived : Append(t.arrived, n)[i] = t.arrived[i]
      /\ Append(t.arrived, n)[Len(t.arrived) + 1] = n
  BY <1>3, <1>5, Appended
<1>7. /\ u \in Tunnels /\ SameDown(t, u) /\ u.buffered = Tail(t.buffered)
      /\ u.arrived = Append(t.arrived, n) /\ u.up = t.up /\ u.sent = t.sent
      /\ u.paused = t.paused /\ u.link = t.link /\ u.closing = t.closing
      /\ u.socketClosed = t.socketClosed
  BY <1>2, <1>3, <1>4, <1>6 DEF Tunnels, SameDown
<1>8. Relayed(u) = Relayed(t)
  <2>1. PICK a \in Nat, b \in Nat, c \in Nat, d \in Nat :
          /\ a = Len(t.arrived) /\ b = Len(t.buffered)
          /\ c = Len(u.arrived) /\ d = Len(u.buffered)
    BY <1>3, <1>7, Lengths
  <2>2. c = a + 1 /\ d = b - 1
    BY <1>4, <1>6, <1>7, <2>1
  <2>3. c + d = a + b
    BY ONLY <2>2
  <2> QED
    BY <2>1, <2>3 DEF Relayed
<1>9. InOrder(u.arrived)
  <2>1. \A i \in DOMAIN u.arrived : i \in DOMAIN t.arrived \/ i = n
    BY <1>3, <1>5, <1>6, <1>7
  <2> QED
    BY <1>3, <1>5, <1>6, <1>7, <2>1 DEF UpOk, InOrder
<1>10. \A i \in DOMAIN u.buffered : u.buffered[i] = Len(u.arrived) + i
  <2> SUFFICES ASSUME NEW i \in DOMAIN u.buffered
               PROVE  u.buffered[i] = Len(u.arrived) + i
    OBVIOUS
  <2>1. i \in Nat /\ i + 1 \in DOMAIN t.buffered /\ u.buffered[i] = t.buffered[i + 1]
    BY <1>4, <1>7
  <2>2. t.buffered[i + 1] = Len(t.arrived) + (i + 1)
    BY <1>3, <2>1 DEF UpOk
  <2>3. Len(t.arrived) + (i + 1) = (Len(t.arrived) + 1) + i
    <3>1. Len(t.arrived) \in Nat /\ i \in Nat
      BY <1>3, <2>1
    <3> QED
      BY <3>1, Shifted
  <2> QED
    BY <1>6, <1>7, <2>1, <2>2, <2>3
<1>11. Len(u.buffered) =< HighWater /\ (~u.paused => Len(u.buffered) < HighWater)
  <2>1. Len(t.buffered) =< HighWater /\ (~t.paused => Len(t.buffered) < HighWater)
    BY <1>3 DEF UpOk
  <2> QED
    BY <1>3, <1>4, <1>7, <2>1
<1>12. UpOk(u, s)
  BY <1>3, <1>7, <1>8, <1>9, <1>10, <1>11 DEF UpOk
<1> QED
  BY <1>1, <1>2, <1>3, <1>7, <1>12, SameDownOk DEF TunnelOk

LEMMA DrainedOk ==
  ASSUME NEW t, NEW s, TunnelOk(t, s), t.link # "none", t.buffered = <<>>
  PROVE  TunnelOk([t EXCEPT !.paused = FALSE], s)
<1>1. PICK u : u = [t EXCEPT !.paused = FALSE]
  OBVIOUS
<1>2. /\ u \in Tunnels /\ SameDown(t, u) /\ u.buffered = t.buffered
      /\ u.arrived = t.arrived /\ u.up = t.up /\ u.sent = t.sent
      /\ u.link = t.link /\ u.closing = t.closing
      /\ u.socketClosed = t.socketClosed /\ Relayed(u) = Relayed(t)
  BY <1>1 DEF TunnelOk, Tunnels, SameDown, Relayed
<1>3. Len(u.buffered) = 0 /\ 0 < HighWater
  BY <1>2, TunnelAssumption
<1>4. UpOk(u, s)
  BY <1>2, <1>3 DEF TunnelOk, UpOk
<1> QED
  BY <1>1, <1>2, <1>4, SameDownOk DEF TunnelOk

\* The target has sent a chunk; the Connector passes it on, or drops it because
\* its WebSocket is closing.
LEMMA TakenOk ==
  ASSUME NEW t, TunnelOk(t, "relaying"), t.link # "none"
  PROVE  TunnelOk(IF t.ws = "open"
                    THEN [t EXCEPT !.taken = @ + 1, !.sending = TRUE,
                                   !.down = Put(t, @, Data(t.taken + 1))]
                    ELSE [t EXCEPT !.taken = @ + 1], "relaying")
<1>1. /\ t \in Tunnels /\ t.down \in Seq(Frames) /\ t.taken \in Nat
      /\ Len(t.down) \in Nat /\ DOMAIN t.down = 1 .. Len(t.down) /\ Len(t.read) \in Nat
      /\ UpOk(t, "relaying") /\ DownOk(t, "relaying")
  BY Lengths DEF TunnelOk, Tunnels
<1>2. PICK taken \in Nat : taken = t.taken + 1
  BY <1>1
<1>3. PICK frame \in Frames : frame = Data(taken) /\ frame.kind = "data" /\ frame.n = taken
  BY FramesAre
<1>4. Append(t.down, frame) \in Seq(Frames)
  BY <1>1, Appended
<1>5. PICK down \in Seq(Frames) : down = IF t.ws = "open" THEN Put(t, t.down, frame) ELSE t.down
  BY <1>1, <1>4 DEF Put
<1>6. PICK sending \in BOOLEAN : sending = IF t.ws = "open" THEN TRUE ELSE t.sending
  BY <1>1 DEF Tunnels
<1>7. PICK u : u = [t EXCEPT !.taken = taken, !.sending = sending, !.down = down]
  OBVIOUS
<1>8. /\ u \in Tunnels /\ SameUp(t, u) /\ u.taken = taken /\ u.down = down
      /\ u.read = t.read /\ u.ws = t.ws /\ u.link = t.link /\ u.closing = t.closing
      /\ u.socketClosed = t.socketClosed /\ u.destroyed = t.destroyed
      /\ u.targetClosed = t.targetClosed
  BY <1>1, <1>7 DEF Tunnels, SameUp
<1>9. ~u.targetClosed /\ (Accepts(u) <=> Accepts(t)) /\ (Unended(u) <=> Unended(t))
  BY <1>1, <1>8 DEF DownOk, Accepts, Unended
<1>10. InOrder(u.read) /\ Len(u.read) =< u.taken
  <2>1. Len(t.read) =< t.taken /\ InOrder(t.read)
    BY <1>1 DEF DownOk
  <2> QED
    BY <1>1, <1>2, <1>8, <2>1
<1>11. \A i \in DOMAIN t.down : /\ t.down[i].kind = "close" => ~t.down[i].target /\ t.ws # "open"
                                                              /\ i = Len(t.down)
                                /\ Accepts(t) /\ t.down[i].kind = "data" =>
                                     t.down[i].n = Len(t.read) + i /\ t.down[i].n =< taken
  <2> SUFFICES ASSUME NEW i \in DOMAIN t.down
               PROVE  /\ t.down[i].kind = "close" => ~t.down[i].target /\ t.ws # "open"
                                                     /\ i = Len(t.down)
                      /\ Accepts(t) /\ t.down[i].kind = "data" =>
                           t.down[i].n = Len(t.read) + i /\ t.down[i].n =< taken
    OBVIOUS
  <2>1. t.down[i].kind = "close" => ~t.down[i].target /\ t.ws # "open" /\ i = Len(t.down)
    BY <1>1 DEF DownOk
  <2>2. ASSUME Accepts(t), t.down[i].kind = "data"
        PROVE  t.down[i].n = Len(t.read) + i /\ t.down[i].n =< taken
    <3>1. t.down[i].n = Len(t.read) + i /\ t.down[i].n =< t.taken /\ i \in Nat
      BY <1>1, <2>2 DEF DownOk
    <3> QED
      BY <1>1, <1>2, <3>1
  <2> QED
    BY <2>1, <2>2
<1>12. u.socketClosed /\ Unended(u) => u.ws # "open" /\ t.down = <<>>
  BY <1>1, <1>8, <1>9 DEF DownOk
<1>13. CASE t.ws = "open" /\ t.link = "up"
  <2>1. /\ Len(down) = Len(t.down) + 1 /\ DOMAIN down = 1 .. Len(t.down) + 1
        /\ \A i \in DOMAIN t.down : down[i] = t.down[i]
        /\ down[Len(t.down) + 1] = frame
    BY <1>1, <1>5, <1>13, Appended DEF Put
  <2>2. \A i \in DOMAIN down : i \in DOMAIN t.down \/ (i = Len(t.down) + 1 /\ down[i] = frame)
    BY <1>1, <2>1
  <2>3. Accepts(t) => Len(t.read) + Len(t.down) = t.taken
    BY <1>1, <1>13 DEF DownOk
  <2>4. Accepts(t) => taken = Len(t.read) + (Len(t.down) + 1)
    <3>1. PICK a \in Nat, b \in Nat, c \in Nat : a = Len(t.read) /\ b = Len(t.down) /\ c = t.taken
      BY <1>1
    <3>2. a + b = c => c + 1 = a + (b + 1)
      BY ONLY TRUE
    <3> QED
      BY <1>2, <2>3, <3>1, <3>2
  <2>5. \A i \in DOMAIN down : down[i].kind # "close"
    BY <1>3, <1>11, <1>13, <2>1, <2>2
  <2>6. Accepts(u) => \A i \in DOMAIN u.down : u.down[i].kind = "data" =>
          u.down[i].n = Len(u.read) + i /\ u.down[i].n =< u.taken
    <3> SUFFICES ASSUME Accepts(t), NEW i \in DOMAIN down, down[i].kind = "data"
                 PROVE  down[i].n = Len(t.read) + i /\ down[i].n =< taken
      BY <1>8, <1>9
    <3>1. CASE i \in DOMAIN t.down
      BY <1>11, <2>1, <3>1
    <3>2. CASE i = Len(t.down) + 1 /\ down[i] = frame
      <4>1. down[i].n = taken /\ taken =< taken
        BY <1>2, <1>3, <3>2
      <4>2. taken = Len(t.read) + (Len(t.down) + 1)
        BY <2>4
      <4>3. taken = Len(t.read) + i
        BY ONLY <3>2, <4>2
      <4> QED
        BY <4>1, <4>3
    <3> QED
      BY <2>2, <3>1, <3>2
  <2>7. Accepts(u) => Len(u.read) + Len(u.down) = u.taken
    BY <1>8, <1>9, <2>1, <2>4
  <2>8. DownOk(u, "relaying")
    BY <1>8, <1>9, <1>10, <1>12, <1>13, <2>5, <2>6, <2>7 DEF DownOk
  <2> QED
    BY <1>1, <1>2, <1>3, <1>5, <1>6, <1>7, <1>8, <1>13, <2>8, SameUpOk DEF TunnelOk
<1>14. CASE t.ws # "open" \/ t.link # "up"
  <2>1. down = t.down
    BY <1>5, <1>14 DEF Put
  <2>2. ~(u.ws = "open" /\ u.link = "up")
    BY <1>8, <1>14
  <2>3. Accepts(u) => \A i \in DOMAIN u.down : u.down[i].kind = "data" =>
          u.down[i].n = Len(u.read) + i /\ u.down[i].n =< u.taken
    BY <1>8, <1>9, <1>11, <2>1
  <2>4. \A i \in DOMAIN u.down : u.down[i].kind = "close" =>
          i = Len(u.down) /\ u.ws # "open" /\ ~u.down[i].target
    BY <1>8, <1>11, <2>1
  <2>5. DownOk(u, "relaying")
    BY <1>8, <1>9, <1>10, <1>12, <2>1, <2>2, <2>3, <2>4 DEF DownOk
  <2>6. TunnelOk(u, "relaying")
    BY <1>1, <1>8, <2>5, SameUpOk DEF TunnelOk
  <2>7. CASE t.ws = "open"
    BY <1>2, <1>3, <1>5, <1>6, <1>7, <2>6, <2>7
  <2>8. CASE t.ws # "open"
    <3>1. u = [t EXCEPT !.taken = taken]
      BY <1>1, <1>6, <1>7, <2>1, <2>8 DEF Tunnels
    <3> QED
      BY <1>2, <2>6, <2>8, <3>1
  <2> QED
    BY <2>7, <2>8
<1> QED
  BY <1>13, <1>14

-----------------------------------------------------------------------------
(* The steps.                                                               *)

\* A step of one tunnel keeps the invariant if it keeps it of that tunnel.
LEMMA OneTunnel ==
  ASSUME TunnelInv, NEW r \in DOMAIN tunnel, NEW t,
         Becomes(r, t), TunnelOk(t, stage'[r]),
         \A q \in Requests \ {r} : stage'[q] = stage[q]
  PROVE  TunnelInv'
<1>1. DOMAIN tunnel' = DOMAIN tunnel
  BY DEF Becomes
<1>2. tunnel'[r] = t /\ \A q \in DOMAIN tunnel : q # r => tunnel'[q] = tunnel[q]
  BY DEF Becomes
<1>3. DOMAIN tunnel' \subseteq Requests
  BY <1>1 DEF TunnelInv
<1>4. ASSUME NEW q \in DOMAIN tunnel' PROVE TunnelOk(tunnel'[q], stage'[q])
  <2>1. CASE q = r
    BY <1>2, <2>1
  <2>2. CASE q # r
    BY <1>1, <1>2, <1>3, <2>2 DEF TunnelInv
  <2> QED
    BY <2>1, <2>2
<1> QED
  BY <1>3, <1>4 DEF TunnelInv

LEMMA QuietStep ==
  ASSUME TunnelInv, NEW r \in DOMAIN tunnel, NEW t,
         Becomes(r, t), TunnelOk(t, stage[r]), UNCHANGED vars
  PROVE  TunnelInv'
<1>1. stage' = stage
  BY DEF vars
<1> QED
  BY <1>1, OneTunnel

\* finish(), of a tunnel that is as it should be.
LEMMA FinishStep ==
  ASSUME ConnectorInv, TunnelInv, NEW r \in DOMAIN tunnel, NEW t,
         NEW clean \in BOOLEAN, NEW target \in BOOLEAN,
         Finish(r, t, clean, target), TunnelOk(t, stage[r]), t.link # "none"
  PROVE  TunnelInv'
<1>1. r \in Requests
  BY DEF TunnelInv
<1>2. stage' = [stage EXCEPT ![r] = "over"] /\ Becomes(r, Finished(t, clean, target))
  BY DEF Finish, RelayEnds, GiveUp
<1>3. stage'[r] = "over" /\ \A q \in Requests \ {r} : stage'[q] = stage[q]
  BY <1>1, <1>2 DEF ConnectorInv, TypeOK
<1>4. TunnelOk(Finished(t, clean, target), "over")
  BY FinishedOk
<1> QED
  BY <1>2, <1>3, <1>4, OneTunnel

LEMMA WorkerStepKeeps ==
  ASSUME TunnelInv, NEW r \in DOMAIN tunnel, WorkerStep(r)
  PROVE  TunnelInv'
<1>1. PICK t : t = tunnel[r]
  OBVIOUS
<1>2. TunnelOk(t, stage[r]) /\ t \in Tunnels
  BY <1>1 DEF TunnelInv, TunnelOk
<1>3. CASE Write(r)
  <2>1. PICK u : u = [t EXCEPT !.writing = TRUE]
    OBVIOUS
  <2>2. u \in Tunnels /\ SameUp(t, u) /\ SameDown(t, u)
    BY <1>2, <2>1 DEF Tunnels, SameUp, SameDown
  <2>3. t.link # "none" /\ Becomes(r, u) /\ UNCHANGED vars
    BY <1>1, <1>3, <2>1 DEF Write, Follows
  <2> QED
    BY <1>2, <2>2, <2>3, PlainOk, QuietStep
<1>4. CASE Send(r)
  <2>1. PICK u : u = [t EXCEPT !.writing = FALSE, !.sent = @ + 1,
                               !.up = Put(t, @, Data(t.sent + 1))]
    OBVIOUS
  <2>2. t.link # "none" /\ WS_OPEN(t) /\ Becomes(r, u) /\ UNCHANGED vars
    BY <1>1, <1>4, <2>1 DEF Send, Follows
  <2>3. TunnelOk(u, stage[r])
    BY <1>2, <2>1, <2>2, SendOk
  <2> QED
    BY <2>2, <2>3, QuietStep
<1>5. CASE WriteFails(r)
  <2>1. PICK u : u = [t EXCEPT !.writing = FALSE]
    OBVIOUS
  <2>2. u \in Tunnels /\ SameUp(t, u) /\ SameDown(t, u)
    BY <1>2, <2>1 DEF Tunnels, SameUp, SameDown
  <2>3. t.link # "none" /\ Becomes(r, Destroyed(u)) /\ UNCHANGED vars
    BY <1>1, <1>5, <2>1 DEF WriteFails, Follows
  <2>4. TunnelOk(u, stage[r]) /\ u.link # "none"
    BY <1>2, <2>2, <2>3, PlainOk DEF SameUp
  <2> QED
    BY <2>3, <2>4, DestroyedOk, QuietStep
<1>6. CASE CloseTransport(r)
  <2>1. t.link # "none" /\ Becomes(r, Closed(t)) /\ UNCHANGED vars
    BY <1>1, <1>6 DEF CloseTransport, Follows
  <2> QED
    BY <1>2, <2>1, ClosedOk, QuietStep
<1>7. CASE CloseTimesOut(r)
  <2>1. t.link # "none" /\ t.closing = "pending" /\ Becomes(r, SocketClosed(t)) /\ UNCHANGED vars
    BY <1>1, <1>7 DEF CloseTimesOut, Follows
  <2>2. ~Unended(t)
    BY <2>1 DEF Unended
  <2> QED
    BY <1>2, <2>1, <2>2, SocketClosedOk, QuietStep
<1>8. CASE Receive(r)
  <2>1. PICK u : u = [t EXCEPT !.down = Tail(@)]
    OBVIOUS
  <2>2. /\ t.link # "none" /\ t.down # <<>> /\ UNCHANGED vars
        /\ Becomes(r, IF Head(t.down).kind = "data" THEN Pushed(u, Head(t.down).n)
                                                    ELSE ClosedByPeer(u, Head(t.down)))
    BY <1>1, <1>8, <2>1 DEF Receive, Follows
  <2>3. CASE Head(t.down).kind # "data"
    <3>1. TunnelOk(ClosedByPeer(u, Head(t.down)), stage[r])
      BY <1>2, <2>1, <2>2, <2>3, ClosedByPeerOk
    <3> QED
      BY <2>2, <2>3, <3>1, QuietStep
  <2>4. CASE Head(t.down).kind = "data"
    <3>1. Becomes(r, Pushed(u, Head(t.down).n))
      BY <2>2, <2>4
    <3>2. /\ u.socketClosed = t.socketClosed /\ u.destroyed = t.destroyed
          /\ u.unread = t.unread /\ u.read = t.read /\ u.link = t.link
      BY <1>2, <2>1 DEF Tunnels
    <3>3. CASE ~Accepts(t)
      <4>1. Pushed(u, Head(t.down).n) = u
        BY <3>2, <3>3 DEF Pushed, Accepts
      <4>2. TunnelOk(u, stage[r])
        BY <1>2, <2>1, <2>2, <3>3, DroppedOk
      <4> QED
        BY <2>2, <3>1, <4>1, <4>2, QuietStep
    <3>4. CASE Accepts(t) /\ t.unread >= MaxUnread
      <4>1. Pushed(u, Head(t.down).n) = Closed([u EXCEPT !.destroyed = TRUE])
        BY <3>2, <3>4 DEF Pushed, Accepts, Destroyed
      <4>2. PICK v : v = [t EXCEPT !.destroyed = TRUE]
        OBVIOUS
      <4>3. TunnelOk(v, stage[r]) /\ v.link # "none" /\ ~Accepts(v) /\ v.down = t.down
        BY <1>2, <2>2, <4>2, DestroyOk DEF Accepts, Tunnels
      <4>4. PICK w : w = [v EXCEPT !.down = Tail(@)]
        OBVIOUS
      <4>5. TunnelOk(w, stage[r]) /\ w = [u EXCEPT !.destroyed = TRUE] /\ w.link # "none"
        <5>1. TunnelOk(w, stage[r])
          BY <2>2, <4>3, <4>4, DroppedOk
        <5>2. w = [u EXCEPT !.destroyed = TRUE] /\ w.link = t.link
          BY <1>2, <2>1, <4>2, <4>4 DEF Tunnels
        <5> QED
          BY <2>2, <5>1, <5>2
      <4>6. TunnelOk(Closed(w), stage[r])
        BY <4>5, ClosedOk
      <4> QED
        BY <2>2, <3>1, <4>1, <4>5, <4>6, QuietStep
    <3>5. CASE Accepts(t) /\ ~(t.unread >= MaxUnread)
      <4>1. Pushed(u, Head(t.down).n) =
              [u EXCEPT !.read = Append(@, Head(t.down).n), !.unread = @ + 1]
        BY <3>2, <3>5 DEF Pushed, Accepts
      <4>2. [u EXCEPT !.read = Append(@, Head(t.down).n), !.unread = @ + 1] =
              [t EXCEPT !.down = Tail(@), !.read = Append(@, Head(t.down).n), !.unread = @ + 1]
        BY <1>2, <2>1 DEF Tunnels
      <4>3. TunnelOk(Pushed(u, Head(t.down).n), stage[r])
        BY <1>2, <2>2, <2>4, <3>5, <4>1, <4>2, PassedOk
      <4> QED
        BY <2>2, <3>1, <4>3, QuietStep
    <3> QED
      BY <3>3, <3>4, <3>5
  <2> QED
    BY <2>3, <2>4
<1>9. CASE Read(r)
  <2>1. PICK u : u = [t EXCEPT !.unread = 0]
    OBVIOUS
  <2>2. u \in Tunnels /\ SameUp(t, u) /\ SameDown(t, u)
    BY <1>2, <2>1 DEF Tunnels, SameUp, SameDown
  <2>3. t.link # "none" /\ Becomes(r, u) /\ UNCHANGED vars
    BY <1>1, <1>9, <2>1 DEF Read, Follows
  <2> QED
    BY <1>2, <2>2, <2>3, PlainOk, QuietStep
<1>10. CASE Break(r)
  <2>1. PICK u : u = [t EXCEPT !.link = "broken", !.up = <<>>, !.down = <<>>]
    OBVIOUS
  <2>2. t.link # "none" /\ Becomes(r, u) /\ UNCHANGED vars
    BY <1>1, <1>10, <2>1 DEF Break, Follows
  <2>3. TunnelOk(u, stage[r])
    BY <1>2, <2>1, <2>2, BrokenOk
  <2> QED
    BY <2>2, <2>3, QuietStep
<1>11. CASE HearBreak(r)
  <2>1. /\ t.link # "none" /\ UNCHANGED vars
        /\ Becomes(r, [SocketClosed(t) EXCEPT !.destroyed = TRUE])
    BY <1>1, <1>11 DEF HearBreak, Follows
  <2>2. PICK v : v = [t EXCEPT !.destroyed = TRUE]
    OBVIOUS
  <2>3. TunnelOk(v, stage[r]) /\ v.link # "none" /\ ~Unended(v)
    BY <1>2, <2>1, <2>2, DestroyOk DEF Unended
  <2>4. [SocketClosed(t) EXCEPT !.destroyed = TRUE] = SocketClosed(v)
    BY <1>2, <2>2 DEF Tunnels, SocketClosed
  <2> QED
    BY <2>1, <2>3, <2>4, SocketClosedOk, QuietStep
<1> QED
  BY <1>3, <1>4, <1>5, <1>6, <1>7, <1>8, <1>9, <1>10, <1>11 DEF WorkerStep

LEMMA RelayStepKeeps ==
  ASSUME ConnectorInv, TunnelInv, NEW r \in DOMAIN tunnel, RelayStep(r)
  PROVE  TunnelInv'
<1>1. PICK t : t = tunnel[r]
  OBVIOUS
<1>2. TunnelOk(t, stage[r]) /\ t \in Tunnels /\ r \in Requests
  BY <1>1 DEF TunnelInv, TunnelOk
<1>3. CASE Start(r)
  <2>1. stage' = [stage EXCEPT ![r] = "relaying"] /\ Becomes(r, [Unopened EXCEPT !.link = "up"])
    BY <1>3 DEF Start, Relay
  <2>2. stage'[r] = "relaying" /\ \A q \in Requests \ {r} : stage'[q] = stage[q]
    BY <1>2, <2>1 DEF ConnectorInv, TypeOK
  <2> QED
    BY <2>1, <2>2, StartedOk, OneTunnel
<1>4. CASE Message(r)
  <2>1. /\ t.link # "none" /\ ~t.paused /\ t.up # <<>> /\ Head(t.up).kind = "data"
        /\ UNCHANGED vars
    BY <1>1, <1>4 DEF Message, Hears, Follows
  <2>2. CASE stage[r] = "relaying"
    <3>1. PICK u : u = [t EXCEPT !.up = Tail(@), !.buffered = Append(@, Head(t.up).n),
                                 !.paused = Len(t.buffered) + 1 >= HighWater]
      OBVIOUS
    <3>2. Becomes(r, u)
      BY <1>1, <1>4, <2>2, <3>1 DEF Message
    <3>3. TunnelOk(u, stage[r])
      BY <1>2, <2>1, <2>2, <3>1, RelayedOk
    <3> QED
      BY <2>1, <3>2, <3>3, QuietStep
  <2>3. CASE stage[r] # "relaying"
    <3>1. PICK u : u = [t EXCEPT !.up = Tail(@), !.paused = TRUE]
      OBVIOUS
    <3>2. Becomes(r, u)
      BY <1>1, <1>4, <2>3, <3>1 DEF Message
    <3>3. TunnelOk(u, stage[r])
      <4>1. PICK paused \in BOOLEAN : paused = TRUE
        OBVIOUS
      <4>2. u = [t EXCEPT !.up = Tail(@), !.paused = paused]
        BY <3>1, <4>1
      <4> QED
        BY <1>2, <2>1, <2>3, <4>1, <4>2, IgnoredOk
    <3> QED
      BY <2>1, <3>2, <3>3, QuietStep
  <2> QED
    BY <2>2, <2>3
<1>5. CASE TargetReads(r)
  <2>1. PICK u : u = [t EXCEPT !.buffered = Tail(@), !.arrived = Append(@, Head(t.buffered))]
    OBVIOUS
  <2>2. t.link # "none" /\ t.buffered # <<>> /\ Becomes(r, u) /\ UNCHANGED vars
    BY <1>1, <1>5, <2>1 DEF TargetReads, Follows
  <2>3. TunnelOk(u, stage[r])
    BY <1>2, <2>1, <2>2, ArrivedOk
  <2> QED
    BY <2>2, <2>3, QuietStep
<1>6. CASE Drain(r)
  <2>1. PICK u : u = [t EXCEPT !.paused = FALSE]
    OBVIOUS
  <2>2. t.link # "none" /\ t.buffered = <<>> /\ Becomes(r, u) /\ UNCHANGED vars
    BY <1>1, <1>6, <2>1 DEF Drain, Follows
  <2>3. TunnelOk(u, stage[r])
    BY <1>2, <2>1, <2>2, DrainedOk
  <2> QED
    BY <2>2, <2>3, QuietStep
<1>7. CASE TargetSends(r)
  <2>1. PICK u : u = IF t.ws = "open"
                       THEN [t EXCEPT !.taken = @ + 1, !.sending = TRUE,
                                      !.down = Put(t, @, Data(t.taken + 1))]
                       ELSE [t EXCEPT !.taken = @ + 1]
    OBVIOUS
  <2>2. t.link # "none" /\ stage[r] = "relaying" /\ Becomes(r, u) /\ UNCHANGED vars
    BY <1>1, <1>7, <2>1 DEF TargetSends, Follows
  <2>3. TunnelOk(u, stage[r])
    BY <1>2, <2>1, <2>2, TakenOk
  <2> QED
    BY <2>2, <2>3, QuietStep
<1>8. CASE Flushed(r)
  <2>1. PICK u : u = [t EXCEPT !.sending = FALSE]
    OBVIOUS
  <2>2. u \in Tunnels /\ SameUp(t, u) /\ SameDown(t, u)
    BY <1>2, <2>1 DEF Tunnels, SameUp, SameDown
  <2>3. t.link # "none" /\ Becomes(r, u) /\ UNCHANGED vars
    BY <1>1, <1>8, <2>1 DEF Flushed, Follows
  <2> QED
    BY <1>2, <2>2, <2>3, PlainOk, QuietStep
<1>9. CASE TargetEnds(r)
  <2>1. PICK yes \in BOOLEAN : yes = TRUE
    OBVIOUS
  <2>2. t.link # "none" /\ Finish(r, t, yes, yes)
    BY <1>1, <1>9, <2>1 DEF TargetEnds, Follows
  <2> QED
    BY <1>2, <2>2, FinishStep
<1>10. CASE RelayFails(r)
  <2>1. PICK u : u = [t EXCEPT !.sending = FALSE]
    OBVIOUS
  <2>2. u \in Tunnels /\ SameUp(t, u) /\ SameDown(t, u)
    BY <1>2, <2>1 DEF Tunnels, SameUp, SameDown
  <2>3. PICK no \in BOOLEAN : no = FALSE
    OBVIOUS
  <2>4. t.link # "none" /\ Finish(r, u, no, no)
    BY <1>1, <1>10, <2>1, <2>3 DEF RelayFails, Follows
  <2>5. TunnelOk(u, stage[r]) /\ u.link # "none"
    BY <1>2, <2>2, <2>4, PlainOk DEF SameUp
  <2> QED
    BY <2>4, <2>5, FinishStep
<1>11. CASE RelayTimesOut(r)
  <2>1. PICK yes \in BOOLEAN, no \in BOOLEAN : yes = TRUE /\ no = FALSE
    OBVIOUS
  <2>2. t.link # "none" /\ Finish(r, t, yes, no)
    BY <1>1, <1>11, <2>1 DEF RelayTimesOut, Follows
  <2> QED
    BY <1>2, <2>2, FinishStep
<1>12. ASSUME NEW u, TunnelOk(u, stage[r]), u.link # "none",
              IF stage[r] = "relaying" THEN Finish(r, u, TRUE, FALSE)
                                       ELSE Becomes(r, u) /\ UNCHANGED vars
       PROVE  TunnelInv'
  <2>1. PICK yes \in BOOLEAN, no \in BOOLEAN : yes = TRUE /\ no = FALSE
    OBVIOUS
  <2>2. CASE stage[r] = "relaying"
    <3>1. Finish(r, u, yes, no)
      BY <1>12, <2>1, <2>2
    <3> QED
      BY <1>12, <3>1, FinishStep
  <2>3. CASE stage[r] # "relaying"
    BY <1>12, <2>3, QuietStep
  <2> QED
    BY <2>2, <2>3
<1>13. CASE HearClose(r)
  <2>1. PICK u : u = [t EXCEPT !.up = Tail(@), !.ws = "closed",
                        !.down = IF t.ws = "open" THEN Put(t, @, CloseFrame(TRUE, FALSE)) ELSE @]
    OBVIOUS
  <2>2. /\ t.link # "none" /\ ~t.paused /\ t.up # <<>> /\ Head(t.up).kind = "close"
        /\ IF stage[r] = "relaying" THEN Finish(r, u, TRUE, FALSE)
                                    ELSE Becomes(r, u) /\ UNCHANGED vars
    BY <1>1, <1>13, <2>1 DEF HearClose, Hears, Follows
  <2>3. PICK paused \in BOOLEAN : paused = t.paused
    BY <1>2 DEF Tunnels
  <2>4. PICK v : v = [t EXCEPT !.up = Tail(@), !.paused = paused]
    OBVIOUS
  <2>5. TunnelOk(v, stage[r]) /\ v.link = t.link /\ v \in Tunnels
    BY <1>2, <2>2, <2>3, <2>4, IgnoredOk DEF TunnelOk
  <2>6. v.ws = t.ws /\ v.down = t.down
    BY <1>2, <2>4 DEF Tunnels
  <2>7. CASE t.ws = "open"
    <3>1. PICK yes \in BOOLEAN, no \in BOOLEAN, ws \in {"closing", "closed"} :
            yes = TRUE /\ no = FALSE /\ ws = "closed"
      OBVIOUS
    <3>2. PICK w : w = [v EXCEPT !.ws = ws, !.down = Put(v, @, CloseFrame(yes, no))]
      OBVIOUS
    <3>3. w \in Tunnels /\ SameUp(v, w) /\ DownOk(w, stage[r])
      BY <2>2, <2>5, <2>6, <2>7, <3>1, <3>2, CloseFrameOk
    <3>4. TunnelOk(w, stage[r]) /\ w.link # "none"
      BY <2>2, <2>5, <3>3, SameUpOk DEF TunnelOk, SameUp
    <3>5. Put(v, v.down, CloseFrame(yes, no)) = Put(t, t.down, CloseFrame(TRUE, FALSE))
      BY <2>5, <2>6, <3>1 DEF Put
    <3>6. w = u
      BY <1>2, <2>1, <2>3, <2>4, <2>6, <2>7, <3>1, <3>2, <3>5 DEF Tunnels
    <3> QED
      BY <1>12, <2>2, <3>4, <3>6
  <2>8. CASE t.ws # "open"
    <3>1. PICK w : w = [v EXCEPT !.ws = "closed"]
      OBVIOUS
    <3>0. v.ws # "open" /\ v.link # "none" /\ TunnelOk(v, stage[r])
      BY <2>2, <2>5, <2>6, <2>8
    <3>2. TunnelOk(w, stage[r]) /\ w.link # "none"
      BY <3>0, <3>1, WsClosedOk
    <3>3. w = u
      BY <1>2, <2>1, <2>3, <2>4, <2>8, <3>1 DEF Tunnels
    <3> QED
      BY <1>12, <2>2, <3>2, <3>3
  <2> QED
    BY <2>7, <2>8
<1>14. CASE WsCloses(r)
  <2>1. PICK u : u = [t EXCEPT !.ws = "closed", !.link = "broken", !.up = <<>>, !.down = <<>>]
    OBVIOUS
  <2>2. /\ t.link # "none"
        /\ IF stage[r] = "relaying" THEN Finish(r, u, TRUE, FALSE)
                                    ELSE Becomes(r, u) /\ UNCHANGED vars
    BY <1>1, <1>14, <2>1 DEF WsCloses, Follows
  <2>3. PICK v : v = [t EXCEPT !.link = "broken", !.up = <<>>, !.down = <<>>]
    OBVIOUS
  <2>4. TunnelOk(v, stage[r]) /\ v.link # "none"
    BY <1>2, <2>2, <2>3, BrokenOk
  <2>5. v.link = "broken" /\ v.down = <<>>
    BY <1>2, <2>3 DEF Tunnels
  <2>6. PICK w : w = [v EXCEPT !.ws = "closed"]
    OBVIOUS
  <2>7. TunnelOk(w, stage[r]) /\ w.link # "none"
    BY <2>4, <2>5, <2>6, WsClosedOk
  <2>8. w = u
    BY <1>2, <2>1, <2>3, <2>6 DEF Tunnels
  <2> QED
    BY <1>12, <2>2, <2>7, <2>8
<1> QED
  BY <1>3, <1>4, <1>5, <1>6, <1>7, <1>8, <1>9, <1>10, <1>11, <1>13, <1>14 DEF RelayStep

\* A step of another handler, or of one whose relay is not running, does not move
\* a tunnel that is open.
LEMMA UpgradeStepKeeps ==
  ASSUME ConnectorInv, TunnelInv, NEW r \in Requests, UpgradeStep(r), UNCHANGED tunnel
  PROVE  TunnelInv'
<1>1. \A q \in Requests : q # r => stage'[q] = stage[q]
  <2>1. CASE Arrive(r) \/ Unauthorized(r) \/ Replayed(r) \/ Upgrade(r)
    BY <2>1 DEF Arrive, Unauthorized, Replayed, Upgrade, Admit, Reject, ConnectorInv, TypeOK
  <2>2. CASE ClientLeaves(r) \/ ClientGone(r) \/ Resolves(r) \/ Deadline(r)
    BY <2>2 DEF ClientLeaves, ClientGone, Resolves, Deadline, GiveUp, ConnectorInv, TypeOK
  <2>3. CASE TcpOpens(r) \/ TcpFails(r) \/ Abandon(r) \/ Relay(r) \/ RelayEnds(r)
    BY <2>3 DEF TcpOpens, TcpFails, Abandon, Relay, RelayEnds, GiveUp, ConnectorInv, TypeOK
  <2> QED
    BY <2>1, <2>2, <2>3 DEF UpgradeStep
<1>2. r \in DOMAIN tunnel /\ stage[r] \in {"relaying", "over"} => stage'[r] = stage[r]
  <2> SUFFICES ASSUME r \in DOMAIN tunnel, stage[r] \in {"relaying", "over"}
               PROVE  stage'[r] = stage[r]
    OBVIOUS
  <2>1. CASE Arrive(r) \/ Unauthorized(r) \/ Replayed(r) \/ Upgrade(r) \/ Abandon(r)
    BY <2>1 DEF Arrive, Unauthorized, Replayed, Upgrade, Abandon
  <2>2. CASE ClientLeaves(r) \/ ClientGone(r) \/ Resolves(r) \/ Deadline(r)
    BY <2>2 DEF ClientLeaves, ClientGone, Resolves, Deadline, Pending, Awaiting
  <2>3. CASE TcpOpens(r) \/ TcpFails(r)
    BY <2>3 DEF TcpOpens, TcpFails
  <2> QED
    BY <2>1, <2>2, <2>3 DEF UpgradeStep
<1>4. r \in DOMAIN tunnel /\ stage[r] # "relaying" => stage'[r] # "relaying"
  <2> SUFFICES ASSUME r \in DOMAIN tunnel, stage[r] # "relaying"
               PROVE  stage'[r] # "relaying"
    OBVIOUS
  <2>1. CASE Arrive(r) \/ Unauthorized(r) \/ Replayed(r) \/ Upgrade(r)
    BY <2>1 DEF Arrive, Unauthorized, Replayed, Upgrade, Admit, Reject, ConnectorInv, TypeOK
  <2>2. CASE ClientLeaves(r) \/ ClientGone(r) \/ Resolves(r) \/ Deadline(r)
    BY <2>2 DEF ClientLeaves, ClientGone, Resolves, Deadline, GiveUp, ConnectorInv, TypeOK
  <2>3. CASE TcpOpens(r) \/ TcpFails(r) \/ Abandon(r)
    BY <2>3 DEF TcpOpens, TcpFails, Abandon, GiveUp, ConnectorInv, TypeOK
  <2> QED
    BY <2>1, <2>2, <2>3 DEF UpgradeStep
<1>3. ASSUME NEW q \in DOMAIN tunnel PROVE TunnelOk(tunnel[q], stage'[q])
  <2>1. CASE tunnel[q].link = "none"
    <3>1. tunnel[q] = Unopened /\ stage[q] # "relaying" /\ q \in Requests
      BY <2>1 DEF TunnelInv, TunnelOk
    <3> QED
      BY <1>1, <1>4, <3>1, StartedOk
  <2>2. CASE tunnel[q].link # "none"
    <3>1. q \in Requests /\ stage[q] \in {"relaying", "over"}
      BY <2>2 DEF TunnelInv, TunnelOk
    <3>2. stage'[q] = stage[q]
      BY <1>1, <1>2, <3>1
    <3> QED
      BY <3>2 DEF TunnelInv
  <2> QED
    BY <2>1, <2>2
<1> QED
  BY <1>3 DEF TunnelInv

LEMMA ShutdownAllKeeps ==
  ASSUME TunnelInv, ShutdownAll
  PROVE  TunnelInv'
<1>1. stage' = stage
  BY DEF ShutdownAll, Shutdown, upgradeVars
<1>2. DOMAIN tunnel' = DOMAIN tunnel
  BY DEF ShutdownAll
<1>3. ASSUME NEW r \in DOMAIN tunnel PROVE TunnelOk(tunnel'[r], stage[r])
  <2>1. PICK t : t = tunnel[r]
    OBVIOUS
  <2>2. TunnelOk(t, stage[r])
    BY <2>1 DEF TunnelInv
  <2>3. CASE stage[r] = "relaying" /\ t.ws = "open"
    <3>1. PICK yes \in BOOLEAN, no \in BOOLEAN, ws \in {"closing", "closed"} :
            yes = TRUE /\ no = FALSE /\ ws = "closing"
      OBVIOUS
    <3>2. PICK u : u = [t EXCEPT !.ws = ws, !.down = Put(t, @, CloseFrame(yes, no))]
      OBVIOUS
    <3>3. tunnel'[r] = u
      BY <2>1, <2>3, <3>1, <3>2 DEF ShutdownAll
    <3>4. t.link # "none"
      BY <2>2, <2>3 DEF TunnelOk
    <3>5. u \in Tunnels /\ SameUp(t, u) /\ DownOk(u, stage[r])
      BY <2>2, <2>3, <3>1, <3>2, <3>4, CloseFrameOk
    <3>6. TunnelOk(u, stage[r])
      BY <2>2, <3>4, <3>5, SameUpOk DEF TunnelOk, SameUp
    <3> QED
      BY <3>3, <3>6
  <2>4. CASE ~(stage[r] = "relaying" /\ t.ws = "open")
    BY <2>1, <2>2, <2>4 DEF ShutdownAll
  <2> QED
    BY <2>3, <2>4
<1> QED
  BY <1>1, <1>2, <1>3 DEF TunnelInv

-----------------------------------------------------------------------------
\* A step of the tunnels is a step of the Connector, or none of its.
LEMMA TunnelStepIsConnectorStep ==
  ASSUME ConnectorInv, TunnelInv, [TunnelNext]_tunnelVars
  PROVE  [Next]_vars
<1>1. ASSUME NEW r \in Requests, UpgradeStep(r)
      PROVE  Next
  BY <1>1 DEF UpgradeStep, Next, Handle
<1>2. ASSUME NEW r \in DOMAIN tunnel, WorkerStep(r)
      PROVE  UNCHANGED vars
  BY <1>2 DEF WorkerStep, Write, Send, WriteFails, CloseTransport, CloseTimesOut, Receive,
              Read, Break, HearBreak
<1>3. ASSUME NEW r \in DOMAIN tunnel, RelayStep(r)
      PROVE  [Next]_vars
  <2>1. r \in Requests
    BY DEF TunnelInv
  <2>2. CASE Start(r) \/ TargetEnds(r) \/ RelayFails(r) \/ RelayTimesOut(r)
    <3>1. Relay(r) \/ RelayEnds(r)
      BY <2>2 DEF Start, TargetEnds, RelayFails, RelayTimesOut, Finish
    <3> QED
      BY <2>1, <3>1 DEF Next, Handle
  <2>3. CASE Message(r) \/ TargetReads(r) \/ Drain(r) \/ TargetSends(r) \/ Flushed(r)
    BY <2>3 DEF Message, TargetReads, Drain, TargetSends, Flushed
  <2>4. CASE HearClose(r) \/ WsCloses(r)
    <3>1. RelayEnds(r) \/ UNCHANGED vars
      BY <2>4 DEF HearClose, WsCloses, Finish
    <3> QED
      BY <2>1, <3>1 DEF Next, Handle
  <2> QED
    BY <1>3, <2>2, <2>3, <2>4 DEF RelayStep
<1>4. ShutdownAll => Next
  BY DEF ShutdownAll, Next
<1> QED
  BY <1>1, <1>2, <1>3, <1>4 DEF TunnelNext, tunnelVars, vars, Next

LEMMA TunnelInvInit == TunnelInit => TunnelInv
<1> SUFFICES ASSUME TunnelInit PROVE TunnelInv
  OBVIOUS
<1>1. PICK f \in Followed : tunnel = [r \in f |-> Unopened]
  BY DEF TunnelInit
<1>2. f \subseteq Requests
  BY TunnelAssumption
<1>3. \A r \in f : tunnel[r] = Unopened /\ stage[r] = "absent"
  BY <1>1, <1>2 DEF TunnelInit, Init
<1> QED
  BY <1>1, <1>2, <1>3, StartedOk DEF TunnelInv

LEMMA TunnelInvKept ==
  ASSUME ConnectorInv, TunnelInv, [TunnelNext]_tunnelVars
  PROVE  TunnelInv'
<1>1. ASSUME NEW r \in Requests, UpgradeStep(r), UNCHANGED tunnel
      PROVE  TunnelInv'
  BY <1>1, UpgradeStepKeeps
<1>2. ASSUME NEW r \in DOMAIN tunnel, WorkerStep(r) \/ RelayStep(r)
      PROVE  TunnelInv'
  BY <1>2, WorkerStepKeeps, RelayStepKeeps
<1>3. CASE ShutdownAll
  BY <1>3, ShutdownAllKeeps
<1>4. CASE UNCHANGED <<stage, tunnel>>
  BY <1>4 DEF TunnelInv
<1>5. (\E n \in Nonces : Sign(n)) /\ UNCHANGED tunnel => UNCHANGED <<stage, tunnel>>
  BY DEF Sign, upgradeVars
<1>6. Tick /\ UNCHANGED tunnel => UNCHANGED <<stage, tunnel>>
  BY DEF Tick, upgradeVars
<1>7. UNCHANGED tunnelVars => UNCHANGED <<stage, tunnel>>
  BY DEF tunnelVars, vars
<1> QED
  BY <1>1, <1>2, <1>3, <1>4, <1>5, <1>6, <1>7 DEF TunnelNext

LEMMA TunnelInvHolds == TunnelSpec => [](ConnectorInv /\ TunnelInv)
<1>1. TunnelInit => ConnectorInv /\ TunnelInv
  BY ConnectorInvInit, TunnelInvInit DEF TunnelInit
<1>2. ConnectorInv /\ TunnelInv /\ [TunnelNext]_tunnelVars => ConnectorInv' /\ TunnelInv'
  BY TunnelStepIsConnectorStep, TunnelInvKept, ConnectorInvKept
<1> QED
  BY <1>1, <1>2, PTL DEF TunnelSpec

\* The Connector with its tunnels behaves as the Connector: what is proved of Spec
\* holds with the relays, their frames and their ends as well.
THEOREM TunnelImplementsConnector == TunnelSpec => Spec
<1>1. TunnelInit => Init
  BY DEF TunnelInit
<1>2. ConnectorInv /\ TunnelInv /\ [TunnelNext]_tunnelVars => [Next]_vars
  BY TunnelStepIsConnectorStep
<1> QED
  BY <1>1, <1>2, TunnelInvHolds, PTL DEF TunnelSpec, Spec

\* Neither direction of a tunnel loses, repeats or swaps a chunk in the middle, what
\* waits is bounded, and the target's end is not a truncation.
THEOREM TunnelCarriesExactly == TunnelSpec => []TunnelIsExact
<1>1. ConnectorInv /\ TunnelInv => TunnelIsExact
  <2> SUFFICES ASSUME TunnelInv, NEW r \in DOMAIN tunnel, NEW t, t = tunnel[r]
               PROVE  /\ InOrder(t.arrived) /\ Len(t.arrived) <= t.sent
                      /\ InOrder(t.read) /\ Len(t.read) <= t.taken
                      /\ Len(t.buffered) <= HighWater
                      /\ t.targetClosed /\ ~t.destroyed /\ t.closing = "none" =>
                           Len(t.read) = t.taken
    BY DEF TunnelIsExact
  <2>1. t \in Tunnels /\ UpOk(t, stage[r]) /\ DownOk(t, stage[r])
    BY DEF TunnelInv, TunnelOk
  <2>2. Len(t.arrived) <= t.sent
    <3>1. Relayed(t) =< t.sent /\ Relayed(t) = Len(t.arrived) + Len(t.buffered)
      BY <2>1 DEF UpOk, Relayed
    <3>2. Len(t.arrived) \in Nat /\ Len(t.buffered) \in Nat /\ t.sent \in Nat
      BY <2>1, Lengths
    <3>3. PICK a \in Nat, b \in Nat, c \in Nat :
            a = Len(t.arrived) /\ b = Len(t.buffered) /\ c = t.sent
      BY <3>2
    <3>4. a + b =< c => a =< c
      BY ONLY TRUE
    <3> QED
      BY <3>1, <3>3, <3>4
  <2> QED
    BY <2>1, <2>2 DEF UpOk, DownOk, Unended
<1> QED
  BY <1>1, TunnelInvHolds, PTL
=============================================================================
