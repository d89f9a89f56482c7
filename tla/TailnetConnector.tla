-------------------------- MODULE TailnetConnector --------------------------
(***************************************************************************)
(* The Tailnet Connector (apps/tailnet-connector/src/server.ts, auth.ts):  *)
(* WebSocket upgrades that are authenticated, reserve one of a limited     *)
(* number of connections, resolve and dial a target, and are then relayed. *)
(*                                                                         *)
(* Each await of handleUpgrade is a stage; what it awaits is raced against *)
(* the client's departure and a common deadline.  Every event that ends a  *)
(* relay is RelayEnds here; Tunnel has what a relay carries.               *)
(***************************************************************************)
EXTENDS Naturals, FiniteSets

CONSTANTS Requests,        \* upgrade requests
          Nonces,          \* one per handshake the Worker signs
          MaxConnections,  \* config.maxConnections
          Window,          \* authWindowMs + MAX_CLOCK_SKEW_MS, in ticks
          Horizon          \* bound: the clock stops here

ASSUME ConnectorAssumption ==
  MaxConnections \in Nat \ {0} /\ Window \in Nat /\ Horizon \in Nat

VARIABLES
  now,          \* the Connector's clock
  expiry,       \* of the handshakes signed so far, by nonce
  cache,        \* NonceReplayCache: the nonces it remembers
  presented,    \* the nonces each request was authenticated with
  stage,        \* where handleUpgrade is
  client,       \* the upgrade socket
  tcp,          \* the socket to the target
  reserved,     \* reservedConnections
  stopping      \* SIGTERM was received

authVars == <<now, expiry, cache, presented>>
upgradeVars == <<stage, client, tcp, reserved>>
vars == <<now, expiry, cache, presented, stage, client, tcp, reserved, stopping>>

Awaiting == {"resolving", "dialing"}
Pending == Awaiting \cup {"connected"}
Signed == DOMAIN expiry

-----------------------------------------------------------------------------
\* The Worker signs a handshake; its clock may be ahead or behind.
Sign(n) ==
  /\ n \notin Signed
  /\ \E until \in now..(now + Window + 1) :
       expiry' = [m \in Signed \cup {n} |-> IF m = n THEN until ELSE expiry[m]]
  /\ UNCHANGED <<now, cache, presented, stopping, upgradeVars>>

\* Faulty variant of Remembered: a nonce is forgotten in its last instant.
RememberedExclusive == {n \in cache : expiry[n] > now}

\* consume() first forgets the nonces whose handshakes have expired.
Remembered == {n \in cache : expiry[n] >= now}

\* authenticateUpgrade: the handshake is in its window and not a replay.
Authentic(n) ==
  /\ n \in Signed
  /\ expiry[n] >= now /\ expiry[n] <= now + Window
  /\ n \notin Remembered

Reject(r) ==
  /\ stage' = [stage EXCEPT ![r] = "over"]
  /\ UNCHANGED <<client, tcp, reserved>>

\* A connection is accepted and an upgrade request is read from it.
Arrive(r) ==
  /\ stage[r] = "absent"
  /\ ~stopping
  /\ stage' = [stage EXCEPT ![r] = "new"]
  /\ UNCHANGED <<authVars, client, tcp, reserved, stopping>>

\* Wrong path, bad headers, bad signature, outside the window: 404 or 401; the
\* cache is not looked at.
Unauthorized(r) ==
  /\ stage[r] = "new"
  /\ Reject(r)
  /\ UNCHANGED <<authVars, stopping>>

\* A replay is refused, but the cache has been pruned.
Replayed(r) ==
  /\ stage[r] = "new"
  /\ \E n \in Signed : expiry[n] >= now /\ expiry[n] <= now + Window /\ n \in Remembered
  /\ Reject(r)
  /\ cache' = Remembered
  /\ UNCHANGED <<now, expiry, presented, stopping>>

\* A connection is reserved, or the limit is reached: 503.
Admit(r) ==
  IF reserved >= MaxConnections
  THEN Reject(r)
  ELSE /\ reserved' = reserved + 1
       /\ stage' = [stage EXCEPT ![r] = "resolving"]
       /\ UNCHANGED <<client, tcp>>

\* handleUpgrade up to its first await.
Upgrade(r) ==
  /\ stage[r] = "new"
  /\ \E n \in Nonces :
       /\ Authentic(n)
       /\ cache' = Remembered \cup {n}
       /\ presented' = [presented EXCEPT ![r] = {n}]
  /\ Admit(r)
  /\ UNCHANGED <<now, expiry, stopping>>

-----------------------------------------------------------------------------
(* The awaits.                                                             *)

\* releasePending, and the handler returns.
GiveUp(r) ==
  /\ stage' = [stage EXCEPT ![r] = "over"]
  /\ reserved' = reserved - 1

\* The client's socket closes, ends or fails while the upgrade is pending.
ClientLeaves(r) ==
  /\ stage[r] \in Pending
  /\ client[r] = "there"
  /\ client' = [client EXCEPT ![r] = "gone"]
  /\ UNCHANGED <<authVars, stage, tcp, reserved, stopping>>

\* The departure wins the race: the upgrade socket is destroyed.
ClientGone(r) ==
  /\ stage[r] \in Awaiting
  /\ client[r] = "gone"
  /\ GiveUp(r)
  /\ UNCHANGED <<authVars, client, tcp, stopping>>

\* The target is verified and dialed, or it is refused: 403.
Resolves(r) ==
  /\ stage[r] = "resolving"
  /\ \/ /\ stage' = [stage EXCEPT ![r] = "dialing"]
        /\ tcp' = [tcp EXCEPT ![r] = "connecting"]
        /\ UNCHANGED reserved
     \/ GiveUp(r) /\ UNCHANGED tcp
  /\ UNCHANGED <<authVars, client, stopping>>

\* The deadline of both awaits: 504.
Deadline(r) ==
  /\ stage[r] \in Awaiting
  /\ GiveUp(r)
  /\ UNCHANGED <<authVars, client, tcp, stopping>>

\* Faulty variant of TcpOpens: a late socket is kept.
TcpOpensKept(r) ==
  /\ tcp[r] = "connecting"
  /\ tcp' = [tcp EXCEPT ![r] = "open"]
  /\ stage' = [stage EXCEPT ![r] = IF @ = "dialing" THEN "connected" ELSE @]
  /\ UNCHANGED <<authVars, client, reserved, stopping>>

\* The target answers; a socket nobody waits for any more is destroyed.
TcpOpens(r) ==
  /\ tcp[r] = "connecting"
  /\ \/ /\ stage[r] = "dialing"
        /\ tcp' = [tcp EXCEPT ![r] = "open"]
        /\ stage' = [stage EXCEPT ![r] = "connected"]
     \/ /\ stage[r] = "over"
        /\ tcp' = [tcp EXCEPT ![r] = "destroyed"]
        /\ UNCHANGED stage
  /\ UNCHANGED <<authVars, client, reserved, stopping>>

\* No address answers: 502, if the handler still waits.
TcpFails(r) ==
  /\ tcp[r] = "connecting"
  /\ tcp' = [tcp EXCEPT ![r] = "destroyed"]
  /\ \/ stage[r] = "dialing" /\ GiveUp(r)
     \/ stage[r] = "over" /\ UNCHANGED <<stage, reserved>>
  /\ UNCHANGED <<authVars, client, stopping>>

\* The client has left meanwhile, or its upgrade is malformed.
Abandon(r) ==
  /\ stage[r] = "connected"
  /\ GiveUp(r)
  /\ tcp' = [tcp EXCEPT ![r] = "destroyed"]
  /\ UNCHANGED <<authVars, client, stopping>>

\* webSockets.handleUpgrade accepts: the reservation passes to the relay.
Relay(r) ==
  /\ stage[r] = "connected"
  /\ client[r] = "there"
  /\ stage' = [stage EXCEPT ![r] = "relaying"]
  /\ UNCHANGED <<authVars, client, tcp, reserved, stopping>>

\* Faulty variant of RelayEnds: each event that ends a relay releases it.
RelayEndsAgain(r) ==
  /\ stage[r] = "relaying" \/ (stage[r] = "over" /\ client[r] = "closed" /\ reserved > 0)
  /\ GiveUp(r)
  /\ tcp' = [tcp EXCEPT ![r] = "destroyed"]
  /\ client' = [client EXCEPT ![r] = "closed"]
  /\ UNCHANGED <<authVars, stopping>>

\* finish(): either side closes or fails, the idle or the maximum timer fires,
\* a frame is not binary, too much is buffered.  Later events find it finished.
RelayEnds(r) ==
  /\ stage[r] = "relaying"
  /\ GiveUp(r)
  /\ tcp' = [tcp EXCEPT ![r] = "destroyed"]
  /\ client' = [client EXCEPT ![r] = "closed"]
  /\ UNCHANGED <<authVars, stopping>>

-----------------------------------------------------------------------------
\* close(): the server accepts no more connections and asks the active relays to
\* end; a request that is read or pending now may still become a relay.
Shutdown ==
  /\ ~stopping
  /\ stopping' = TRUE
  /\ UNCHANGED <<authVars, upgradeVars>>

Tick ==
  /\ now < Horizon
  /\ now' = now + 1
  /\ UNCHANGED <<expiry, cache, presented, stopping, upgradeVars>>

Init ==
  /\ now = 0
  /\ expiry = [n \in {} |-> 0]
  /\ cache = {}
  /\ presented = [r \in Requests |-> {}]
  /\ stage = [r \in Requests |-> "absent"]
  /\ client = [r \in Requests |-> "there"]
  /\ tcp = [r \in Requests |-> "none"]
  /\ reserved = 0
  /\ stopping = FALSE

Handle(r) ==
  \/ Arrive(r) \/ Unauthorized(r) \/ Replayed(r) \/ Upgrade(r)
  \/ ClientLeaves(r) \/ ClientGone(r) \/ Resolves(r) \/ Deadline(r)
  \/ TcpOpens(r) \/ TcpFails(r) \/ Abandon(r) \/ Relay(r) \/ RelayEnds(r)

Next ==
  \/ \E r \in Requests : Handle(r)
  \/ \E n \in Nonces : Sign(n)
  \/ Shutdown
  \/ Tick

Spec == Init /\ [][Next]_vars

-----------------------------------------------------------------------------
Holding == {r \in Requests : stage[r] \in Pending \cup {"relaying"}}

TypeOK ==
  /\ now \in 0..Horizon
  /\ Signed \subseteq Nonces /\ cache \subseteq Signed
  /\ presented \in [Requests -> SUBSET Signed]
  /\ stage \in [Requests -> {"absent", "new", "relaying", "over"} \cup Pending]
  /\ client \in [Requests -> {"there", "gone", "closed"}]
  /\ tcp \in [Requests -> {"none", "connecting", "open", "destroyed"}]
  /\ reserved \in 0..MaxConnections
  /\ stopping \in BOOLEAN

(***************************************************************************)
(* reservedConnections counts exactly the upgrades that are pending and    *)
(* the relays that run: none is counted twice or given back twice on any   *)
(* of the handler's exits, so the limit neither leaks nor is exceeded.     *)
(***************************************************************************)
ReservationsExact ==
  /\ reserved = Cardinality(Holding)
  /\ reserved <= MaxConnections

(***************************************************************************)
(* An open target socket belongs to a handler that will pass it on or to a *)
(* running relay, also when it opens after the deadline or the client's    *)
(* departure.                                                              *)
(***************************************************************************)
NoOrphanSocket ==
  \A r \in Requests : tcp[r] = "open" <=> stage[r] \in {"connected", "relaying"}

(***************************************************************************)
(* One handshake authenticates one upgrade, whatever the clocks and in the *)
(* very instant it expires, although expired nonces are forgotten.         *)
(***************************************************************************)
NonceOnce ==
  \A r1, r2 \in Requests : r1 # r2 => presented[r1] \cap presented[r2] = {}

\* A pending upgrade is answered, and every target socket settles.
UpgradeEnds ==
  \A r \in Requests :
    /\ stage[r] \in Pending ~> stage[r] \in {"relaying", "over"}
    /\ tcp[r] = "connecting" ~> tcp[r] # "connecting"

(***************************************************************************)
(* After SIGTERM the Connector runs empty, even if upgrades were pending   *)
(* then and became relays that close() has not asked to end.               *)
(***************************************************************************)
DrainEnds == stopping ~> reserved = 0

\* Every upgrade ends, and the Connector stops when it is told to.
ConnectorSettles == UpgradeEnds /\ DrainEnds
=============================================================================
