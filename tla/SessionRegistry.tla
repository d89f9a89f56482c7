-------------------------- MODULE SessionRegistry --------------------------
(***************************************************************************)
(* The Durable Object that counts one owner's SSH sessions,                *)
(* apps/worker/src/durable/ssh-session-registry.ts.  It keeps a record of  *)
(* leases (session id -> expiry time) in storage, and one storage alarm    *)
(* that prunes what has expired.  Every request is one storage             *)
(* transaction, so every request is one action here.                       *)
(*                                                                         *)
(* Time is the integer clock now.  It may advance past an armed alarm:     *)
(* the platform delivers an alarm at its time or later.                    *)
(***************************************************************************)
EXTENDS Integers, FiniteSets

CONSTANTS Sessions,     \* session ids of the owner this object serves
          Maximum,      \* "maximum" in the acquire requests
          Ttl           \* SSH_SESSION_LEASE_TTL_MS

\* fetch answers 400 to a maximum that is not an integer in 1..20.
ASSUME MaximumAssumption == Maximum \in 1..20
ASSUME TtlAssumption == Ttl \in Nat \ {0}

VARIABLES leases,       \* stored lease record: a function on the lease holders
          alarmAt,      \* time of the storage alarm, or NoAlarm
          now           \* Date.now()

vars == <<leases, alarmAt, now>>

NoAlarm == -1
NoLeases == [s \in {} |-> 0]

\* freshLeases: the entries of a lease record that have not expired at time t.
FreshHolders(l, t) == {s \in DOMAIN l : l[s] > t}
Fresh(l, t) == [s \in FreshHolders(l, t) |-> l[s]]

\* leases[sessionId] = now + ttlMs, and delete leases[sessionId].
Extend(l, s, t) ==
  [x \in DOMAIN l \cup {s} |-> IF x = s THEN t + Ttl ELSE l[x]]
Drop(l, s) == [x \in DOMAIN l \ {s} |-> l[x]]

\* Faulty variant of CanAcquire: off by one at the limit.
CanAcquireOneMore(s) ==
  \/ s \in FreshHolders(leases, now)
  \/ Cardinality(FreshHolders(leases, now)) <= Maximum

\* acquireSessionLease refuses a session without a lease when the pool is full.
CanAcquire(s) ==
  \/ s \in FreshHolders(leases, now)
  \/ Cardinality(FreshHolders(leases, now)) < Maximum

\* renewSessionLease refuses a session whose lease is gone.
CanRenew(s) == s \in FreshHolders(leases, now)

-----------------------------------------------------------------------------
\* Faulty variant of Store: setAlarm and deleteAlarm are forgotten.
StoreWithoutAlarm(l) == leases' = l /\ UNCHANGED alarmAt

(***************************************************************************)
(* Every transaction ends the same way: store the pruned record and arm    *)
(* the alarm for the earliest expiry (result.nextAlarm), or delete both    *)
(* when no lease is left.                                                  *)
(***************************************************************************)
Store(l) ==
  /\ leases' = l
  /\ \/ /\ DOMAIN l = {}
        /\ alarmAt' = NoAlarm
     \/ \E s \in DOMAIN l :
          /\ \A x \in DOMAIN l : l[s] <= l[x]
          /\ alarmAt' = l[s]

Acquire(s) ==
  /\ CanAcquire(s)
  /\ Store(Extend(Fresh(leases, now), s, now))
  /\ UNCHANGED now

Renew(s) ==
  /\ CanRenew(s)
  /\ Store(Extend(Fresh(leases, now), s, now))
  /\ UNCHANGED now

\* A refused request answers 409; it has still pruned the stored record.
RefuseAcquire(s) ==
  /\ ~CanAcquire(s)
  /\ Store(Fresh(leases, now))
  /\ UNCHANGED now

RefuseRenew(s) ==
  /\ ~CanRenew(s)
  /\ Store(Fresh(leases, now))
  /\ UNCHANGED now

Release(s) ==
  /\ Store(Drop(Fresh(leases, now), s))
  /\ UNCHANGED now

\* alarm(): the platform has cleared the alarm when the handler runs.
Alarm ==
  /\ alarmAt # NoAlarm
  /\ alarmAt <= now
  /\ Store(Fresh(leases, now))
  /\ UNCHANGED now

Tick ==
  /\ now' = now + 1
  /\ UNCHANGED <<leases, alarmAt>>

Init ==
  /\ leases = NoLeases
  /\ alarmAt = NoAlarm
  /\ now = 0

Request(s) ==
  \/ Acquire(s) \/ RefuseAcquire(s)
  \/ Renew(s) \/ RefuseRenew(s)
  \/ Release(s)

Next ==
  \/ \E s \in Sessions : Request(s)
  \/ Alarm
  \/ Tick

Spec == Init /\ [][Next]_vars

-----------------------------------------------------------------------------
\* The record maps some session ids to expiry times.
TypeOK ==
  /\ DOMAIN leases \subseteq Sessions
  /\ leases \in [DOMAIN leases -> Nat]
  /\ alarmAt \in Nat \cup {NoAlarm}
  /\ now \in Nat

(***************************************************************************)
(* The limit: whatever order acquires, renewals, releases, alarms and      *)
(* expiries come in, the stored record never has more than Maximum         *)
(* entries, expired leftovers included.                                    *)
(***************************************************************************)
WithinLimit ==
  /\ IsFiniteSet(DOMAIN leases)
  /\ Cardinality(DOMAIN leases) <= Maximum

(***************************************************************************)
(* The alarm is armed for the earliest expiry exactly when some lease is   *)
(* stored, so no lease can be left in storage with nothing to prune it.    *)
(***************************************************************************)
AlarmCoversLeases ==
  /\ DOMAIN leases = {} <=> alarmAt = NoAlarm
  /\ \A s \in DOMAIN leases : alarmAt <= leases[s]
  /\ DOMAIN leases # {} => \E s \in DOMAIN leases : alarmAt = leases[s]

(***************************************************************************)
(* A slot that leaks (its release was lost, its holder crashed) is blocked *)
(* for at most one time to live, however often it was renewed before.      *)
(***************************************************************************)
ExpiryIsBounded == \A s \in DOMAIN leases : leases[s] <= now + Ttl

(***************************************************************************)
(* A session that holds an unexpired lease loses it only by its own        *)
(* release: no other session's request and no alarm evicts it, and no      *)
(* request ever shortens it.                                               *)
(***************************************************************************)
NoEviction ==
  [][\A s \in FreshHolders(leases, now) :
        \/ s \in DOMAIN leases' /\ leases'[s] >= leases[s]
        \/ Release(s)]_vars

(***************************************************************************)
(* The alarm handler never arms an alarm that is already due, so pruning   *)
(* at the boundary expiresAt = now cannot re-trigger itself.               *)
(***************************************************************************)
AlarmMakesProgress == [][Alarm => alarmAt' = NoAlarm \/ alarmAt' > now]_vars

(***************************************************************************)
(* The registry implements the abstract pool: its holders are the          *)
(* sessions whose lease has not expired.                                   *)
(***************************************************************************)
Holders == FreshHolders(leases, now)
Pool == INSTANCE SessionLimit WITH holders <- Holders
ImplementsPool == Pool!Spec
=============================================================================
