------------------------- MODULE LeaseRenewalProofs -------------------------
(***************************************************************************)
(* Proofs about the session registry and lease renewal.                    *)
(*                                                                         *)
(* The registry, for any set of sessions, any limit in 1..20 and any time  *)
(* to live: everything follows from what the three ways to build the next  *)
(* record (prune, extend, drop) do to the set of unexpired holders.        *)
(*                                                                         *)
(* Renewal, for any sets of sessions and any delays that are Timely: a     *)
(* live session always holds an unexpired lease, so the number of live     *)
(* sessions never exceeds the owner's limit.  A step of one session        *)
(* changes nothing the invariant says of another one (Same, OthersKeep);   *)
(* so each action is proved for the session that acts.                     *)
(***************************************************************************)
EXTENDS LeaseRenewal, FiniteSetTheorems, TLAPS


\* A lease record: some sessions, each with an expiry time.
IsRecord(l) == DOMAIN l \subseteq Sessions /\ l \in [DOMAIN l -> Nat]

-----------------------------------------------------------------------------
\* freshLeases keeps exactly the unexpired entries, unchanged.
LEMMA FreshFacts ==
  ASSUME NEW l, IsRecord(l), NEW t \in Nat
  PROVE  /\ IsRecord(Fresh(l, t))
         /\ DOMAIN Fresh(l, t) = FreshHolders(l, t)
         /\ FreshHolders(l, t) \subseteq DOMAIN l
         /\ FreshHolders(Fresh(l, t), t) = FreshHolders(l, t)
         /\ \A s \in FreshHolders(l, t) : Fresh(l, t)[s] = l[s] /\ l[s] > t
BY DEF IsRecord, Fresh, FreshHolders

\* Whatever record is stored, the alarm is armed for its earliest expiry.
LEMMA StoreArmsAlarm ==
  ASSUME NEW l, IsRecord(l), Store(l)
  PROVE  /\ leases' = l
         /\ alarmAt' \in Nat \cup {NoAlarm}
         /\ AlarmCoversLeases'
         /\ alarmAt' = NoAlarm \/ \E s \in DOMAIN l : alarmAt' = l[s]
BY DEF Store, IsRecord, AlarmCoversLeases, NoAlarm

-----------------------------------------------------------------------------
\* Every step is one of four: the record grows by s, is pruned, loses s, or
\* the clock moves.
Grows(s) ==
  /\ CanAcquire(s)
  /\ Store(Extend(Fresh(leases, now), s, now)) /\ UNCHANGED now
Prunes == Store(Fresh(leases, now)) /\ UNCHANGED now

LEMMA StepKinds ==
  ASSUME Next
  PROVE  \/ \E s \in Sessions : Grows(s)
         \/ Prunes
         \/ \E s \in Sessions : Release(s)
         \/ Tick
BY DEF Next, Request, Acquire, Renew, RefuseAcquire, RefuseRenew, Alarm,
       CanRenew, CanAcquire, Grows, Prunes

\* What each kind of step does to the record, the holders and the alarm.
AlarmFacts == AlarmCoversLeases' /\ alarmAt' \in Nat \cup {NoAlarm}

LEMMA GrowsFacts ==
  ASSUME TypeOK, NEW s \in Sessions, Grows(s)
  PROVE  /\ IsRecord(leases')
         /\ DOMAIN leases' = Holders \cup {s}
         /\ Holders' = Holders \cup {s}
         /\ leases'[s] = now + Ttl
         /\ \A x \in Holders \ {s} : leases'[x] = leases[x]
         /\ now' = now
         /\ AlarmFacts
<1>1. IsRecord(leases) /\ now \in Nat
  BY DEF TypeOK, IsRecord
<1>2. /\ leases' = Extend(Fresh(leases, now), s, now)
      /\ now' = now
      /\ Store(leases')
  BY DEF Grows, Store
<1>3. DOMAIN leases' = Holders \cup {s}
  BY <1>1, <1>2, FreshFacts DEF Extend, Holders
<1>4. leases'[s] = now + Ttl
  BY <1>2 DEF Extend
<1>5. \A x \in Holders \ {s} : leases'[x] = leases[x] /\ leases[x] > now
  BY <1>1, <1>2, FreshFacts DEF Extend, Holders
<1>6. \A x \in DOMAIN leases' : leases'[x] \in Nat /\ leases'[x] > now
  BY <1>1, <1>3, <1>4, <1>5, TtlAssumption DEF IsRecord, Holders, FreshHolders
<1>7. IsRecord(leases')
  <2>1. leases' \in [DOMAIN leases' -> Nat]
    BY <1>2, <1>6 DEF Extend
  <2> QED BY <1>1, <1>3, <2>1 DEF IsRecord, Holders, FreshHolders
<1>8. Holders' = Holders \cup {s}
  BY <1>2, <1>3, <1>6 DEF Holders, FreshHolders
<1> QED BY <1>2, <1>3, <1>4, <1>5, <1>7, <1>8, StoreArmsAlarm DEF AlarmFacts

LEMMA PrunesFacts ==
  ASSUME TypeOK, Prunes
  PROVE  /\ IsRecord(leases')
         /\ DOMAIN leases' = Holders
         /\ Holders' = Holders
         /\ \A x \in Holders : leases'[x] = leases[x]
         /\ now' = now
         /\ AlarmFacts
<1>1. IsRecord(leases) /\ now \in Nat
  BY DEF TypeOK, IsRecord
<1>2. /\ leases' = Fresh(leases, now)
      /\ now' = now
      /\ Store(leases')
  BY DEF Prunes, Store
<1> QED BY <1>1, <1>2, FreshFacts, StoreArmsAlarm DEF Holders, AlarmFacts

LEMMA ReleaseFacts ==
  ASSUME TypeOK, NEW s \in Sessions, Release(s)
  PROVE  /\ IsRecord(leases')
         /\ DOMAIN leases' = Holders \ {s}
         /\ Holders' = Holders \ {s}
         /\ \A x \in Holders \ {s} : leases'[x] = leases[x]
         /\ now' = now
         /\ AlarmFacts
<1>1. IsRecord(leases) /\ now \in Nat
  BY DEF TypeOK, IsRecord
<1>2. /\ leases' = Drop(Fresh(leases, now), s)
      /\ now' = now
      /\ Store(leases')
  BY DEF Release, Store
<1>3. DOMAIN leases' = Holders \ {s}
  BY <1>1, <1>2, FreshFacts DEF Drop, Holders
<1>4. \A x \in Holders \ {s} :
        leases'[x] = leases[x] /\ leases[x] > now /\ leases[x] \in Nat
  BY <1>1, <1>2, FreshFacts DEF Drop, Holders, IsRecord
<1>5. IsRecord(leases')
  <2>1. leases' \in [DOMAIN leases' -> Nat]
    BY <1>2, <1>3, <1>4 DEF Drop
  <2> QED BY <1>1, <1>3, <2>1 DEF IsRecord, Holders, FreshHolders
<1>6. Holders' = Holders \ {s}
  BY <1>2, <1>3, <1>4 DEF Holders, FreshHolders
<1> QED BY <1>2, <1>3, <1>4, <1>5, <1>6, StoreArmsAlarm DEF AlarmFacts

LEMMA TickFacts ==
  ASSUME TypeOK, Tick
  PROVE  leases' = leases /\ now' = now + 1 /\ Holders' \subseteq Holders
BY DEF TypeOK, Tick, Holders, FreshHolders

-----------------------------------------------------------------------------
(* The inductive invariant.                                                *)

RegistryInv == TypeOK /\ WithinLimit /\ AlarmCoversLeases /\ ExpiryIsBounded

LEMMA InvInit == Init => RegistryInv
<1> SUFFICES ASSUME Init PROVE RegistryInv
  OBVIOUS
<1>1. DOMAIN leases = {} /\ leases \in [DOMAIN leases -> Nat]
  BY DEF Init, NoLeases
<1>2. WithinLimit
  BY <1>1, FS_EmptySet, MaximumAssumption DEF WithinLimit
<1> QED BY <1>1, <1>2
    DEF Init, RegistryInv, TypeOK, AlarmCoversLeases, ExpiryIsBounded, NoAlarm

LEMMA KindsKeepInv ==
  ASSUME RegistryInv,
         \/ \E s \in Sessions : Grows(s)
         \/ Prunes
         \/ \E s \in Sessions : Release(s)
         \/ Tick
         \/ UNCHANGED vars
  PROVE  RegistryInv'
<1>0. TypeOK /\ WithinLimit /\ AlarmCoversLeases /\ ExpiryIsBounded
  BY DEF RegistryInv
<1>1. IsRecord(leases) /\ now \in Nat
  BY <1>0 DEF TypeOK, IsRecord
<1>2. /\ Holders \subseteq DOMAIN leases
      /\ IsFiniteSet(Holders)
      /\ Cardinality(Holders) \in Nat
      /\ Cardinality(Holders) <= Maximum
  <2>1. Holders \subseteq DOMAIN leases
    BY DEF Holders, FreshHolders
  <2>2. /\ IsFiniteSet(Holders)
        /\ Cardinality(Holders) <= Cardinality(DOMAIN leases)
    BY <1>0, <2>1, FS_Subset DEF WithinLimit
  <2>3. Cardinality(DOMAIN leases) \in Nat /\ Cardinality(Holders) \in Nat
    BY <1>0, <2>2, FS_CardinalityType DEF WithinLimit
  <2> QED BY <1>0, <2>1, <2>2, <2>3, MaximumAssumption DEF WithinLimit
<1>3. ASSUME NEW s \in Sessions, Grows(s) PROVE RegistryInv'
  <2>1. IsRecord(leases') /\ DOMAIN leases' = Holders \cup {s} /\ now' = now /\ AlarmFacts
    BY <1>0, <1>3, GrowsFacts
  <2>3. ExpiryIsBounded'
    <3>1. /\ leases'[s] = now + Ttl
          /\ \A x \in Holders \ {s} : leases'[x] = leases[x]
      BY <1>0, <1>3, GrowsFacts
    <3> QED BY <1>0, <1>1, <1>2, <2>1, <3>1, TtlAssumption DEF ExpiryIsBounded
  <2>2. WithinLimit'
    <3>1. CASE s \in Holders
      <4>1. DOMAIN leases' = Holders
        BY <2>1, <3>1
      <4> QED BY <1>2, <4>1 DEF WithinLimit
    <3>2. CASE s \notin Holders
      <4>1. Cardinality(Holders) < Maximum
        BY <1>3, <3>2 DEF Grows, CanAcquire, Holders
      <4>2. /\ IsFiniteSet(Holders \cup {s})
            /\ Cardinality(Holders \cup {s}) = Cardinality(Holders) + 1
        BY <1>2, <3>2, FS_AddElement
      <4> QED BY <1>2, <2>1, <4>1, <4>2, MaximumAssumption DEF WithinLimit
    <3> QED BY <3>1, <3>2
  <2> QED BY <1>1, <2>1, <2>2, <2>3 DEF RegistryInv, TypeOK, IsRecord, AlarmFacts
<1>4. ASSUME Prunes PROVE RegistryInv'
  <2>1. IsRecord(leases') /\ DOMAIN leases' = Holders /\ now' = now /\ AlarmFacts
    BY <1>0, <1>4, PrunesFacts
  <2>3. ExpiryIsBounded'
    <3>1. \A x \in Holders : leases'[x] = leases[x]
      BY <1>0, <1>4, PrunesFacts
    <3> QED BY <1>0, <1>2, <2>1, <3>1 DEF ExpiryIsBounded
  <2>2. WithinLimit'
    BY <1>2, <2>1 DEF WithinLimit
  <2> QED BY <1>1, <2>1, <2>2, <2>3 DEF RegistryInv, TypeOK, IsRecord, AlarmFacts
<1>5. ASSUME NEW s \in Sessions, Release(s) PROVE RegistryInv'
  <2>1. IsRecord(leases') /\ DOMAIN leases' = Holders \ {s} /\ now' = now /\ AlarmFacts
    BY <1>0, <1>5, ReleaseFacts
  <2>3. ExpiryIsBounded'
    <3>1. \A x \in Holders \ {s} : leases'[x] = leases[x]
      BY <1>0, <1>5, ReleaseFacts
    <3> QED BY <1>0, <1>2, <2>1, <3>1 DEF ExpiryIsBounded
  <2>2. WithinLimit'
    <3>1. /\ IsFiniteSet(Holders \ {s})
          /\ Cardinality(Holders \ {s}) <= Cardinality(Holders)
          /\ Cardinality(Holders \ {s}) \in Nat
      BY <1>2, FS_Subset, FS_CardinalityType
    <3> QED BY <1>2, <2>1, <3>1, MaximumAssumption DEF WithinLimit
  <2> QED BY <1>1, <2>1, <2>2, <2>3 DEF RegistryInv, TypeOK, IsRecord, AlarmFacts
<1>6. CASE Tick
  <2>1. TypeOK' /\ WithinLimit' /\ AlarmCoversLeases'
    BY <1>0, <1>6 DEF TypeOK, WithinLimit, AlarmCoversLeases, Tick
  <2>2. ExpiryIsBounded'
    BY <1>0, <1>1, <1>6, TtlAssumption DEF IsRecord, ExpiryIsBounded, Tick
  <2> QED BY <2>1, <2>2 DEF RegistryInv
<1>7. CASE UNCHANGED vars
  BY <1>0, <1>7 DEF RegistryInv, TypeOK, WithinLimit, AlarmCoversLeases,
                     ExpiryIsBounded, vars
<1> QED BY <1>3, <1>4, <1>5, <1>6, <1>7

LEMMA InvStep == RegistryInv /\ [Next]_vars => RegistryInv'
BY StepKinds, KindsKeepInv

LEMMA InvHolds == Spec => []RegistryInv
BY InvInit, InvStep, PTL DEF Spec

(***************************************************************************)
(* Type correctness of the registry's state.                               *)
(***************************************************************************)
THEOREM TypeCorrect == Spec => []TypeOK
BY InvHolds, PTL DEF RegistryInv

(***************************************************************************)
(* The limit: acquireSessionLease never lets the stored record outgrow     *)
(* maximum, for every set of sessions, limit and time to live.             *)
(***************************************************************************)
THEOREM LimitHolds == Spec => []WithinLimit
BY InvHolds, PTL DEF RegistryInv

(***************************************************************************)
(* An alarm is armed, for the earliest expiry, exactly while a lease is    *)
(* stored.                                                                 *)
(***************************************************************************)
THEOREM AlarmAlwaysCovers == Spec => []AlarmCoversLeases
BY InvHolds, PTL DEF RegistryInv

(***************************************************************************)
(* No lease, renewed however often, reaches further than one time to live  *)
(* into the future.                                                        *)
(***************************************************************************)
THEOREM ExpiryAlwaysBounded == Spec => []ExpiryIsBounded
BY InvHolds, PTL DEF RegistryInv

(***************************************************************************)
(* Only a session's own release ends its unexpired lease.                  *)
(***************************************************************************)
THEOREM NobodyEvicts == Spec => NoEviction
<1> DEFINE Kept ==
      \A s \in FreshHolders(leases, now) :
        \/ s \in DOMAIN leases' /\ leases'[s] >= leases[s]
        \/ Release(s)
<1>1. RegistryInv /\ [Next]_vars => [Kept]_vars
  <2> SUFFICES ASSUME RegistryInv, Next PROVE Kept
    OBVIOUS
  <2>0. TypeOK /\ ExpiryIsBounded
    BY DEF RegistryInv
  <2>1. \A x \in Holders : x \in DOMAIN leases /\ leases[x] \in Nat
    BY <2>0 DEF TypeOK, Holders, FreshHolders
  <2>2. ASSUME NEW s \in Sessions, Grows(s) PROVE Kept
    <3>1. /\ DOMAIN leases' = Holders \cup {s}
          /\ leases'[s] = now + Ttl
          /\ \A x \in Holders \ {s} : leases'[x] = leases[x]
      BY <2>0, <2>2, GrowsFacts
    <3> QED BY <2>0, <2>1, <3>1 DEF Holders, ExpiryIsBounded
  <2>3. ASSUME Prunes PROVE Kept
    BY <2>0, <2>1, <2>3, PrunesFacts DEF Holders
  <2>4. ASSUME NEW s \in Sessions, Release(s) PROVE Kept
    <3>1. /\ DOMAIN leases' = Holders \ {s}
          /\ \A x \in Holders \ {s} : leases'[x] = leases[x]
      BY <2>0, <2>4, ReleaseFacts
    <3> QED BY <2>1, <2>4, <3>1 DEF Holders
  <2>5. ASSUME Tick PROVE Kept
    BY <2>1, <2>5 DEF Tick, Holders
  <2> QED BY <2>2, <2>3, <2>4, <2>5, StepKinds
<1> QED BY <1>1, InvHolds, PTL DEF Spec, NoEviction

(***************************************************************************)
(* The alarm handler never arms an alarm that is already due.              *)
(***************************************************************************)
THEOREM AlarmAlwaysProgresses == Spec => AlarmMakesProgress
<1> DEFINE Later == Alarm => alarmAt' = NoAlarm \/ alarmAt' > now
<1>1. RegistryInv /\ [Next]_vars => [Later]_vars
  <2> SUFFICES ASSUME RegistryInv, Alarm PROVE alarmAt' = NoAlarm \/ alarmAt' > now
    OBVIOUS
  <2>1. IsRecord(leases) /\ now \in Nat
    BY DEF RegistryInv, TypeOK, IsRecord
  <2>2. \/ alarmAt' = NoAlarm
        \/ \E s \in DOMAIN Fresh(leases, now) : alarmAt' = Fresh(leases, now)[s]
    BY <2>1, FreshFacts, StoreArmsAlarm DEF Alarm
  <2> QED BY <2>1, <2>2, FreshFacts
<1> QED BY <1>1, InvHolds, PTL DEF Spec, AlarmMakesProgress

-----------------------------------------------------------------------------
(***************************************************************************)
(* Refinement: the registry implements SessionLimit.  A grant is an Enter  *)
(* or, for a session that already holds a lease, a stutter; a release is a *)
(* Leave; only the clock expires holders, and pruning is invisible.        *)
(***************************************************************************)
THEOREM RegistryImplementsPool == Spec => ImplementsPool
<1>1. Init => Pool!Init
  BY DEF Init, Pool!Init, Holders, NoLeases, FreshHolders
<1>2. RegistryInv /\ [Next]_vars => [Pool!Next]_Holders
  <2> SUFFICES ASSUME RegistryInv, [Next]_vars PROVE [Pool!Next]_Holders
    OBVIOUS
  <2>0. TypeOK
    BY DEF RegistryInv
  <2>1. Holders \subseteq Sessions
    BY <2>0 DEF TypeOK, Holders, FreshHolders
  <2>2. ASSUME NEW s \in Sessions, Grows(s) PROVE [Pool!Next]_Holders
    <3>1. Holders' = Holders \cup {s}
      BY <2>0, <2>2, GrowsFacts
    <3>2. s \in Holders \/ Cardinality(Holders) < Maximum
      BY <2>2 DEF Grows, CanAcquire, Holders
    <3> QED BY <3>1, <3>2 DEF Pool!Next, Pool!Enter, Pool!Cardinality, Cardinality
  <2>3. ASSUME Prunes PROVE [Pool!Next]_Holders
    BY <2>0, <2>3, PrunesFacts
  <2>4. ASSUME NEW s \in Sessions, Release(s) PROVE [Pool!Next]_Holders
    <3>1. Holders' = Holders \ {s}
      BY <2>0, <2>4, ReleaseFacts
    <3> QED BY <3>1 DEF Pool!Next, Pool!Leave
  <2>5. ASSUME Tick PROVE [Pool!Next]_Holders
    <3>1. Holders' \subseteq Holders
      BY <2>0, <2>5, TickFacts
    <3>2. \/ Holders' = Holders
          \/ Pool!Expire(Holders \ Holders')
      BY <3>1 DEF Pool!Expire
    <3> QED BY <3>2 DEF Pool!Next
  <2>6. CASE UNCHANGED vars
    BY <2>6 DEF vars, Holders
  <2> QED BY <2>2, <2>3, <2>4, <2>5, <2>6, StepKinds
<1> QED BY <1>1, <1>2, InvHolds, PTL DEF Spec, ImplementsPool, Pool!Spec

-----------------------------------------------------------------------------
(* Lease renewal.                                                          *)


LeaseInv == RegistryInv /\ LeaseTypeOK /\ SessionsInTime

\* What one session sees of a step of another one, apart from the registry.
Same(y) ==
  /\ stage'[y] = stage[y] /\ expiresAt'[y] = expiresAt[y]
  /\ answer'[y] = answer[y] /\ timer'[y] = timer[y]
  /\ renewal'[y] = renewal[y] /\ sentAt'[y] = sentAt[y]
  /\ Req("release", y) \in wire' => Req("release", y) \in wire

\* The registry still has the session, for at least as long as before.
Keeps(y) == y \in DOMAIN leases' /\ leases'[y] >= leases[y]

-----------------------------------------------------------------------------
(* The registry's side of a session's step.                                *)

LEMMA DelayTypes ==
  /\ RenewEvery \in Nat /\ RetryDelay \in Nat /\ Margin \in Nat
  /\ MinDelay \in Nat /\ Latency \in Nat /\ StartLatency \in Nat
  /\ Ttl \in Nat /\ Ttl > 0
BY DelayAssumption, TtlAssumption

\* A step of session x leaves the registry alone, makes x a holder, prunes,
\* or handles a release that x had sent.
LEMMA RegistryPart ==
  ASSUME NEW x \in Sessions, SessionStep(x)
  PROVE  \/ UNCHANGED registryVars
         \/ Grows(x)
         \/ Prunes
         \/ Release(x) /\ Req("release", x) \in wire
BY DEF SessionStep, registryVars, Connect, Granted, Denied, AcquireFails, GoLive,
       AbandonStart, Close, Crash, CleanupLive, TimerFires, RegistryRenews,
       RenewalFails, HandleRenewed, HandleRefused, HandleFailed, Reschedule,
       RegistryReleases, Acquire, RefuseAcquire, Renew, RefuseRenew, CanRenew,
       CanAcquire, Grows, Prunes

LEMMA GrowsKeeps ==
  ASSUME RegistryInv, NEW x \in Sessions, Grows(x), NEW y \in Holders
  PROVE  Keeps(y)
<1>1. TypeOK /\ ExpiryIsBounded
  BY DEF RegistryInv
<1>2. /\ DOMAIN leases' = Holders \cup {x}
      /\ leases'[x] = now + Ttl
      /\ \A z \in Holders \ {x} : leases'[z] = leases[z]
  BY <1>1, GrowsFacts
<1>3. y \in DOMAIN leases /\ leases[y] \in Nat
  BY <1>1 DEF TypeOK, Holders, FreshHolders
<1> QED BY <1>1, <1>2, <1>3 DEF ExpiryIsBounded, Keeps

LEMMA PrunesKeeps ==
  ASSUME RegistryInv, Prunes, NEW y \in Holders
  PROVE  Keeps(y)
<1>1. TypeOK
  BY DEF RegistryInv
<1>2. y \in DOMAIN leases /\ leases[y] \in Nat
  BY <1>1 DEF TypeOK, Holders, FreshHolders
<1> QED BY <1>1, <1>2, PrunesFacts DEF Keeps

LEMMA ReleaseKeeps ==
  ASSUME RegistryInv, NEW x \in Sessions, Release(x), NEW y \in Holders \ {x}
  PROVE  Keeps(y)
<1>1. TypeOK
  BY DEF RegistryInv
<1>2. y \in DOMAIN leases /\ leases[y] \in Nat
  BY <1>1 DEF TypeOK, Holders, FreshHolders
<1>3. /\ DOMAIN leases' = Holders \ {x}
      /\ \A z \in Holders \ {x} : leases'[z] = leases[z]
  BY <1>1, ReleaseFacts
<1> QED BY <1>2, <1>3 DEF Keeps

LEMMA StillThere ==
  ASSUME RegistryInv, UNCHANGED leases, NEW y \in Holders
  PROVE  Keeps(y)
<1>1. y \in DOMAIN leases /\ leases[y] \in Nat
  BY DEF RegistryInv, TypeOK, Holders, FreshHolders
<1> QED BY <1>1 DEF Keeps

\* What a session's step does to the clock, the registry and the other holders.
LEMMA OthersKeep ==
  ASSUME RegistryInv, NEW x \in Sessions, SessionStep(x)
  PROVE  /\ now' = now
         /\ RegistryInv'
         /\ \A y \in Holders \ {x} : Keeps(y)
         /\ x \in Holders => Keeps(x) \/ Req("release", x) \in wire
<1>1. CASE UNCHANGED registryVars
  BY <1>1, KindsKeepInv, StillThere DEF registryVars, vars
<1>2. CASE Grows(x)
  <2>1. now' = now
    BY <1>2 DEF Grows
  <2> QED BY <1>2, <2>1, KindsKeepInv, GrowsKeeps
<1>3. CASE Prunes
  <2>1. now' = now
    BY <1>3 DEF Prunes
  <2> QED BY <1>3, <2>1, KindsKeepInv, PrunesKeeps
<1>4. CASE Release(x) /\ Req("release", x) \in wire
  <2>1. now' = now
    BY <1>4 DEF Release
  <2> QED BY <1>4, <2>1, KindsKeepInv, ReleaseKeeps
<1> QED BY <1>1, <1>2, <1>3, <1>4, RegistryPart

-----------------------------------------------------------------------------
(* The sessions' side.                                                     *)

\* A session's step leaves the other sessions' variables alone.
LEMMA OthersSame ==
  ASSUME LeaseTypeOK, NEW x \in Sessions, SessionStep(x), NEW y \in Sessions \ {x}
  PROVE  Same(y)
<1> USE DEF LeaseTypeOK, Same, Req
<1>1. ASSUME Connect(x) \/ GoLive(x) \/ AbandonStart(x) \/ AcquireFails(x)
      PROVE Same(y)
  BY <1>1 DEF Connect, GoLive, AbandonStart, AcquireFails
<1>2. ASSUME Granted(x) \/ Denied(x) PROVE Same(y)
  BY <1>2 DEF Granted, Denied
<1>3. ASSUME Close(x) \/ Crash(x) PROVE Same(y)
  BY <1>3 DEF Close, Crash, CleanupLive
<1>4. ASSUME TimerFires(x) \/ RegistryRenews(x) \/ RenewalFails(x) PROVE Same(y)
  BY <1>4 DEF TimerFires, RegistryRenews, RenewalFails
<1>5. ASSUME HandleRenewed(x) \/ HandleRefused(x) \/ HandleFailed(x) PROVE Same(y)
  BY <1>5 DEF HandleRenewed, HandleRefused, HandleFailed, CleanupLive, Reschedule
<1>6. ASSUME RegistryReleases(x) PROVE Same(y)
  BY <1>6 DEF RegistryReleases
<1> QED BY <1>1, <1>2, <1>3, <1>4, <1>5, <1>6 DEF SessionStep

\* Every value a session's step assigns has its type.
LEMMA SessionTypes ==
  ASSUME RegistryInv, LeaseTypeOK, RegistryInv', now' = now,
         NEW x \in Sessions, SessionStep(x)
  PROVE  LeaseTypeOK'
<1>1. TypeOK /\ TypeOK' /\ now \in Nat
  BY DEF RegistryInv, TypeOK
<1>2. \A z \in DOMAIN leases' : leases'[z] \in Nat
  BY <1>1 DEF TypeOK
<1>3. /\ Req("acquire", x) \in Requests
      /\ Req("renew", x) \in Requests
      /\ Req("release", x) \in Requests
  BY DEF Req, Requests
<1> USE <1>1, <1>3 DEF LeaseTypeOK, Stages, Outcomes
<1>4. ASSUME Connect(x) \/ AbandonStart(x) \/ AcquireFails(x) \/ RenewalFails(x)
      PROVE LeaseTypeOK'
  BY <1>4 DEF Connect, AbandonStart, AcquireFails, RenewalFails
<1>5. ASSUME GoLive(x) PROVE LeaseTypeOK'
  BY <1>5, DelayTypes DEF GoLive, LargerOf
<1>6. ASSUME Granted(x) PROVE LeaseTypeOK'
  <2>1. x \in DOMAIN leases'
    BY <1>6 DEF Granted, Acquire, Store, Extend
  <2>2. leases'[x] \in Nat
    BY <2>1, <1>2
  <2> QED BY <1>6, <2>2 DEF Granted
<1>7. ASSUME Denied(x) \/ RegistryReleases(x) PROVE LeaseTypeOK'
  BY <1>7 DEF Denied, RegistryReleases
<1>8. ASSUME Close(x) \/ Crash(x) \/ HandleRefused(x) PROVE LeaseTypeOK'
  BY <1>8 DEF Close, Crash, HandleRefused, CleanupLive
<1>9. ASSUME TimerFires(x) PROVE LeaseTypeOK'
  BY <1>9 DEF TimerFires
<1>10. ASSUME RegistryRenews(x) PROVE LeaseTypeOK'
  <2>1. Renew(x) => x \in DOMAIN leases'
    BY DEF Renew, Store, Extend
  <2>2. Renew(x) => leases'[x] \in Nat
    BY <2>1, <1>2
  <2> QED BY <1>10, <2>2 DEF RegistryRenews
<1>11. ASSUME HandleRenewed(x) PROVE LeaseTypeOK'
  BY <1>11, DelayTypes DEF HandleRenewed, Reschedule, LargerOf
<1>12. ASSUME HandleFailed(x) PROVE LeaseTypeOK'
  <2>1. \A d \in Int : now + LargerOf(MinDelay, d) \in Nat
    BY DelayTypes DEF LargerOf
  <2>2. stage[x] = "live" /\ expiresAt[x] - now > Margin =>
          SmallerOf(RetryDelay, expiresAt[x] - now - Margin) \in Int
    BY DelayTypes DEF SmallerOf
  <2> QED BY <1>12, <2>1, <2>2 DEF HandleFailed, Reschedule, CleanupLive
<1> QED BY <1>4, <1>5, <1>6, <1>7, <1>8, <1>9, <1>10, <1>11, <1>12 DEF SessionStep

-----------------------------------------------------------------------------
(* The invariant, step by step.                                            *)

\* A session that starts or lives has not let its lease expire.
LEMMA InTimeHolds ==
  ASSUME Timely, LeaseTypeOK, NEW y \in Sessions, SessionInv(y),
         stage[y] \in {"starting", "live"}
  PROVE  y \in Holders /\ leases[y] \in Nat /\ now < expiresAt[y]
<1>1. /\ y \in DOMAIN leases => leases[y] \in Nat
      /\ now \in Nat /\ expiresAt[y] \in Nat /\ sentAt[y] \in Nat
      /\ timer[y] # NoTimer => timer[y] \in Nat
  BY DEF LeaseTypeOK, TypeOK
<1>2. CASE stage[y] = "starting"
  BY <1>1, <1>2, DelayTypes
     DEF SessionInv, StartInTime, Believes, Timely, Period, LargerOf, Holders, FreshHolders
<1>3. CASE stage[y] = "live"
  BY <1>1, <1>3, DelayTypes
     DEF SessionInv, RenewalInTime, Believes, Holders, FreshHolders
<1> QED BY <1>2, <1>3

\* A session keeps its invariant while others act and the clock stands still.
LEMMA Frame ==
  ASSUME Timely, LeaseTypeOK, TypeOK', NEW y \in Sessions, SessionInv(y),
         now' = now, Same(y), y \in Holders => Keeps(y)
  PROVE  SessionInv(y)'
<1>1. /\ now \in Nat /\ expiresAt[y] \in Nat /\ answer[y] \in Nat
      /\ y \in DOMAIN leases' => leases'[y] \in Nat
  BY DEF LeaseTypeOK, TypeOK
<1>2. stage[y] \in {"starting", "live"} => Keeps(y) /\ leases[y] \in Nat
  BY InTimeHolds
<1>3. stage[y] \in {"starting", "live"} /\ Believes(y) =>
        y \in DOMAIN leases' /\ expiresAt[y] <= leases'[y]
  BY <1>1, <1>2 DEF Keeps, Believes
<1>4. stage[y] = "live" /\ answer[y] <= leases[y] => answer[y] <= leases'[y]
  BY <1>1, <1>2 DEF Keeps
<1>5. StartInTime(y)'
  BY <1>3 DEF Same, SessionInv, StartInTime, Believes
<1>6. RenewalInTime(y)'
  BY <1>3, <1>4 DEF Same, SessionInv, RenewalInTime, Believes
<1>7. Orderly(y)'
  BY DEF Same, SessionInv, Orderly
<1> QED BY <1>5, <1>6, <1>7 DEF SessionInv

\* Nothing is required of a session that is over and has no timer.
LEMMA OverIsFine ==
  ASSUME NEW x, stage'[x] = "over", timer'[x] = NoTimer, sentAt'[x] <= now'
  PROVE  SessionInv(x)'
BY DEF SessionInv, StartInTime, RenewalInTime, Orderly

\* The acting session keeps its own invariant.
LEMMA OwnStep ==
  ASSUME Timely, LeaseInv, LeaseTypeOK', now' = now, NEW x \in Sessions,
         SessionStep(x), x \in Holders => Keeps(x) \/ Req("release", x) \in wire
  PROVE  SessionInv(x)'
<1>1. LeaseTypeOK /\ SessionInv(x) /\ TypeOK'
  BY DEF LeaseInv, SessionsInTime, LeaseTypeOK
<1>2. /\ now \in Nat /\ expiresAt[x] \in Nat /\ answer[x] \in Nat /\ sentAt[x] \in Nat
      /\ timer[x] # NoTimer => timer[x] \in Nat
      /\ x \in DOMAIN leases => leases[x] \in Nat
      /\ x \in DOMAIN leases' => leases'[x] \in Nat
  BY <1>1 DEF LeaseTypeOK, TypeOK
<1>3. stage[x] # "live" => timer[x] = NoTimer
  BY <1>1 DEF SessionInv, Orderly
<1>4. sentAt[x] <= now
  BY <1>1 DEF SessionInv, Orderly
<1>5. stage[x] \in {"starting", "live"} =>
        Keeps(x) /\ leases[x] \in Nat /\ now < expiresAt[x] /\ Req("release", x) \notin wire
  BY <1>1, InTimeHolds DEF SessionInv, Orderly
<1> USE <1>1, <1>2 DEF LeaseTypeOK
\* Connecting and starting.
<1>6. ASSUME Connect(x) PROVE SessionInv(x)'
  <2>1. /\ stage'[x] = "acquiring" /\ sentAt'[x] = now
        /\ timer'[x] = timer[x] /\ renewal'[x] = renewal[x]
        /\ stage[x] = "idle"
        /\ Req("release", x) \in wire' => Req("release", x) \in wire
    BY <1>6 DEF Connect, Req
  <2>2. renewal'[x] = "none" /\ Req("release", x) \notin wire'
    BY <2>1 DEF SessionInv, Orderly
  <2> QED BY <1>3, <2>1, <2>2, DelayTypes
          DEF SessionInv, StartInTime, RenewalInTime, Orderly
<1>7. ASSUME Granted(x), stage[x] = "acquiring" PROVE SessionInv(x)'
  <2>1. /\ stage'[x] = "starting" /\ expiresAt'[x] = leases'[x]
        /\ sentAt'[x] = sentAt[x] /\ timer'[x] = timer[x] /\ renewal'[x] = renewal[x]
        /\ Req("release", x) \in wire' => Req("release", x) \in wire
    BY <1>7 DEF Granted, Req
  <2>2. leases'[x] = now + Ttl /\ x \in DOMAIN leases'
    BY <1>7 DEF Granted, Acquire, Store, Extend
  <2>3. /\ renewal'[x] = "none" /\ Req("release", x) \notin wire'
        /\ now <= sentAt[x] + StartLatency
    BY <1>7, <2>1 DEF SessionInv, Orderly, StartInTime
  <2> QED BY <1>3, <1>4, <1>7, <2>1, <2>2, <2>3, DelayTypes
          DEF SessionInv, StartInTime, RenewalInTime, Believes, Orderly
<1>8. ASSUME Granted(x), stage[x] # "acquiring" PROVE SessionInv(x)'
  <2>1. Same(x)
    BY <1>8 DEF Granted, Same, Req
  <2>2. x \in Holders => Keeps(x)
    BY <1>8, GrowsKeeps DEF Granted, Acquire, Grows, LeaseInv
  <2> QED BY <2>1, <2>2, Frame
<1>9. ASSUME Denied(x) PROVE SessionInv(x)'
  <2>1. CASE stage[x] = "acquiring"
    BY <1>3, <1>4, <1>9, <2>1, OverIsFine DEF Denied
  <2>2. CASE stage[x] # "acquiring"
    <3>1. Same(x)
      BY <1>9, <2>2 DEF Denied, Same, Req
    <3>2. x \in Holders => Keeps(x)
      BY <1>9, PrunesKeeps DEF Denied, RefuseAcquire, Prunes, LeaseInv
    <3> QED BY <3>1, <3>2, Frame
  <2> QED BY <2>1, <2>2
<1>10. ASSUME AcquireFails(x) \/ AbandonStart(x) PROVE SessionInv(x)'
  BY <1>3, <1>4, <1>10, OverIsFine DEF AcquireFails, AbandonStart
<1>11. ASSUME GoLive(x) PROVE SessionInv(x)'
  <2>1. /\ stage[x] = "starting" /\ stage'[x] = "live"
        /\ timer'[x] = now + Period
        /\ expiresAt'[x] = expiresAt[x] /\ sentAt'[x] = sentAt[x]
        /\ renewal'[x] = renewal[x] /\ leases' = leases /\ wire' = wire
    BY <1>11 DEF GoLive, registryVars, Period
  <2>2. /\ renewal[x] = "none" /\ Req("release", x) \notin wire
        /\ now <= sentAt[x] + StartLatency
        /\ Believes(x) /\ sentAt[x] + Ttl <= expiresAt[x]
    BY <2>1 DEF SessionInv, Orderly, StartInTime
  <2>3. Period \in Nat /\ timer'[x] # NoTimer
    BY <2>1, DelayTypes DEF Period, LargerOf, NoTimer
  <2> QED BY <1>4, <2>1, <2>2, <2>3, DelayTypes
          DEF SessionInv, StartInTime, RenewalInTime, Believes, Orderly, Timely
\* Ending.
<1>12. ASSUME Close(x) \/ Crash(x) PROVE SessionInv(x)'
  BY <1>4, <1>12, OverIsFine DEF Close, Crash, CleanupLive
<1>13. ASSUME RegistryReleases(x) PROVE SessionInv(x)'
  <2>1. stage[x] = "over"
    BY <1>13 DEF RegistryReleases, SessionInv, Orderly
  <2> QED BY <1>3, <1>4, <1>13, <2>1, OverIsFine DEF RegistryReleases
\* Renewing.
<1>14. ASSUME TimerFires(x) PROVE SessionInv(x)'
  <2>1. /\ stage[x] = "live" /\ stage'[x] = "live" /\ timer'[x] = NoTimer
        /\ expiresAt'[x] = expiresAt[x] /\ answer'[x] = answer[x]
        /\ leases' = leases
        /\ Req("release", x) \in wire' => Req("release", x) \in wire
        /\ IF renewal[x] = "none"
           THEN renewal'[x] = "sent" /\ sentAt'[x] = now
           ELSE renewal'[x] = renewal[x] /\ sentAt'[x] = sentAt[x]
    BY <1>14 DEF TimerFires, registryVars, Req
  <2>2. timer[x] # NoTimer /\ timer[x] <= now
    BY <1>14 DEF TimerFires
  <2>3. /\ Believes(x) /\ Req("release", x) \notin wire
        /\ timer[x] + Latency < expiresAt[x] /\ now <= timer[x]
        /\ renewal[x] # "none" =>
             now <= sentAt[x] + Latency /\ sentAt[x] + Latency < expiresAt[x]
        /\ renewal[x] = "renewed" =>
             sentAt[x] + Ttl <= answer[x] /\ answer[x] <= leases[x]
    BY <2>1, <2>2 DEF SessionInv, RenewalInTime, Orderly
  <2>4. CASE renewal[x] = "none"
    BY <2>1, <2>2, <2>3, <2>4, DelayTypes
       DEF SessionInv, StartInTime, RenewalInTime, Believes, Orderly
  <2>5. CASE renewal[x] # "none"
    BY <1>4, <2>1, <2>2, <2>3, <2>5, DelayTypes
       DEF SessionInv, StartInTime, RenewalInTime, Believes, Orderly
  <2> QED BY <2>4, <2>5
<1>15. ASSUME RegistryRenews(x) PROVE SessionInv(x)'
  <2>1. x \in Holders => Keeps(x)
    BY <1>15, GrowsKeeps, PrunesKeeps
       DEF RegistryRenews, Renew, RefuseRenew, CanRenew, CanAcquire, Grows, Prunes,
           LeaseInv
  <2>2. CASE renewal[x] # "sent"
    <3>1. Same(x)
      BY <1>15, <2>2 DEF RegistryRenews, Same, Req
    <3> QED BY <2>1, <3>1, Frame
  <2>3. CASE renewal[x] = "sent"
    <3>1. /\ stage'[x] = stage[x] /\ timer'[x] = timer[x]
          /\ expiresAt'[x] = expiresAt[x] /\ sentAt'[x] = sentAt[x]
          /\ Req("release", x) \in wire' => Req("release", x) \in wire
          /\ \/ Renew(x) /\ renewal'[x] = "renewed" /\ answer'[x] = leases'[x]
             \/ renewal'[x] = "refused"
      BY <1>15, <2>3 DEF RegistryRenews, Req
    <3>2. stage[x] \in {"live", "over"}
      BY <2>3 DEF SessionInv, Orderly, Stages
    <3>3. Renew(x) => leases'[x] = now + Ttl
      BY DEF Renew, Store, Extend
    <3>4. CASE stage[x] = "over"
      BY <1>3, <1>4, <3>1, <3>4, OverIsFine
    <3>5. CASE stage[x] = "live"
      <4>1. /\ expiresAt[x] <= leases[x] /\ Keeps(x) /\ leases[x] \in Nat
            /\ Req("release", x) \notin wire
            /\ timer[x] # NoTimer => now <= timer[x] /\ timer[x] + Latency < expiresAt[x]
            /\ now <= sentAt[x] + Latency /\ sentAt[x] + Latency < expiresAt[x]
        BY <1>5, <2>3, <3>5 DEF SessionInv, RenewalInTime, Believes
      <4>2. Believes(x)'
        BY <3>1, <4>1 DEF Believes, Keeps
      <4>3. renewal'[x] = "renewed" => sentAt[x] + Ttl <= answer'[x] /\ answer'[x] <= leases'[x]
        BY <1>4, <3>1, <3>3, DelayTypes
      <4>4. renewal'[x] # "none"
        BY <3>1
      <4> QED BY <1>4, <3>1, <3>5, <4>1, <4>2, <4>3, <4>4
              DEF SessionInv, StartInTime, RenewalInTime, Orderly
    <3> QED BY <3>2, <3>4, <3>5
  <2> QED BY <2>2, <2>3
<1>16. ASSUME RenewalFails(x) PROVE SessionInv(x)'
  <2>1. /\ stage'[x] = stage[x] /\ timer'[x] = timer[x]
        /\ expiresAt'[x] = expiresAt[x] /\ sentAt'[x] = sentAt[x]
        /\ leases' = leases /\ wire' = wire
        /\ renewal[x] # "none" /\ renewal'[x] = "failed"
    BY <1>16 DEF RenewalFails, registryVars
  <2> QED BY <2>1
          DEF SessionInv, StartInTime, RenewalInTime, Believes, Orderly
<1>17. ASSUME HandleRenewed(x) PROVE SessionInv(x)'
  <2>1. /\ renewal[x] = "renewed" /\ renewal'[x] = "none"
        /\ expiresAt'[x] = answer[x] /\ stage'[x] = stage[x]
        /\ sentAt'[x] = sentAt[x] /\ leases' = leases /\ wire' = wire
        /\ timer'[x] = IF stage[x] = "live" THEN now + Period ELSE timer[x]
    BY <1>17 DEF HandleRenewed, Reschedule, registryVars, Period
  <2>2. stage[x] \in {"live", "over"}
    BY <2>1 DEF SessionInv, Orderly, Stages
  <2>3. CASE stage[x] = "over"
    BY <1>3, <1>4, <2>1, <2>3, OverIsFine
  <2>4. CASE stage[x] = "live"
    <3>1. /\ x \in DOMAIN leases /\ now <= sentAt[x] + Latency
          /\ sentAt[x] + Ttl <= answer[x] /\ answer[x] <= leases[x]
          /\ Req("release", x) \notin wire
      BY <1>5, <2>1, <2>4 DEF SessionInv, RenewalInTime, Believes
    <3>2. Period \in Nat /\ timer'[x] # NoTimer /\ timer'[x] = now + Period
      BY <2>1, <2>4, DelayTypes DEF Period, LargerOf, NoTimer
    <3> QED BY <1>4, <2>1, <2>4, <3>1, <3>2, DelayTypes
            DEF SessionInv, StartInTime, RenewalInTime, Believes, Orderly, Timely
  <2> QED BY <2>2, <2>3, <2>4
<1>18. ASSUME HandleRefused(x) PROVE SessionInv(x)'
  <2>1. stage[x] \in {"live", "over"}
    BY <1>18 DEF HandleRefused, SessionInv, Orderly, Stages
  <2> QED BY <1>3, <1>4, <1>18, <2>1, OverIsFine DEF HandleRefused, CleanupLive
<1>19. ASSUME HandleFailed(x) PROVE SessionInv(x)'
  <2>1. stage[x] \in {"live", "over"}
    BY <1>19 DEF HandleFailed, SessionInv, Orderly, Stages
  <2>2. CASE stage[x] = "over" \/ expiresAt[x] - now <= Margin
    BY <1>3, <1>4, <1>19, <2>1, <2>2, OverIsFine, DelayTypes
       DEF HandleFailed, CleanupLive
  <2>3. CASE stage[x] = "live" /\ ~(expiresAt[x] - now <= Margin)
    <3> DEFINE d == LargerOf(MinDelay, SmallerOf(RetryDelay, expiresAt[x] - now - Margin))
    <3>1. /\ renewal'[x] = "none" /\ timer'[x] = now + d
          /\ expiresAt'[x] = expiresAt[x] /\ stage'[x] = "live"
          /\ sentAt'[x] = sentAt[x] /\ leases' = leases /\ wire' = wire
      BY <1>19, <2>3, DelayTypes DEF HandleFailed, Reschedule, registryVars
    <3>2. d \in Nat /\ d + Latency < expiresAt[x] - now
      BY <2>3, DelayTypes DEF LargerOf, SmallerOf, Timely
    <3>3. Believes(x) /\ Req("release", x) \notin wire
      BY <2>3 DEF SessionInv, RenewalInTime, Orderly
    <3> HIDE DEF d
    <3>4. timer'[x] # NoTimer
      BY <3>1, <3>2 DEF NoTimer
    <3> QED BY <1>4, <3>1, <3>2, <3>3, <3>4, DelayTypes
            DEF SessionInv, StartInTime, RenewalInTime, Believes, Orderly
  <2> QED BY <2>1, <2>2, <2>3
<1> QED BY <1>6, <1>7, <1>8, <1>9, <1>10, <1>11, <1>12, <1>13, <1>14, <1>15, <1>16,
           <1>17, <1>18, <1>19 DEF SessionStep

LEMMA LeaseInvInit == LeaseInit => LeaseInv
<1> SUFFICES ASSUME LeaseInit PROVE LeaseInv
  OBVIOUS
<1>1. RegistryInv /\ TypeOK
  BY InvInit DEF LeaseInit, RegistryInv
<1>2. LeaseTypeOK
  BY <1>1 DEF LeaseInit, LeaseTypeOK, Stages, Outcomes
<1>3. SessionsInTime
  BY DEF LeaseInit, Init, SessionsInTime, SessionInv, StartInTime, RenewalInTime,
         Orderly, NoTimer
<1> QED BY <1>1, <1>2, <1>3 DEF LeaseInv

\* The registry's invariant and the types need no timeliness.
LEMMA TypesStep ==
  ASSUME RegistryInv, LeaseTypeOK, [LeaseNext]_allVars
  PROVE  RegistryInv' /\ TypeOK' /\ LeaseTypeOK'
<1>1. ASSUME NEW x \in Sessions, SessionStep(x) PROVE RegistryInv' /\ LeaseTypeOK'
  BY <1>1, OthersKeep, SessionTypes
<1>2. ASSUME Prunes \/ Tick \/ UNCHANGED vars,
             UNCHANGED <<stage, expiresAt, answer, timer, renewal, sentAt>>,
             wire' \subseteq wire
      PROVE  RegistryInv' /\ LeaseTypeOK'
  <2>1. RegistryInv'
    BY <1>2, KindsKeepInv
  <2> QED BY <1>2, <2>1 DEF LeaseTypeOK, RegistryInv
<1>3. ASSUME NEW r \in wire, RequestLost(r) PROVE RegistryInv' /\ LeaseTypeOK'
  BY <1>2, <1>3 DEF RequestLost, registryVars, vars
<1>4. ASSUME RegistryAlarm \/ TimePasses \/ UNCHANGED allVars
      PROVE  RegistryInv' /\ LeaseTypeOK'
  BY <1>2, <1>4 DEF RegistryAlarm, Alarm, Prunes, TimePasses, sessionVars, vars, allVars
<1>5. RegistryInv' /\ LeaseTypeOK'
  BY <1>1, <1>3, <1>4 DEF LeaseNext
<1> QED BY <1>5 DEF LeaseTypeOK

\* The clock moves only while every deadline of every session is ahead.
LEMMA ClockStep ==
  ASSUME LeaseInv, TimePasses, NEW y \in Sessions
  PROVE  SessionInv(y)'
<1>1. /\ UNCHANGED sessionVars /\ leases' = leases /\ now' = now + 1 /\ OnTime(y)
  BY DEF TimePasses, Tick
<1>2. /\ now \in Nat /\ sentAt[y] \in Nat
      /\ timer[y] # NoTimer => timer[y] \in Nat
  BY DEF LeaseInv, LeaseTypeOK, TypeOK
<1>3. SessionInv(y)
  BY DEF LeaseInv, SessionsInTime
<1> QED BY <1>1, <1>2, <1>3, DelayTypes
        DEF sessionVars, SessionInv, StartInTime, RenewalInTime, Believes, Orderly, OnTime

LEMMA LeaseInvStep ==
  ASSUME Timely, LeaseInv, [LeaseNext]_allVars
  PROVE  LeaseInv'
<1>1. /\ RegistryInv /\ LeaseTypeOK
      /\ RegistryInv' /\ TypeOK' /\ LeaseTypeOK'
  BY TypesStep DEF LeaseInv
<1>2. SUFFICES ASSUME NEW y \in Sessions PROVE SessionInv(y)'
  BY <1>1 DEF LeaseInv, SessionsInTime
<1>3. SessionInv(y)
  BY DEF LeaseInv, SessionsInTime
<1>4. ASSUME NEW x \in Sessions, SessionStep(x) PROVE SessionInv(y)'
  <2>1. /\ now' = now
        /\ \A z \in Holders \ {x} : Keeps(z)
        /\ x \in Holders => Keeps(x) \/ Req("release", x) \in wire
    BY <1>1, <1>4, OthersKeep
  <2>2. CASE y = x
    BY <1>1, <1>4, <2>1, <2>2, OwnStep
  <2>3. CASE y # x
    <3>1. Same(y)
      BY <1>1, <1>4, <2>3, OthersSame
    <3> QED BY <1>1, <1>3, <2>1, <2>3, <3>1, Frame
  <2> QED BY <2>2, <2>3
<1>5. ASSUME NEW r \in wire, RequestLost(r) PROVE SessionInv(y)'
  BY <1>3, <1>5 DEF RequestLost, registryVars,
       SessionInv, StartInTime, RenewalInTime, Believes, Orderly
<1>6. ASSUME RegistryAlarm PROVE SessionInv(y)'
  <2>1. Prunes /\ now' = now /\ UNCHANGED sessionVars
    BY <1>6 DEF RegistryAlarm, Alarm, Prunes
  <2>2. Same(y)
    BY <2>1 DEF Same, sessionVars
  <2>3. y \in Holders => Keeps(y)
    BY <1>1, <2>1, PrunesKeeps
  <2> QED BY <1>1, <1>3, <2>1, <2>2, <2>3, Frame
<1>7. CASE TimePasses
  BY <1>7, ClockStep
<1>8. CASE UNCHANGED allVars
  BY <1>3, <1>8
     DEF allVars, SessionInv, StartInTime, RenewalInTime, Believes, Orderly
<1> QED BY <1>4, <1>5, <1>6, <1>7, <1>8 DEF LeaseNext

LEMMA TypesHold == LeaseSpec => [](RegistryInv /\ LeaseTypeOK)
<1>1. LeaseInit => RegistryInv /\ LeaseTypeOK
  BY LeaseInvInit DEF LeaseInv
<1>2. RegistryInv /\ LeaseTypeOK /\ [LeaseNext]_allVars => (RegistryInv /\ LeaseTypeOK)'
  BY TypesStep
<1> QED BY <1>1, <1>2, PTL DEF LeaseSpec

LEMMA LeaseInvHolds == ASSUME Timely PROVE LeaseSpec => []LeaseInv
<1>1. LeaseInv /\ [LeaseNext]_allVars => LeaseInv'
  BY LeaseInvStep
<1> QED BY <1>1, LeaseInvInit, PTL DEF LeaseSpec

LEMMA LeaseInvMeans ==
  ASSUME Timely, LeaseInv
  PROVE  LiveHoldsLease /\ LiveWithinLimit /\ BelievedExpiryIsSafe
<1>1. LeaseTypeOK /\ WithinLimit /\ \A y \in Sessions : SessionInv(y)
  BY DEF LeaseInv, RegistryInv, SessionsInTime
<1>2. LiveHoldsLease
  BY <1>1, InTimeHolds DEF LiveHoldsLease, Live, Holders
<1>3. LiveWithinLimit
  <2>1. Live \subseteq DOMAIN leases
    BY <1>2 DEF LiveHoldsLease, FreshHolders
  <2>2. IsFiniteSet(Live) /\ Cardinality(Live) <= Cardinality(DOMAIN leases)
    BY <1>1, <2>1, FS_Subset DEF WithinLimit
  <2>3. Cardinality(Live) \in Nat /\ Cardinality(DOMAIN leases) \in Nat
    BY <1>1, <2>2, FS_CardinalityType DEF WithinLimit
  <2> QED BY <1>1, <2>2, <2>3, MaximumAssumption DEF WithinLimit, LiveWithinLimit
<1>4. BelievedExpiryIsSafe
  BY <1>1 DEF BelievedExpiryIsSafe, Live, SessionInv, RenewalInTime, Believes
<1> QED BY <1>2, <1>3, <1>4

(***************************************************************************)
(* Through slow, failed, lost and duplicated renewals a live session       *)
(* always holds an unexpired lease, provided renewals settle in time.      *)
(***************************************************************************)
THEOREM LiveAlwaysHoldsLease == ASSUME Timely PROVE LeaseSpec => []LiveHoldsLease
<1>1. LeaseInv => LiveHoldsLease
  BY LeaseInvMeans
<1> QED BY <1>1, LeaseInvHolds, PTL

(***************************************************************************)
(* An owner never has more live sessions than the limit, provided renewals *)
(* settle in time: the registry's bound on its record carries over to the  *)
(* sessions themselves.                                                    *)
(***************************************************************************)
THEOREM LiveAlwaysWithinLimit == ASSUME Timely PROVE LeaseSpec => []LiveWithinLimit
<1>1. LeaseInv => LiveWithinLimit
  BY LeaseInvMeans
<1> QED BY <1>1, LeaseInvHolds, PTL

(***************************************************************************)
(* live.leaseExpiresAt never promises more than the registry's record.     *)
(***************************************************************************)
THEOREM BeliefAlwaysSafe == ASSUME Timely PROVE LeaseSpec => []BelievedExpiryIsSafe
<1>1. LeaseInv => BelievedExpiryIsSafe
  BY LeaseInvMeans
<1> QED BY <1>1, LeaseInvHolds, PTL

(***************************************************************************)
(* Types of the composed state, however slow the calls are.                *)
(***************************************************************************)
THEOREM LeaseTypeCorrect == LeaseSpec => []LeaseTypeOK
BY TypesHold, PTL

(***************************************************************************)
(* However slow the calls are, no late renewal brings back the lease of a  *)
(* session that is over.                                                   *)
(***************************************************************************)
THEOREM NobodyResurrects == LeaseSpec => NoResurrection
<1> DEFINE StaysOut(s) ==
      stage[s] = "over" /\ s \notin DOMAIN leases /\ Req("acquire", s) \notin wire
        => s \notin DOMAIN leases'
<1>1. ASSUME RegistryInv, LeaseTypeOK, LeaseNext, NEW s \in Sessions
      PROVE  StaysOut(s)
  <2>1. TypeOK /\ Holders \subseteq DOMAIN leases
    BY <1>1 DEF RegistryInv, Holders, FreshHolders
  <2>2. ASSUME NEW x \in Sessions, SessionStep(x) PROVE StaysOut(s)
    <3>1. CASE UNCHANGED registryVars
      BY <3>1 DEF registryVars
    <3>2. CASE Prunes
      BY <2>1, <3>2, PrunesFacts
    <3>3. CASE Release(x)
      BY <2>1, <3>3, ReleaseFacts
    <3>4. CASE Grows(x) /\ x # s
      BY <2>1, <3>4, GrowsFacts, ZenonT(40)
    <3>5. CASE Grows(x) /\ x = s
      <4>1. CASE s \in DOMAIN leases
        BY <4>1
      <4>2. CASE s \notin DOMAIN leases
        <5>1. leases' # leases
          BY <2>1, <3>5, <4>2, GrowsFacts
        <5>2. ~Renew(s)
          BY <2>1, <4>2 DEF Renew, CanRenew, Holders
        <5>3. s \in DOMAIN leases'
          BY <2>1, <3>5, GrowsFacts
        <5>4. ~Prunes /\ ~Release(s)
          BY <2>1, <4>2, <5>3, PrunesFacts, ReleaseFacts
        <5>5. Granted(s)
          BY <2>2, <3>5, <5>1, <5>2, <5>4
             DEF SessionStep, registryVars, Connect, Denied, AcquireFails, GoLive,
                 AbandonStart, Close, Crash, TimerFires, RegistryRenews,
                 RenewalFails, HandleRenewed, HandleRefused, HandleFailed,
                 RegistryReleases, RefuseAcquire, RefuseRenew, Prunes
        <5> QED BY <5>5 DEF Granted
      <4> QED BY <4>1, <4>2
    <3> QED BY <2>2, <3>1, <3>2, <3>3, <3>4, <3>5, RegistryPart
  <2>3. ASSUME NEW r \in wire, RequestLost(r) PROVE StaysOut(s)
    BY <2>3 DEF RequestLost, registryVars
  <2>4. ASSUME RegistryAlarm PROVE StaysOut(s)
    <3>1. Prunes
      BY <2>4 DEF RegistryAlarm, Alarm, Prunes
    <3> QED BY <2>1, <3>1, PrunesFacts
  <2>5. ASSUME TimePasses PROVE StaysOut(s)
    BY <2>5 DEF TimePasses, Tick
  <2> QED BY <1>1, <2>2, <2>3, <2>4, <2>5 DEF LeaseNext
<1>2. RegistryInv /\ LeaseTypeOK /\ [LeaseNext]_allVars
        => [\A s \in Sessions : StaysOut(s)]_allVars
  BY <1>1
<1> QED BY <1>2, TypesHold, PTL DEF LeaseSpec, NoResurrection
-----------------------------------------------------------------------------
(* The lease of a session, as LeaseContract has it.                        *)

LeaseStep(y) == [LeaseUse(y)!Next]_(LeaseUse(y)!vars)

StageReads(y) ==
  /\ stage[y] \in {"idle", "over"} => LeaseStage(y) = "out"
  /\ stage[y] = "acquiring" => LeaseStage(y) = "asking"
  /\ stage[y] = "starting" => LeaseStage(y) = "holding"
  /\ stage[y] = "live" => LeaseStage(y) = "live"

LEMMA StageReadings == ASSUME NEW y \in Sessions PROVE StageReads(y) /\ StageReads(y)'
BY DEF StageReads, LeaseStage

\* Whether the registry holds a lease for y.
HeldStays(y) == (y \in Holders') <=> (y \in Holders)

\* Neither the session's lease nor what decides about it.
LEMMA LeaseUntouched ==
  ASSUME NEW y \in Sessions, stage'[y] = stage[y], HeldStays(y), Carried(y)' = Carried(y)
  PROVE  LeaseStep(y)
BY DEF LeaseStep, LeaseUse!vars, LeaseStage, HeldStays, Holders

\* A session's step changes what the registry holds for that session only.
LEMMA OthersHeld ==
  ASSUME RegistryInv, NEW x \in Sessions, SessionStep(x), NEW y \in Sessions \ {x}
  PROVE  HeldStays(y)
<1>1. TypeOK
  BY DEF RegistryInv
<1>2. CASE UNCHANGED registryVars
  BY <1>2 DEF registryVars, HeldStays, Holders, FreshHolders
<1>3. CASE Grows(x)
  <2>1. Holders' = Holders \cup {x}
    BY <1>1, <1>3, GrowsFacts
  <2> QED BY <2>1 DEF HeldStays
<1>4. CASE Prunes
  <2>1. Holders' = Holders
    BY <1>1, <1>4, PrunesFacts
  <2> QED BY <2>1 DEF HeldStays
<1>5. CASE Release(x)
  <2>1. Holders' = Holders \ {x}
    BY <1>1, <1>5, ReleaseFacts
  <2> QED BY <2>1 DEF HeldStays
<1> QED BY <1>2, <1>3, <1>4, <1>5, RegistryPart

\* A session's step sends and takes requests of that session only.
LEMMA OthersCarried ==
  ASSUME NEW x \in Sessions, SessionStep(x), NEW y \in Sessions \ {x}
  PROVE  Carried(y)' = Carried(y)
<1>1. PICK op \in {"acquire", "renew", "release"} :
        wire' \in {wire, wire \cup {Req(op, x)}, wire \ {Req(op, x)}}
  BY DEF SessionStep, Connect, Granted, Denied, AcquireFails, GoLive, AbandonStart, Close,
         Crash, CleanupLive, TimerFires, RegistryRenews, RenewalFails, HandleRenewed,
         HandleRefused, HandleFailed, RegistryReleases
<1>2. \A o : Req(o, y) # Req(op, x)
  BY DEF Req
<1> QED BY <1>1, <1>2 DEF Carried

\* The clock lets the lease of a session lapse only while it is not in use.
LEMMA ClockKeepsContract ==
  ASSUME Timely, LeaseInv, TimePasses, NEW y \in Sessions
  PROVE  LeaseStep(y)
<1>1. /\ UNCHANGED sessionVars /\ leases' = leases /\ now' = now + 1 /\ OnTime(y)
  BY DEF TimePasses, Tick
<1>2. /\ now \in Nat /\ sentAt[y] \in Nat /\ expiresAt[y] \in Nat
      /\ timer[y] # NoTimer => timer[y] \in Nat
      /\ y \in DOMAIN leases => leases[y] \in Nat
      /\ stage[y] \in Stages
  BY DEF LeaseInv, LeaseTypeOK, TypeOK
<1>3. StartInTime(y) /\ RenewalInTime(y)
  BY DEF LeaseInv, SessionsInTime, SessionInv
<1>4. stage'[y] = stage[y] /\ Carried(y)' = Carried(y)
  BY <1>1 DEF sessionVars, Carried
<1>5. y \in Holders' => y \in Holders
  BY <1>1, <1>2 DEF Holders, FreshHolders
<1>6. CASE stage[y] = "starting"
  <2>1. now + 1 < expiresAt[y] /\ Believes(y)
    BY <1>1, <1>2, <1>3, <1>6, DelayTypes DEF StartInTime, OnTime, Timely, Period, LargerOf
  <2>2. y \in Holders'
    BY <1>1, <1>2, <2>1 DEF Holders, FreshHolders, Believes
  <2> QED BY <1>4, <1>5, <2>2, LeaseUntouched DEF HeldStays
<1>7. CASE stage[y] = "live"
  <2>1. now + 1 < expiresAt[y] /\ Believes(y)
    BY <1>1, <1>2, <1>3, <1>7, DelayTypes DEF RenewalInTime, OnTime
  <2>2. y \in Holders'
    BY <1>1, <1>2, <2>1 DEF Holders, FreshHolders, Believes
  <2> QED BY <1>4, <1>5, <2>2, LeaseUntouched DEF HeldStays
<1>8. CASE stage[y] \in {"idle", "acquiring", "over"}
  <2>1. CASE HeldStays(y)
    BY <1>4, <2>1, LeaseUntouched
  <2>2. CASE ~HeldStays(y)
    <3>1. y \notin Holders'
      BY <1>5, <2>2 DEF HeldStays
    <3>2. LeaseStage(y) \in {"out", "asking"} /\ LeaseStage(y)' = LeaseStage(y)
      BY <1>4, <1>8, StageReadings DEF StageReads
    <3> QED BY <1>4, <3>1, <3>2
            DEF LeaseStep, LeaseUse!Next, LeaseUse!Lapse, LeaseUse!InUse, Holders
  <2> QED BY <2>1, <2>2
<1> QED BY <1>2, <1>6, <1>7, <1>8 DEF Stages
\* A session asks, is answered, gives its lease back or only renews it.
LEMMA OwnKeepsContract ==
  ASSUME LeaseInv, NEW x \in Sessions, SessionStep(x)
  PROVE  LeaseStep(x)
<1>1. TypeOK /\ LeaseTypeOK /\ Orderly(x)
  BY DEF LeaseInv, SessionsInTime, SessionInv, LeaseTypeOK
<1>2. /\ stage[x] \in Stages
      /\ \A v : [stage EXCEPT ![x] = v][x] = v
  BY <1>1 DEF LeaseTypeOK
<1>3. /\ Req("renew", x) # Req("acquire", x) /\ Req("renew", x) # Req("release", x)
      /\ Req("acquire", x) # Req("release", x)
  BY DEF Req
<1>4. leases' = leases /\ now' = now => HeldStays(x)
  BY DEF HeldStays, Holders, FreshHolders
<1>5. Prunes => HeldStays(x)
  BY <1>1, PrunesFacts DEF HeldStays
<1>6. wire' = wire \cup {Req("release", x)} => Carried(x)' = Carried(x) \cup {"release"}
  BY <1>3 DEF Carried
<1>7. wire' = wire => Carried(x)' = Carried(x)
  BY DEF Carried
<1>8. wire' = wire \ {Req("acquire", x)} => Carried(x)' = Carried(x) \ {"acquire"}
  BY <1>3 DEF Carried
<1>9. Req("acquire", x) \in wire <=> "acquire" \in Carried(x)
  BY DEF Carried
\* Giving the lease back, from a start-up or a session.
<1>10. ASSUME stage[x] \in {"starting", "live"}, stage'[x] = "over",
              wire' = wire \cup {Req("release", x)}, HeldStays(x)
       PROVE  LeaseStep(x)
  <2>1. LeaseStage(x) \in {"holding", "live"} /\ LeaseStage(x)' = "out"
    BY <1>10, StageReadings DEF StageReads
  <2> QED BY <1>6, <1>10, <2>1
          DEF LeaseStep, LeaseUse!Next, LeaseUse!GiveBack, LeaseUse!InUse, HeldStays, Holders
<1>11. CASE Connect(x)
  <2>1. /\ stage[x] = "idle" /\ stage'[x] = "acquiring" /\ HeldStays(x)
        /\ wire' = wire \cup {Req("acquire", x)}
    BY <1>2, <1>4, <1>11 DEF Connect, registryVars
  <2>2. LeaseStage(x) = "out" /\ LeaseStage(x)' = "asking"
    BY <2>1, StageReadings DEF StageReads
  <2>3. "release" \notin Carried(x)
    BY <1>1, <2>1 DEF Orderly, Carried
  <2>4. Carried(x)' = Carried(x) \cup {"acquire"}
    BY <1>3, <2>1 DEF Carried
  <2> QED BY <2>1, <2>2, <2>3, <2>4
          DEF LeaseStep, LeaseUse!Next, LeaseUse!Ask, HeldStays, Holders
<1>12. CASE Granted(x)
  <2>1. x \in Holders'
    BY <1>1, <1>12, GrowsFacts DEF Granted, Acquire, Grows
  <2>2. "acquire" \in Carried(x) /\ Carried(x)' = Carried(x) \ {"acquire"}
    BY <1>8, <1>9, <1>12 DEF Granted
  <2>3. CASE stage[x] = "acquiring"
    <3>1. stage'[x] = "starting"
      BY <1>2, <1>12, <2>3 DEF Granted
    <3>2. LeaseStage(x) = "asking" /\ LeaseStage(x)' = "holding"
      BY <2>3, <3>1, StageReadings DEF StageReads
    <3> QED BY <2>1, <2>2, <3>2 DEF LeaseStep, LeaseUse!Next, LeaseUse!Grant, Holders
  <2>4. CASE stage[x] # "acquiring"
    <3>1. stage'[x] = stage[x]
      BY <1>12, <2>4 DEF Granted
    <3>2. LeaseStage(x) # "asking" /\ LeaseStage(x)' = LeaseStage(x)
      BY <1>2, <2>4, <3>1, StageReadings DEF StageReads, Stages
    <3> QED BY <2>1, <2>2, <3>2 DEF LeaseStep, LeaseUse!Next, LeaseUse!Grant, Holders
  <2> QED BY <2>3, <2>4
<1>13. CASE Denied(x)
  <2>1. HeldStays(x)
    BY <1>5, <1>13 DEF Denied, RefuseAcquire, Prunes
  <2>2. "acquire" \in Carried(x) /\ Carried(x)' = Carried(x) \ {"acquire"}
    BY <1>8, <1>9, <1>13 DEF Denied
  <2>3. stage'[x] = IF stage[x] = "acquiring" THEN "over" ELSE stage[x]
    BY <1>1, <1>13 DEF Denied, LeaseTypeOK
  <2>4. \/ LeaseStage(x) = "asking" /\ LeaseStage(x)' = "out"
        \/ LeaseStage(x) # "asking" /\ LeaseStage(x)' = LeaseStage(x)
    BY <1>2, <2>3, StageReadings DEF StageReads, Stages
  <2> QED BY <2>1, <2>2, <2>4
          DEF LeaseStep, LeaseUse!Next, LeaseUse!Refuse, HeldStays, Holders
<1>14. CASE AcquireFails(x)
  <2>1. stage'[x] = "over" /\ HeldStays(x) /\ Carried(x)' = Carried(x)
    BY <1>2, <1>4, <1>7, <1>14 DEF AcquireFails, registryVars
  <2>2. LeaseStage(x)' = "out"
    BY <2>1, StageReadings DEF StageReads
  <2> QED BY <2>1, <2>2 DEF LeaseStep, LeaseUse!Next, LeaseUse!Fail, HeldStays, Holders
<1>15. CASE GoLive(x)
  <2>1. /\ stage[x] = "starting" /\ stage'[x] = "live"
        /\ HeldStays(x) /\ Carried(x)' = Carried(x)
    BY <1>2, <1>4, <1>7, <1>15 DEF GoLive, registryVars
  <2>2. LeaseStage(x) = "holding" /\ LeaseStage(x)' = "live"
    BY <2>1, StageReadings DEF StageReads
  <2> QED BY <2>1, <2>2 DEF LeaseStep, LeaseUse!Next, LeaseUse!GoLive, HeldStays, Holders
<1>16. CASE AbandonStart(x)
  BY <1>2, <1>4, <1>10, <1>16 DEF AbandonStart, registryVars
<1>17. CASE Close(x)
  BY <1>2, <1>4, <1>10, <1>17 DEF Close, CleanupLive, registryVars
<1>18. CASE Crash(x)
  <2>1. stage'[x] = "over" /\ HeldStays(x)
    BY <1>2, <1>4, <1>18 DEF Crash, registryVars
  <2>2. LeaseStage(x)' = "out"
    BY <2>1, StageReadings DEF StageReads
  <2>3. Carried(x)' \in SUBSET (Carried(x) \cup {"release"})
    BY <1>6, <1>7, <1>18 DEF Crash
  <2> QED BY <2>1, <2>2, <2>3
          DEF LeaseStep, LeaseUse!Next, LeaseUse!Fail, HeldStays, Holders
<1>19. CASE TimerFires(x) \/ RenewalFails(x) \/ HandleRenewed(x)
  <2>1. stage' = stage /\ HeldStays(x) /\ wire' \in {wire, wire \cup {Req("renew", x)}}
    BY <1>4, <1>19 DEF TimerFires, RenewalFails, HandleRenewed, registryVars
  <2>2. Carried(x)' = Carried(x)
    BY <1>3, <2>1 DEF Carried
  <2> QED BY <2>1, <2>2, LeaseUntouched
<1>20. CASE RegistryRenews(x)
  <2>1. stage' = stage /\ wire' = wire \ {Req("renew", x)}
    BY <1>20 DEF RegistryRenews
  <2>2. Carried(x)' = Carried(x)
    BY <1>3, <2>1 DEF Carried
  <2>3. CASE Renew(x)
    <3>1. x \in Holders /\ Grows(x)
      BY <2>3 DEF Renew, CanRenew, Grows, CanAcquire, Holders
    <3>2. Holders' = Holders \cup {x}
      BY <1>1, <3>1, GrowsFacts
    <3> QED BY <2>1, <2>2, <3>1, <3>2, LeaseUntouched DEF HeldStays
  <2>4. CASE RefuseRenew(x)
    <3>1. HeldStays(x)
      BY <1>5, <2>4 DEF RefuseRenew, Prunes
    <3> QED BY <2>1, <2>2, <3>1, LeaseUntouched
  <2> QED BY <1>20, <2>3, <2>4 DEF RegistryRenews
<1>21. CASE HandleRefused(x) \/ HandleFailed(x)
  <2>1. HeldStays(x)
    BY <1>4, <1>21 DEF HandleRefused, HandleFailed, registryVars
  <2>2. \/ stage' = stage /\ wire' = wire
        \/ /\ stage[x] = "live" /\ stage'[x] = "over"
           /\ wire' = wire \cup {Req("release", x)}
    BY <1>2, <1>21 DEF HandleRefused, HandleFailed, CleanupLive
  <2> QED BY <1>7, <1>10, <2>1, <2>2, LeaseUntouched
<1>22. CASE RegistryReleases(x)
  <2>1. "release" \in Carried(x) /\ Carried(x)' = Carried(x) \ {"release"}
    BY <1>3, <1>22 DEF RegistryReleases, Carried
  <2>2. x \notin Holders'
    BY <1>1, <1>22, ReleaseFacts DEF RegistryReleases
  <2>3. LeaseStage(x)' = LeaseStage(x)
    BY <1>22 DEF RegistryReleases, LeaseStage
  <2> QED BY <2>1, <2>2, <2>3 DEF LeaseStep, LeaseUse!Next, LeaseUse!Released, Holders
<1> QED BY <1>11, <1>12, <1>13, <1>14, <1>15, <1>16, <1>17, <1>18, <1>19, <1>20, <1>21,
           <1>22 DEF SessionStep

LEMMA LeaseNextKeepsContract ==
  ASSUME Timely, LeaseInv, [LeaseNext]_allVars, NEW y \in Sessions
  PROVE  LeaseStep(y)
<1>1. ASSUME NEW x \in Sessions, SessionStep(x) PROVE LeaseStep(y)
  <2>1. CASE x = y
    BY <1>1, <2>1, OwnKeepsContract
  <2>2. CASE x # y
    <3>1. stage'[y] = stage[y] /\ HeldStays(y) /\ Carried(y)' = Carried(y)
      BY <1>1, <2>2, OthersSame, OthersHeld, OthersCarried DEF LeaseInv, Same
    <3> QED BY <3>1, LeaseUntouched
  <2> QED BY <2>1, <2>2
<1>2. ASSUME NEW r \in wire, RequestLost(r) PROVE LeaseStep(y)
  <2>1. wire' = wire \ {r} /\ stage' = stage /\ HeldStays(y)
    BY <1>2 DEF RequestLost, registryVars, HeldStays, Holders, FreshHolders
  <2>2. LeaseStage(y)' = LeaseStage(y)
    BY <2>1 DEF LeaseStage
  <2>3. CASE \E op \in {"acquire", "release"} : r = Req(op, y)
    <3>1. PICK op \in {"acquire", "release"} : r = Req(op, y)
      BY <2>3
    <3>2. op \in Carried(y)
      BY <1>2, <3>1 DEF Carried
    <3>3. \A o : Req(o, y) = Req(op, y) <=> o = op
      BY DEF Req
    <3>4. Carried(y)' = Carried(y) \ {op}
      BY <2>1, <3>1, <3>3 DEF Carried
    <3> QED BY <2>1, <2>2, <3>2, <3>4
            DEF LeaseStep, LeaseUse!Next, LeaseUse!Lost, HeldStays, Holders
  <2>4. CASE ~ \E op \in {"acquire", "release"} : r = Req(op, y)
    <3>1. Carried(y)' = Carried(y)
      BY <2>1, <2>4 DEF Carried
    <3> QED BY <2>1, <3>1, LeaseUntouched
  <2> QED BY <2>3, <2>4
<1>3. CASE RegistryAlarm
  <2>1. Prunes /\ UNCHANGED sessionVars
    BY <1>3 DEF RegistryAlarm, Alarm, Prunes
  <2>2. Holders' = Holders
    BY <2>1, PrunesFacts DEF LeaseInv, RegistryInv
  <2> QED BY <2>1, <2>2, LeaseUntouched DEF HeldStays, sessionVars, Carried
<1>4. CASE TimePasses
  BY <1>4, ClockKeepsContract
<1>5. CASE UNCHANGED allVars
  BY <1>5, LeaseUntouched DEF allVars, HeldStays, Holders, FreshHolders, Carried
<1> QED BY <1>1, <1>2, <1>3, <1>4, <1>5 DEF LeaseNext

(***************************************************************************)
(* Acquiring, renewing and releasing keep every session within             *)
(* LeaseContract, provided calls settle in time: a lease lapses only       *)
(* while its session does not use it, which is what SshSession takes for   *)
(* granted when it lets a lease expire.                                    *)
(***************************************************************************)
THEOREM RenewalKeepsLeaseContract == ASSUME Timely PROVE LeaseSpec => KeepLeaseContract
<1>1. ASSUME NEW s \in Sessions PROVE LeaseSpec => LeaseUse(s)!Spec
  <2>1. LeaseInit => LeaseUse(s)!Init
    BY StageReadings
       DEF LeaseInit, Init, NoLeases, FreshHolders, Carried, StageReads, LeaseUse!Init
  <2>2. LeaseInv /\ [LeaseNext]_allVars => [LeaseUse(s)!Next]_(LeaseUse(s)!vars)
    BY LeaseNextKeepsContract DEF LeaseStep
  <2> QED BY <2>1, <2>2, LeaseInvHolds, PTL DEF LeaseSpec, LeaseUse!Spec
<1> QED BY <1>1 DEF KeepLeaseContract

(***************************************************************************)
(* What the contract buys both modules: while a session starts or lives    *)
(* its lease is held and nobody is giving it back.  One asks only when no  *)
(* release is under way, and only a release or a lapse takes a lease.      *)
(***************************************************************************)
THEOREM LeaseInUseIsHeld ==
  ASSUME NEW s \in Sessions
  PROVE  LeaseUse(s)!Spec => [](LeaseUse(s)!InUseIsHeld)
<1> DEFINE Sound == /\ LeaseUse(s)!InUseIsHeld
                    /\ LeaseStage(s) = "asking" => "release" \notin Carried(s)
<1>1. LeaseUse(s)!Init => Sound
  BY DEF LeaseUse!Init, LeaseUse!InUseIsHeld, LeaseUse!InUse
<1>2. Sound /\ [LeaseUse(s)!Next]_(LeaseUse(s)!vars) => Sound'
  BY DEF LeaseUse!Next, LeaseUse!vars, LeaseUse!InUseIsHeld, LeaseUse!InUse, LeaseUse!Ask,
         LeaseUse!Grant, LeaseUse!Refuse, LeaseUse!Hear, LeaseUse!GoLive, LeaseUse!GiveBack,
         LeaseUse!Fail, LeaseUse!Released, LeaseUse!Lost, LeaseUse!Lapse
<1> QED BY <1>1, <1>2, PTL DEF LeaseUse!Spec
=============================================================================
