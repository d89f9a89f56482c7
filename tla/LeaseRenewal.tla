---------------------------- MODULE LeaseRenewal ----------------------------
(***************************************************************************)
(* How the session objects of one owner (SSHSessionDO in                   *)
(* apps/worker/src/durable/ssh-session.ts) use the registry: a session     *)
(* acquires a lease before it goes live, renews it on a timer while it is  *)
(* live, retries a failed renewal until a safety margin before expiry, and *)
(* releases it when it ends.  Requests travel to the registry              *)
(* asynchronously: one may fail at the caller and still be processed, or   *)
(* never be processed, and a session may end with requests in flight.      *)
(*                                                                         *)
(* The rest of a session's life is module SshSession; here a live session  *)
(* may end at any moment, and the object may crash.                        *)
(*                                                                         *)
(* Timeliness is explicit: a due timer fires before the clock moves on, a  *)
(* renewal is settled within Latency and a start-up within StartLatency.   *)
(***************************************************************************)
EXTENDS SessionRegistry

CONSTANTS RenewEvery,   \* SSH_SESSION_LEASE_RENEW_MS
          RetryDelay,   \* the 5000 in Math.min(5_000, remainingMs - 5_000)
          Margin,       \* the 5000 in remainingMs > 5_000
          MinDelay,     \* the 250 in Math.max(250, delayMs)
          Latency,      \* longest time between sending a renewal and its outcome
          StartLatency  \* longest time between sending acquire and going live

ASSUME DelayAssumption ==
  /\ RenewEvery \in Nat /\ RetryDelay \in Nat
  /\ Margin \in Nat /\ MinDelay \in Nat
  /\ Latency \in Nat /\ StartLatency \in Nat

VARIABLES stage,        \* where the connect handler and the session are
          expiresAt,    \* live.leaseExpiresAt, the last expiry the session was told
          answer,       \* the expiry in a renewal's answer on its way back
          timer,        \* live.leaseTimer: when it fires, or NoTimer
          renewal,      \* live.leaseRenewalInFlight and how the call came out
          sentAt,       \* when the pending start-up or renewal was sent
          wire          \* requests sent to the registry and not yet processed

sessionVars == <<stage, expiresAt, answer, timer, renewal, sentAt, wire>>
registryVars == <<leases, alarmAt, now>>
allVars == <<leases, alarmAt, now,
             stage, expiresAt, answer, timer, renewal, sentAt, wire>>

NoTimer == -1
Stages == {"idle", "acquiring", "starting", "live", "over"}
Outcomes == {"none", "sent", "renewed", "refused", "failed"}
Requests == [op : {"acquire", "renew", "release"}, session : Sessions]

Req(op, s) == [op |-> op, session |-> s]
Live == {s \in Sessions : stage[s] = "live"}
SmallerOf(a, b) == IF a < b THEN a ELSE b
LargerOf(a, b) == IF a > b THEN a ELSE b

-----------------------------------------------------------------------------
(* Starting: handleClientMessage "connect" up to sessions.set.             *)

Connect(s) ==
  /\ stage[s] = "idle"
  /\ stage' = [stage EXCEPT ![s] = "acquiring"]
  /\ sentAt' = [sentAt EXCEPT ![s] = now]
  /\ wire' = wire \cup {Req("acquire", s)}
  /\ UNCHANGED <<registryVars, answer, expiresAt, timer, renewal>>

\* The registry grants the lease; a caller that gave up does not hear of it.
Granted(s) ==
  /\ Req("acquire", s) \in wire
  /\ Acquire(s)
  /\ wire' = wire \ {Req("acquire", s)}
  /\ IF stage[s] = "acquiring"
     THEN /\ stage' = [stage EXCEPT ![s] = "starting"]
          /\ expiresAt' = [expiresAt EXCEPT ![s] = leases'[s]]
     ELSE UNCHANGED <<stage, expiresAt>>
  /\ UNCHANGED <<answer, timer, renewal, sentAt>>

\* 409: the session limit has been reached, and closeSocket follows.
Denied(s) ==
  /\ Req("acquire", s) \in wire
  /\ RefuseAcquire(s)
  /\ wire' = wire \ {Req("acquire", s)}
  /\ stage' = [stage EXCEPT ![s] = IF @ = "acquiring" THEN "over" ELSE @]
  /\ UNCHANGED <<answer, expiresAt, timer, renewal, sentAt>>

\* The acquire call throws: leaseAcquired is still false, so nothing is released.
AcquireFails(s) ==
  /\ stage[s] = "acquiring"
  /\ stage' = [stage EXCEPT ![s] = "over"]
  /\ UNCHANGED <<registryVars, answer, expiresAt, timer, renewal, sentAt, wire>>

\* The audit row is written and the socket still open: the session is live.
GoLive(s) ==
  /\ stage[s] = "starting"
  /\ stage' = [stage EXCEPT ![s] = "live"]
  /\ timer' = [timer EXCEPT ![s] = now + LargerOf(MinDelay, RenewEvery)]
  /\ UNCHANGED <<registryVars, answer, expiresAt, renewal, sentAt, wire>>

\* The socket has gone, or SSHSessionAudit.start threw: the lease is released.
AbandonStart(s) ==
  /\ stage[s] = "starting"
  /\ stage' = [stage EXCEPT ![s] = "over"]
  /\ wire' = wire \cup {Req("release", s)}
  /\ UNCHANGED <<registryVars, answer, expiresAt, timer, renewal, sentAt>>

-----------------------------------------------------------------------------
(* Ending: cleanup() removes the session from the map, clears its timer    *)
(* and sends the release in the same turn.                                 *)

CleanupLive(s) ==
  /\ stage' = [stage EXCEPT ![s] = "over"]
  /\ timer' = [timer EXCEPT ![s] = NoTimer]
  /\ wire' = wire \cup {Req("release", s)}

\* Disconnect, browser gone, engine closed or failed.
Close(s) ==
  /\ stage[s] = "live"
  /\ CleanupLive(s)
  /\ UNCHANGED <<registryVars, answer, expiresAt, renewal, sentAt>>

\* The object restarts: memory is gone.  recoverRestartedSocket sends the
\* release when the browser socket survived with its attachment.
Crash(s) ==
  /\ stage[s] \in {"acquiring", "starting", "live"}
  /\ stage' = [stage EXCEPT ![s] = "over"]
  /\ timer' = [timer EXCEPT ![s] = NoTimer]
  /\ renewal' = [renewal EXCEPT ![s] = "none"]
  /\ \/ stage[s] = "live" /\ wire' = wire \cup {Req("release", s)}
     \/ UNCHANGED wire
  /\ UNCHANGED <<registryVars, answer, expiresAt, sentAt>>

-----------------------------------------------------------------------------
(* Renewing: renewSessionLease and scheduleLeaseRenewal.                   *)

\* The timer callback; it returns early when a renewal is in flight.
TimerFires(s) ==
  /\ stage[s] = "live"
  /\ timer[s] # NoTimer
  /\ timer[s] <= now
  /\ timer' = [timer EXCEPT ![s] = NoTimer]
  /\ IF renewal[s] = "none"
     THEN /\ renewal' = [renewal EXCEPT ![s] = "sent"]
          /\ sentAt' = [sentAt EXCEPT ![s] = now]
          /\ wire' = wire \cup {Req("renew", s)}
     ELSE UNCHANGED <<renewal, sentAt, wire>>
  /\ UNCHANGED <<registryVars, answer, stage, expiresAt>>

\* Faulty variant of RegistryRenews: a renewal is handled as an acquire.
RegistryReacquires(s) ==
  /\ Req("renew", s) \in wire
  /\ Acquire(s)
  /\ wire' = wire \ {Req("renew", s)}
  /\ renewal' = [renewal EXCEPT ![s] = IF @ = "sent" THEN "renewed" ELSE @]
  /\ answer' = [answer EXCEPT ![s] = leases'[s]]
  /\ UNCHANGED <<stage, expiresAt, timer, sentAt>>

\* The registry answers a renewal, perhaps one whose caller gave up on it.
RegistryRenews(s) ==
  /\ Req("renew", s) \in wire
  /\ wire' = wire \ {Req("renew", s)}
  /\ \/ /\ Renew(s)
        /\ IF renewal[s] = "sent"
           THEN /\ renewal' = [renewal EXCEPT ![s] = "renewed"]
                /\ answer' = [answer EXCEPT ![s] = leases'[s]]
           ELSE UNCHANGED <<renewal, answer>>
     \/ /\ RefuseRenew(s)
        /\ renewal' = [renewal EXCEPT ![s] = IF @ = "sent" THEN "refused" ELSE @]
        /\ UNCHANGED answer
  /\ UNCHANGED <<stage, expiresAt, timer, sentAt>>

\* The call throws; the request may already be, or may yet be, processed.
RenewalFails(s) ==
  /\ renewal[s] \in {"sent", "renewed", "refused"}
  /\ renewal' = [renewal EXCEPT ![s] = "failed"]
  /\ UNCHANGED <<registryVars, answer, stage, expiresAt, timer, sentAt, wire>>

Reschedule(s, delay) == timer' = [timer EXCEPT ![s] = now + LargerOf(MinDelay, delay)]

\* leaseExpiresAt = renewed.expiresAt, and the next renewal is scheduled.
HandleRenewed(s) ==
  /\ renewal[s] = "renewed"
  /\ renewal' = [renewal EXCEPT ![s] = "none"]
  /\ expiresAt' = [expiresAt EXCEPT ![s] = answer[s]]
  /\ IF stage[s] = "live" THEN Reschedule(s, RenewEvery) ELSE UNCHANGED timer
  /\ UNCHANGED <<registryVars, answer, stage, sentAt, wire>>

\* "SSH session lease expired": the session is closed.  One that is over by
\* now takes the 0 of the refusal for its expiry, which it never looks at again.
HandleRefused(s) ==
  /\ renewal[s] = "refused"
  /\ renewal' = [renewal EXCEPT ![s] = "none"]
  /\ \/ /\ stage[s] = "live"
        /\ CleanupLive(s)
        /\ UNCHANGED expiresAt
     \/ /\ stage[s] # "live"
        /\ expiresAt' = [expiresAt EXCEPT ![s] = 0]
        /\ UNCHANGED <<stage, timer, wire>>
  /\ UNCHANGED <<registryVars, answer, sentAt>>

\* Faulty variant of HandleFailed: it retries without a safety margin, for ever.
HandleFailedWithoutMargin(s) ==
  /\ renewal[s] = "failed"
  /\ renewal' = [renewal EXCEPT ![s] = "none"]
  /\ IF stage[s] = "live" THEN Reschedule(s, RetryDelay) ELSE UNCHANGED timer
  /\ UNCHANGED <<registryVars, answer, expiresAt, sentAt, stage, wire>>

\* Retry while more than Margin is left, otherwise close the session.
HandleFailed(s) ==
  LET remaining == expiresAt[s] - now
  IN  /\ renewal[s] = "failed"
      /\ renewal' = [renewal EXCEPT ![s] = "none"]
      /\ \/ /\ stage[s] = "live" /\ remaining > Margin
            /\ Reschedule(s, SmallerOf(RetryDelay, remaining - Margin))
            /\ UNCHANGED <<stage, wire>>
         \/ /\ stage[s] = "live" /\ remaining <= Margin
            /\ CleanupLive(s)
         \/ /\ stage[s] # "live"
            /\ UNCHANGED <<stage, timer, wire>>
      /\ UNCHANGED <<registryVars, answer, expiresAt, sentAt>>

-----------------------------------------------------------------------------
\* A release is processed, or its request is lost.
RegistryReleases(s) ==
  /\ Req("release", s) \in wire
  /\ Release(s)
  /\ wire' = wire \ {Req("release", s)}
  /\ UNCHANGED <<answer, stage, expiresAt, timer, renewal, sentAt>>

RequestLost(r) ==
  /\ r \in wire
  /\ wire' = wire \ {r}
  /\ UNCHANGED <<registryVars, answer, stage, expiresAt, timer, renewal, sentAt>>

RegistryAlarm == Alarm /\ UNCHANGED sessionVars

\* The clock waits for due timers and for calls at their latency bound.
OnTime(s) ==
  /\ timer[s] # NoTimer => now < timer[s]
  /\ renewal[s] # "none" => now < sentAt[s] + Latency
  /\ stage[s] \in {"acquiring", "starting"} => now < sentAt[s] + StartLatency

TimePasses ==
  /\ \A s \in Sessions : OnTime(s)
  /\ Tick
  /\ UNCHANGED sessionVars

LeaseInit ==
  /\ Init
  /\ stage = [s \in Sessions |-> "idle"]
  /\ expiresAt = [s \in Sessions |-> 0]
  /\ answer = [s \in Sessions |-> 0]
  /\ timer = [s \in Sessions |-> NoTimer]
  /\ renewal = [s \in Sessions |-> "none"]
  /\ sentAt = [s \in Sessions |-> 0]
  /\ wire = {}

SessionStep(s) ==
  \/ Connect(s) \/ Granted(s) \/ Denied(s) \/ AcquireFails(s)
  \/ GoLive(s) \/ AbandonStart(s)
  \/ Close(s) \/ Crash(s)
  \/ TimerFires(s) \/ RegistryRenews(s) \/ RenewalFails(s)
  \/ HandleRenewed(s) \/ HandleRefused(s) \/ HandleFailed(s)
  \/ RegistryReleases(s)

LeaseNext ==
  \/ \E s \in Sessions : SessionStep(s)
  \/ \E r \in wire : RequestLost(r)
  \/ RegistryAlarm
  \/ TimePasses

LeaseSpec == LeaseInit /\ [][LeaseNext]_allVars

-----------------------------------------------------------------------------
LeaseTypeOK ==
  /\ TypeOK
  /\ stage \in [Sessions -> Stages]
  /\ expiresAt \in [Sessions -> Nat]
  /\ answer \in [Sessions -> Nat]
  /\ timer \in [Sessions -> Nat \cup {NoTimer}]
  /\ renewal \in [Sessions -> Outcomes]
  /\ sentAt \in [Sessions -> Nat]
  /\ wire \in SUBSET Requests

(***************************************************************************)
(* The reason for renewing at all: a live session always holds an          *)
(* unexpired lease, through slow, failed, lost and duplicated renewals.    *)
(***************************************************************************)
LiveHoldsLease == \A s \in Live : s \in FreshHolders(leases, now)

(***************************************************************************)
(* The per-user limit (README.md: "atomic per-user connection limits"),    *)
(* about the sessions that are live and not about the registry's record.   *)
(***************************************************************************)
LiveWithinLimit == Cardinality(Live) <= Maximum

(***************************************************************************)
(* A live session never believes in more time than the registry gave it,   *)
(* whichever replies were lost.                                            *)
(***************************************************************************)
BelievedExpiryIsSafe ==
  \A s \in Live : s \in DOMAIN leases /\ expiresAt[s] <= leases[s]

(***************************************************************************)
(* A renewal that reaches the registry after the session's release cannot  *)
(* bring the lease back: a session that is over, has no lease and has no   *)
(* acquire under way stays out.                                            *)
(***************************************************************************)
NoResurrection ==
  [][\A s \in Sessions :
       stage[s] = "over" /\ s \notin DOMAIN leases /\ Req("acquire", s) \notin wire
         => s \notin DOMAIN leases']_allVars

(***************************************************************************)
(* A session that is over gives its slot back eventually, even when its    *)
(* release is lost, its acquire is granted too late, or its object crashed.*)
(***************************************************************************)
SlotReturned ==
  \A s \in Sessions : stage[s] = "over" ~> s \notin DOMAIN leases

(***************************************************************************)
(* The delays under which LiveHoldsLease is claimed: a renewal settles     *)
(* inside the safety margin, and neither the start-up nor one renewal      *)
(* period uses up a whole lease.                                           *)
(***************************************************************************)
Period == LargerOf(MinDelay, RenewEvery)
Timely ==
  /\ Latency < Margin
  /\ Latency + MinDelay <= Margin
  /\ StartLatency + Period + Latency < Ttl
  /\ Latency + Period + Latency < Ttl

(***************************************************************************)
(* Why it works, per session.  A session that starts or lives believes in  *)
(* an expiry the registry honours; a start-up began less than a lease ago; *)
(* a live session always has a timer armed or a renewal under way, and     *)
(* whichever it is will be over before the believed expiry.                *)
(***************************************************************************)
Believes(s) == s \in DOMAIN leases /\ expiresAt[s] <= leases[s]

StartInTime(s) ==
  /\ stage[s] \in {"acquiring", "starting"} => now <= sentAt[s] + StartLatency
  /\ stage[s] = "starting" => Believes(s) /\ sentAt[s] + Ttl <= expiresAt[s]

RenewalInTime(s) ==
  stage[s] = "live" =>
    /\ Believes(s)
    /\ timer[s] # NoTimer \/ renewal[s] # "none"
    /\ timer[s] # NoTimer => now <= timer[s] /\ timer[s] + Latency < expiresAt[s]
    /\ renewal[s] # "none" =>
         now <= sentAt[s] + Latency /\ sentAt[s] + Latency < expiresAt[s]
    /\ renewal[s] = "renewed" =>
         sentAt[s] + Ttl <= answer[s] /\ answer[s] <= leases[s]

Orderly(s) ==
  /\ sentAt[s] <= now
  /\ timer[s] # NoTimer => stage[s] = "live"
  /\ stage[s] \in {"idle", "acquiring", "starting"} => renewal[s] = "none"
  /\ Req("release", s) \in wire => stage[s] = "over"

SessionInv(s) == StartInTime(s) /\ RenewalInTime(s) /\ Orderly(s)
SessionsInTime == \A s \in Sessions : SessionInv(s)

(***************************************************************************)
(* Each session keeps the contract about its lease that it shares with     *)
(* SshSession, where the rest of its life is.                              *)
(***************************************************************************)
LeaseStage(s) ==
  [idle |-> "out", acquiring |-> "asking", starting |-> "holding",
   live |-> "live", over |-> "out"][stage[s]]
Carried(s) == {op \in {"acquire", "release"} : Req(op, s) \in wire}

LeaseUse(s) == INSTANCE LeaseContract WITH
  stage <- LeaseStage(s), held <- s \in FreshHolders(leases, now), wire <- Carried(s)
KeepLeaseContract == \A s \in Sessions : LeaseUse(s)!Spec
=============================================================================
