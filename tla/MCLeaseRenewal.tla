--------------------------- MODULE MCLeaseRenewal ---------------------------
(* Session objects and registry on a small instance.  The clock stops at   *)
(* Horizon, and no lease is granted that would outlive it, so that every   *)
(* lease can expire before the clock stops.                                *)
EXTENDS LeaseRenewal

CONSTANT Horizon        \* bound on the clock and on granted expiry times

MCNext ==
  /\ LeaseNext
  /\ now' <= Horizon
  /\ \A s \in DOMAIN leases' : leases'[s] <= Horizon

(***************************************************************************)
(* Fairness: the clock, the alarm and the session timers run, every await  *)
(* of the session objects settles one way or the other.  Users need not    *)
(* connect or disconnect, and the network need not deliver anything.       *)
(***************************************************************************)
Settles(s) ==
  \/ AcquireFails(s) \/ GoLive(s) \/ AbandonStart(s)
  \/ RenewalFails(s) \/ HandleRenewed(s) \/ HandleRefused(s) \/ HandleFailed(s)

MCFairSpec ==
  /\ LeaseInit
  /\ [][MCNext]_allVars
  /\ WF_allVars(TimePasses /\ now' <= Horizon)
  /\ WF_allVars(RegistryAlarm)
  /\ \A s \in Sessions : WF_allVars(Settles(s)) /\ WF_allVars(TimerFires(s))
=============================================================================
