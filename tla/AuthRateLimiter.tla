--------------------------- MODULE AuthRateLimiter ---------------------------
(***************************************************************************)
(* One login rate limiter object (apps/worker/src/durable/                 *)
(* auth-rate-limiter.ts): a count of attempts since the last success, and  *)
(* a time until which further ones are refused.  The objects handle one    *)
(* request at a time, so each request is a function on the stored record;  *)
(* module Login applies them to one object per address and one for the     *)
(* account.  `opened` is history: when the count was last at zero.         *)
(***************************************************************************)
EXTENDS Naturals

CONSTANTS Addresses,          \* client addresses
          Account,            \* the object "account:admin"
          IpThreshold, AccountThreshold,
          MaxDelay,           \* MAX_DELAY_SECONDS
          MaxFailures,        \* 31
          StateTtl            \* STATE_TTL_MS

ASSUME LimiterAssumption ==
  /\ Account \notin Addresses
  /\ {IpThreshold, AccountThreshold, MaxDelay, MaxFailures, StateTtl} \subseteq Nat \ {0}

Scopes == Addresses \cup {Account}

Threshold(l) == IF l = Account THEN AccountThreshold ELSE IpThreshold

Smaller(m, n) == IF m < n THEN m ELSE n

NoFailures == [failures |-> 0, blockedUntil |-> 0, lastFailureAt |-> 0, opened |-> 0]

\* 2 ** n
Doubled[n \in Nat] == IF n = 0 THEN 1 ELSE 2 * Doubled[n - 1]

\* Faulty variant of Delay: the exponent starts one attempt late.
DelayLate(l, failures) ==
  IF failures =< Threshold(l) THEN 0 ELSE Smaller(MaxDelay, Doubled[failures - Threshold(l) - 1])

\* The pause an attempt leaves behind: none below the threshold, then doubling.
Delay(l, failures) ==
  IF failures < Threshold(l) THEN 0 ELSE Smaller(MaxDelay, Doubled[failures - Threshold(l)])

\* readFreshState: a record that has not been touched for a day counts as none.
FreshState(state, now) ==
  IF state.failures > 0 /\ state.lastFailureAt + StateTtl > now THEN state ELSE NoFailures

\* check
Allowed(state, now) == FreshState(state, now).blockedUntil =< now

\* reserveAttempt of an allowed attempt: it is counted as a failure at once.
Reserved(l, state, now) ==
  LET fresh    == FreshState(state, now)
      failures == Smaller(fresh.failures + 1, MaxFailures)
  IN  [failures |-> failures, blockedUntil |-> now + Delay(l, failures),
       lastFailureAt |-> now, opened |-> IF fresh.failures = 0 THEN now ELSE fresh.opened]

\* The alarm armed with every attempt clears the record.
AlarmDue(state, now) == state.failures > 0 /\ state.lastFailureAt + StateTtl =< now

-----------------------------------------------------------------------------
\* The pauses before the n-th attempt since the record was clear add up.
Paced(l, state) ==
  \A n \in 1 .. MaxFailures :
    state.failures = n /\ n > Threshold(l) /\ Doubled[n - Threshold(l) - 1] =< MaxDelay =>
      state.lastFailureAt >= state.opened + Doubled[n - Threshold(l)] - 1
=============================================================================
