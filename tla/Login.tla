-------------------------------- MODULE Login --------------------------------
(***************************************************************************)
(* Signing in (apps/worker/src/http/auth.ts with storage/users,            *)
(* storage/auth-sessions, storage/oauth and auth/google-oidc): password    *)
(* logins behind the rate limiters, sessions, enrolment of a second factor *)
(* and Google logins.  Requests run concurrently; every D1 statement and   *)
(* every call of a limiter is a step, and a request may die between two.   *)
(*                                                                         *)
(* A request is known by its id, and so is what it makes: the session of a *)
(* login, the TOTP secret of a setup, the attempt of a Google start.       *)
(* Hashes, tokens, PKCE and encryption are left out; a TOTP code is the    *)
(* secret it was computed from.                                            *)
(***************************************************************************)
EXTENDS AuthRateLimiter, FiniteSets

CONSTANTS Requests, Nothing,
          Claims,           \* <<subject, email>> of allowed Google accounts
          SessionTtl, PendingTtl, AttemptTtl,
          MaxTime,          \* bound: the clock stops
          MaxBusy,          \* bound: requests in flight at a time
          Mixes             \* bound: what each request id may be, [Requests -> Kind]

Kind == {"state", "login", "logout", "setup", "confirm", "disable",
         "google_start", "google_callback", "google_cancel"}

ASSUME LoginAssumption ==
  /\ Nothing \notin Requests
  /\ {SessionTtl, PendingTtl, AttemptTtl, MaxTime, MaxBusy} \subseteq Nat \ {0}
  /\ Mixes \subseteq [Requests -> Kind]

VARIABLES now,
          limiter,      \* the record of each limiter object
          admin,        \* the row of table users
          sessions,     \* auth_sessions, by the login that made them
          attempts,     \* oauth_login_attempts not consumed, with their expiry
          identities,   \* oauth_identities: subject -> email
          proven,       \* history: secrets a code of which was confirmed
          req           \* what each request is and how far it has come

vars == <<now, limiter, admin, sessions, attempts, identities, proven, req>>

NoPending == [secret |-> Nothing, expires |-> 0]

Id == Requests \cup {Nothing}

Idle(kind) == [kind |-> kind, stage |-> "new", address |-> Nothing, right |-> FALSE,
         code |-> Nothing, token |-> Nothing, claim |-> Nothing, found |-> Nothing,
         clearing |-> {}, seen |-> {}]

At(r, stage) == req[r].stage = stage
Busy == {r \in Requests : req[r].stage \notin {"new", "done"}}

Goto(r, stage) == req' = [req EXCEPT ![r].stage = stage]

\* A request that is over and left nothing behind frees its id; calls to the
\* limiters it still has under way go on.
Over(r) == [Idle(req[r].kind) EXCEPT !.clearing = req[r].clearing]
Fail(r) == req' = [req EXCEPT ![r] = Over(r)]

\* A request that answers with something new; what it was told is kept.
Finish(r) == req' = [req EXCEPT ![r].stage = "done", ![r].address = Nothing,
                                ![r].claim = Nothing]

Rows == <<admin, sessions, attempts, identities, proven>>

-----------------------------------------------------------------------------
(* Requests arrive.                                                         *)

\* The handler a request starts in: rate limiters, session cookie, or the row.
Entry(kind) ==
  CASE kind \in {"login", "google_start"} -> "ip"
    [] kind \in {"setup", "confirm", "disable"} -> "session"
    [] kind = "logout" -> "revoke"
    [] kind = "state" -> "row"
    [] OTHER -> "consume"

\* What a client may send: a password that is right or not, a code of some
\* secret, the token of a session, the state of a Google attempt.
Inputs(kind) ==
  [right : IF kind \in {"login", "disable"} THEN BOOLEAN ELSE {FALSE},
   address : IF kind \in {"login", "google_start", "google_callback"}
               THEN Addresses ELSE {Nothing},
   code : IF kind \in {"login", "confirm", "disable"}
            THEN {s \in Requests : req[s].kind = "setup"} \cup {Nothing} ELSE {Nothing},
   token : CASE kind \in {"logout", "setup", "confirm", "disable"}
                  -> {s \in Requests : sessions[s].state # "none"}
             [] kind \in {"google_callback", "google_cancel"}
                  -> {s \in Requests : req[s].kind = "google_start" /\ At(s, "done")}
             [] OTHER -> {Nothing},
   claim : IF kind = "google_callback" THEN Claims ELSE {Nothing}]

Receive(r) ==
  /\ At(r, "new") /\ req[r].clearing = {} /\ Cardinality(Busy) < MaxBusy
  /\ \E input \in Inputs(req[r].kind) :
       req' = [req EXCEPT ![r] =
         [kind |-> req[r].kind, stage |-> Entry(req[r].kind), address |-> input.address,
          right |-> input.right, code |-> input.code, token |-> input.token,
          claim |-> input.claim, found |-> Nothing, clearing |-> {},
          seen |-> IF req[r].kind = "login" THEN {admin.totp} ELSE {}]]
  /\ UNCHANGED <<now, limiter, Rows>>

\* The isolate goes away, or a call it waits for fails.
Die(r) == r \in Busy /\ Fail(r) /\ UNCHANGED <<now, limiter, Rows>>

-----------------------------------------------------------------------------
(* The rate limiters.                                                       *)

Reserve(r, l, next) ==
  /\ IF Allowed(limiter[l], now)
       THEN /\ limiter' = [limiter EXCEPT ![l] = Reserved(l, @, now)]
            /\ Goto(r, next)
       ELSE /\ limiter' = [limiter EXCEPT ![l] = FreshState(@, now)]
            /\ Fail(r)
  /\ UNCHANGED <<now, Rows>>

\* assertLoginAllowed: the account's budget is used only by an address that
\* has some left.
LimitAddress(r) == At(r, "ip") /\ Reserve(r, req[r].address, "account")
LimitAccount(r) == At(r, "account") /\ Reserve(r, Account, "row")

\* clearLoginFailures calls both objects at once; they answer in any order,
\* perhaps after the request has failed.
ClearLimiter(r, l) ==
  /\ l \in req[r].clearing
  /\ limiter' = [limiter EXCEPT ![l] = NoFailures]
  /\ req' = [req EXCEPT ![r].clearing = @ \ {l},
       ![r].stage = IF At(r, "clear") /\ req[r].clearing = {l} THEN "issue" ELSE @]
  /\ UNCHANGED <<now, Rows>>

StartClearing(r) ==
  req' = [req EXCEPT ![r].stage = "clear", ![r].clearing = {req[r].address, Account}]

Alarm(l) ==
  /\ AlarmDue(limiter[l], now)
  /\ limiter' = [limiter EXCEPT ![l] = NoFailures]
  /\ UNCHANGED <<now, req, Rows>>

-----------------------------------------------------------------------------
(* Password login, the administrator's row, sessions.                       *)

\* What follows once the row is known: state answers, start makes an attempt,
\* login verifies the password and then asks for a code if the row it read
\* had a second factor.
AfterRow(r, totp) ==
  \/ req[r].kind = "state" /\ Fail(r)
  \/ req[r].kind = "google_start" /\ Goto(r, "begin")
  \/ /\ req[r].kind \notin {"state", "google_start"}
     /\ IF ~req[r].right \/ (totp # Nothing /\ req[r].code = Nothing) THEN Fail(r)
        ELSE IF totp # Nothing THEN Goto(r, "code") ELSE StartClearing(r)

\* ensureAdmin: look the row up, insert it if there is none.
FindAdmin(r) ==
  /\ At(r, "row")
  /\ IF admin.exists THEN AfterRow(r, admin.totp) ELSE Goto(r, "insert")
  /\ UNCHANGED <<now, limiter, Rows>>

InsertAdmin(r) ==
  /\ At(r, "insert")
  /\ IF admin.exists THEN Fail(r) /\ UNCHANGED admin
     ELSE admin' = [admin EXCEPT !.exists = TRUE] /\ AfterRow(r, Nothing)
  /\ UNCHANGED <<now, limiter, sessions, attempts, identities, proven>>

\* Faulty variant of CheckCode: a login may also use the secret that waits.
CheckAnyCode(r) ==
  /\ At(r, "code")
  /\ IF req[r].code \notin {admin.totp, admin.pending.secret} \ {Nothing} THEN Fail(r)
     ELSE IF req[r].kind = "login" THEN StartClearing(r)
     ELSE IF req[r].right THEN Goto(r, "off")
     ELSE Fail(r)
  /\ UNCHANGED <<now, limiter, Rows>>

\* getTotpSecret and verifyTotp, of a login and of disabling the factor.
CheckCode(r) ==
  /\ At(r, "code")
  /\ IF req[r].code = Nothing \/ req[r].code # admin.totp THEN Fail(r)
     ELSE IF req[r].kind = "login" THEN StartClearing(r)
     ELSE IF req[r].right THEN Goto(r, "off")
     ELSE Fail(r)
  /\ UNCHANGED <<now, limiter, Rows>>

\* issueAppSession
Issue(r) ==
  /\ At(r, "issue")
  /\ sessions' = [sessions EXCEPT ![r] = [state |-> "active", expires |-> now + SessionTtl]]
  /\ Finish(r)
  /\ UNCHANGED <<now, limiter, admin, attempts, identities, proven>>

\* handleLogout
Revoke(r) ==
  /\ At(r, "revoke")
  /\ sessions' = [sessions EXCEPT ![req[r].token].state = "revoked"]
  /\ Fail(r)
  /\ UNCHANGED <<now, limiter, admin, attempts, identities, proven>>

\* requireAuthentication: findActive, then the owner's row.
Authenticate(r) ==
  LET s == sessions[req[r].token]
  IN  /\ At(r, "session")
      /\ IF s.state = "active" /\ s.expires > now
           THEN Goto(r, CASE req[r].kind = "setup" -> "save"
                          [] req[r].kind = "confirm" -> "pending"
                          [] OTHER -> "code")
           ELSE Fail(r)
      /\ UNCHANGED <<now, limiter, Rows>>

-----------------------------------------------------------------------------
(* Enrolment of the second factor.                                          *)

\* A change of the row; every request in flight has then seen both factors.
SetAdmin(r, row) ==
  /\ admin' = row
  /\ req' = [q \in Requests |->
       CASE q = r /\ req[r].kind = "setup" -> [req[r] EXCEPT !.stage = "done"]
         [] q = r /\ req[r].kind # "setup" -> Over(r)
         [] q \in Busy \ {r} /\ req[q].kind = "login" -> [req[q] EXCEPT !.seen = @ \cup {row.totp}]
         [] OTHER -> req[q]]
  /\ UNCHANGED <<now, limiter, sessions, attempts, identities, proven>>

\* savePendingTotp: a new secret replaces one that waits.
SavePending(r) ==
  /\ At(r, "save")
  /\ SetAdmin(r, [admin EXCEPT !.pending = [secret |-> r, expires |-> now + PendingTtl]])

\* getPendingTotp and verifyTotp
ReadPending(r) ==
  /\ At(r, "pending")
  /\ IF admin.pending = NoPending THEN Fail(r)
     ELSE IF admin.pending.expires =< now THEN Goto(r, "wipe")
     ELSE IF req[r].code = admin.pending.secret THEN req' = [req EXCEPT ![r].stage = "enable", ![r].found = admin.pending.secret]
     ELSE Fail(r)
  /\ proven' = IF req'[r].stage = "enable" THEN proven \cup {admin.pending.secret} ELSE proven
  /\ UNCHANGED <<now, limiter, admin, sessions, attempts, identities>>

\* clearPendingTotp, whatever waits by then
WipePending(r) == At(r, "wipe") /\ SetAdmin(r, [admin EXCEPT !.pending = NoPending])

\* Faulty variant of EnableTotp: whatever waits in the row is enabled.
EnablePending(r) ==
  /\ At(r, "enable")
  /\ SetAdmin(r, [admin EXCEPT !.totp = admin.pending.secret, !.pending = NoPending])

\* enableTotp: the secret whose code was verified.
EnableTotp(r) ==
  /\ At(r, "enable")
  /\ SetAdmin(r, [admin EXCEPT !.totp = req[r].found, !.pending = NoPending])

DisableTotp(r) ==
  /\ At(r, "off")
  /\ SetAdmin(r, [admin EXCEPT !.totp = Nothing, !.pending = NoPending])

-----------------------------------------------------------------------------
(* Google login.                                                            *)

Unexpired(o) == {a \in DOMAIN o : o[a] > now}

\* begin: old attempts are deleted, the new one inserted.
BeginAttempt(r) ==
  /\ At(r, "begin")
  /\ attempts' = [a \in Unexpired(attempts) \cup {r} |->
                    IF a = r THEN now + AttemptTtl ELSE attempts[a]]
  /\ Finish(r)
  /\ UNCHANGED <<now, limiter, admin, sessions, identities, proven>>

\* Faulty variant of Consume: the attempt is looked up and never marked.
ConsumeReading(r) ==
  /\ At(r, "consume")
  /\ IF req[r].token \in Unexpired(attempts) /\ req[r].kind = "google_callback"
       THEN Goto(r, "exchange") ELSE Fail(r)
  /\ UNCHANGED <<now, limiter, Rows>>

\* consume: one UPDATE finds and marks an attempt that is neither used nor
\* expired.  A callback with an error only uses it up.
Consume(r) ==
  LET a == req[r].token
  IN  /\ At(r, "consume")
      /\ IF a \in Unexpired(attempts)
           THEN /\ attempts' = [b \in DOMAIN attempts \ {a} |-> attempts[b]]
                /\ IF req[r].kind = "google_callback" THEN Goto(r, "exchange") ELSE Fail(r)
           ELSE Fail(r) /\ UNCHANGED attempts
      /\ UNCHANGED <<now, limiter, admin, sessions, identities, proven>>

Subject(r) == req[r].claim[1]
Email(r) == req[r].claim[2]

\* Another subject has this e-mail address.
Taken(r) == \E s \in DOMAIN identities : s # Subject(r) /\ identities[s] = Email(r)

\* exchangeCode, verifyToken and the look-ups of bindGoogleIdentity; Google's
\* refusal is a Die.
LookUpIdentity(r) ==
  /\ At(r, "exchange")
  /\ IF Taken(r) THEN Fail(r) ELSE Goto(r, "bind")
  /\ UNCHANGED <<now, limiter, Rows>>

\* The upsert, under the unique index on the e-mail address.
BindIdentity(r) ==
  /\ At(r, "bind")
  /\ IF Taken(r) THEN Fail(r) /\ UNCHANGED identities
     ELSE /\ identities' = [s \in DOMAIN identities \cup {Subject(r)} |->
                              IF s = Subject(r) THEN Email(r) ELSE identities[s]]
          /\ Goto(r, "bound")
  /\ UNCHANGED <<now, limiter, admin, sessions, attempts, proven>>

\* The identity is read back; a concurrent login may have changed its address.
RereadIdentity(r) ==
  /\ At(r, "bound")
  /\ IF identities[Subject(r)] = Email(r) THEN StartClearing(r) ELSE Fail(r)
  /\ UNCHANGED <<now, limiter, Rows>>

\* The callback goes on when clearing the limiters fails.
ClearingFails(r) ==
  /\ At(r, "clear") /\ req[r].kind = "google_callback"
  /\ Goto(r, "issue")
  /\ UNCHANGED <<now, limiter, Rows>>

-----------------------------------------------------------------------------
Tick == now < MaxTime /\ now' = now + 1 /\ UNCHANGED <<limiter, req, Rows>>

Some(mix, kind) == {r \in Requests : /\ mix[r] = kind
                                     /\ r = CHOOSE q \in Requests : mix[q] = kind}

\* A deployment nobody has signed in to, or one with a session and perhaps a
\* second factor, of an earlier login (by) and setup (on).
Init ==
  /\ now = 0
  /\ limiter = [l \in Scopes |-> NoFailures]
  /\ attempts = <<>> /\ identities = <<>>
  /\ \E mix \in Mixes : \E by \in {{}, Some(mix, "login")} :
     \E on \in {{}, Some(mix, "setup")} :
       /\ by = {} => Some(mix, "setup") = {}
       /\ proven = on
       /\ admin = [exists |-> by # {}, pending |-> NoPending,
                   totp |-> IF on = {} THEN Nothing ELSE CHOOSE r \in on : TRUE]
       /\ sessions = [r \in Requests |->
                        IF r \in by THEN [state |-> "active", expires |-> SessionTtl]
                        ELSE [state |-> "none", expires |-> 0]]
       /\ req = [r \in Requests |->
                   CASE r \in by -> [Idle("login") EXCEPT !.stage = "done", !.right = TRUE,
                                                          !.seen = {Nothing}]
                     [] r \in on -> [Idle("setup") EXCEPT !.stage = "done"]
                     [] OTHER -> Idle(mix[r])]

Step(r) ==
  \/ Receive(r) \/ Die(r)
  \/ LimitAddress(r) \/ LimitAccount(r) \/ \E l \in Scopes : ClearLimiter(r, l)
  \/ FindAdmin(r) \/ InsertAdmin(r) \/ CheckCode(r) \/ Issue(r)
  \/ Revoke(r) \/ Authenticate(r)
  \/ SavePending(r) \/ ReadPending(r) \/ WipePending(r) \/ EnableTotp(r) \/ DisableTotp(r)
  \/ BeginAttempt(r) \/ Consume(r) \/ LookUpIdentity(r) \/ BindIdentity(r)
  \/ RereadIdentity(r) \/ ClearingFails(r)

Next == Tick \/ (\E l \in Scopes : Alarm(l)) \/ (\E r \in Requests : Step(r))

Spec == Init /\ [][Next]_vars

-----------------------------------------------------------------------------
(* What signing in promises.                                                *)

\* Whoever logs in by password had the right one, and the second factor of
\* some moment of the request: concurrent enrolments and removals of the
\* factor never let in a login that was at no moment entitled.
LoginWasEntitled ==
  \A r \in Requests :
    req[r].kind = "login" /\ sessions[r].state # "none" =>
      req[r].right /\ req[r].seen \cap {Nothing, req[r].code} # {}

\* A second factor that is asked for is one whose code was confirmed from the
\* enrolment that made it: an owner whose app never held the secret is not
\* locked out, whatever setups and confirmations overlap.
FactorWasProven == admin.totp # Nothing => admin.totp \in proven

\* A Google attempt lets in one browser at most: of two callbacks that race,
\* or a callback and a cancellation, one finds the attempt used.
AttemptUsedOnce ==
  \A a \in Requests :
    Cardinality({r \in Requests : /\ req[r].kind = "google_callback"
                                  /\ req[r].token = a
                                  /\ req[r].stage \notin {"new", "consume"}}
                \cup (DOMAIN attempts \cap {a})) =< 1

\* On every limiter the attempts admitted since the count was last clear are
\* as far apart as the doubling delay demands, however requests from several
\* addresses, successes and alarms interleave.
AdmissionIsPaced == \A l \in Scopes : Paced(l, limiter[l])
=============================================================================
