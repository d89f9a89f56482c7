----------------------------- MODULE LoginProofs -----------------------------
(***************************************************************************)
(* Proofs about Login: of the second factor, of password logins and of     *)
(* Google attempts, for any number of requests in flight, any mix of them, *)
(* any accounts and any lifetimes.  The inductive invariant says of each   *)
(* request what it has established by the statement it is at: most of it   *)
(* relates the request's record to a row it read earlier and that others   *)
(* have changed since.                                                     *)
(***************************************************************************)
EXTENDS Login, FiniteSetTheorems, WellFoundedInduction, TLAPS

-----------------------------------------------------------------------------
(* The inductive invariant.                                                 *)

Stage == {"new", "ip", "account", "row", "insert", "code", "clear", "issue", "done",
          "revoke", "session", "save", "pending", "wipe", "enable", "off", "begin",
          "consume", "exchange", "bind", "bound"}

Request == [kind : Kind, stage : Stage, address : Addresses \cup {Nothing},
            right : BOOLEAN, code : Id, token : Id, claim : Claims \cup {Nothing},
            found : Id, clearing : SUBSET (Scopes \cup {Nothing}), seen : SUBSET Id]

Shapes ==
  /\ admin \in [exists : BOOLEAN, totp : Id, pending : [secret : Id, expires : Nat]]
  /\ now \in Nat
  /\ sessions \in [Requests -> [state : {"none", "active", "revoked"}, expires : Nat]]
  /\ DOMAIN attempts \subseteq Requests
  /\ req \in [Requests -> Request]

\* The stages a request of each kind goes through.
Course(kind) ==
  CASE kind = "login" -> {"new", "ip", "account", "row", "insert", "code", "clear",
                          "issue", "done"}
    [] kind = "state" -> {"new", "row", "insert"}
    [] kind = "logout" -> {"new", "revoke"}
    [] kind = "setup" -> {"new", "session", "save", "done"}
    [] kind = "confirm" -> {"new", "session", "pending", "wipe", "enable"}
    [] kind = "disable" -> {"new", "session", "code", "off"}
    [] kind = "google_start" -> {"new", "ip", "account", "row", "insert", "begin", "done"}
    [] kind = "google_callback" -> {"new", "consume", "exchange", "bind", "bound",
                                    "clear", "issue", "done"}
    [] kind = "google_cancel" -> {"new", "consume"}

\* The password was right; the second factor of some moment was met.
Entitled(v) ==
  v.kind = "login" =>
    /\ v.stage \notin {"new", "done"} => admin.totp \in v.seen
    /\ v.stage \in {"code", "clear", "issue", "done"} => v.right
    /\ v.stage \in {"clear", "issue", "done"} => v.seen \cap {Nothing, v.code} # {}

\* Who asks to change a session or a factor names a session that was made.
HasSession(v) ==
  v.kind \in {"logout", "setup", "confirm", "disable"} /\ v.stage \notin {"new", "done"} =>
    v.token \in Requests /\ sessions[v.token].state # "none"

\* The starts whose attempt has been made.
Begun == {s \in Requests : req[s].kind = "google_start" /\ req[s].stage = "done"}

HasAttempt(v) ==
  v.kind \in {"google_callback", "google_cancel"} /\ v.stage # "new" => v.token \in Begun

\* A callback that has used an attempt up.
PastConsume(v) == v.kind = "google_callback" /\ v.stage \notin {"new", "consume"}

\* Nothing but the first look-ups before there is an administrator.
Early == {"new", "ip", "account", "row", "insert", "consume"}

RequestOk(v) ==
  /\ v.stage \in Course(v.kind)
  /\ Entitled(v)
  /\ HasSession(v)
  /\ HasAttempt(v)
  /\ PastConsume(v) => v.token \notin DOMAIN attempts
  /\ v.stage = "enable" => v.found \in proven
  /\ ~admin.exists => v.stage \in Early

BeforeAdmin ==
  ~admin.exists => admin.totp = Nothing /\ DOMAIN attempts = {}
                   /\ \A s \in Requests : sessions[s].state = "none"

SessionsAreDone == \A s \in Requests : sessions[s].state # "none" => req[s].stage = "done"

OneCallback ==
  \A p, q \in Requests :
    PastConsume(req[p]) /\ PastConsume(req[q]) /\ req[p].token = req[q].token => p = q

LoginInv ==
  /\ Shapes
  /\ \A r \in Requests : RequestOk(req[r])
  /\ BeforeAdmin
  /\ SessionsAreDone
  /\ DOMAIN attempts \subseteq Begun
  /\ OneCallback
  /\ FactorWasProven

-----------------------------------------------------------------------------
(* Steps that change one request and no row.                                *)

\* What a request has established stays established while the rows only grow
\* and the second factor stays what it is.
LEMMA RequestKept ==
  ASSUME NEW v, RequestOk(v),
         admin'.totp = admin.totp, admin.exists => admin'.exists,
         \A s \in Requests : sessions[s].state # "none" => sessions'[s].state # "none",
         Begun \subseteq Begun', proven \subseteq proven',
         PastConsume(v) => v.token \notin DOMAIN attempts'
  PROVE  /\ v.stage \in Course(v.kind)
         /\ Entitled(v)' /\ HasSession(v)' /\ HasAttempt(v)'
         /\ PastConsume(v) => v.token \notin DOMAIN attempts'
         /\ v.stage = "enable" => v.found \in proven'
         /\ ~admin'.exists => v.stage \in Early
<1>1. Entitled(v)'
  BY DEF RequestOk, Entitled
<1>2. HasSession(v)'
  BY DEF RequestOk, HasSession
<1>3. HasAttempt(v)'
  BY DEF RequestOk, HasAttempt
<1> QED
  BY <1>1, <1>2, <1>3 DEF RequestOk

LEMMA QuietStep ==
  ASSUME LoginInv, NEW r \in Requests, NEW v \in Request,
         req' = [req EXCEPT ![r] = v],
         UNCHANGED <<admin, sessions, attempts, proven>>, now' \in Nat,
         v.kind = req[r].kind, RequestOk(v),
         req[r].stage = "done" => v.stage = "done",
         PastConsume(v) => PastConsume(req[r]) /\ v.token = req[r].token
  PROVE  LoginInv'
<1> USE DEF LoginInv
<1>0. /\ req'[r] = v
      /\ \A q \in Requests \ {r} : req'[q] = req[q]
      /\ req \in [Requests -> Request]
  BY DEF Shapes
<1>1. Shapes'
  BY DEF Shapes
<1>2. Begun \subseteq Begun'
  BY <1>0 DEF Begun
<1>3. ASSUME NEW q \in Requests PROVE RequestOk(req[q])'
  <2>1. RequestOk(req'[q])
    BY <1>0
  <2>2. PastConsume(req'[q]) => req'[q].token \notin DOMAIN attempts'
    BY <2>1 DEF RequestOk
  <2> QED
    BY <1>2, <2>1, <2>2, RequestKept DEF RequestOk, Entitled, HasSession, HasAttempt, PastConsume
<1>4. BeforeAdmin'
  BY DEF BeforeAdmin
<1>5. SessionsAreDone'
  BY <1>0 DEF SessionsAreDone
<1>6. (DOMAIN attempts \subseteq Begun)'
  BY <1>2
<1>7. OneCallback'
  BY <1>0 DEF OneCallback, PastConsume
<1>8. FactorWasProven'
  BY DEF FactorWasProven
<1> QED
  BY <1>1, <1>3, <1>4, <1>5, <1>6, <1>7, <1>8

\* A request goes on to another stage, and no row changes.
LEMMA GotoStep ==
  ASSUME LoginInv, NEW r \in Requests, NEW stage \in Stage, Goto(r, stage),
         UNCHANGED <<admin, sessions, attempts, proven>>, now' \in Nat,
         req[r].stage # "done",
         RequestOk([req[r] EXCEPT !.stage = stage]),
         req[r].kind = "google_callback" => PastConsume(req[r]) \/ stage \in {"new", "consume"}
  PROVE  LoginInv'
<1> DEFINE v == [req[r] EXCEPT !.stage = stage]
<1>1. v \in Request /\ v.kind = req[r].kind /\ v.stage = stage /\ v.token = req[r].token
  BY SMTT(30) DEF LoginInv, Shapes, Request
<1>2. req' = [req EXCEPT ![r] = v]
  BY DEF Goto
<1>3. PastConsume(v) => PastConsume(req[r])
  BY <1>1 DEF PastConsume
<1>4. RequestOk(v)
  OBVIOUS
<1> HIDE DEF v
<1> QED
  BY <1>1, <1>2, <1>3, <1>4, QuietStep

\* A request gives up, and no row changes.
LEMMA FailStep ==
  ASSUME LoginInv, NEW r \in Requests, Fail(r),
         UNCHANGED <<admin, sessions, attempts, proven>>, now' \in Nat,
         req[r].stage # "done"
  PROVE  LoginInv'
<1> DEFINE v == Over(r)
<1>1. v \in Request /\ v.kind = req[r].kind /\ v.stage = "new"
  BY DEF LoginInv, Shapes, Request, Over, Idle, Id, Stage
<1>2. req' = [req EXCEPT ![r] = v]
  BY DEF Fail
<1>3. "new" \in Course(v.kind)
  BY <1>1 DEF Course, Kind, Request
<1>4. RequestOk(v) /\ ~PastConsume(v)
  BY <1>1, <1>3 DEF RequestOk, Entitled, HasSession, HasAttempt, PastConsume, Early
<1> HIDE DEF v
<1> QED
  BY <1>1, <1>2, <1>4, QuietStep

\* The calls that clear the limiters begin.
LEMMA ClearingStep ==
  ASSUME LoginInv, NEW r \in Requests, StartClearing(r),
         UNCHANGED <<admin, sessions, attempts, proven>>, now' \in Nat,
         req[r].stage \notin {"new", "done"}, admin.exists,
         \/ /\ req[r].kind = "login" /\ req[r].right
            /\ req[r].seen \cap {Nothing, req[r].code} # {}
         \/ PastConsume(req[r])
  PROVE  LoginInv'
<1> DEFINE v == [req[r] EXCEPT !.stage = "clear", !.clearing = {req[r].address, Account}]
<1>1. /\ v \in Request /\ v.kind = req[r].kind /\ v.stage = "clear" /\ v.token = req[r].token
      /\ v.right = req[r].right /\ v.code = req[r].code /\ v.seen = req[r].seen
  <2>1. req[r] \in Request
    BY DEF LoginInv, Shapes
  <2>2. {req[r].address, Account} \in SUBSET (Scopes \cup {Nothing})
    BY <2>1 DEF Request, Scopes
  <2> QED
    BY <2>1, <2>2 DEF Request, Stage
<1>2. req' = [req EXCEPT ![r] = v]
  BY DEF StartClearing
<1>3. "clear" \in Course(v.kind) /\ (PastConsume(v) => PastConsume(req[r]))
  BY <1>1 DEF Course, PastConsume
<1>4. RequestOk(req[r])
  BY DEF LoginInv
<1>5. RequestOk(v)
  <2>1. Entitled(v)
    BY <1>1, <1>4 DEF RequestOk, Entitled, PastConsume
  <2>2. HasSession(v) /\ HasAttempt(v)
    BY <1>1, <1>4 DEF RequestOk, HasSession, HasAttempt, PastConsume
  <2>3. PastConsume(v) => v.token \notin DOMAIN attempts
    BY <1>1, <1>3, <1>4 DEF RequestOk
  <2> HIDE DEF v
  <2> QED
    BY <1>1, <1>3, <2>1, <2>2, <2>3 DEF RequestOk
<1> HIDE DEF v
<1> QED
  BY <1>1, <1>2, <1>3, <1>5, QuietStep

-----------------------------------------------------------------------------
(* A request arrives, passes the limiters, finds the administrator.         *)

LEMMA ReceiveKeeps ==
  ASSUME LoginInv, NEW r \in Requests, Receive(r)
  PROVE  LoginInv'
<1>1. PICK input \in Inputs(req[r].kind) :
        req' = [req EXCEPT ![r] =
         [kind |-> req[r].kind, stage |-> Entry(req[r].kind), address |-> input.address,
          right |-> input.right, code |-> input.code, token |-> input.token,
          claim |-> input.claim, found |-> Nothing, clearing |-> {},
          seen |-> IF req[r].kind = "login" THEN {admin.totp} ELSE {}]]
  BY DEF Receive
<1> DEFINE kind == req[r].kind
           v == [kind |-> kind, stage |-> Entry(kind), address |-> input.address,
                 right |-> input.right, code |-> input.code, token |-> input.token,
                 claim |-> input.claim, found |-> Nothing, clearing |-> {},
                 seen |-> IF kind = "login" THEN {admin.totp} ELSE {}]
<1>2. /\ req' = [req EXCEPT ![r] = v] /\ req[r].stage = "new"
      /\ UNCHANGED <<admin, sessions, attempts, proven>> /\ now' = now
  BY <1>1 DEF Receive, Rows, At
<1>3. kind \in Kind /\ req[r] \in Request /\ admin.totp \in Id
  BY DEF LoginInv, Shapes, Request
<1>4. /\ input.right \in BOOLEAN /\ input.address \in Addresses \cup {Nothing}
      /\ input.code \in Id /\ input.token \in Id /\ input.claim \in Claims \cup {Nothing}
      /\ kind \in {"logout", "setup", "confirm", "disable"} =>
           input.token \in Requests /\ sessions[input.token].state # "none"
      /\ kind \in {"google_callback", "google_cancel"} => input.token \in Begun
  BY <1>3 DEF Inputs, Id, Kind, Begun, At
<1>5. /\ v.kind = kind /\ v.stage = Entry(kind) /\ v.token = input.token
      /\ v.seen = (IF kind = "login" THEN {admin.totp} ELSE {})
  OBVIOUS
<1>6. v \in Request
  <2>1. Entry(kind) \in Stage
    BY <1>3 DEF Kind, Entry, Stage
  <2>2. (IF kind = "login" THEN {admin.totp} ELSE {}) \in SUBSET Id
    BY <1>3
  <2>3. Nothing \in Id /\ {} \in SUBSET (Scopes \cup {Nothing})
    BY DEF Id
  <2> QED
    BY <1>3, <1>4, <2>1, <2>2, <2>3 DEF Request
<1> HIDE DEF v
<1>7. v.stage \in Course(v.kind) /\ ~PastConsume(v) /\ v.stage # "enable"
  BY <1>3, <1>5 DEF Entry, Course, PastConsume, Kind
<1>8. Entitled(v)
  BY <1>3, <1>5 DEF Entitled, Entry
<1>9. HasSession(v) /\ HasAttempt(v)
  BY <1>3, <1>4, <1>5 DEF HasSession, HasAttempt
<1>10. ~admin.exists => v.stage \in Early
  BY <1>3, <1>4, <1>5 DEF LoginInv, BeforeAdmin, Entry, Early, Kind
<1>11. RequestOk(v)
  BY <1>7, <1>8, <1>9, <1>10 DEF RequestOk
<1>12. now' \in Nat
  BY <1>2 DEF LoginInv, Shapes
<1> QED
  BY <1>2, <1>5, <1>6, <1>7, <1>11, <1>12, QuietStep

LEMMA DieKeeps ==
  ASSUME LoginInv, NEW r \in Requests, Die(r)
  PROVE  LoginInv'
<1>1. now' \in Nat /\ req[r].stage # "done"
  BY DEF LoginInv, Shapes, Die, Busy
<1> QED
  BY <1>1, FailStep DEF Die, Rows

LEMMA ReserveKeeps ==
  ASSUME LoginInv, NEW r \in Requests, NEW l, NEW next \in {"account", "row"},
         Reserve(r, l, next),
         req[r].stage = (IF next = "account" THEN "ip" ELSE "account")
  PROVE  LoginInv'
<1>1. /\ Goto(r, next) \/ Fail(r)
      /\ UNCHANGED <<admin, sessions, attempts, proven>> /\ now' \in Nat
  BY DEF Reserve, Rows, LoginInv, Shapes
<1>2. RequestOk(req[r]) /\ req[r] \in Request
  BY DEF LoginInv, Shapes
<1> DEFINE v == [req[r] EXCEPT !.stage = next]
<1>3. /\ v.stage = next /\ v.kind = req[r].kind /\ v.token = req[r].token
      /\ v.seen = req[r].seen
  BY <1>2 DEF Request
<1>4. req[r].kind \in {"login", "google_start"}
  BY <1>2 DEF RequestOk, Course, Request, Kind
<1> HIDE DEF v
<1>5. RequestOk(v)
  BY <1>2, <1>3, <1>4
     DEF RequestOk, Course, Entitled, HasSession, HasAttempt, PastConsume, Early
<1>6. CASE Goto(r, next)
  <2>1. next \in Stage /\ req[r].stage # "done" /\ req[r].kind # "google_callback"
    BY <1>4 DEF Stage
  <2> QED
    BY <1>1, <1>5, <1>6, <2>1, GotoStep DEF v
<1>7. CASE Fail(r)
  BY <1>1, <1>7, FailStep
<1> QED
  BY <1>1, <1>6, <1>7

LEMMA LimitKeeps ==
  ASSUME LoginInv, NEW r \in Requests, LimitAddress(r) \/ LimitAccount(r)
  PROVE  LoginInv'
<1>1. CASE LimitAddress(r)
  BY <1>1, ReserveKeeps DEF LimitAddress, At
<1>2. CASE LimitAccount(r)
  BY <1>2, ReserveKeeps DEF LimitAccount, At
<1> QED
  BY <1>1, <1>2

LEMMA ClearLimiterKeeps ==
  ASSUME LoginInv, NEW r \in Requests, NEW l \in Scopes, ClearLimiter(r, l)
  PROVE  LoginInv'
<1> DEFINE stage == IF At(r, "clear") /\ req[r].clearing = {l} THEN "issue" ELSE req[r].stage
           v == [req[r] EXCEPT !.clearing = @ \ {l}, !.stage = stage]
<1>1. RequestOk(req[r]) /\ req[r] \in Request
  BY DEF LoginInv, Shapes
<1>2. stage = req[r].stage \/ (req[r].stage = "clear" /\ stage = "issue")
  <2>1. CASE At(r, "clear") /\ req[r].clearing = {l}
    BY <2>1 DEF At
  <2>2. CASE ~(At(r, "clear") /\ req[r].clearing = {l})
    BY <2>2
  <2> QED
    BY <2>1, <2>2
<1>3. /\ v \in Request /\ v.kind = req[r].kind /\ v.stage = stage /\ v.token = req[r].token
      /\ v.right = req[r].right /\ v.code = req[r].code /\ v.seen = req[r].seen
      /\ v.found = req[r].found
  <2>1. stage \in Stage /\ req[r].clearing \ {l} \in SUBSET (Scopes \cup {Nothing})
    BY <1>1, <1>2 DEF Request, Stage
  <2> HIDE DEF stage
  <2> QED
    BY <1>1, <2>1 DEF Request
<1>4. /\ req' = [req EXCEPT ![r] = v]
      /\ UNCHANGED <<admin, sessions, attempts, proven>> /\ now' \in Nat
  BY <1>1 DEF ClearLimiter, Rows, LoginInv, Shapes, Request
<1> HIDE DEF v, stage
<1>5. PastConsume(v) => PastConsume(req[r])
  BY <1>2, <1>3 DEF PastConsume
<1>6. v.stage \in Course(v.kind)
  BY <1>1, <1>2, <1>3 DEF RequestOk, Course, Request, Kind
<1>7. Entitled(v)
  BY <1>1, <1>2, <1>3 DEF RequestOk, Entitled
<1>8. HasSession(v) /\ HasAttempt(v)
  BY <1>1, <1>2, <1>3 DEF RequestOk, HasSession, HasAttempt
<1>9. RequestOk(v)
  BY <1>1, <1>2, <1>3, <1>5, <1>6, <1>7, <1>8 DEF RequestOk, Early
<1>10. req[r].stage = "done" => v.stage = "done"
  BY <1>2, <1>3
<1> QED
  BY <1>3, <1>4, <1>5, <1>9, <1>10, QuietStep

-----------------------------------------------------------------------------
(* What follows once the row is known, and the checks that read rows.       *)

\* The continuation of a look-up: a login goes on without a code only where
\* the row it read, which it has seen, asks for none.
LEMMA AfterRowKeeps ==
  ASSUME LoginInv, NEW r \in Requests, AfterRow(r, admin.totp),
         UNCHANGED <<admin, sessions, attempts, proven>>, now' \in Nat,
         req[r].stage \in {"row", "insert"}, admin.exists
  PROVE  LoginInv'
<1>1. RequestOk(req[r]) /\ req[r] \in Request
  BY DEF LoginInv, Shapes
<1>2. req[r].kind \in {"state", "login", "google_start"}
  BY <1>1 DEF RequestOk, Course, Request, Kind
<1>3. CASE Fail(r)
  BY <1>3, FailStep
<1>4. CASE req[r].kind = "google_start" /\ Goto(r, "begin")
  <2> DEFINE v == [req[r] EXCEPT !.stage = "begin"]
  <2>1. v.kind = "google_start" /\ v.stage = "begin"
    BY <1>1, <1>4 DEF Request
  <2> HIDE DEF v
  <2>2. RequestOk(v)
    BY <2>1 DEF RequestOk, Course, Entitled, HasSession, HasAttempt, PastConsume
  <2>3. "begin" \in Stage
    BY DEF Stage
  <2> QED
    BY <1>4, <2>2, <2>3, GotoStep DEF v
<1>5. CASE req[r].kind = "login" /\ req[r].right /\ Goto(r, "code")
  <2> DEFINE v == [req[r] EXCEPT !.stage = "code"]
  <2>1. /\ v.kind = "login" /\ v.stage = "code" /\ v.right = req[r].right
        /\ v.seen = req[r].seen
    BY <1>1, <1>5 DEF Request
  <2> HIDE DEF v
  <2>2. RequestOk(v)
    BY <1>1, <1>5, <2>1
       DEF RequestOk, Course, Entitled, HasSession, HasAttempt, PastConsume
  <2>3. "code" \in Stage
    BY DEF Stage
  <2> QED
    BY <1>5, <2>2, <2>3, GotoStep DEF v
<1>6. CASE /\ req[r].kind = "login" /\ req[r].right /\ admin.totp = Nothing
           /\ StartClearing(r)
  <2>1. admin.totp \in req[r].seen
    BY <1>1, <1>6 DEF RequestOk, Entitled
  <2>2. req[r].seen \cap {Nothing, req[r].code} # {}
    BY <1>6, <2>1
  <2> QED
    BY <1>6, <2>2, ClearingStep
<1>7. CASE req[r].kind = "state"
  BY <1>3, <1>7 DEF AfterRow
<1>8. CASE req[r].kind = "google_start"
  BY <1>4, <1>8 DEF AfterRow
<1>9. CASE req[r].kind = "login"
  BY <1>1, <1>3, <1>5, <1>6, <1>9 DEF AfterRow, Request
<1> QED
  BY <1>2, <1>7, <1>8, <1>9

LEMMA FindAdminKeeps ==
  ASSUME LoginInv, NEW r \in Requests, FindAdmin(r)
  PROVE  LoginInv'
<1>1. /\ req[r].stage = "row" /\ now' \in Nat
      /\ UNCHANGED <<admin, sessions, attempts, proven>>
  BY DEF FindAdmin, At, Rows, LoginInv, Shapes
<1>2. CASE admin.exists
  BY <1>1, <1>2, AfterRowKeeps DEF FindAdmin
<1>3. CASE ~admin.exists
  <2>1. RequestOk(req[r]) /\ req[r] \in Request
    BY DEF LoginInv, Shapes
  <2>2. req[r].kind \in {"state", "login", "google_start"}
    BY <1>1, <2>1 DEF RequestOk, Course, Request, Kind
  <2> DEFINE v == [req[r] EXCEPT !.stage = "insert"]
  <2>3. v.kind = req[r].kind /\ v.stage = "insert" /\ v.seen = req[r].seen
    BY <2>1 DEF Request
  <2> HIDE DEF v
  <2>4. RequestOk(v)
    BY <1>1, <2>1, <2>2, <2>3
       DEF RequestOk, Course, Entitled, HasSession, HasAttempt, PastConsume, Early
  <2>5. "insert" \in Stage /\ Goto(r, "insert")
    BY <1>3 DEF Stage, FindAdmin
  <2> QED
    BY <1>1, <2>2, <2>4, <2>5, GotoStep DEF v
<1> QED
  BY <1>2, <1>3

LEMMA CheckCodeKeeps ==
  ASSUME LoginInv, NEW r \in Requests, CheckCode(r)
  PROVE  LoginInv'
<1>1. /\ req[r].stage = "code" /\ now' \in Nat
      /\ UNCHANGED <<admin, sessions, attempts, proven>>
  BY DEF CheckCode, At, Rows, LoginInv, Shapes
<1>2. RequestOk(req[r]) /\ req[r] \in Request
  BY DEF LoginInv, Shapes
<1>3. req[r].kind \in {"login", "disable"} /\ admin.exists
  BY <1>1, <1>2 DEF RequestOk, Course, Request, Kind, Early
<1>4. CASE Fail(r)
  BY <1>1, <1>4, FailStep
<1>5. CASE req[r].kind = "login" /\ req[r].code = admin.totp /\ StartClearing(r)
  <2>1. admin.totp \in req[r].seen /\ req[r].right
    BY <1>1, <1>2, <1>5 DEF RequestOk, Entitled
  <2> QED
    BY <1>1, <1>3, <1>5, <2>1, ClearingStep
<1>6. CASE req[r].kind = "disable" /\ Goto(r, "off")
  <2> DEFINE v == [req[r] EXCEPT !.stage = "off"]
  <2>1. v.kind = "disable" /\ v.stage = "off" /\ v.token = req[r].token
    BY <1>2, <1>6 DEF Request
  <2> HIDE DEF v
  <2>2. RequestOk(v)
    BY <1>1, <1>2, <1>3, <1>6, <2>1
       DEF RequestOk, Course, Entitled, HasSession, HasAttempt, PastConsume
  <2>3. "off" \in Stage
    BY DEF Stage
  <2> QED
    BY <1>1, <1>6, <2>2, <2>3, GotoStep DEF v
<1> QED
  BY <1>3, <1>4, <1>5, <1>6 DEF CheckCode

LEMMA AuthenticateKeeps ==
  ASSUME LoginInv, NEW r \in Requests, Authenticate(r)
  PROVE  LoginInv'
<1>1. /\ req[r].stage = "session" /\ now' \in Nat
      /\ UNCHANGED <<admin, sessions, attempts, proven>>
  BY DEF Authenticate, At, Rows, LoginInv, Shapes
<1>2. RequestOk(req[r]) /\ req[r] \in Request
  BY DEF LoginInv, Shapes
<1>3. req[r].kind \in {"setup", "confirm", "disable"} /\ admin.exists
  BY <1>1, <1>2 DEF RequestOk, Course, Request, Kind, Early
<1> DEFINE next == CASE req[r].kind = "setup" -> "save"
                     [] req[r].kind = "confirm" -> "pending"
                     [] OTHER -> "code"
           v == [req[r] EXCEPT !.stage = next]
<1>4. next \in Stage /\ next \in Course(req[r].kind) /\ next # "enable"
      /\ next \notin {"new", "done"}
  BY <1>3 DEF Stage, Course
<1>5. Goto(r, next) \/ Fail(r)
  BY DEF Authenticate
<1> HIDE DEF next
<1>6. CASE Goto(r, next)
  <2>1. v.kind = req[r].kind /\ v.stage = next /\ v.token = req[r].token
    BY <1>2 DEF Request
  <2> HIDE DEF v
  <2>2. RequestOk(v)
    BY <1>1, <1>2, <1>3, <1>4, <2>1
       DEF RequestOk, Entitled, HasSession, HasAttempt, PastConsume
  <2> QED
    BY <1>1, <1>3, <1>4, <1>6, <2>2, GotoStep DEF v
<1>7. CASE Fail(r)
  BY <1>1, <1>7, FailStep
<1> QED
  BY <1>5, <1>6, <1>7

\* A callback whose attempt is used goes on.
LEMMA CallbackGoesOn ==
  ASSUME LoginInv, NEW r \in Requests, PastConsume(req[r]), req[r].stage # "done",
         NEW next \in {"bind", "bound", "issue"}, Goto(r, next),
         UNCHANGED <<admin, sessions, attempts, proven>>, now' \in Nat
  PROVE  LoginInv'
<1>1. RequestOk(req[r]) /\ req[r] \in Request
  BY DEF LoginInv, Shapes
<1>2. req[r].kind = "google_callback" /\ req[r].stage \notin Early
  BY <1>1 DEF PastConsume, RequestOk, Course, Early
<1> DEFINE v == [req[r] EXCEPT !.stage = next]
<1>3. v.kind = req[r].kind /\ v.stage = next /\ v.token = req[r].token
  BY <1>1 DEF Request
<1> HIDE DEF v
<1>4. RequestOk(v)
  BY <1>1, <1>2, <1>3
     DEF RequestOk, Course, Entitled, HasSession, HasAttempt, PastConsume
<1>5. next \in Stage
  BY DEF Stage
<1> QED
  BY <1>4, <1>5, GotoStep DEF v

LEMMA CallbackKeeps ==
  ASSUME LoginInv, NEW r \in Requests,
         \/ LookUpIdentity(r) \/ BindIdentity(r)
         \/ RereadIdentity(r) \/ ClearingFails(r)
  PROVE  LoginInv'
<1>1. RequestOk(req[r]) /\ req[r] \in Request /\ now \in Nat
  BY DEF LoginInv, Shapes
<1>2. CASE LookUpIdentity(r)
  <2>1. /\ PastConsume(req[r]) /\ req[r].stage # "done" /\ now' \in Nat
        /\ UNCHANGED <<admin, sessions, attempts, proven>>
    BY <1>1, <1>2 DEF LookUpIdentity, At, PastConsume, RequestOk, Course, Request, Kind, Rows
  <2> QED
    BY <1>2, <2>1, FailStep, CallbackGoesOn DEF LookUpIdentity
<1>3. CASE BindIdentity(r)
  <2>1. /\ PastConsume(req[r]) /\ req[r].stage # "done" /\ now' \in Nat
        /\ UNCHANGED <<admin, sessions, attempts, proven>>
    BY <1>1, <1>3 DEF BindIdentity, At, PastConsume, RequestOk, Course, Request, Kind
  <2> QED
    BY <1>3, <2>1, FailStep, CallbackGoesOn DEF BindIdentity
<1>4. CASE RereadIdentity(r)
  <2>1. /\ PastConsume(req[r]) /\ req[r].stage = "bound" /\ now' \in Nat
        /\ UNCHANGED <<admin, sessions, attempts, proven>>
    BY <1>1, <1>4 DEF RereadIdentity, At, PastConsume, RequestOk, Course, Request, Kind, Rows
  <2>2. admin.exists
    BY <1>1, <2>1 DEF RequestOk, Early
  <2> QED
    BY <1>4, <2>1, <2>2, FailStep, ClearingStep DEF RereadIdentity
<1>5. CASE ClearingFails(r)
  <2>1. /\ PastConsume(req[r]) /\ req[r].stage # "done" /\ now' \in Nat
        /\ UNCHANGED <<admin, sessions, attempts, proven>>
    BY <1>1, <1>5 DEF ClearingFails, At, PastConsume, Rows
  <2> QED
    BY <1>5, <2>1, CallbackGoesOn DEF ClearingFails
<1> QED
  BY <1>2, <1>3, <1>4, <1>5

-----------------------------------------------------------------------------
(* Steps of one request that change a row other than the second factor.     *)

LEMMA RowStep ==
  ASSUME LoginInv, NEW r \in Requests, NEW v \in Request,
         req' = [req EXCEPT ![r] = v], v.kind = req[r].kind,
         admin'.totp = admin.totp, admin.exists => admin'.exists,
         \A s \in Requests : sessions[s].state # "none" => sessions'[s].state # "none",
         proven \subseteq proven', DOMAIN attempts' \subseteq DOMAIN attempts,
         RequestOk(v)',
         req[r].stage = "done" => v.stage = "done",
         PastConsume(v) => \A q \in Requests \ {r} :
           ~(PastConsume(req[q]) /\ req[q].token = v.token)
  PROVE  /\ (\A q \in Requests : RequestOk(req[q]))'
         /\ (DOMAIN attempts \subseteq Begun)'
         /\ OneCallback'
         /\ FactorWasProven'
<1> USE DEF LoginInv
<1>0. /\ req'[r] = v
      /\ \A q \in Requests \ {r} : req'[q] = req[q]
  BY DEF Shapes
<1>1. Begun \subseteq Begun'
  BY <1>0 DEF Begun
<1>2. ASSUME NEW q \in Requests PROVE RequestOk(req[q])'
  <2>1. CASE q = r
    BY <1>0, <2>1 DEF RequestOk, Entitled, HasSession, HasAttempt, PastConsume
  <2>2. CASE q # r
    <3>1. RequestOk(req'[q])
      BY <1>0, <2>2
    <3>2. PastConsume(req'[q]) => req'[q].token \notin DOMAIN attempts'
      BY <3>1 DEF RequestOk
    <3> QED
      BY <1>1, <3>1, <3>2, RequestKept
         DEF RequestOk, Entitled, HasSession, HasAttempt, PastConsume
  <2> QED
    BY <2>1, <2>2
<1>3. OneCallback'
  <2> SUFFICES ASSUME NEW p \in Requests, NEW q \in Requests,
                      PastConsume(req'[p]), PastConsume(req'[q]),
                      req'[p].token = req'[q].token
               PROVE  p = q
    BY DEF OneCallback, PastConsume
  <2>1. CASE p = r
    BY <1>0, <2>1
  <2>2. CASE q = r
    BY <1>0, <2>2
  <2>3. CASE p # r /\ q # r
    BY <1>0, <2>3 DEF OneCallback
  <2> QED
    BY <2>1, <2>2, <2>3
<1>4. FactorWasProven'
  BY DEF FactorWasProven
<1> QED
  BY <1>1, <1>2, <1>3, <1>4

\* A request that has given up asks for nothing.
LEMMA OverIsOk ==
  ASSUME LoginInv, NEW r \in Requests
  PROVE  /\ Over(r) \in Request /\ Over(r).kind = req[r].kind /\ Over(r).stage = "new"
         /\ RequestOk(Over(r))
         /\ \A v : v = Over(r) => RequestOk(v)' /\ ~PastConsume(v)
<1>1. Over(r) \in Request /\ Over(r).kind = req[r].kind /\ Over(r).stage = "new"
  BY DEF LoginInv, Shapes, Request, Over, Idle, Id, Stage
<1>2. "new" \in Course(req[r].kind)
  BY <1>1 DEF Course, Kind, Request
<1> QED
  BY <1>1, <1>2 DEF RequestOk, Entitled, HasSession, HasAttempt, PastConsume, Early

LEMMA InsertAdminKeeps ==
  ASSUME LoginInv, NEW r \in Requests, InsertAdmin(r)
  PROVE  LoginInv'
<1>1. /\ req[r].stage = "insert" /\ now' \in Nat
      /\ UNCHANGED <<sessions, attempts, proven>>
  BY DEF InsertAdmin, At, LoginInv, Shapes
<1>2. CASE admin.exists
  BY <1>1, <1>2, FailStep DEF InsertAdmin
<1>3. CASE ~admin.exists
  <2>1. /\ admin' = [admin EXCEPT !.exists = TRUE] /\ AfterRow(r, Nothing)
    BY <1>3 DEF InsertAdmin
  <2>2. RequestOk(req[r]) /\ req[r] \in Request
    BY DEF LoginInv, Shapes
  <2>3. req[r].kind \in {"state", "login", "google_start"}
    BY <1>1, <2>2 DEF RequestOk, Course, Request, Kind
  <2>4. admin.totp = Nothing /\ admin'.totp = admin.totp /\ admin'.exists
    BY <1>3, <2>1 DEF LoginInv, BeforeAdmin, Shapes
  <2>5. PICK v \in Request :
          /\ req' = [req EXCEPT ![r] = v] /\ v.kind = req[r].kind
          /\ RequestOk(v)' /\ ~PastConsume(v)
    <3>1. CASE Fail(r)
      BY <3>1, OverIsOk DEF Fail
    <3>2. CASE req[r].kind = "google_start" /\ Goto(r, "begin")
      <4>0. PICK v \in Request : v = [req[r] EXCEPT !.stage = "begin"]
        BY <2>2 DEF Request, Stage
      <4>1. /\ v.kind = "google_start" /\ v.stage = "begin"
            /\ req' = [req EXCEPT ![r] = v]
        BY <2>2, <3>2, <4>0 DEF Request, Goto
      <4>2. RequestOk(v)' /\ ~PastConsume(v)
        BY <2>4, <4>1 DEF RequestOk, Course, Entitled, HasSession, HasAttempt, PastConsume
      <4> QED
        BY <3>2, <4>1, <4>2
    <3>3. CASE req[r].kind = "login" /\ req[r].right /\ StartClearing(r)
      <4>1. {req[r].address, Account} \in SUBSET (Scopes \cup {Nothing})
        BY <2>2 DEF Request, Scopes
      <4>2. PICK v \in Request : v = [req[r] EXCEPT !.stage = "clear",
                                       !.clearing = {req[r].address, Account}]
        BY <2>2, <4>1 DEF Request, Stage
      <4>0. /\ v.kind = "login" /\ v.stage = "clear" /\ req' = [req EXCEPT ![r] = v]
            /\ v.right = req[r].right /\ v.seen = req[r].seen /\ v.code = req[r].code
        BY <2>2, <3>3, <4>2 DEF Request, StartClearing
      <4>3. Nothing \in v.seen
        BY <1>1, <2>2, <2>4, <3>3, <4>0 DEF RequestOk, Entitled
      <4>4. Entitled(v)'
        BY <2>4, <3>3, <4>0, <4>3 DEF Entitled
      <4>5. RequestOk(v)' /\ ~PastConsume(v)
        BY <2>4, <4>0, <4>4 DEF RequestOk, Course, HasSession, HasAttempt, PastConsume
      <4> QED
        BY <3>3, <4>0, <4>5
    <3> QED
      BY <2>1, <2>2, <2>3, <3>1, <3>2, <3>3 DEF AfterRow, Request
  <2>6. /\ (\A q \in Requests : RequestOk(req[q]))' /\ (DOMAIN attempts \subseteq Begun)'
        /\ OneCallback' /\ FactorWasProven'
    BY <1>1, <2>4, <2>5, RowStep
  <2>7. Shapes'
    BY <1>1, <2>1, <2>5 DEF LoginInv, Shapes
  <2>8. BeforeAdmin' /\ SessionsAreDone'
    BY <1>1, <2>4, <2>5 DEF LoginInv, BeforeAdmin, SessionsAreDone, Shapes
  <2> QED
    BY <2>6, <2>7, <2>8 DEF LoginInv
<1> QED
  BY <1>2, <1>3

\* A session is made for a request that has reached the end of its checks.
LEMMA IssueKeeps ==
  ASSUME LoginInv, NEW r \in Requests, Issue(r)
  PROVE  LoginInv'
<1>1. /\ req[r].stage = "issue" /\ now \in Nat /\ SessionTtl \in Nat
      /\ UNCHANGED <<now, admin, attempts, proven>>
      /\ sessions' = [sessions EXCEPT ![r] =
                        [state |-> "active", expires |-> now + SessionTtl]]
  BY LoginAssumption DEF Issue, At, LoginInv, Shapes
<1>2. RequestOk(req[r]) /\ req[r] \in Request
  BY DEF LoginInv, Shapes
<1>3. PICK v \in Request :
        v = [req[r] EXCEPT !.stage = "done", !.address = Nothing, !.claim = Nothing]
  BY <1>2 DEF Request, Stage
<1>4. /\ req' = [req EXCEPT ![r] = v] /\ v.kind = req[r].kind /\ v.stage = "done"
      /\ v.right = req[r].right /\ v.code = req[r].code /\ v.token = req[r].token
      /\ v.seen = req[r].seen
  BY <1>2, <1>3 DEF Issue, Finish, Request
<1>5. req[r].kind \in {"login", "google_callback"} /\ admin.exists
  BY <1>1, <1>2 DEF RequestOk, Course, Request, Kind, Early
<1>6. \A s \in Requests : sessions[s].state # "none" => sessions'[s].state # "none"
  BY <1>1 DEF LoginInv, Shapes
<1>7. PastConsume(v) => PastConsume(req[r])
  BY <1>1, <1>4 DEF PastConsume
<1>8. RequestOk(v)'
  <2>1. v.stage \in Course(v.kind)
    BY <1>4, <1>5 DEF Course
  <2>2. Entitled(v)'
    BY <1>1, <1>2, <1>4 DEF RequestOk, Entitled
  <2>3. HasSession(v)'
    BY <1>4 DEF HasSession
  <2>4. HasAttempt(v)'
    <3>1. v.kind = "google_callback" => v.token \in Begun
      BY <1>1, <1>2, <1>4 DEF RequestOk, HasAttempt
    <3>2. Begun \subseteq Begun'
      BY <1>1, <1>4 DEF Begun, LoginInv, Shapes
    <3> QED
      BY <1>4, <1>5, <3>1, <3>2 DEF HasAttempt
  <2>5. PastConsume(v) => v.token \notin DOMAIN attempts'
    BY <1>1, <1>2, <1>4, <1>7 DEF RequestOk
  <2> QED
    BY <1>1, <1>4, <1>5, <2>1, <2>2, <2>3, <2>4, <2>5 DEF RequestOk, PastConsume
<1>9. PastConsume(v) => \A q \in Requests \ {r} :
        ~(PastConsume(req[q]) /\ req[q].token = v.token)
  BY <1>4, <1>7 DEF LoginInv, OneCallback
<1>10. /\ (\A q \in Requests : RequestOk(req[q]))' /\ (DOMAIN attempts \subseteq Begun)'
       /\ OneCallback' /\ FactorWasProven'
  BY <1>1, <1>4, <1>6, <1>8, <1>9, RowStep
<1>11. Shapes'
  <2>1. sessions' \in [Requests -> [state : {"none", "active", "revoked"}, expires : Nat]]
    BY <1>1 DEF LoginInv, Shapes
  <2> QED
    BY <1>1, <1>4, <2>1 DEF LoginInv, Shapes
<1>12. BeforeAdmin' /\ SessionsAreDone'
  BY <1>1, <1>4, <1>5 DEF LoginInv, BeforeAdmin, SessionsAreDone, Shapes
<1> QED
  BY <1>10, <1>11, <1>12 DEF LoginInv

LEMMA RevokeKeeps ==
  ASSUME LoginInv, NEW r \in Requests, Revoke(r)
  PROVE  LoginInv'
<1>1. /\ req[r].stage = "revoke" /\ now \in Nat
      /\ UNCHANGED <<now, admin, attempts, proven>>
      /\ sessions' = [sessions EXCEPT ![req[r].token].state = "revoked"]
  BY DEF Revoke, At, LoginInv, Shapes
<1>2. RequestOk(req[r]) /\ req[r] \in Request
  BY DEF LoginInv, Shapes
<1>3. /\ req[r].token \in Requests /\ sessions[req[r].token].state # "none"
      /\ admin.exists
  BY <1>1, <1>2 DEF RequestOk, HasSession, Course, Request, Kind, Early
<1>4. PICK v \in Request :
        /\ v = Over(r) /\ v.kind = req[r].kind /\ v.stage = "new"
        /\ RequestOk(v)' /\ ~PastConsume(v)
  BY OverIsOk
<1>5. req' = [req EXCEPT ![r] = v]
  BY <1>4 DEF Revoke, Fail
<1>6. \A s \in Requests : /\ sessions[s].state # "none" => sessions'[s].state # "none"
                          /\ sessions'[s].state # "none" => sessions[s].state # "none"
  BY <1>1, <1>3 DEF LoginInv, Shapes
<1>7. /\ (\A q \in Requests : RequestOk(req[q]))' /\ (DOMAIN attempts \subseteq Begun)'
      /\ OneCallback' /\ FactorWasProven'
  BY <1>1, <1>4, <1>5, <1>6, RowStep
<1>8. Shapes'
  <2>1. sessions' \in [Requests -> [state : {"none", "active", "revoked"}, expires : Nat]]
    BY <1>1 DEF LoginInv, Shapes
  <2> QED
    BY <1>1, <1>5, <2>1 DEF LoginInv, Shapes
<1>9. BeforeAdmin'
  BY <1>1, <1>3 DEF BeforeAdmin
<1>10. SessionsAreDone'
  BY <1>1, <1>5, <1>6 DEF LoginInv, SessionsAreDone, Shapes
<1> QED
  BY <1>7, <1>8, <1>9, <1>10 DEF LoginInv

LEMMA ReadPendingKeeps ==
  ASSUME LoginInv, NEW r \in Requests, ReadPending(r)
  PROVE  LoginInv'
<1>1. /\ req[r].stage = "pending" /\ now \in Nat
      /\ UNCHANGED <<now, admin, attempts, sessions>>
      /\ proven' = IF req'[r].stage = "enable" THEN proven \cup {admin.pending.secret}
                   ELSE proven
  BY DEF ReadPending, At, LoginInv, Shapes
<1>2. RequestOk(req[r]) /\ req[r] \in Request
  BY DEF LoginInv, Shapes
<1>3. req[r].kind = "confirm" /\ admin.exists /\ admin.pending.secret \in Id
  BY <1>1, <1>2 DEF RequestOk, Course, Request, Kind, Early, LoginInv, Shapes
<1>4. PICK v \in Request :
        /\ req' = [req EXCEPT ![r] = v] /\ v.kind = "confirm"
        /\ RequestOk(v)' /\ ~PastConsume(v)
  <2>1. CASE Fail(r)
    BY <1>3, <2>1, OverIsOk DEF Fail
  <2>2. CASE Goto(r, "wipe")
    <3>1. PICK v \in Request : v = [req[r] EXCEPT !.stage = "wipe"]
      BY <1>2 DEF Request, Stage
    <3>2. /\ req' = [req EXCEPT ![r] = v] /\ v.kind = "confirm" /\ v.stage = "wipe"
          /\ v.token = req[r].token
      BY <1>2, <1>3, <2>2, <3>1 DEF Request, Goto
    <3>3. RequestOk(v)' /\ ~PastConsume(v)
      BY <1>1, <1>2, <1>3, <3>2
         DEF RequestOk, Course, Entitled, HasSession, HasAttempt, PastConsume
    <3> QED
      BY <3>2, <3>3
  <2>3. CASE req' = [req EXCEPT ![r].stage = "enable", ![r].found = admin.pending.secret]
    <3>1. PICK v \in Request : v = [req[r] EXCEPT !.stage = "enable",
                                                  !.found = admin.pending.secret]
      BY <1>2, <1>3 DEF Request, Stage
    <3>2. /\ req' = [req EXCEPT ![r] = v] /\ v.kind = "confirm" /\ v.stage = "enable"
          /\ v.token = req[r].token /\ v.found = admin.pending.secret
      BY <1>2, <1>3, <2>3, <3>1 DEF Request
    <3>3. req'[r] = v
      BY <3>2 DEF LoginInv, Shapes
    <3>4. v.found \in proven'
      BY <1>1, <3>2, <3>3
    <3>5. RequestOk(v)' /\ ~PastConsume(v)
      BY <1>1, <1>2, <1>3, <3>2, <3>4
         DEF RequestOk, Course, Entitled, HasSession, HasAttempt, PastConsume
    <3> QED
      BY <3>2, <3>5
  <2> QED
    BY <2>1, <2>2, <2>3 DEF ReadPending
<1>5. proven \subseteq proven'
  BY <1>1
<1>6. /\ (\A q \in Requests : RequestOk(req[q]))' /\ (DOMAIN attempts \subseteq Begun)'
      /\ OneCallback' /\ FactorWasProven'
  BY <1>1, <1>3, <1>4, <1>5, RowStep
<1>7. Shapes' /\ BeforeAdmin' /\ SessionsAreDone'
  BY <1>1, <1>4 DEF LoginInv, Shapes, BeforeAdmin, SessionsAreDone
<1> QED
  BY <1>6, <1>7 DEF LoginInv

-----------------------------------------------------------------------------
(* Google attempts: made once, used once.                                   *)

LEMMA BeginAttemptKeeps ==
  ASSUME LoginInv, NEW r \in Requests, BeginAttempt(r)
  PROVE  LoginInv'
<1>1. /\ req[r].stage = "begin" /\ now \in Nat
      /\ UNCHANGED <<now, admin, proven, sessions>>
      /\ DOMAIN attempts' = Unexpired(attempts) \cup {r}
  BY DEF BeginAttempt, At, LoginInv, Shapes
<1>2. RequestOk(req[r]) /\ req[r] \in Request
  BY DEF LoginInv, Shapes
<1>3. req[r].kind = "google_start" /\ admin.exists
  BY <1>1, <1>2 DEF RequestOk, Course, Request, Kind, Early
<1>4. PICK v \in Request :
        v = [req[r] EXCEPT !.stage = "done", !.address = Nothing, !.claim = Nothing]
  BY <1>2 DEF Request, Stage
<1>5. /\ req' = [req EXCEPT ![r] = v] /\ v.kind = "google_start" /\ v.stage = "done"
  BY <1>2, <1>3, <1>4 DEF BeginAttempt, Finish, Request
<1>6. /\ req'[r] = v
      /\ \A q \in Requests \ {r} : req'[q] = req[q]
  BY <1>5 DEF LoginInv, Shapes
<1>7. Begun' = Begun \cup {r} /\ r \notin Begun
  BY <1>1, <1>5, <1>6 DEF Begun
<1>8. /\ DOMAIN attempts' \subseteq DOMAIN attempts \cup {r}
  BY <1>1 DEF Unexpired
<1>9. ASSUME NEW q \in Requests PROVE RequestOk(req[q])'
  <2>1. CASE q = r
    BY <1>1, <1>3, <1>5, <1>6, <2>1
       DEF RequestOk, Course, Entitled, HasSession, HasAttempt, PastConsume
  <2>2. CASE q # r
    <3>1. RequestOk(req'[q])
      BY <1>6, <2>2 DEF LoginInv
    <3>2. PastConsume(req'[q]) => req'[q].token \in Begun
      BY <3>1 DEF RequestOk, HasAttempt, PastConsume
    <3>3. PastConsume(req'[q]) => req'[q].token \notin DOMAIN attempts'
      BY <1>7, <1>8, <3>1, <3>2 DEF RequestOk
    <3> QED
      BY <1>1, <1>7, <3>1, <3>3, RequestKept
         DEF RequestOk, Entitled, HasSession, HasAttempt, PastConsume
  <2> QED
    BY <2>1, <2>2
<1>10. Shapes'
  BY <1>1, <1>5, <1>8 DEF LoginInv, Shapes
<1>11. BeforeAdmin' /\ SessionsAreDone' /\ FactorWasProven'
  BY <1>1, <1>3, <1>5, <1>6
     DEF LoginInv, BeforeAdmin, SessionsAreDone, FactorWasProven, Shapes
<1>12. (DOMAIN attempts \subseteq Begun)'
  BY <1>7, <1>8 DEF LoginInv
<1>13. OneCallback'
  BY <1>5, <1>6 DEF LoginInv, OneCallback, PastConsume
<1> QED
  BY <1>9, <1>10, <1>11, <1>12, <1>13 DEF LoginInv

LEMMA ConsumeKeeps ==
  ASSUME LoginInv, NEW r \in Requests, Consume(r)
  PROVE  LoginInv'
<1>1. /\ req[r].stage = "consume" /\ now \in Nat
      /\ UNCHANGED <<now, admin, proven, sessions>>
  BY DEF Consume, At, LoginInv, Shapes
<1>2. RequestOk(req[r]) /\ req[r] \in Request
  BY DEF LoginInv, Shapes
<1>3. req[r].kind \in {"google_callback", "google_cancel"}
  BY <1>1, <1>2 DEF RequestOk, Course, Request, Kind
<1>4. CASE req[r].token \notin Unexpired(attempts)
  BY <1>1, <1>4, FailStep DEF Consume
<1>5. CASE req[r].token \in Unexpired(attempts)
  <2>1. /\ req[r].token \in DOMAIN attempts
        /\ DOMAIN attempts' = DOMAIN attempts \ {req[r].token}
        /\ IF req[r].kind = "google_callback" THEN Goto(r, "exchange") ELSE Fail(r)
    BY <1>5 DEF Consume, Unexpired
  <2>2. admin.exists
    BY <2>1 DEF LoginInv, BeforeAdmin
  <2>3. PICK v \in Request :
          /\ req' = [req EXCEPT ![r] = v] /\ v.kind = req[r].kind
          /\ RequestOk(v)'
          /\ PastConsume(v) => v.token = req[r].token
    <3>1. CASE req[r].kind = "google_cancel"
      BY <2>1, <3>1, OverIsOk DEF Fail
    <3>2. CASE req[r].kind = "google_callback"
      <4>1. PICK v \in Request : v = [req[r] EXCEPT !.stage = "exchange"]
        BY <1>2 DEF Request, Stage
      <4>2. /\ req' = [req EXCEPT ![r] = v] /\ v.kind = req[r].kind
            /\ v.stage = "exchange" /\ v.token = req[r].token
        BY <1>2, <2>1, <3>2, <4>1 DEF Request, Goto
      <4>3. v.token \in Begun /\ Begun \subseteq Begun'
        BY <1>1, <1>2, <1>3, <4>2 DEF RequestOk, HasAttempt, Begun, LoginInv, Shapes
      <4>4. HasAttempt(v)'
        BY <4>3 DEF HasAttempt
      <4>5. RequestOk(v)'
        BY <1>1, <2>1, <2>2, <3>2, <4>2, <4>4
           DEF RequestOk, Course, Entitled, HasSession, PastConsume
      <4> QED
        BY <4>2, <4>5
    <3> QED
      BY <1>3, <3>1, <3>2
  <2>4. PastConsume(v) => \A q \in Requests \ {r} :
          ~(PastConsume(req[q]) /\ req[q].token = v.token)
    BY <2>1, <2>3 DEF LoginInv, RequestOk
  <2>5. /\ (\A q \in Requests : RequestOk(req[q]))' /\ (DOMAIN attempts \subseteq Begun)'
        /\ OneCallback' /\ FactorWasProven'
    BY <1>1, <2>1, <2>3, <2>4, RowStep
  <2>6. Shapes' /\ BeforeAdmin' /\ SessionsAreDone'
    BY <1>1, <2>1, <2>2, <2>3 DEF LoginInv, Shapes, BeforeAdmin, SessionsAreDone
  <2> QED
    BY <2>5, <2>6 DEF LoginInv
<1> QED
  BY <1>4, <1>5

-----------------------------------------------------------------------------
(* The second factor changes.                                               *)

\* Every login in flight is told of the new factor, and whoever changed it
\* had confirmed it.
LEMMA SetAdminKeeps ==
  ASSUME LoginInv, NEW r \in Requests, NEW row, SetAdmin(r, row),
         row \in [exists : BOOLEAN, totp : Id, pending : [secret : Id, expires : Nat]],
         row.exists, row.totp = Nothing \/ row.totp \in proven,
         req[r].stage \in {"save", "wipe", "enable", "off"}
  PROVE  LoginInv'
<1>1. /\ admin' = row
      /\ UNCHANGED <<now, sessions, attempts, proven>>
  BY DEF SetAdmin
<1>2. RequestOk(req[r]) /\ req[r] \in Request
  BY DEF LoginInv, Shapes
<1>3. /\ req[r].kind \in {"setup", "confirm", "disable"}
      /\ req[r].kind = "setup" <=> req[r].stage = "save"
  BY <1>2 DEF RequestOk, Course, Request, Kind
<1>4. PICK v \in Request : v = (IF req[r].kind = "setup"
                                THEN [req[r] EXCEPT !.stage = "done"] ELSE Over(r))
  <2>1. [req[r] EXCEPT !.stage = "done"] \in Request
    BY <1>2 DEF Request, Stage
  <2>2. Over(r) \in Request
    BY <1>2, OverIsOk
  <2> QED
    BY <2>1, <2>2
<1>5. /\ v.kind = req[r].kind
      /\ v.stage = (IF req[r].kind = "setup" THEN "done" ELSE "new")
  BY <1>2, <1>4, OverIsOk DEF Request
<1>6. req' \in [Requests -> Request]
  <2>1. ASSUME NEW q \in Requests
        PROVE  [req[q] EXCEPT !.seen = @ \cup {row.totp}] \in Request
    <3>1. req[q] \in Request /\ row.totp \in Id
      BY DEF LoginInv, Shapes
    <3>2. req[q].seen \cup {row.totp} \in SUBSET Id
      BY <3>1 DEF Request
    <3> QED
      BY <3>1, <3>2 DEF Request
  <2>2. [req[r] EXCEPT !.stage = "done"] \in Request /\ Over(r) \in Request
    BY <1>2, OverIsOk DEF Request, Stage
  <2>3. \A q \in Requests : req[q] \in Request
    BY DEF LoginInv, Shapes
  <2> QED
    BY <2>1, <2>2, <2>3 DEF SetAdmin
<1>7. req'[r] = v
  BY <1>4 DEF SetAdmin
<1>8. ASSUME NEW q \in Requests, q # r
      PROVE  /\ req'[q].kind = req[q].kind /\ req'[q].stage = req[q].stage
             /\ req'[q].token = req[q].token /\ req'[q].found = req[q].found
             /\ req'[q].right = req[q].right /\ req'[q].code = req[q].code
             /\ req[q].seen \subseteq req'[q].seen
             /\ req[q].kind = "login" /\ req[q].stage \notin {"new", "done"} =>
                  row.totp \in req'[q].seen
  <2>1. req[q] \in Request
    BY DEF LoginInv, Shapes
  <2>2. req'[q] = IF q \in Busy /\ req[q].kind = "login"
                    THEN [req[q] EXCEPT !.seen = @ \cup {row.totp}] ELSE req[q]
    BY <1>8 DEF SetAdmin
  <2> QED
    BY <2>1, <2>2 DEF Request, Busy
<1>9. Begun \subseteq Begun'
  BY <1>2, <1>3, <1>8 DEF Begun
<1>10. ASSUME NEW q \in Requests PROVE RequestOk(req[q])'
  <2>1. CASE q = r
    <3>1. v.stage \in Course(v.kind)
      BY <1>3, <1>5 DEF Course
    <3> QED
      BY <1>1, <1>3, <1>5, <1>7, <2>1, <3>1
         DEF RequestOk, Entitled, HasSession, HasAttempt, PastConsume
  <2>2. CASE q # r
    <3>1. RequestOk(req[q])
      BY DEF LoginInv
    <3>2. Entitled(req[q])'
      BY <1>1, <1>8, <2>2, <3>1 DEF RequestOk, Entitled
    <3>3. HasSession(req[q])'
      BY <1>1, <1>8, <2>2, <3>1 DEF RequestOk, HasSession
    <3>4. HasAttempt(req[q])'
      BY <1>8, <1>9, <2>2, <3>1 DEF RequestOk, HasAttempt
    <3> QED
      BY <1>1, <1>8, <2>2, <3>1, <3>2, <3>3, <3>4 DEF RequestOk, PastConsume
  <2> QED
    BY <2>1, <2>2
<1>11. Shapes'
  BY <1>1, <1>6 DEF LoginInv, Shapes
<1>12. BeforeAdmin' /\ FactorWasProven'
  BY <1>1 DEF BeforeAdmin, FactorWasProven
<1>13. SessionsAreDone'
  BY <1>1, <1>8 DEF LoginInv, SessionsAreDone
<1>14. (DOMAIN attempts \subseteq Begun)'
  BY <1>1, <1>9 DEF LoginInv
<1>15. OneCallback'
  <2>1. ~PastConsume(req'[r])
    BY <1>3, <1>5, <1>7 DEF PastConsume
  <2> QED
    BY <1>8, <2>1 DEF LoginInv, OneCallback, PastConsume
<1> QED
  BY <1>10, <1>11, <1>12, <1>13, <1>14, <1>15 DEF LoginInv

LEMMA SavePendingKeeps ==
  ASSUME LoginInv, NEW r \in Requests, SavePending(r)
  PROVE  LoginInv'
<1>1. /\ req[r].stage = "save" /\ RequestOk(req[r]) /\ now \in Nat /\ PendingTtl \in Nat
  BY LoginAssumption DEF SavePending, At, LoginInv, Shapes
<1>2. admin.exists /\ (admin.totp = Nothing \/ admin.totp \in proven)
  BY <1>1 DEF RequestOk, Early, LoginInv, FactorWasProven
<1>3. PICK row : row = [admin EXCEPT !.pending = [secret |-> r, expires |-> now + PendingTtl]]
  OBVIOUS
<1>4. /\ row \in [exists : BOOLEAN, totp : Id, pending : [secret : Id, expires : Nat]]
      /\ row.exists = admin.exists /\ row.totp = admin.totp
  <2>1. [secret |-> r, expires |-> now + PendingTtl] \in [secret : Id, expires : Nat]
    BY <1>1 DEF Id
  <2> QED
    BY <1>3, <2>1 DEF LoginInv, Shapes
<1>5. SetAdmin(r, row)
  BY <1>3 DEF SavePending
<1> QED
  BY <1>1, <1>2, <1>4, <1>5, SetAdminKeeps

\* The changes that leave no secret waiting.
LEMMA FactorKeeps ==
  ASSUME LoginInv, NEW r \in Requests,
         WipePending(r) \/ EnableTotp(r) \/ DisableTotp(r)
  PROVE  LoginInv'
<1> DEFINE factor == IF WipePending(r) THEN admin.totp
                     ELSE IF EnableTotp(r) THEN req[r].found ELSE Nothing
<1>1. /\ req[r].stage \in {"wipe", "enable", "off"} /\ RequestOk(req[r])
      /\ req[r] \in Request
  BY DEF WipePending, EnableTotp, DisableTotp, At, LoginInv, Shapes
<1>2. admin.exists /\ (admin.totp = Nothing \/ admin.totp \in proven)
  BY <1>1 DEF RequestOk, Early, LoginInv, FactorWasProven
<1>3. PICK row : /\ row = [admin EXCEPT !.totp = factor, !.pending = NoPending]
                 /\ SetAdmin(r, row)
  <2>1. CASE WipePending(r)
    <3>1. [admin EXCEPT !.pending = NoPending]
            = [admin EXCEPT !.totp = factor, !.pending = NoPending]
      BY <2>1 DEF LoginInv, Shapes
    <3> QED
      BY <2>1, <3>1 DEF WipePending
  <2>2. CASE ~WipePending(r) /\ EnableTotp(r)
    BY <2>2 DEF EnableTotp
  <2>3. CASE ~WipePending(r) /\ ~EnableTotp(r)
    BY <2>3 DEF DisableTotp
  <2> QED
    BY <2>1, <2>2, <2>3
<1>4. factor \in Id /\ (factor = Nothing \/ factor \in proven)
  <2>1. admin.totp \in Id /\ req[r].found \in Id /\ Nothing \in Id
    BY <1>1 DEF LoginInv, Shapes, Request, Id
  <2>2. EnableTotp(r) => req[r].found \in proven
    BY <1>1 DEF EnableTotp, At, RequestOk
  <2> QED
    BY <1>2, <2>1, <2>2
<1> HIDE DEF factor
<1>5. /\ row \in [exists : BOOLEAN, totp : Id, pending : [secret : Id, expires : Nat]]
      /\ row.exists = admin.exists /\ row.totp = factor
  <2>1. NoPending \in [secret : Id, expires : Nat]
    BY DEF NoPending, Id
  <2> QED
    BY <1>3, <1>4, <2>1 DEF LoginInv, Shapes
<1> QED
  BY <1>1, <1>2, <1>3, <1>4, <1>5, SetAdminKeeps

-----------------------------------------------------------------------------
(* The invariant.                                                           *)

LEMMA LoginInvInit == Init => LoginInv
<1> SUFFICES ASSUME Init PROVE LoginInv
  OBVIOUS
<1>1. PICK mix \in Mixes : \E by \in {{}, Some(mix, "login")} :
      \E on \in {{}, Some(mix, "setup")} :
       /\ by = {} => Some(mix, "setup") = {}
       /\ proven = on
       /\ admin = [exists |-> by # {}, pending |-> NoPending,
                   totp |-> IF on = {} THEN Nothing ELSE CHOOSE r \in on : TRUE]
       /\ sessions = [r \in Requests |->
                        IF r \in by THEN [state |-> "active", expires |-> SessionTtl]
                        ELSE [state |-> "none", expires |-> 0]]
       /\ req = [r \in Requests |->
                   CASE r \in by -> [Idle("login") EXCEPT !.stage = "done", !.right = TRUE,
                                                          !.seen = {Nothing}]
                     [] r \in on -> [Idle("setup") EXCEPT !.stage = "done"]
                     [] OTHER -> Idle(mix[r])]
  BY DEF Init
<1>2. PICK by \in {{}, Some(mix, "login")}, on \in {{}, Some(mix, "setup")} :
       /\ by = {} => Some(mix, "setup") = {}
       /\ proven = on
       /\ admin = [exists |-> by # {}, pending |-> NoPending,
                   totp |-> IF on = {} THEN Nothing ELSE CHOOSE r \in on : TRUE]
       /\ sessions = [r \in Requests |->
                        IF r \in by THEN [state |-> "active", expires |-> SessionTtl]
                        ELSE [state |-> "none", expires |-> 0]]
       /\ req = [r \in Requests |->
                   CASE r \in by -> [Idle("login") EXCEPT !.stage = "done", !.right = TRUE,
                                                          !.seen = {Nothing}]
                     [] r \in on -> [Idle("setup") EXCEPT !.stage = "done"]
                     [] OTHER -> Idle(mix[r])]
  BY <1>1
<1>3. /\ mix \in [Requests -> Kind] /\ SessionTtl \in Nat
      /\ now = 0 /\ DOMAIN attempts = {}
  BY LoginAssumption DEF Init
<1>4. /\ by \subseteq Requests /\ on \subseteq Requests /\ by \cap on = {}
      /\ on # {} => by # {}
  BY <1>2, <1>3 DEF Some
<1>5. \A r \in Requests :
        /\ r \in by => req[r] = [Idle("login") EXCEPT !.stage = "done", !.right = TRUE,
                                                      !.seen = {Nothing}]
        /\ r \in on => req[r] = [Idle("setup") EXCEPT !.stage = "done"]
        /\ r \notin by \cup on => req[r] = Idle(mix[r])
  BY <1>2, <1>4
<1>6. \A kind \in Kind : Idle(kind) \in Request
  <2>1. Nothing \in Id /\ {} \in SUBSET (Scopes \cup {Nothing}) /\ {} \in SUBSET Id
    BY DEF Id
  <2> QED
    BY <2>1 DEF Idle, Request, Stage
<1>7. ASSUME NEW r \in Requests
      PROVE  /\ req[r] \in Request /\ RequestOk(req[r]) /\ ~PastConsume(req[r])
             /\ sessions[r].state # "none" => req[r].stage = "done"
  <2>1. CASE r \in by
    <3>1. /\ req[r] \in Request /\ req[r].kind = "login" /\ req[r].stage = "done"
          /\ req[r].right /\ req[r].seen = {Nothing}
      <4>1. Nothing \in Id /\ {Nothing} \in SUBSET Id /\ "login" \in Kind
        BY DEF Id, Kind
      <4>2. PICK v \in Request : v = Idle("login") /\ v.kind = "login"
        BY <1>6, <4>1 DEF Idle
      <4>3. req[r] = [v EXCEPT !.stage = "done", !.right = TRUE, !.seen = {Nothing}]
        BY <1>5, <2>1, <4>2
      <4> QED
        BY <4>1, <4>2, <4>3, ZenonT(40) DEF Request, Stage
    <3>2. admin.exists
      BY <1>2, <2>1
    <3> QED
      BY <3>1, <3>2 DEF RequestOk, Course, Entitled, HasSession, HasAttempt, PastConsume
  <2>2. CASE r \in on
    <3>1. /\ req[r] \in Request /\ req[r].kind = "setup" /\ req[r].stage = "done"
      <4>1. Idle("setup") \in Request /\ Idle("setup").kind = "setup"
        BY <1>6 DEF Idle, Kind
      <4> QED
        BY <1>5, <2>2, <4>1 DEF Request, Stage
    <3>2. admin.exists
      BY <1>2, <1>4, <2>2
    <3> QED
      BY <3>1, <3>2 DEF RequestOk, Course, Entitled, HasSession, HasAttempt, PastConsume
  <2>3. CASE r \notin by \cup on
    <3>1. /\ req[r] \in Request /\ req[r].kind = mix[r] /\ req[r].stage = "new"
          /\ mix[r] \in Kind
      <4>1. mix[r] \in Kind /\ req[r] = Idle(mix[r])
        BY <1>3, <1>5, <2>3
      <4>2. Idle(mix[r]) \in Request
        BY <1>6, <4>1
      <4>3. Idle(mix[r]).kind = mix[r] /\ Idle(mix[r]).stage = "new"
        BY DEF Idle
      <4> QED
        BY <4>1, <4>2, <4>3
    <3>2. "new" \in Course(mix[r])
      BY <3>1 DEF Course, Kind
    <3>3. sessions[r].state = "none"
      BY <1>2, <2>3
    <3> QED
      BY <3>1, <3>2, <3>3
         DEF RequestOk, Entitled, HasSession, HasAttempt, PastConsume, Early
  <2> QED
    BY <2>1, <2>2, <2>3
<1>8. admin.totp = Nothing \/ (admin.totp \in on /\ admin.exists)
  BY <1>2, <1>4
<1>9. Shapes
  <2>1. admin \in [exists : BOOLEAN, totp : Id, pending : [secret : Id, expires : Nat]]
    <3>1. admin.totp \in Id /\ NoPending \in [secret : Id, expires : Nat]
      BY <1>4, <1>8 DEF NoPending, Id
    <3>2. PICK made \in BOOLEAN : made = (by # {})
      OBVIOUS
    <3>3. admin = [exists |-> made, pending |-> NoPending, totp |-> admin.totp]
      BY <1>2, <3>2
    <3> QED
      BY <3>1, <3>3
  <2>2. sessions \in [Requests -> [state : {"none", "active", "revoked"}, expires : Nat]]
    BY <1>2, <1>3
  <2>3. req \in [Requests -> Request]
    BY <1>2, <1>7
  <2> QED
    BY <1>3, <2>1, <2>2, <2>3 DEF Shapes
<1>10. BeforeAdmin
  BY <1>2, <1>3, <1>8 DEF BeforeAdmin
<1>11. SessionsAreDone /\ OneCallback
  BY <1>7 DEF SessionsAreDone, OneCallback
<1>12. FactorWasProven /\ DOMAIN attempts \subseteq Begun
  BY <1>2, <1>3, <1>8 DEF FactorWasProven
<1> QED
  BY <1>7, <1>9, <1>10, <1>11, <1>12 DEF LoginInv

LEMMA LoginInvStep == LoginInv /\ [Next]_vars => LoginInv'
<1> SUFFICES ASSUME LoginInv, [Next]_vars PROVE LoginInv'
  OBVIOUS
<1>1. ASSUME now' \in Nat, UNCHANGED <<admin, sessions, attempts, proven, req>>
      PROVE  LoginInv'
  BY <1>1 DEF LoginInv, Shapes, RequestOk, Entitled, HasSession, HasAttempt, PastConsume,
              Begun, BeforeAdmin, SessionsAreDone, OneCallback, FactorWasProven
<1>2. CASE Tick
  BY <1>1, <1>2 DEF Tick, Rows, LoginInv, Shapes
<1>3. CASE \E l \in Scopes : Alarm(l)
  BY <1>1, <1>3 DEF Alarm, Rows, LoginInv, Shapes
<1>4. CASE UNCHANGED vars
  BY <1>1, <1>4 DEF vars, LoginInv, Shapes
<1>5. ASSUME NEW r \in Requests, Step(r) PROVE LoginInv'
  <2>1. CASE Receive(r)
    BY <2>1, ReceiveKeeps
  <2>2. CASE Die(r)
    BY <2>2, DieKeeps
  <2>3. CASE LimitAddress(r) \/ LimitAccount(r)
    BY <2>3, LimitKeeps
  <2>4. CASE \E l \in Scopes : ClearLimiter(r, l)
    BY <2>4, ClearLimiterKeeps
  <2>5. CASE FindAdmin(r)
    BY <2>5, FindAdminKeeps
  <2>6. CASE InsertAdmin(r)
    BY <2>6, InsertAdminKeeps
  <2>7. CASE CheckCode(r)
    BY <2>7, CheckCodeKeeps
  <2>8. CASE Issue(r)
    BY <2>8, IssueKeeps
  <2>9. CASE Revoke(r)
    BY <2>9, RevokeKeeps
  <2>10. CASE Authenticate(r)
    BY <2>10, AuthenticateKeeps
  <2>11. CASE SavePending(r)
    BY <2>11, SavePendingKeeps
  <2>12. CASE ReadPending(r)
    BY <2>12, ReadPendingKeeps
  <2>13. CASE WipePending(r) \/ EnableTotp(r) \/ DisableTotp(r)
    BY <2>13, FactorKeeps
  <2>14. CASE BeginAttempt(r)
    BY <2>14, BeginAttemptKeeps
  <2>15. CASE Consume(r)
    BY <2>15, ConsumeKeeps
  <2>16. CASE \/ LookUpIdentity(r) \/ BindIdentity(r)
              \/ RereadIdentity(r) \/ ClearingFails(r)
    BY <2>16, CallbackKeeps
  <2> QED
    BY <1>5, <2>1, <2>2, <2>3, <2>4, <2>5, <2>6, <2>7, <2>8, <2>9, <2>10, <2>11, <2>12,
       <2>13, <2>14, <2>15, <2>16 DEF Step
<1> QED
  BY <1>2, <1>3, <1>4, <1>5 DEF Next

-----------------------------------------------------------------------------
(* What signing in promises.                                                *)

\* What each request has established holds at every moment, however requests
\* overlap, die and are retried (all handlers of http/auth).
THEOREM LoginInvariant == Spec => []LoginInv
  BY LoginInvInit, LoginInvStep, PTL DEF Spec

\* A second factor that is asked for is one whose code was confirmed from the
\* enrolment that made it (handleTotpConfirm enables what it verified, never
\* what waits in the row by then).
THEOREM EnabledFactorWasProven == Spec => []FactorWasProven
<1>1. LoginInv => FactorWasProven
  BY DEF LoginInv
<1> QED
  BY <1>1, LoginInvariant, PTL

\* A session made by a password login had the right password and the second
\* factor of some moment of the request (handleLogin).
THEOREM PasswordLoginWasEntitled == Spec => []LoginWasEntitled
<1>1. LoginInv => LoginWasEntitled
  BY DEF LoginInv, LoginWasEntitled, SessionsAreDone, RequestOk, Entitled
<1> QED
  BY <1>1, LoginInvariant, PTL

\* A Google attempt lets in one browser at most (the UPDATE of consume).
THEOREM AttemptLetsInOneBrowser == Spec => []AttemptUsedOnce
<1>1. LoginInv => AttemptUsedOnce
  <2> SUFFICES ASSUME LoginInv, NEW a \in Requests
               PROVE  Cardinality({r \in Requests : /\ req[r].kind = "google_callback"
                                                    /\ req[r].token = a
                                                    /\ req[r].stage \notin {"new", "consume"}}
                                  \cup (DOMAIN attempts \cap {a})) =< 1
    BY DEF AttemptUsedOnce
  <2> DEFINE callbacks == {r \in Requests : /\ req[r].kind = "google_callback"
                                            /\ req[r].token = a
                                            /\ req[r].stage \notin {"new", "consume"}}
             holders == callbacks \cup (DOMAIN attempts \cap {a})
  <2>1. \A r \in callbacks : PastConsume(req[r]) /\ r \in Requests /\ req[r].token = a
    BY DEF PastConsume
  <2>2. \A p, q \in callbacks : p = q
    BY <2>1 DEF LoginInv, OneCallback
  <2>3. callbacks # {} => a \notin DOMAIN attempts
    BY <2>1 DEF LoginInv, RequestOk
  <2>4. \A p, q \in holders : p = q
    BY <2>2, <2>3
  <2> HIDE DEF holders
  <2>5. Cardinality(holders) =< 1
    <3>1. CASE holders = {}
      BY <3>1, FS_EmptySet
    <3>2. CASE holders # {}
      <4>1. PICK p : p \in holders
        BY <3>2
      <4>2. holders = {p}
        BY <2>4, <4>1
      <4> QED
        <5>1. Cardinality(holders) = 1
          BY <4>2, FS_Singleton
        <5> QED
          BY <5>1
    <3> QED
      BY <3>1, <3>2
  <2> QED
    BY <2>5 DEF holders
<1> QED
  BY <1>1, LoginInvariant, PTL

-----------------------------------------------------------------------------
(* Powers of two.  An induction over the natural numbers is a least element *)
(* of the set of counterexamples.                                           *)

\* Every set of natural numbers with an element has a least one.
LEMMA Least ==
  ASSUME NEW T, T \subseteq Nat, T # {}
  PROVE  \E n \in T : \A m \in T : n =< m
<1> DEFINE R == {ss \in Nat \X Nat : ss[1] < ss[2]}
<1>1. IsWellFoundedOn(R, Nat)
  BY NatLessThanWellFounded DEF OpToRel
<1> HIDE DEF R
<1>2. PICK n \in T : \A m \in T : ~(<<m, n>> \in R)
  BY <1>1, WFMin
<1>3. ASSUME NEW m \in T PROVE n =< m
  <2>1. m \in Nat /\ n \in Nat /\ (m < n => <<m, n>> \in R)
    BY DEF R
  <2> QED
    BY <1>2, <2>1
<1> QED BY <1>3

\* A function that doubles from 1 up to n.
Doubles(g, n) == g \in [0 .. n -> Nat] /\ g[0] = 1 /\ \A i \in 1 .. n : g[i] = 2 * g[i - 1]

LEMMA DoublesExists == \A n \in Nat : \E g : Doubles(g, n)
<1> DEFINE T == {n \in Nat : ~\E g : Doubles(g, n)}
<1>1. SUFFICES ASSUME T # {} PROVE FALSE
  OBVIOUS
<1>2. PICK n \in T : \A m \in T : n =< m
  BY <1>1, Least
<1>3. CASE n = 0
  <2>1. Doubles([i \in 0 .. 0 |-> 1], 0)
    BY DEF Doubles
  <2> QED
    BY <1>3, <2>1
<1>4. CASE n # 0
  <2>1. n \in Nat /\ n - 1 \in Nat /\ n - 1 \notin T
    BY <1>2, <1>4
  <2>2. PICK g : Doubles(g, n - 1)
    BY <2>1
  <2> DEFINE h == [i \in 0 .. n |-> IF i = n THEN 2 * g[n - 1] ELSE g[i]]
  <2>3. \A i \in 0 .. n - 1 : g[i] \in Nat
    BY <2>2 DEF Doubles
  <2>4. h \in [0 .. n -> Nat]
    BY <2>1, <2>3
  <2>5. h[0] = 1
    BY <1>4, <2>1, <2>2 DEF Doubles
  <2>6. ASSUME NEW i \in 1 .. n PROVE h[i] = 2 * h[i - 1]
    <3>1. i - 1 \in 0 .. n - 1 /\ h[i - 1] = g[i - 1]
      BY <2>1
    <3>2. CASE i = n
      BY <2>1, <3>1, <3>2
    <3>3. CASE i # n
      <4>1. i \in 1 .. n - 1
        BY <2>1, <3>3
      <4>2. g[i] = 2 * g[i - 1] /\ h[i] = g[i]
        BY <2>1, <2>2, <3>3, <4>1 DEF Doubles
      <4> QED
        BY <3>1, <4>2
    <3> QED
      BY <3>2, <3>3
  <2>7. Doubles(h, n)
    BY <2>4, <2>5, <2>6 DEF Doubles
  <2> QED
    BY <2>7
<1> QED
  BY <1>3, <1>4

LEMMA DoublesUnique ==
  ASSUME NEW m \in Nat, NEW n \in Nat, m =< n, NEW g, NEW h, Doubles(g, m), Doubles(h, n)
  PROVE  g[m] = h[m]
<1> DEFINE T == {i \in 0 .. m : g[i] # h[i]}
<1>1. SUFFICES ASSUME T # {} PROVE FALSE
  OBVIOUS
<1>2. PICK i \in T : \A j \in T : i =< j
  <2>1. T \subseteq Nat
    OBVIOUS
  <2> HIDE DEF T
  <2> QED
    BY <1>1, <2>1, Least
<1>3. i \in 1 .. m
  BY <1>2 DEF Doubles
<1>4. g[i - 1] = h[i - 1]
  BY <1>2, <1>3
<1> QED
  BY <1>2, <1>3, <1>4 DEF Doubles

LEMMA DoubledIs ==
  /\ Doubled[0] = 1
  /\ \A n \in Nat : Doubled[n] \in Nat /\ Doubled[n + 1] = 2 * Doubled[n]
<1> DEFINE G == [n \in Nat |-> (CHOOSE g : Doubles(g, n))[n]]
<1>1. \A n \in Nat : Doubles(CHOOSE g : Doubles(g, n), n)
  BY DoublesExists
<1>2. ASSUME NEW n \in Nat PROVE G[n] \in Nat
  <2>1. PICK g : g = CHOOSE f : Doubles(f, n)
    OBVIOUS
  <2>2. Doubles(g, n)
    BY <1>1, <2>1
  <2>3. g[n] \in Nat
    BY <2>2 DEF Doubles
  <2> QED
    BY <2>1, <2>3
<1>3. G[0] = 1
  BY <1>1 DEF Doubles
<1>4. ASSUME NEW n \in Nat, n # 0 PROVE G[n] = 2 * G[n - 1]
  <2>1. PICK g : g = CHOOSE f : Doubles(f, n)
    OBVIOUS
  <2>2. PICK h : h = CHOOSE f : Doubles(f, n - 1)
    OBVIOUS
  <2>3. Doubles(g, n) /\ Doubles(h, n - 1) /\ n - 1 \in Nat
    BY <1>1, <1>4, <2>1, <2>2
  <2>4. g[n - 1] = h[n - 1]
    BY <2>3, DoublesUnique
  <2>5. g[n] = 2 * g[n - 1]
    BY <1>4, <2>3 DEF Doubles
  <2> QED
    BY <2>1, <2>2, <2>3, <2>4, <2>5
<1>5. G = [n \in Nat |-> G[n]]
  OBVIOUS
<1> HIDE DEF G
<1>6. G = [n \in Nat |-> IF n = 0 THEN 1 ELSE 2 * G[n - 1]]
  BY <1>3, <1>4, <1>5
<1>7. Doubled = [n \in Nat |-> IF n = 0 THEN 1 ELSE 2 * Doubled[n - 1]]
  BY <1>6 DEF Doubled
<1>8. Doubled[0] = 1 /\ \A n \in Nat : Doubled[n + 1] = 2 * Doubled[n]
  <2>1. ASSUME NEW n \in Nat PROVE Doubled[n + 1] = 2 * Doubled[(n + 1) - 1]
    BY <1>7
  <2>2. \A n \in Nat : (n + 1) - 1 = n
    OBVIOUS
  <2> QED
    BY <1>7, <2>1, <2>2
<1>9. \A n \in Nat : Doubled[n] \in Nat
  <2> DEFINE T == {n \in Nat : Doubled[n] \notin Nat}
  <2>1. SUFFICES ASSUME T # {} PROVE FALSE
    OBVIOUS
  <2>2. PICK n \in T : \A m \in T : n =< m
    BY <2>1, Least
  <2>3. n \in Nat /\ Doubled[n] \notin Nat
    OBVIOUS
  <2>4. n # 0 /\ n - 1 \in Nat /\ (n - 1) + 1 = n
    BY <1>8, <2>3
  <2>5. Doubled[n - 1] \in Nat
    BY <2>2, <2>4
  <2> QED
    BY <1>8, <2>3, <2>4, <2>5
<1> QED
  BY <1>8, <1>9

-----------------------------------------------------------------------------
(* The limiters.                                                            *)

\* What a stored record is: the next attempt waits for the delay of the last.
LimiterOk(l, state) ==
  /\ state \in [failures : 0 .. MaxFailures, blockedUntil : Nat, lastFailureAt : Nat,
                opened : Nat]
  /\ state.failures > 0 => /\ state.opened =< state.lastFailureAt
                           /\ state.blockedUntil = state.lastFailureAt
                                                     + Delay(l, state.failures)
  /\ Paced(l, state)

LimitersOk == now \in Nat /\ limiter \in [Scopes -> [failures : 0 .. MaxFailures,
                blockedUntil : Nat, lastFailureAt : Nat, opened : Nat]]
              /\ \A l \in Scopes : LimiterOk(l, limiter[l])

LEMMA LimiterConstants ==
  /\ MaxFailures \in Nat \ {0} /\ MaxDelay \in Nat \ {0} /\ StateTtl \in Nat \ {0}
  /\ \A l : Threshold(l) \in Nat \ {0}
  BY LimiterAssumption DEF Threshold

LEMMA NoFailuresIsOk ==
  ASSUME NEW l \in Scopes
  PROVE  LimiterOk(l, NoFailures)
  BY LimiterConstants DEF LimiterOk, NoFailures, Paced

LEMMA DelayIsNat ==
  ASSUME NEW l, NEW n \in Nat
  PROVE  /\ Delay(l, n) \in Nat
         /\ n >= Threshold(l) /\ Doubled[n - Threshold(l)] =< MaxDelay =>
              Delay(l, n) = Doubled[n - Threshold(l)]
<1>1. CASE n < Threshold(l)
  BY <1>1, LimiterConstants DEF Delay
<1>2. CASE n >= Threshold(l)
  <2>1. n - Threshold(l) \in Nat
    BY <1>2, LimiterConstants
  <2> QED
    BY <1>2, <2>1, LimiterConstants, DoubledIs DEF Delay, Smaller
<1> QED
  BY <1>1, <1>2, LimiterConstants

\* An admitted attempt keeps the pace: it comes after the delay of the one
\* before, which is as long as all delays before it together, and one.
LEMMA ReservedIsOk ==
  ASSUME NEW l \in Scopes, NEW state, NEW t \in Nat,
         LimiterOk(l, state), Allowed(state, t)
  PROVE  LimiterOk(l, Reserved(l, state, t))
<1> DEFINE fresh == FreshState(state, t)
           n == Smaller(fresh.failures + 1, MaxFailures)
           next == Reserved(l, state, t)
           T == Threshold(l)
<1>1. LimiterOk(l, fresh) /\ fresh.blockedUntil =< t
  BY NoFailuresIsOk DEF FreshState, Allowed
<1>2. /\ n \in 1 .. MaxFailures /\ (n = fresh.failures \/ n = fresh.failures + 1)
      /\ fresh.failures \in 0 .. MaxFailures
      /\ fresh.blockedUntil \in Nat /\ fresh.lastFailureAt \in Nat /\ fresh.opened \in Nat
      /\ T \in Nat \ {0}
  BY <1>1, LimiterConstants DEF LimiterOk, Smaller
<1>3. /\ next = [failures |-> n, blockedUntil |-> t + Delay(l, n), lastFailureAt |-> t,
                 opened |-> IF fresh.failures = 0 THEN t ELSE fresh.opened]
  BY DEF Reserved
<1> HIDE DEF n, next, T
<1>4. Delay(l, n) \in Nat /\ Delay(l, fresh.failures) \in Nat
  BY <1>2, DelayIsNat
<1>5. fresh.failures > 0 =>
        /\ fresh.opened =< fresh.lastFailureAt
        /\ fresh.blockedUntil = fresh.lastFailureAt + Delay(l, fresh.failures)
  BY <1>1 DEF LimiterOk
<1> HIDE DEF fresh
<1>6. fresh.failures > 0 =>
        /\ fresh.lastFailureAt + Delay(l, fresh.failures) =< t
        /\ fresh.lastFailureAt =< t /\ fresh.opened =< t
  BY <1>1, <1>2, <1>4, <1>5
<1>7. next \in [failures : 0 .. MaxFailures, blockedUntil : Nat, lastFailureAt : Nat,
                opened : Nat]
  BY <1>2, <1>3, <1>4
<1>8. next.opened =< next.lastFailureAt
  BY <1>2, <1>3, <1>6
<1>9. Paced(l, next)
  <2> SUFFICES ASSUME n > T, Doubled[n - T - 1] =< MaxDelay
               PROVE  t >= next.opened + Doubled[n - T] - 1
    BY <1>3 DEF Paced, T
  <2>1. /\ n - T \in Nat /\ n - T - 1 \in Nat /\ (n - T - 1) + 1 = n - T
        /\ fresh.failures > 0 /\ fresh.failures >= T
    BY <1>2
  <2>2. next.opened = fresh.opened
    BY <1>3, <2>1
  <2>3. /\ Doubled[n - T] = 2 * Doubled[n - T - 1]
        /\ Doubled[n - T] \in Nat /\ Doubled[n - T - 1] \in Nat
    BY <2>1, DoubledIs
  <2>4. CASE fresh.failures = n
    <3>1. fresh.lastFailureAt >= fresh.opened + Doubled[n - T] - 1
      BY <1>1, <1>2, <2>4 DEF LimiterOk, Paced, T
    <3> QED
      BY <1>2, <1>6, <2>1, <2>2, <2>3, <3>1
  <2>5. CASE fresh.failures = n - 1
    <3>1. Delay(l, fresh.failures) = Doubled[n - T - 1]
      <4>1. fresh.failures \in Nat /\ fresh.failures - T = n - T - 1
        BY <1>2, <2>5
      <4> QED
        BY <2>1, <4>1, DelayIsNat DEF T
    <3>2. t >= fresh.lastFailureAt + Doubled[n - T - 1]
      BY <1>6, <2>1, <3>1
    <3>3. fresh.lastFailureAt >= fresh.opened + Doubled[n - T - 1] - 1
      <4>1. CASE n - 1 = T
        <5>1. n - T - 1 = 0
          BY <1>2, <4>1
        <5> QED
          BY <1>2, <1>5, <2>1, <5>1, DoubledIs
      <4>2. CASE n - 1 > T
        <5>1. /\ n - T - 2 \in Nat /\ (n - T - 2) + 1 = n - T - 1
              /\ (n - 1) - T - 1 = n - T - 2 /\ (n - 1) - T = n - T - 1
              /\ n - 1 \in 1 .. MaxFailures
          BY <1>2, <4>2, LimiterConstants
        <5>2. Doubled[n - T - 2] \in Nat /\ Doubled[n - T - 1] = 2 * Doubled[n - T - 2]
          BY <5>1, DoubledIs
        <5>3. Doubled[(n - 1) - T - 1] =< MaxDelay
          BY <2>3, <5>1, <5>2, LimiterConstants
        <5>4. fresh.lastFailureAt >= fresh.opened + Doubled[(n - 1) - T] - 1
          BY <1>1, <2>5, <4>2, <5>1, <5>3 DEF LimiterOk, Paced, T
        <5> QED
          BY <5>1, <5>4
      <4> QED
        BY <1>2, <2>1, <2>5, <4>1, <4>2
    <3> QED
      BY <1>2, <2>2, <2>3, <3>2, <3>3
  <2> QED
    BY <1>2, <2>1, <2>4, <2>5
<1> QED
  BY <1>3, <1>7, <1>8, <1>9 DEF LimiterOk, next

LEMMA LimitersInit == Init => LimitersOk
<1>1. NoFailures \in [failures : 0 .. MaxFailures, blockedUntil : Nat,
                      lastFailureAt : Nat, opened : Nat]
  BY LimiterConstants DEF NoFailures
<1> QED
  BY <1>1, NoFailuresIsOk DEF Init, LimitersOk

\* One limiter takes on a record that is well made, the others keep theirs.
LEMMA LimiterChange ==
  ASSUME LimitersOk, NEW l, NEW state, l \in Scopes => LimiterOk(l, state),
         limiter' = [limiter EXCEPT ![l] = state], now' = now
  PROVE  LimitersOk'
  BY DEF LimitersOk, LimiterOk

LEMMA ReserveKeepsPace ==
  ASSUME LimitersOk, NEW r, NEW l, NEW next, Reserve(r, l, next)
  PROVE  LimitersOk'
<1>1. CASE Allowed(limiter[l], now)
  <2>1. limiter' = [limiter EXCEPT ![l] = Reserved(l, limiter[l], now)] /\ now' = now
    BY <1>1 DEF Reserve
  <2>2. l \in Scopes => LimiterOk(l, Reserved(l, limiter[l], now))
    BY <1>1, ReservedIsOk DEF LimitersOk
  <2> QED
    BY <2>1, <2>2, LimiterChange
<1>2. CASE ~Allowed(limiter[l], now)
  <2>1. limiter' = [limiter EXCEPT ![l] = FreshState(limiter[l], now)] /\ now' = now
    BY <1>2 DEF Reserve
  <2>2. l \in Scopes => LimiterOk(l, FreshState(limiter[l], now))
    BY NoFailuresIsOk DEF LimitersOk, FreshState
  <2> QED
    BY <2>1, <2>2, LimiterChange
<1> QED
  BY <1>1, <1>2

LEMMA LimitersStep == LimitersOk /\ [Next]_vars => LimitersOk'
<1> SUFFICES ASSUME LimitersOk, [Next]_vars PROVE LimitersOk'
  OBVIOUS
<1>1. ASSUME UNCHANGED limiter, now' \in Nat PROVE LimitersOk'
  BY <1>1 DEF LimitersOk
<1>2. CASE Tick
  BY <1>1, <1>2 DEF Tick, LimitersOk
<1>3. CASE UNCHANGED vars
  BY <1>1, <1>3 DEF vars, LimitersOk
<1>4. ASSUME NEW l \in Scopes, limiter' = [limiter EXCEPT ![l] = NoFailures], now' = now
      PROVE  LimitersOk'
  BY <1>4, NoFailuresIsOk, LimiterChange
<1>5. CASE \E l \in Scopes : Alarm(l)
  BY <1>4, <1>5 DEF Alarm
<1>6. ASSUME NEW r \in Requests, Step(r) PROVE LimitersOk'
  <2>1. CASE LimitAddress(r) \/ LimitAccount(r)
    BY <2>1, ReserveKeepsPace DEF LimitAddress, LimitAccount
  <2>2. CASE \E l \in Scopes : ClearLimiter(r, l)
    BY <1>4, <2>2 DEF ClearLimiter
  <2>3. CASE /\ ~(LimitAddress(r) \/ LimitAccount(r))
             /\ ~\E l \in Scopes : ClearLimiter(r, l)
    <3>1. UNCHANGED <<limiter, now>>
      BY <1>6, <2>3
         DEF Step, Receive, Die, FindAdmin, InsertAdmin, CheckCode, Issue, Revoke,
             Authenticate, SavePending, ReadPending, WipePending, EnableTotp, DisableTotp,
             SetAdmin, BeginAttempt, Consume, LookUpIdentity, BindIdentity,
             RereadIdentity, ClearingFails
    <3> QED
      BY <1>1, <3>1 DEF LimitersOk
  <2> QED
    BY <2>1, <2>2, <2>3
<1> QED
  BY <1>2, <1>3, <1>5, <1>6 DEF Next

\* On every limiter the attempts admitted since the count was last clear are as
\* far apart as the doubling delay demands, whatever requests, successes and
\* alarms interleave and for any thresholds and longest delay (reserveAttempt).
THEOREM AdmissionsArePaced == Spec => []AdmissionIsPaced
<1>1. Spec => []LimitersOk
  BY LimitersInit, LimitersStep, PTL DEF Spec
<1>2. LimitersOk => AdmissionIsPaced
  BY DEF LimitersOk, LimiterOk, AdmissionIsPaced
<1> QED
  BY <1>1, <1>2, PTL
=============================================================================
