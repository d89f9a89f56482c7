---------------------------- MODULE RecordsProofs ----------------------------
(***************************************************************************)
(* Proofs about the stored records: for any number of overlapping requests *)
(* a profile stays sound and keeps its connections, an open session keeps  *)
(* its profile, the history panel shows its own session, and a list that   *)
(* is read page by page is complete, for any page size.  And about the     *)
(* import of devices beside them: for any devices, pages and imports, and  *)
(* whatever others do to the profiles, an import that is answered is       *)
(* exact and is shown, and the other promises still hold.                  *)
(***************************************************************************)
EXTENDS TailscaleImport, FiniteSetTheorems, WellFoundedInduction, TLAPS

SoundRow(row) == row \in ProfileRows /\ Sound(row)

IsRequest(q) ==
  q = [kind |-> q.kind, stage |-> q.stage, target |-> q.target, edit |-> q.edit,
       row |-> q.row, readAt |-> q.readAt, cursor |-> q.cursor, seen |-> q.seen,
       untouched |-> q.untouched]

\* A request that has read a row is about to write a sound one.
RequestOK(q) ==
  /\ IsRequest(q)
  /\ q.target \in Profiles \cup {Nothing}
  /\ IsEdit(q.edit)
  /\ q.readAt \in Nat
  /\ q.stage = "write" => SoundRow(q.row)

RequestsOK ==
  /\ req = [r \in Requests |-> req[r]]
  /\ \A r \in Requests : RequestOK(req[r])

ProfilesOK ==
  /\ DOMAIN profiles \subseteq Profiles
  /\ \A p \in DOMAIN profiles : SoundRow(profiles[p])

SessionsOK ==
  sessions \in [Requests -> [profile : Profiles \cup {Nothing}, status : {"none", "open", "final"}]]

RecordsInv == now \in Nat /\ ProfilesOK /\ RequestsOK /\ SessionsOK

-----------------------------------------------------------------------------
(* What the changes of a request leave of it.                               *)

LEMMA StageOK ==
  ASSUME NEW q, RequestOK(q), NEW stage, stage # "write"
  PROVE  RequestOK([q EXCEPT !.stage = stage])
BY DEF RequestOK, IsRequest

LEMMA IdleOK ==
  ASSUME NEW kind
  PROVE  RequestOK(Idle(kind)) /\ RequestOK([Idle(kind) EXCEPT !.stage = "done"])
<1>1. \A seen : LET q == [kind |-> kind, stage |-> "new", target |-> Nothing, edit |-> NoEdit,
                         row |-> Nothing, readAt |-> 0,
                         cursor |-> NoCursor, seen |-> seen, untouched |-> {}]
                IN  RequestOK(q)
  BY DEF RequestOK, IsRequest, NoEdit, IsEdit
<1>2. RequestOK(Idle(kind))
  BY <1>1 DEF Idle
<1> QED  BY <1>2, StageOK

LEMMA UntouchedOK ==
  ASSUME NEW q, RequestOK(q), NEW ids
  PROVE  RequestOK([q EXCEPT !.untouched = ids])
BY DEF RequestOK, IsRequest

\* A request is given its target, then its edit, and reads its row: field by
\* field.
LEMMA TargetOK ==
  ASSUME NEW q, RequestOK(q), NEW stage, stage # "write", NEW p \in Profiles
  PROVE  RequestOK([q EXCEPT !.stage = stage, !.target = p])
<1> DEFINE q1 == [q EXCEPT !.stage = stage]
           q2 == [q1 EXCEPT !.target = p]
<1>1. RequestOK(q1)
  BY StageOK
<1>2. RequestOK(q2)
  <2> HIDE DEF q1
  <2> QED  BY <1>1 DEF RequestOK, IsRequest
<1>3. [q EXCEPT !.stage = stage, !.target = p] = q2
  BY Z3
<1> QED  BY <1>2, <1>3

LEMMA EditOK ==
  ASSUME NEW q, RequestOK(q), NEW p \in Profiles, NEW edit, IsEdit(edit)
  PROVE  RequestOK([q EXCEPT !.stage = "read", !.target = p, !.edit = edit])
<1> DEFINE q1 == [q EXCEPT !.stage = "read"]
           q2 == [q1 EXCEPT !.target = p]
           q3 == [q2 EXCEPT !.edit = edit]
<1>1. RequestOK(q1)
  BY StageOK
<1>2. RequestOK(q2)
  <2> HIDE DEF q1
  <2> QED  BY <1>1 DEF RequestOK, IsRequest
<1>3. RequestOK(q3)
  <2> HIDE DEF q2
  <2> QED  BY <1>2 DEF RequestOK, IsRequest
<1>4. [q EXCEPT !.stage = "read", !.target = p, !.edit = edit] = q3
  BY Z3
<1> QED  BY <1>3, <1>4

LEMMA ReadOK ==
  ASSUME NEW q, RequestOK(q), NEW row, SoundRow(row), NEW t \in Nat
  PROVE  RequestOK([q EXCEPT !.row = row, !.readAt = t, !.stage = "write"])
<1> DEFINE q1 == [q EXCEPT !.row = row]
           q2 == [q1 EXCEPT !.readAt = t]
           q3 == [q2 EXCEPT !.stage = "write"]
<1>1. RequestOK(q1) /\ q1.row = row
  BY DEF RequestOK, IsRequest
<1>2. RequestOK(q2) /\ q2.row = row
  <2> HIDE DEF q1
  <2> QED  BY <1>1 DEF RequestOK, IsRequest
<1>3. RequestOK(q3)
  <2> HIDE DEF q2
  <2> QED  BY <1>2 DEF RequestOK, IsRequest
<1>4. [q EXCEPT !.row = row, !.readAt = t, !.stage = "write"] = q3
  BY Z3
<1> QED  BY <1>3, <1>4

\* A list goes on by a page.
LEMMA PageOK ==
  ASSUME NEW q, RequestOK(q), NEW seen, NEW cursor, NEW stage, stage # "write"
  PROVE  RequestOK([q EXCEPT !.seen = seen, !.cursor = cursor, !.stage = stage])
<1> DEFINE q1 == [q EXCEPT !.seen = seen]
           q2 == [q1 EXCEPT !.cursor = cursor]
           q3 == [q2 EXCEPT !.stage = stage]
<1>1. RequestOK(q1)
  BY DEF RequestOK, IsRequest
<1>2. RequestOK(q2)
  <2> HIDE DEF q1
  <2> QED  BY <1>1 DEF RequestOK, IsRequest
<1>3. RequestOK(q3)
  <2> HIDE DEF q2
  <2> QED  BY <1>2, StageOK
<1>4. [q EXCEPT !.seen = seen, !.cursor = cursor, !.stage = stage] = q3
  BY Z3
<1> QED  BY <1>3, <1>4

\* The connection of a sound row is marked.
LEMMA MarkedOK ==
  ASSUME NEW row, SoundRow(row), NEW t \in Nat
  PROVE  LET marked == [row EXCEPT !.connected = @ + 1, !.updated = t]
         IN  SoundRow(marked) /\ marked.connected = row.connected + 1
<1> DEFINE n == row.connected + 1
           row1 == [row EXCEPT !.connected = n]
           marked == [row1 EXCEPT !.updated = t]
<1>1. row \in ProfileRows /\ Sound(row) /\ n \in Nat
  BY DEF SoundRow, ProfileRows
<1> HIDE DEF n
<1>2. SoundRow(row1) /\ row1.connected = n
  BY <1>1 DEF SoundRow, ProfileRows, Sound
<1>3. SoundRow(marked) /\ marked.connected = n
  <2> HIDE DEF row1
  <2> QED  BY <1>2 DEF SoundRow, ProfileRows, Sound
<1>4. [row EXCEPT !.connected = n, !.updated = t] = marked
  BY Z3
<1>5. [row EXCEPT !.connected = @ + 1, !.updated = t] = [row EXCEPT !.connected = n, !.updated = t]
  BY DEF n
<1> QED  BY <1>3, <1>4, <1>5 DEF n

\* One request changes.
LEMMA OneRequest ==
  ASSUME RequestsOK, NEW r \in Requests, NEW q, RequestOK(q),
         req' = [req EXCEPT ![r] = q]
  PROVE  RequestsOK'
<1>1. req' = [x \in Requests |-> IF x = r THEN q ELSE req[x]]
  BY DEF RequestsOK
<1> QED  BY <1>1 DEF RequestsOK

LEMMA GotoOK ==
  ASSUME RequestsOK, NEW r \in Requests, NEW stage, stage # "write", Goto(r, stage)
  PROVE  RequestsOK'
<1>1. RequestOK([req[r] EXCEPT !.stage = stage])
  BY StageOK DEF RequestsOK
<1>2. req' = [req EXCEPT ![r] = [req[r] EXCEPT !.stage = stage]]
  BY DEF Goto
<1> QED  BY <1>1, <1>2, OneRequest

LEMMA FailOK ==
  ASSUME RequestsOK, NEW r \in Requests, Fail(r)
  PROVE  RequestsOK'
<1>1. RequestOK(Over(r))
  BY IdleOK DEF Over
<1> QED  BY <1>1, OneRequest DEF Fail

\* One request goes on, the lists hear of the rows it touched.
LEMMA GoOnOK ==
  ASSUME RequestsOK, NEW r \in Requests, NEW q, RequestOK(q), NEW kind, NEW ids,
         GoOn(r, q, kind, ids)
  PROVE  RequestsOK'
<1> DEFINE Next1(x) == [req[x] EXCEPT !.untouched = IF req[x].kind = kind THEN @ \ ids ELSE @]
<1>1. \A x \in Requests : RequestOK(Next1(x))
  BY UntouchedOK DEF RequestsOK
<1>2. req' = [x \in Requests |-> IF x = r THEN q ELSE Next1(x)]
  BY DEF GoOn
<1> QED  BY <1>1, <1>2 DEF RequestsOK

\* A row is written.
LEMMA PutOK ==
  ASSUME ProfilesOK, NEW p \in Profiles, NEW row, SoundRow(row), Put(p, row)
  PROVE  /\ ProfilesOK'
         /\ DOMAIN profiles' = DOMAIN profiles \cup {p}
         /\ profiles'[p] = row
         /\ \A x \in DOMAIN profiles \ {p} : profiles'[x] = profiles[x]
BY DEF Put, ProfilesOK

\* An edit makes a sound row of a sound row, port 22 being checked.
LEMMA UpdatedOK ==
  ASSUME NEW row, SoundRow(row), NEW edit, IsEdit(edit),
         Updated(row, edit).method = "tailscale_ssh" => Updated(row, edit).port = 22
  PROVE  SoundRow(Updated(row, edit))
<1> DEFINE u == Updated(row, edit)
           c == edit.credential
           host == Or(edit.host, row.host)
           name == Or(edit.name, row.name)
           port == Or(edit.port, row.port)
<1>1. row \in ProfileRows /\ Sound(row)
  BY DEF SoundRow
<1>a. host \in Hosts /\ name \in Names /\ port \in Nat
  BY <1>1 DEF ProfileRows, IsEdit, Or
<1>2. CASE c = Nothing
  <2>1. u = [row EXCEPT !.host = host, !.name = name, !.port = port]
    BY <1>1, <1>2 DEF Updated, ProfileRows
  <2>2. /\ u \in ProfileRows /\ u.method = row.method /\ u.persistence = row.persistence
        /\ u.secrets = row.secrets
    <3> HIDE DEF u, host, name, port
    <3> QED  BY <1>1, <1>a, <2>1 DEF ProfileRows
  <2> QED  BY <1>1, <2>2 DEF SoundRow, Sound
<1>3. CASE c # Nothing
  <2> DEFINE persistence == IF c.method = "tailscale_ssh" THEN "saved" ELSE c.persistence
             secrets     == Mutated(row, c)
  <2>1. CredentialOK(c)
    BY <1>3 DEF IsEdit
  <2>2. u = [row EXCEPT !.host = host, !.name = name, !.port = port, !.method = c.method,
                        !.persistence = persistence, !.secrets = secrets]
    BY <1>1, <1>3 DEF Updated, ProfileRows
  <2>3. secrets \subseteq (IF c.persistence = "saved" THEN {c.method} ELSE {})
    BY DEF Mutated
  <2>4. secrets \in SUBSET Method /\ persistence \in {"saved", "prompt"} /\ c.method \in Method
    BY <2>1, <2>3 DEF CredentialOK
  <2>5. /\ u \in ProfileRows /\ u.method = c.method /\ u.persistence = persistence
        /\ u.secrets = secrets
    <3> HIDE DEF u, c, host, name, port, persistence, secrets
    <3> QED  BY <1>1, <1>a, <2>2, <2>4 DEF ProfileRows
  <2> QED  BY <2>1, <2>3, <2>5 DEF SoundRow, Sound, CredentialOK, Needs, Method
<1> QED  BY <1>2, <1>3

\* A new profile is sound.
LEMMA RowOK ==
  ASSUME NEW new, IsNew(new), new.method = "tailscale_ssh" => new.port = 22, now \in Nat
  PROVE  SoundRow(Row(new))
<1> DEFINE secrets == IF new.persistence = "saved" THEN Needs(new.method) ELSE {}
<1>1. secrets \in SUBSET Method
  BY DEF Needs, IsNew
<1>2. Row(new) \in ProfileRows
  BY <1>1 DEF Row, ProfileRows, IsNew
<1>3. Sound(Row(new))
  BY DEF Row, Sound, Needs, IsNew
<1> QED  BY <1>2, <1>3 DEF SoundRow

-----------------------------------------------------------------------------
(* The invariant, action by action.                                         *)

LEMMA InitInv == Init => RecordsInv
<1> SUFFICES ASSUME Init PROVE RecordsInv
  OBVIOUS
<1>1. PICK start \in Starts : /\ now = start.now
                              /\ profiles = start.profiles
                              /\ req = [r \in Requests |-> Idle(start.kind[r])]
  BY DEF Init
<1>2. ProfilesOK
  BY <1>1, InputAssumption DEF ProfilesOK, SoundRow
<1>3. RequestsOK
  BY <1>1, IdleOK DEF RequestsOK
<1>4. SessionsOK
  BY DEF Init, NoSession, SessionsOK
<1>5. now \in Nat
  BY <1>1, RecordsAssumption
<1> QED  BY <1>2, <1>3, <1>4, <1>5 DEF RecordsInv

LEMMA CreateInv ==
  ASSUME RecordsInv, NEW r \in Requests, Create(r)
  PROVE  RecordsInv'
<1>1. PICK p \in Profiles \ DOMAIN profiles, new \in NewRows :
        /\ new.method = "tailscale_ssh" => new.port = 22
        /\ UNCHANGED profiles \/ Put(p, Row(new))
  BY DEF Create
<1>2. SoundRow(Row(new))
  BY <1>1, RowOK, InputAssumption DEF RecordsInv
<1>3. ProfilesOK'
  <2>1. CASE UNCHANGED profiles
    BY <2>1 DEF RecordsInv, ProfilesOK
  <2>2. CASE Put(p, Row(new))
    BY <1>2, <2>2, PutOK DEF RecordsInv
  <2> QED  BY <1>1, <2>1, <2>2
<1>4. RequestsOK'
  BY GotoOK DEF Create, RecordsInv
<1> QED  BY <1>3, <1>4 DEF Create, RecordsInv, SessionsOK

LEMMA CheckUpdateInv ==
  ASSUME RecordsInv, NEW r \in Requests, CheckUpdate(r)
  PROVE  RecordsInv'
<1>1. PICK p \in DOMAIN profiles, edit \in Edits :
        req' = [req EXCEPT ![r].stage = "read", ![r].target = p, ![r].edit = edit]
  BY DEF CheckUpdate
<1> DEFINE q == [req[r] EXCEPT !.stage = "read", !.target = p, !.edit = edit]
<1>2. RequestOK(q)
  BY EditOK, InputAssumption DEF RecordsInv, RequestsOK, ProfilesOK
<1>3. req' = [req EXCEPT ![r] = q]
  BY <1>1
<1>4. RequestsOK'
  BY <1>2, <1>3, OneRequest DEF RecordsInv
<1> QED  BY <1>4 DEF CheckUpdate, RecordsInv, ProfilesOK, SessionsOK

LEMMA ReadRowInv ==
  ASSUME RecordsInv, NEW r \in Requests, ReadRow(r)
  PROVE  RecordsInv'
<1> DEFINE row == Updated(profiles[req[r].target], req[r].edit)
           q   == [req[r] EXCEPT !.row = row, !.readAt = now, !.stage = "write"]
<1>1. RequestsOK'
  <2>1. CASE /\ Exists(req[r].target)
             /\ row.method = "tailscale_ssh" => row.port = 22
             /\ req' = [req EXCEPT ![r].row = row, ![r].readAt = now, ![r].stage = "write"]
    <3>1. SoundRow(profiles[req[r].target])
      BY <2>1 DEF RecordsInv, ProfilesOK, Exists
    <3>2. IsEdit(req[r].edit)
      BY DEF RecordsInv, RequestsOK, RequestOK
    <3>3. SoundRow(row)
      BY <2>1, <3>1, <3>2, UpdatedOK
    <3>4. req' = [req EXCEPT ![r] = q]
      BY <2>1
    <3> HIDE DEF row
    <3>5. RequestOK(q)
      BY <3>3, ReadOK DEF RecordsInv, RequestsOK
    <3> QED  BY <3>4, <3>5, OneRequest DEF RecordsInv
  <2>2. CASE Fail(r)
    BY <2>2, FailOK DEF RecordsInv
  <2> QED  BY <2>1, <2>2 DEF ReadRow
<1> QED  BY <1>1 DEF ReadRow, RecordsInv, ProfilesOK, SessionsOK

\* The row that is written, and what the write leaves of the connections.
LEMMA WriteRowFacts ==
  ASSUME RecordsInv, NEW r \in Requests, WriteRow(r)
  PROVE  /\ RecordsInv'
         /\ \A p \in DOMAIN profiles :
              p \in DOMAIN profiles' /\ profiles'[p].connected = profiles[p].connected
<1> DEFINE p == req[r].target
<1>1. PICK t \in req[r].readAt .. now :
        IF Exists(p) /\ ~Taken(p, req[r].row)
          THEN Put(p, [req[r].row EXCEPT !.updated = t, !.connected = profiles[p].connected])
          ELSE UNCHANGED profiles
  BY DEF WriteRow
<1> DEFINE row == [req[r].row EXCEPT !.updated = t, !.connected = profiles[p].connected]
<1>2. t \in Nat
  BY DEF RecordsInv, RequestsOK, RequestOK
<1>3. SoundRow(req[r].row)
  BY DEF RecordsInv, RequestsOK, RequestOK, WriteRow, At
<1>4. /\ ProfilesOK'
      /\ \A x \in DOMAIN profiles :
           x \in DOMAIN profiles' /\ profiles'[x].connected = profiles[x].connected
  <2>1. CASE Exists(p) /\ ~Taken(p, req[r].row)
    <3>1. p \in Profiles /\ profiles[p].connected \in Nat
      BY <2>1 DEF RecordsInv, ProfilesOK, Exists, SoundRow, ProfileRows
    <3>2. SoundRow(row) /\ row.connected = profiles[p].connected
      BY <1>2, <1>3, <3>1 DEF SoundRow, Sound, ProfileRows
    <3>3. Put(p, row)
      BY <1>1, <2>1
    <3> HIDE DEF row
    <3> QED  BY <3>1, <3>2, <3>3, PutOK DEF RecordsInv
  <2>2. CASE UNCHANGED profiles
    BY <2>2 DEF RecordsInv, ProfilesOK
  <2> QED  BY <1>1, <2>1, <2>2
<1>5. RequestsOK'
  <2>1. RequestOK(Over(r))
    BY IdleOK DEF Over
  <2> QED  BY <2>1, GoOnOK DEF WriteRow, RecordsInv
<1> QED  BY <1>4, <1>5 DEF WriteRow, RecordsInv, SessionsOK

LEMMA CheckDeleteInv ==
  ASSUME RecordsInv, NEW r \in Requests, CheckDelete(r)
  PROVE  RecordsInv'
<1>1. PICK p \in DOMAIN profiles : req' = [req EXCEPT ![r].stage = "delete", ![r].target = p]
  BY DEF CheckDelete
<1> DEFINE q == [req[r] EXCEPT !.stage = "delete", !.target = p]
<1>2. RequestOK(q)
  BY TargetOK DEF RecordsInv, RequestsOK, ProfilesOK
<1>3. req' = [req EXCEPT ![r] = q]
  BY <1>1
<1>4. RequestsOK'
  BY <1>2, <1>3, OneRequest DEF RecordsInv
<1> QED  BY <1>4 DEF CheckDelete, RecordsInv, ProfilesOK, SessionsOK

\* A deletion that goes through takes one profile, which no open session uses,
\* and the rest is as before.
LEMMA DeleteFacts ==
  ASSUME RecordsInv, NEW r \in Requests, DeleteIfIdle(r)
  PROVE  /\ RecordsInv'
         /\ DOMAIN profiles' \subseteq DOMAIN profiles
         /\ \A p \in DOMAIN profiles' : profiles'[p] = profiles[p]
         /\ \A s \in Requests : sessions[s].status = "open" =>
              /\ sessions'[s].profile = sessions[s].profile
              /\ Exists(sessions[s].profile) => sessions[s].profile \in DOMAIN profiles'
         /\ \A s \in Requests : sessions'[s].status = sessions[s].status
<1> DEFINE p == req[r].target
<1>1. RequestsOK'
  <2>1. RequestOK(Over(r))
    BY IdleOK DEF Over
  <2> QED  BY <2>1, GoOnOK DEF DeleteIfIdle, RecordsInv
<1>2. CASE /\ Active(p) = {}
           /\ profiles' = [q \in DOMAIN profiles \ {p} |-> profiles[q]]
           /\ sessions' = Detached(p)
  <2>1. ProfilesOK'
    BY <1>2 DEF RecordsInv, ProfilesOK
  <2>2. \A s \in Requests :
          /\ sessions'[s].status = sessions[s].status
          /\ sessions'[s].profile = IF sessions[s].profile = p THEN Nothing ELSE sessions[s].profile
    BY <1>2 DEF Detached, RecordsInv, SessionsOK
  <2>3. SessionsOK'
    BY <1>2 DEF Detached, RecordsInv, SessionsOK
  <2>4. \A s \in Requests : sessions[s].status = "open" => sessions[s].profile # p
    BY <1>2 DEF Active
  <2> QED  BY <1>1, <1>2, <2>1, <2>2, <2>3, <2>4 DEF DeleteIfIdle, RecordsInv, Exists
<1>3. CASE UNCHANGED <<profiles, sessions>>
  BY <1>1, <1>3 DEF DeleteIfIdle, RecordsInv, ProfilesOK, SessionsOK, Exists
<1> QED  BY <1>2, <1>3 DEF DeleteIfIdle

LEMMA ResolveInv ==
  ASSUME RecordsInv, NEW r \in Requests, Resolve(r)
  PROVE  RecordsInv'
<1>1. PICK p \in DOMAIN profiles : req' = [req EXCEPT ![r].stage = "start", ![r].target = p]
  BY DEF Resolve
<1> DEFINE q == [req[r] EXCEPT !.stage = "start", !.target = p]
<1>2. RequestOK(q)
  BY TargetOK DEF RecordsInv, RequestsOK, ProfilesOK
<1>3. req' = [req EXCEPT ![r] = q]
  BY <1>1
<1>4. RequestsOK'
  BY <1>2, <1>3, OneRequest DEF RecordsInv
<1> QED  BY <1>4 DEF Resolve, RecordsInv, ProfilesOK, SessionsOK

LEMMA StartSessionInv ==
  ASSUME RecordsInv, NEW r \in Requests, StartSession(r)
  PROVE  RecordsInv'
<1>1. RequestsOK'
  BY GotoOK, FailOK DEF StartSession, RecordsInv
<1>2. SessionsOK'
  BY DEF StartSession, RecordsInv, SessionsOK, RequestsOK, RequestOK
<1> QED  BY <1>1, <1>2 DEF StartSession, RecordsInv, ProfilesOK

\* The connection that is marked is the only change.
LEMMA MarkFacts ==
  ASSUME RecordsInv, NEW r \in Requests, MarkConnected(r)
  PROVE  /\ RecordsInv'
         /\ \A p \in DOMAIN profiles :
              p \in DOMAIN profiles' /\ profiles'[p].connected >= profiles[p].connected
<1> DEFINE p   == req[r].target
           row == [profiles[p] EXCEPT !.connected = @ + 1, !.updated = now]
<1>1. /\ ProfilesOK'
      /\ \A x \in DOMAIN profiles :
           x \in DOMAIN profiles' /\ profiles'[x].connected >= profiles[x].connected
  <2>1. \A x \in DOMAIN profiles : profiles[x].connected \in Nat
    BY DEF RecordsInv, ProfilesOK, SoundRow, ProfileRows
  <2>2. CASE Exists(p)
    <3>1. p \in Profiles /\ SoundRow(profiles[p])
      BY <2>2 DEF RecordsInv, ProfilesOK, Exists
    <3>2. SoundRow(row) /\ row.connected = profiles[p].connected + 1
      BY <3>1, MarkedOK DEF RecordsInv
    <3>3. Put(p, row)
      BY <2>2 DEF MarkConnected
    <3> HIDE DEF row
    <3>4. /\ ProfilesOK'
          /\ DOMAIN profiles' = DOMAIN profiles \cup {p}
          /\ profiles'[p] = row
          /\ \A x \in DOMAIN profiles \ {p} : profiles'[x] = profiles[x]
      BY <3>1, <3>2, <3>3, PutOK DEF RecordsInv
    <3>5. \A x \in DOMAIN profiles : profiles'[x].connected >= profiles[x].connected
      BY <2>1, <2>2, <3>2, <3>4 DEF Exists
    <3> QED  BY <3>4, <3>5
  <2>3. CASE ~Exists(p)
    BY <2>1, <2>3 DEF MarkConnected, RecordsInv, ProfilesOK
  <2> QED  BY <2>2, <2>3
<1>2. RequestsOK'
  <2>1. RequestOK(Stage(r, "connected"))
    BY StageOK DEF Stage, RecordsInv, RequestsOK
  <2> QED  BY <2>1, GoOnOK DEF MarkConnected, RecordsInv
<1> QED  BY <1>1, <1>2 DEF MarkConnected, RecordsInv, SessionsOK

LEMMA HistoryInv ==
  ASSUME RecordsInv, NEW r \in Requests, AppendCommand(r) \/ Prune(r)
  PROVE  RecordsInv'
<1>1. CASE AppendCommand(r)
  <2>1. RequestsOK'
    BY <1>1, GotoOK DEF AppendCommand, RecordsInv
  <2> QED  BY <1>1, <2>1 DEF AppendCommand, RecordsInv, ProfilesOK, SessionsOK
<1>2. CASE Prune(r)
  <2>1. RequestOK(Stage(r, "connected"))
    BY StageOK DEF Stage, RecordsInv, RequestsOK
  <2>2. RequestsOK'
    BY <1>2, <2>1, GoOnOK DEF Prune, RecordsInv
  <2> QED  BY <1>2, <2>2 DEF Prune, RecordsInv, ProfilesOK, SessionsOK
<1> QED  BY <1>1, <1>2

LEMMA FinishSessionInv ==
  ASSUME RecordsInv, NEW r \in Requests, FinishSession(r)
  PROVE  RecordsInv'
<1>1. RequestsOK'
  BY FailOK DEF FinishSession, RecordsInv
<1>2. SessionsOK'
  BY DEF FinishSession, RecordsInv, SessionsOK
<1> QED  BY <1>1, <1>2 DEF FinishSession, RecordsInv, ProfilesOK

LEMMA ListInv ==
  ASSUME RecordsInv, NEW r \in Requests, StartList(r) \/ ReadPage(r)
  PROVE  RecordsInv'
<1>1. CASE StartList(r)
  <2> DEFINE q1 == [req[r] EXCEPT !.stage = "page"]
             q2 == [q1 EXCEPT !.untouched = Listed(req[r].kind)]
  <2>1. RequestOK(q1)
    BY StageOK DEF RecordsInv, RequestsOK
  <2>2. RequestOK(q2)
    <3> HIDE DEF q1
    <3> QED  BY <2>1, UntouchedOK
  <2>3. [req[r] EXCEPT !.stage = "page", !.untouched = Listed(req[r].kind)] = q2
    BY Z3
  <2>4. req' = [req EXCEPT ![r] = [req[r] EXCEPT !.stage = "page", !.untouched = Listed(req[r].kind)]]
    BY <1>1 DEF StartList
  <2>5. RequestsOK'
    <3> HIDE DEF q2
    <3> QED  BY <2>2, <2>3, <2>4, OneRequest DEF RecordsInv
  <2> QED  BY <1>1, <2>5 DEF StartList, RecordsInv, ProfilesOK, SessionsOK
<1>2. CASE ReadPage(r)
  <2>1. PICK seen, cursor, stage :
          /\ stage # "write"
          /\ req' = [req EXCEPT ![r].seen = seen, ![r].cursor = cursor, ![r].stage = stage]
    <3> DEFINE found == Page(IF req[r].kind = "list_profiles" THEN ProfileKeys ELSE Keys, req[r].cursor)
               seen == Append(req[r].seen, {k.id : k \in found.items})
               stage == IF found.next = NoCursor THEN "listed" ELSE "page"
    <3>1. /\ stage # "write"
          /\ req' = [req EXCEPT ![r].seen = seen, ![r].cursor = found.next, ![r].stage = stage]
      BY <1>2 DEF ReadPage
    <3> HIDE DEF found, seen, stage
    <3> QED  BY <3>1
  <2> DEFINE q == [req[r] EXCEPT !.seen = seen, !.cursor = cursor, !.stage = stage]
  <2>2. RequestOK(q)
    BY <2>1, PageOK DEF RecordsInv, RequestsOK
  <2>3. req' = [req EXCEPT ![r] = q]
    BY <2>1
  <2>4. RequestsOK'
    BY <2>2, <2>3, OneRequest DEF RecordsInv
  <2> QED  BY <1>2, <2>4 DEF ReadPage, RecordsInv, ProfilesOK, SessionsOK
<1> QED  BY <1>1, <1>2

LEMMA ServePanelInv ==
  ASSUME RecordsInv, NEW a \in panel.asked, ServePanel(a)
  PROVE  RecordsInv'
<1>1. PICK gone : req' = [q \in Requests |->
        [req[q] EXCEPT !.untouched = IF req[q].kind = "list_commands" THEN @ \ gone ELSE @]]
  BY DEF ServePanel
<1>2. RequestsOK'
  BY <1>1, UntouchedOK DEF RecordsInv, RequestsOK
<1> QED  BY <1>2 DEF ServePanel, RecordsInv, ProfilesOK, SessionsOK

-----------------------------------------------------------------------------
(* Profiles, requests and sessions.                                         *)

\* What any step leaves of the profiles: each keeps its marks while it exists,
\* and none goes that an open session has.
LEMMA StepFacts ==
  ASSUME RecordsInv, OpenSessionKeepsProfile, [Next]_vars
  PROVE  /\ RecordsInv'
         /\ OpenSessionKeepsProfile'
         /\ \A p \in DOMAIN profiles :
              p \in DOMAIN profiles' => profiles'[p].connected >= profiles[p].connected
<1> USE DEF Exists
<1>0. \A p \in DOMAIN profiles : p \in Profiles /\ profiles[p].connected \in Nat
  BY DEF RecordsInv, ProfilesOK, SoundRow, ProfileRows
<1>a. ASSUME RecordsInv', UNCHANGED <<profiles, sessions>>
      PROVE  /\ OpenSessionKeepsProfile'
             /\ \A p \in DOMAIN profiles :
                  p \in DOMAIN profiles' => profiles'[p].connected >= profiles[p].connected
  BY <1>0, <1>a DEF OpenSessionKeepsProfile
<1>b. ASSUME UNCHANGED sessions, \A p \in DOMAIN profiles : p \in DOMAIN profiles'
      PROVE  OpenSessionKeepsProfile'
  BY <1>b DEF OpenSessionKeepsProfile
<1>1. ASSUME NEW r \in Requests, Create(r)
      PROVE  /\ RecordsInv' /\ OpenSessionKeepsProfile'
             /\ \A p \in DOMAIN profiles :
                  p \in DOMAIN profiles' => profiles'[p].connected >= profiles[p].connected
  <2>1. RecordsInv'
    BY <1>1, CreateInv
  <2>2. \A p \in DOMAIN profiles : p \in DOMAIN profiles' /\ profiles'[p] = profiles[p]
    BY <1>1 DEF Create, Put
  <2>3. UNCHANGED sessions
    BY <1>1 DEF Create
  <2> QED  BY <1>0, <1>b, <2>1, <2>2, <2>3
<1>2. ASSUME NEW r \in Requests, CheckUpdate(r) \/ ReadRow(r) \/ CheckDelete(r) \/ Resolve(r)
      PROVE  RecordsInv' /\ UNCHANGED <<profiles, sessions>>
  <2>1. RecordsInv'
    BY <1>2, CheckUpdateInv, ReadRowInv, CheckDeleteInv, ResolveInv
  <2> QED  BY <1>2, <2>1 DEF CheckUpdate, ReadRow, CheckDelete, Resolve
<1>3. ASSUME NEW r \in Requests, WriteRow(r)
      PROVE  /\ RecordsInv' /\ OpenSessionKeepsProfile'
             /\ \A p \in DOMAIN profiles :
                  p \in DOMAIN profiles' => profiles'[p].connected >= profiles[p].connected
  <2>1. UNCHANGED sessions
    BY <1>3 DEF WriteRow
  <2> QED  BY <1>0, <1>3, <1>b, <2>1, WriteRowFacts
<1>4. ASSUME NEW r \in Requests, DeleteIfIdle(r)
      PROVE  /\ RecordsInv' /\ OpenSessionKeepsProfile'
             /\ \A p \in DOMAIN profiles :
                  p \in DOMAIN profiles' => profiles'[p].connected >= profiles[p].connected
  <2>1. OpenSessionKeepsProfile'
    BY <1>4, DeleteFacts DEF OpenSessionKeepsProfile
  <2> QED  BY <1>0, <1>4, <2>1, DeleteFacts
<1>5. ASSUME NEW r \in Requests, StartSession(r)
      PROVE  /\ RecordsInv' /\ OpenSessionKeepsProfile'
             /\ \A p \in DOMAIN profiles :
                  p \in DOMAIN profiles' => profiles'[p].connected >= profiles[p].connected
  <2>1. RecordsInv' /\ UNCHANGED profiles
    BY <1>5, StartSessionInv DEF StartSession
  <2>2. CASE /\ req[r].target \in DOMAIN profiles
             /\ sessions' = [sessions EXCEPT ![r] = [profile |-> req[r].target, status |-> "open"]]
    <3>1. req[r].target # Nothing
      BY <2>2, <1>0, RecordsAssumption
    <3>2. \A s \in Requests : sessions'[s] = IF s = r THEN [profile |-> req[r].target, status |-> "open"]
                                             ELSE sessions[s]
      BY <2>2 DEF RecordsInv, SessionsOK
    <3> QED  BY <1>0, <2>1, <2>2, <3>1, <3>2 DEF OpenSessionKeepsProfile
  <2>3. CASE UNCHANGED sessions
    BY <1>a, <2>1, <2>3
  <2> QED  BY <1>5, <2>2, <2>3 DEF StartSession
<1>6. ASSUME NEW r \in Requests, MarkConnected(r)
      PROVE  /\ RecordsInv' /\ OpenSessionKeepsProfile'
             /\ \A p \in DOMAIN profiles :
                  p \in DOMAIN profiles' => profiles'[p].connected >= profiles[p].connected
  <2>1. UNCHANGED sessions
    BY <1>6 DEF MarkConnected
  <2> QED  BY <1>6, <1>b, <2>1, MarkFacts
<1>7. ASSUME NEW r \in Requests, FinishSession(r)
      PROVE  /\ RecordsInv' /\ OpenSessionKeepsProfile'
             /\ \A p \in DOMAIN profiles :
                  p \in DOMAIN profiles' => profiles'[p].connected >= profiles[p].connected
  <2>1. RecordsInv' /\ UNCHANGED profiles
    BY <1>7, FinishSessionInv DEF FinishSession
  <2>2. /\ sessions'[r].status = "final"
        /\ \A s \in Requests \ {r} : sessions'[s] = sessions[s]
    BY <1>7 DEF FinishSession, RecordsInv, SessionsOK
  <2> QED  BY <1>0, <2>1, <2>2 DEF OpenSessionKeepsProfile
<1>8. ASSUME NEW r \in Requests, AppendCommand(r) \/ Prune(r) \/ StartList(r) \/ ReadPage(r)
      PROVE  RecordsInv' /\ UNCHANGED <<profiles, sessions>>
  <2>1. RecordsInv'
    BY <1>8, HistoryInv, ListInv
  <2> QED  BY <1>8, <2>1 DEF AppendCommand, Prune, StartList, ReadPage
<1>9. ASSUME UNCHANGED <<now, profiles, sessions, req>>
      PROVE  RecordsInv' /\ UNCHANGED <<profiles, sessions>>
  BY <1>9 DEF RecordsInv, ProfilesOK, RequestsOK, SessionsOK
<1>10. ASSUME NEW a \in panel.asked, ServePanel(a)
       PROVE  RecordsInv' /\ UNCHANGED <<profiles, sessions>>
  BY <1>10, ServePanelInv DEF ServePanel
<1>11. ASSUME Tick
       PROVE  RecordsInv' /\ UNCHANGED <<profiles, sessions>>
  BY <1>11 DEF Tick, RecordsInv, ProfilesOK, RequestsOK, SessionsOK
<1>12. CASE Tick
  BY <1>11, <1>12, <1>a
<1>13. CASE \E r \in Requests : Step(r)
  <2>1. PICK r \in Requests : Step(r)
    BY <1>13
  <2>2. CASE SwitchPanel(r)
    BY <2>2, <1>9, <1>a DEF SwitchPanel
  <2> QED  BY <2>1, <2>2, <1>1, <1>2, <1>3, <1>4, <1>5, <1>6, <1>7, <1>8, <1>a DEF Step
<1>14. CASE LosePanel \/ UsePanel("load") \/ UsePanel("clear")
  BY <1>14, <1>9, <1>a DEF LosePanel, UsePanel
<1>15. CASE \E a \in panel.asked : ServePanel(a) \/ HearAnswer(a)
  <2>1. PICK a \in panel.asked : ServePanel(a) \/ HearAnswer(a)
    BY <1>15
  <2>2. CASE ServePanel(a)
    BY <2>2, <1>10, <1>a
  <2>3. CASE HearAnswer(a)
    BY <2>3, <1>9, <1>a DEF HearAnswer
  <2> QED  BY <2>1, <2>2, <2>3
<1>16. CASE UNCHANGED vars
  BY <1>16, <1>9, <1>a DEF vars
<1> QED  BY <1>12, <1>13, <1>14, <1>15, <1>16 DEF Next

\* Profiles, requests and sessions stay in order together.
THEOREM RecordsInvHolds == Spec => [](RecordsInv /\ OpenSessionKeepsProfile)
<1>1. Init => RecordsInv /\ OpenSessionKeepsProfile
  BY InitInv DEF Init, NoSession, OpenSessionKeepsProfile
<1>2. RecordsInv /\ OpenSessionKeepsProfile /\ [Next]_vars => (RecordsInv /\ OpenSessionKeepsProfile)'
  BY StepFacts
<1> QED  BY <1>1, <1>2, PTL DEF Spec

\* However edits, deletions and connections overlap, each stored profile is one
\* that a single edit could have made.
THEOREM RowsStaySound == Spec => []RowIsSound
<1>1. RecordsInv => RowIsSound
  BY DEF RecordsInv, ProfilesOK, SoundRow, RowIsSound
<1> QED  BY <1>1, RecordsInvHolds, PTL

\* deleteIfNoActiveSessions never takes the profile of an open session.
THEOREM SessionsKeepProfiles == Spec => []OpenSessionKeepsProfile
BY RecordsInvHolds, PTL

\* No edit takes back that a profile was connected.
THEOREM ConnectionsStayMarked == Spec => ConnectionStaysMarked
<1>1. RecordsInv /\ OpenSessionKeepsProfile /\ [Next]_vars =>
        [\A p \in DOMAIN profiles :
           p \in DOMAIN profiles' => profiles'[p].connected >= profiles[p].connected]_profiles
  BY StepFacts
<1> QED  BY <1>1, RecordsInvHolds, PTL DEF Spec, ConnectionStaysMarked

-----------------------------------------------------------------------------
(* The history panel.                                                       *)

Items == [id : Commands, session : Requests]

Asks == [kind : {"load", "clear"}, session : Requests, generation : Nat, served : BOOLEAN,
         items : SUBSET Items]

\* An answer to come is of this generation only if it is of the session shown.
PanelInv ==
  /\ panel \in [channel : Requests \cup {Nothing}, generation : Nat, shown : SUBSET Items,
                asked : SUBSET Asks]
  /\ DOMAIN commands \subseteq Commands
  /\ \A a \in panel.asked :
       /\ a.generation <= panel.generation
       /\ \A x \in a.items : x.session = a.session
       /\ panel.channel # Nothing /\ a.generation = panel.generation => a.session = panel.channel
  /\ PanelShowsItsSession

LEMMA SwitchPanelInv ==
  ASSUME PanelInv, NEW s \in Requests, SwitchPanel(s)
  PROVE  PanelInv'
<1> DEFINE a == Ask("load", s, panel.generation + 1)
<1>1. a \in Asks /\ a.generation = panel.generation + 1 /\ a.session = s /\ a.items = {}
  BY DEF Ask, Asks, PanelInv
<1>2. panel' = [panel EXCEPT !.channel = s, !.generation = panel.generation + 1, !.shown = {},
                             !.asked = panel.asked \cup {a}]
  BY DEF SwitchPanel, PanelInv
<1> DEFINE n == panel.generation + 1
           asked == panel.asked \cup {a}
<1>a. n \in Nat /\ asked \in SUBSET Asks
  BY <1>1 DEF PanelInv
<1>b. panel' = [panel EXCEPT !.channel = s, !.generation = n, !.shown = {}, !.asked = asked]
  BY <1>2
<1> HIDE DEF a, n, asked
<1>c. /\ panel'.channel = s /\ panel'.generation = n /\ panel'.shown = {} /\ panel'.asked = asked
      /\ panel' \in [channel : Requests \cup {Nothing}, generation : Nat, shown : SUBSET Items,
                     asked : SUBSET Asks]
  BY <1>a, <1>b DEF PanelInv
<1>3. /\ panel'.channel = s /\ panel'.generation = panel.generation + 1
      /\ panel'.shown = {} /\ panel'.asked = panel.asked \cup {a}
      /\ panel' \in [channel : Requests \cup {Nothing}, generation : Nat, shown : SUBSET Items,
                     asked : SUBSET Asks]
  BY <1>c DEF n, asked
<1>4. \A b \in panel.asked : b.generation \in Nat /\ b.generation <= panel.generation
  BY DEF PanelInv, Asks
<1>5. panel.generation \in Nat
  BY DEF PanelInv
<1> QED  BY <1>1, <1>3, <1>4, <1>5 DEF PanelInv, PanelShowsItsSession, SwitchPanel

LEMMA LosePanelInv ==
  ASSUME PanelInv, LosePanel
  PROVE  PanelInv'
<1> DEFINE n == panel.generation + 1
<1>a. n \in Nat /\ panel' = [panel EXCEPT !.channel = Nothing, !.generation = n]
  BY DEF PanelInv, LosePanel
<1> HIDE DEF n
<1>b. /\ panel'.channel = Nothing /\ panel'.generation = n
      /\ panel'.shown = panel.shown /\ panel'.asked = panel.asked
      /\ panel' \in [channel : Requests \cup {Nothing}, generation : Nat, shown : SUBSET Items,
                     asked : SUBSET Asks]
  BY <1>a DEF PanelInv
<1>1. /\ panel'.channel = Nothing /\ panel'.generation = panel.generation + 1
      /\ panel'.shown = panel.shown /\ panel'.asked = panel.asked
      /\ panel' \in [channel : Requests \cup {Nothing}, generation : Nat, shown : SUBSET Items,
                     asked : SUBSET Asks]
  BY <1>b DEF n
<1>2. \A b \in panel.asked : b.generation \in Nat /\ b.generation <= panel.generation
  BY DEF PanelInv, Asks
<1>3. panel.generation \in Nat
  BY DEF PanelInv
<1> QED  BY <1>1, <1>2, <1>3 DEF PanelInv, PanelShowsItsSession, LosePanel

LEMMA UsePanelInv ==
  ASSUME PanelInv, NEW kind \in {"load", "clear"}, UsePanel(kind)
  PROVE  PanelInv'
<1> DEFINE a == Ask(kind, panel.channel, panel.generation)
<1>1. a \in Asks /\ a.generation = panel.generation /\ a.session = panel.channel /\ a.items = {}
  BY DEF Ask, Asks, PanelInv, UsePanel
<1>2. panel' = [panel EXCEPT !.asked = panel.asked \cup {a}]
  BY DEF UsePanel, PanelInv
<1> HIDE DEF a
<1>3. /\ panel'.channel = panel.channel /\ panel'.generation = panel.generation
      /\ panel'.shown = panel.shown /\ panel'.asked = panel.asked \cup {a}
      /\ panel' \in [channel : Requests \cup {Nothing}, generation : Nat, shown : SUBSET Items,
                     asked : SUBSET Asks]
  BY <1>1, <1>2 DEF PanelInv
<1>4. panel.generation \in Nat
  BY DEF PanelInv
<1> QED  BY <1>1, <1>3, <1>4 DEF PanelInv, PanelShowsItsSession, UsePanel

LEMMA PanelAnswerInv ==
  ASSUME PanelInv, NEW a \in panel.asked, ServePanel(a)
  PROVE  PanelInv'
<1>1. PICK gone :
        /\ commands' = [c \in DOMAIN commands \ gone |-> commands[c]]
        /\ panel' = [panel EXCEPT !.asked = (panel.asked \ {a}) \cup
             {[a EXCEPT !.served = TRUE,
                        !.items = {[id |-> c, session |-> a.session] : c \in
                                     {c \in DOMAIN commands : commands[c].session = a.session} \ gone}]}]
  BY DEF ServePanel, PanelInv
<1> DEFINE those == {c \in DOMAIN commands : commands[c].session = a.session} \ gone
           items == {[id |-> c, session |-> a.session] : c \in those}
           answer == [a EXCEPT !.served = TRUE, !.items = items]
<1>2. a \in Asks /\ items \in SUBSET Items /\ \A x \in items : x.session = a.session
  BY DEF PanelInv, Asks, Items
<1> HIDE DEF items
<1>3. /\ answer \in Asks /\ answer.generation = a.generation /\ answer.session = a.session
      /\ answer.items = items
  BY <1>2 DEF Asks
<1>4. panel' = [panel EXCEPT !.asked = (panel.asked \ {a}) \cup {answer}]
  BY <1>1 DEF items
<1> HIDE DEF answer
<1>5. /\ panel'.channel = panel.channel /\ panel'.generation = panel.generation
      /\ panel'.shown = panel.shown /\ panel'.asked = (panel.asked \ {a}) \cup {answer}
      /\ panel' \in [channel : Requests \cup {Nothing}, generation : Nat, shown : SUBSET Items,
                     asked : SUBSET Asks]
  BY <1>3, <1>4 DEF PanelInv
<1>6. DOMAIN commands' \subseteq Commands
  BY <1>1 DEF PanelInv
<1> QED  BY <1>2, <1>3, <1>5, <1>6 DEF PanelInv, PanelShowsItsSession

LEMMA HearAnswerInv ==
  ASSUME PanelInv, NEW a \in panel.asked, HearAnswer(a)
  PROVE  PanelInv'
<1> DEFINE shown == IF a.generation = panel.generation THEN a.items ELSE panel.shown
<1>1. a \in Asks /\ shown \in SUBSET Items
  BY DEF PanelInv, Asks
<1>2. panel' = [panel EXCEPT !.asked = panel.asked \ {a}, !.shown = shown]
  BY DEF HearAnswer, PanelInv
<1>3. panel.channel # Nothing => \A x \in shown : x.session = panel.channel
  BY DEF PanelInv, PanelShowsItsSession
<1> HIDE DEF shown
<1>4. /\ panel'.channel = panel.channel /\ panel'.generation = panel.generation
      /\ panel'.shown = shown /\ panel'.asked = panel.asked \ {a}
      /\ panel' \in [channel : Requests \cup {Nothing}, generation : Nat, shown : SUBSET Items,
                     asked : SUBSET Asks]
  BY <1>1, <1>2 DEF PanelInv
<1> QED  BY <1>3, <1>4 DEF PanelInv, PanelShowsItsSession, HearAnswer

LEMMA PanelCommandsInv ==
  ASSUME PanelInv, UNCHANGED panel, DOMAIN commands' \subseteq Commands
  PROVE  PanelInv'
BY DEF PanelInv, PanelShowsItsSession

LEMMA PanelInit == Init => PanelInv
BY DEF Init, NoPanel, PanelInv, PanelShowsItsSession

LEMMA PanelStepInv ==
  ASSUME PanelInv, [Next]_vars
  PROVE  PanelInv'
<1>1. CASE UNCHANGED <<panel, commands>>
  BY <1>1, PanelCommandsInv DEF PanelInv
<1>2. ASSUME NEW r \in Requests, Step(r)
      PROVE  PanelInv'
  <2>1. CASE SwitchPanel(r)
    BY <2>1, SwitchPanelInv
  <2>2. CASE AppendCommand(r)
    BY <2>2, PanelCommandsInv DEF AppendCommand, PanelInv
  <2>3. CASE Prune(r)
    BY <2>3, PanelCommandsInv DEF Prune, PanelInv
  <2> QED
    BY <1>1, <1>2, <2>1, <2>2, <2>3
       DEF Step, Create, CheckUpdate, ReadRow, WriteRow, CheckDelete, DeleteIfIdle, Resolve,
           StartSession, MarkConnected, FinishSession, StartList, ReadPage
<1>3. CASE LosePanel \/ UsePanel("load") \/ UsePanel("clear")
  BY <1>3, LosePanelInv, UsePanelInv
<1>4. CASE \E a \in panel.asked : ServePanel(a) \/ HearAnswer(a)
  BY <1>4, PanelAnswerInv, HearAnswerInv
<1> QED  BY <1>1, <1>2, <1>3, <1>4 DEF Next, Tick, vars

\* The generation keeps late answers of another session out of the panel.
THEOREM PanelIsItsOwn == Spec => []PanelShowsItsSession
<1>1. PanelInv => PanelShowsItsSession
  BY DEF PanelInv
<1> QED  BY <1>1, PanelInit, PanelStepInv, PTL DEF Spec

-----------------------------------------------------------------------------
(* Lists read page by page.                                                 *)

Lists == {"list_profiles", "list_commands"}
RowKeys == [time : Nat, id : Nat]

Ahead(cursor, k) == cursor = NoCursor \/ Precedes(cursor, k)

\* The key of a row, and the keys of a list.
KeyOf(kind, x) ==
  [time |-> IF kind = "list_profiles" THEN profiles[x].updated ELSE commands[x].time, id |-> x]

KeysOf(kind) == IF kind = "list_profiles" THEN ProfileKeys ELSE Keys

\* x is in no page that has been seen, and x is in one.
Unmet(seen, x) == \A n \in DOMAIN seen : x \notin seen[n]
MetOnce(seen, x) == \E n \in DOMAIN seen :
                      x \in seen[n] /\ \A m \in DOMAIN seen : x \in seen[m] => m = n

\* How far a reader is: an untouched row is still to come when its key is after
\* the cursor, and has come once otherwise.
ListOk(r) ==
  LET q == req[r]
  IN  /\ q.stage = "new" => q.cursor = NoCursor /\ q.seen = <<>>
      /\ q.stage \in {"page", "listed"} =>
           /\ q.kind \in Lists /\ q.seen \in Seq(SUBSET Nat)
           /\ q.untouched \subseteq Listed(q.kind)
           /\ q.stage = "page" => q.cursor \in RowKeys \cup {NoCursor}
           /\ \A x \in q.untouched :
                IF q.stage = "page" /\ Ahead(q.cursor, KeyOf(q.kind, x))
                  THEN Unmet(q.seen, x) ELSE MetOnce(q.seen, x)

CommandsOk ==
  /\ DOMAIN commands \subseteq Commands
  /\ \A c \in DOMAIN commands : commands[c].time \in Nat

TablesOk ==
  /\ CommandsOk
  /\ IsFiniteSet(DOMAIN profiles) /\ IsFiniteSet(DOMAIN commands)

ReadersOk == \A r \in Requests : ListOk(r)

ListsInv == TablesOk /\ ReadersOk

-----------------------------------------------------------------------------
(* Pages of a list.                                                         *)

\* A set of natural numbers has a least member.
LEMMA Least ==
  ASSUME NEW T, T \subseteq Nat, T # {}
  PROVE  \E n \in T : \A m \in T : n =< m
<1> DEFINE R == {ss \in Nat \X Nat : ss[1] < ss[2]}
<1>1. IsWellFoundedOn(R, Nat)
  BY NatLessThanWellFounded DEF OpToRel
<1> HIDE DEF R
<1>2. PICK n \in T : \A m \in T : ~(<<m, n>> \in R)
  BY <1>1, WFMin
<1>3. ASSUME NEW m \in T PROVE n =< m
  <2>1. m \in Nat /\ n \in Nat /\ (m < n => <<m, n>> \in R)
    BY DEF R
  <2> QED  BY <1>2, <2>1
<1> QED  BY <1>3

\* The order of a list is total.
LEMMA KeyOrder ==
  /\ \A j, k \in RowKeys : Precedes(j, k) \/ Precedes(k, j) \/ j = k
  /\ \A k \in RowKeys : ~Precedes(k, k)
  /\ \A i, j, k \in RowKeys : Precedes(i, j) /\ Precedes(j, k) => Precedes(i, k)
<1>1. \A j, k \in RowKeys : j.time = k.time /\ j.id = k.id => j = k
  BY DEF RowKeys
<1>2. \A k \in RowKeys : k.time \in Nat /\ k.id \in Nat
  BY DEF RowKeys
<1> QED  BY <1>1, <1>2 DEF Precedes

\* What comes before a key, and what comes after it.
Before(S, k) == {j \in S : Precedes(j, k)}
Behind(S, k) == {j \in S : Precedes(k, j)}

LEMMA BeforeGrows ==
  ASSUME NEW S, S \subseteq RowKeys, IsFiniteSet(S), NEW j \in S, NEW k \in S, Precedes(j, k)
  PROVE  /\ Cardinality(Before(S, j)) \in Nat /\ Cardinality(Before(S, k)) \in Nat
         /\ Cardinality(Before(S, j)) < Cardinality(Before(S, k))
<1>1. Before(S, k) \in SUBSET S
  BY DEF Before
<1>2. Before(S, j) \in SUBSET Before(S, k)
  BY KeyOrder DEF Before
<1>3. j \in Before(S, k) /\ j \notin Before(S, j)
  BY KeyOrder DEF Before
<1>4. IsFiniteSet(Before(S, k)) /\ IsFiniteSet(Before(S, j))
  BY <1>1, <1>2, FS_Subset
<1>5. /\ Cardinality(Before(S, j)) \in Nat /\ Cardinality(Before(S, k)) \in Nat
      /\ Cardinality(Before(S, j)) =< Cardinality(Before(S, k))
      /\ Cardinality(Before(S, k)) # Cardinality(Before(S, j))
  BY <1>2, <1>3, <1>4, FS_Subset, FS_CardinalityType
<1> QED  BY <1>5

LEMMA BehindGrows ==
  ASSUME NEW S, S \subseteq RowKeys, IsFiniteSet(S), NEW j \in S, NEW k \in S, Precedes(j, k)
  PROVE  /\ Cardinality(Behind(S, j)) \in Nat /\ Cardinality(Behind(S, k)) \in Nat
         /\ Cardinality(Behind(S, k)) < Cardinality(Behind(S, j))
<1>1. Behind(S, j) \in SUBSET S
  BY DEF Behind
<1>2. Behind(S, k) \in SUBSET Behind(S, j)
  BY KeyOrder DEF Behind
<1>3. k \in Behind(S, j) /\ k \notin Behind(S, k)
  BY KeyOrder DEF Behind
<1>4. IsFiniteSet(Behind(S, j)) /\ IsFiniteSet(Behind(S, k))
  BY <1>1, <1>2, FS_Subset
<1>5. /\ Cardinality(Behind(S, j)) \in Nat /\ Cardinality(Behind(S, k)) \in Nat
      /\ Cardinality(Behind(S, k)) =< Cardinality(Behind(S, j))
      /\ Cardinality(Behind(S, k)) # Cardinality(Behind(S, j))
  BY <1>2, <1>3, <1>4, FS_Subset, FS_CardinalityType
<1> QED  BY <1>5

\* A finite list that is not empty has a first and a last row.
LEMMA FirstAndLast ==
  ASSUME NEW S, S \subseteq RowKeys, IsFiniteSet(S), S # {}
  PROVE  /\ \E k \in S : \A j \in S : ~Precedes(j, k)
         /\ \E k \in S : \A j \in S \ {k} : Precedes(j, k)
<1>1. \A k \in S : Before(S, k) \in SUBSET S /\ Behind(S, k) \in SUBSET S
  BY DEF Before, Behind
<1>2. \A k \in S : Cardinality(Before(S, k)) \in Nat /\ Cardinality(Behind(S, k)) \in Nat
  BY <1>1, FS_Subset, FS_CardinalityType
<1>3. PICK first \in S : \A j \in S : Cardinality(Before(S, first)) =< Cardinality(Before(S, j))
  <2> DEFINE T == {Cardinality(Before(S, k)) : k \in S}
  <2>1. T \subseteq Nat /\ T # {}
    BY <1>2
  <2>2. PICK n \in T : \A m \in T : n =< m
    <3> HIDE DEF T
    <3> QED  BY <2>1, Least
  <2> QED  BY <2>2
<1>4. PICK last \in S : \A j \in S : Cardinality(Behind(S, last)) =< Cardinality(Behind(S, j))
  <2> DEFINE T == {Cardinality(Behind(S, k)) : k \in S}
  <2>1. T \subseteq Nat /\ T # {}
    BY <1>2
  <2>2. PICK n \in T : \A m \in T : n =< m
    <3> HIDE DEF T
    <3> QED  BY <2>1, Least
  <2> QED  BY <2>2
<1>5. ASSUME NEW j \in S PROVE ~Precedes(j, first)
  <2>1. SUFFICES ASSUME Precedes(j, first) PROVE FALSE
    OBVIOUS
  <2>2. Cardinality(Before(S, j)) < Cardinality(Before(S, first))
    BY <2>1, BeforeGrows
  <2> QED  BY <1>2, <1>3, <2>2
<1>6. ASSUME NEW j \in S \ {last} PROVE Precedes(j, last)
  <2>1. ~Precedes(last, j)
    <3>1. SUFFICES ASSUME Precedes(last, j) PROVE FALSE
      OBVIOUS
    <3>2. Cardinality(Behind(S, j)) < Cardinality(Behind(S, last))
      BY <3>1, BehindGrows
    <3> QED  BY <1>2, <1>4, <3>2
  <2>2. j \in RowKeys /\ last \in RowKeys /\ j # last
    OBVIOUS
  <2> QED  BY <2>1, <2>2, KeyOrder
<1> QED  BY <1>5, <1>6

\* A page takes rows behind the cursor, and leaves behind the next one exactly
\* those that it has not taken.
LEMMA PageTakes ==
  ASSUME NEW S, S \subseteq RowKeys, IsFiniteSet(S), NEW c \in RowKeys \cup {NoCursor}, NEW page1,
         page1 = Page(S, c)
  PROVE  /\ page1.items \subseteq {k \in S : Ahead(c, k)}
         /\ page1.next \in RowKeys \cup {NoCursor}
         /\ page1.next = NoCursor => page1.items = {k \in S : Ahead(c, k)}
         /\ page1.next # NoCursor =>
              \A k \in S : Precedes(page1.next, k) <=> Ahead(c, k) /\ k \notin page1.items
<1>1. PICK rest : rest = After(S, c)
  OBVIOUS
<1>2. rest = {k \in S : Ahead(c, k)} /\ rest \subseteq RowKeys
  BY <1>1 DEF After, Ahead
<1>3. IsFiniteSet(rest)
  BY <1>2, FS_Subset
<1>4. PICK items : items = {k \in rest : Cardinality(Before(rest, k)) < PageSize}
  OBVIOUS
<1>5. page1 = [items |-> items,
               next  |-> IF rest = items THEN NoCursor
                         ELSE CHOOSE k \in items : \A j \in items \ {k} : Precedes(j, k)]
  BY <1>1, <1>4 DEF Page, Before
<1>6. items \subseteq rest /\ IsFiniteSet(items) /\ page1.items = items
  BY <1>3, <1>4, <1>5, FS_Subset
<1>7. NoCursor \notin RowKeys /\ PageSize \in Nat /\ PageSize > 0
  BY PageAssumption DEF RowKeys
<1>8. CASE rest = items
  <2>1. page1.next = NoCursor
    BY <1>5, <1>8
  <2> QED  BY <1>2, <1>6, <1>8, <2>1
<1>9. CASE rest # items
  <2>1. items # {}
    <3>1. rest # {}
      BY <1>6, <1>9
    <3>2. PICK k \in rest : \A j \in rest : ~Precedes(j, k)
      BY <1>2, <1>3, <3>1, FirstAndLast
    <3>3. Before(rest, k) = {}
      BY <3>2 DEF Before
    <3>4. Cardinality(Before(rest, k)) = 0
      BY <3>3, FS_EmptySet
    <3> QED  BY <1>4, <1>7, <3>4
  <2>2. \E k \in items : \A j \in items \ {k} : Precedes(j, k)
    BY <1>2, <1>6, <2>1, FirstAndLast
  <2>3. PICK last \in items : last = page1.next /\ \A j \in items \ {last} : Precedes(j, last)
    BY <1>5, <1>9, <2>2
  <2>4. last \in RowKeys /\ last \in S /\ Ahead(c, last) /\ last # NoCursor
    BY <1>2, <1>6, <1>7
  <2>5. ASSUME NEW k \in S, Precedes(last, k) PROVE Ahead(c, k) /\ k \notin items
    <3>1. Ahead(c, k)
      BY <2>4, <2>5, KeyOrder DEF Ahead
    <3>2. k \notin items
      BY <2>3, <2>4, <2>5, KeyOrder
    <3> QED  BY <3>1, <3>2
  <2>6. ASSUME NEW k \in rest, k \notin items PROVE Precedes(last, k)
    <3>1. SUFFICES ASSUME ~Precedes(last, k) PROVE FALSE
      OBVIOUS
    <3>2. Precedes(k, last) /\ last \in rest
      BY <1>2, <1>6, <2>4, <2>6, <3>1, KeyOrder
    <3>3. /\ Cardinality(Before(rest, k)) \in Nat /\ Cardinality(Before(rest, last)) \in Nat
          /\ Cardinality(Before(rest, k)) < Cardinality(Before(rest, last))
      BY <1>2, <1>3, <3>2, BeforeGrows
    <3>4. Cardinality(Before(rest, last)) < PageSize
      BY <1>4
    <3>5. Cardinality(Before(rest, k)) < PageSize
      BY <1>7, <3>3, <3>4
    <3> QED  BY <1>4, <2>6, <3>5
  <2> QED  BY <1>2, <1>6, <2>3, <2>4, <2>5, <2>6
<1> QED  BY <1>8, <1>9

-----------------------------------------------------------------------------
(* Readers of lists, while rows come, move and go.                          *)

\* The rows of a list that are not among ids stay, with the keys they have.
RowsStay(kind, ids) ==
  \A x \in Listed(kind) \ ids : x \in Listed(kind)' /\ KeyOf(kind, x)' = KeyOf(kind, x)

\* What a step that is not its own makes of a request.
Heard(r, kind, ids) ==
  LET q == req[r]
  IN  /\ req'[r] = [q EXCEPT !.untouched = IF q.kind = kind THEN @ \ ids ELSE @]
      /\ q.kind \in Lists => RowsStay(q.kind, IF q.kind = kind THEN ids ELSE {})

LEMMA HeardOk ==
  ASSUME RequestsOK, NEW r \in Requests, ListOk(r), NEW kind, NEW ids, Heard(r, kind, ids)
  PROVE  ListOk(r)'
<1>1. PICK q : q = req[r]
  OBVIOUS
<1>2. IsRequest(q)
  BY <1>1 DEF RequestsOK, RequestOK
<1>3. PICK left : left = IF q.kind = kind THEN q.untouched \ ids ELSE q.untouched
  OBVIOUS
<1>4. PICK next : next = req'[r]
  OBVIOUS
<1>5. /\ next.stage = q.stage /\ next.kind = q.kind /\ next.cursor = q.cursor /\ next.seen = q.seen
      /\ next.untouched = left
  <2>1. next = [q EXCEPT !.untouched = left]
    BY <1>1, <1>3, <1>4 DEF Heard
  <2> QED  BY <1>2, <2>1 DEF IsRequest
<1>6. CASE q.stage \notin {"page", "listed"}
  BY <1>1, <1>4, <1>5, <1>6 DEF ListOk
<1>7. CASE q.stage \in {"page", "listed"}
  <2>1. /\ q.kind \in Lists /\ q.seen \in Seq(SUBSET Nat)
        /\ q.untouched \subseteq Listed(q.kind)
        /\ q.stage = "page" => q.cursor \in RowKeys \cup {NoCursor}
        /\ \A x \in q.untouched :
             IF q.stage = "page" /\ Ahead(q.cursor, KeyOf(q.kind, x))
               THEN Unmet(q.seen, x) ELSE MetOnce(q.seen, x)
    BY <1>1, <1>7 DEF ListOk
  <2>2. \A x \in left : /\ x \in q.untouched /\ x \in Listed(q.kind)'
                        /\ KeyOf(q.kind, x)' = KeyOf(q.kind, x)
    BY <1>1, <1>3, <2>1 DEF Heard, RowsStay
  <2>3. ASSUME NEW x \in left
        PROVE  IF next.stage = "page" /\ Ahead(next.cursor, KeyOf(q.kind, x)')
                 THEN Unmet(next.seen, x) ELSE MetOnce(next.seen, x)
    <3>1. IF q.stage = "page" /\ Ahead(q.cursor, KeyOf(q.kind, x))
            THEN Unmet(q.seen, x) ELSE MetOnce(q.seen, x)
      BY <2>1, <2>2
    <3> QED  BY <1>5, <2>2, <3>1 DEF Unmet, MetOnce
  <2>4. /\ next.seen \in Seq(SUBSET Nat)
        /\ \A x \in next.untouched : x \in Listed(q.kind)'
        /\ next.stage = "page" => next.cursor \in RowKeys \cup {NoCursor}
    BY <1>5, <2>1, <2>2
  <2> QED  BY <1>4, <1>5, <1>7, <2>1, <2>3, <2>4 DEF ListOk, Ahead, Unmet, MetOnce, Listed, KeyOf
<1> QED  BY <1>6, <1>7

\* A request that is at no list, and not new.
LEMMA ElsewhereOk ==
  ASSUME NEW r \in Requests, req'[r].stage \notin {"new", "page", "listed"}
  PROVE  ListOk(r)'
BY DEF ListOk

\* Nothing is taken from any list.
LEMMA NobodyHears ==
  ASSUME RequestsOK, NEW r \in Requests, req'[r] = req[r], \A kind \in Lists : RowsStay(kind, {})
  PROVE  Heard(r, "none", {})
<1>1. IsRequest(req[r])
  BY DEF RequestsOK, RequestOK
<1>2. req'[r] = [req[r] EXCEPT !.untouched = req[r].untouched]
  BY <1>1 DEF IsRequest
<1> QED  BY <1>2 DEF Heard

\* One request goes on beside the lists, and at most adds a row.
LEMMA OneGoesOn ==
  ASSUME RequestsOK, ReadersOk, NEW r \in Requests, NEW q, req' = [req EXCEPT ![r] = q],
         q.stage \notin {"new", "page", "listed"}, \A kind \in Lists : RowsStay(kind, {})
  PROVE  ReadersOk'
<1>1. req'[r] = q /\ \A x \in Requests \ {r} : req'[x] = req[x]
  BY DEF RequestsOK
<1>2. ASSUME NEW x \in Requests \ {r} PROVE ListOk(x)'
  BY <1>1, NobodyHears, HeardOk DEF ReadersOk
<1>3. ListOk(r)'
  BY <1>1, ElsewhereOk
<1> QED  BY <1>2, <1>3 DEF ReadersOk

\* One request goes on and changes rows, of which the readers of that list hear.
LEMMA OneChangesRows ==
  ASSUME RequestsOK, ReadersOk, NEW r \in Requests, NEW q, NEW kind, NEW ids, GoOn(r, q, kind, ids),
         q.stage \notin {"new", "page", "listed"}, RowsStay(kind, ids),
         \A k \in Lists \ {kind} : RowsStay(k, {})
  PROVE  ReadersOk'
<1>1. /\ req'[r] = q
      /\ \A x \in Requests \ {r} :
           req'[x] = [req[x] EXCEPT !.untouched = IF req[x].kind = kind THEN @ \ ids ELSE @]
  BY DEF GoOn
<1>2. ASSUME NEW x \in Requests \ {r} PROVE ListOk(x)'
  <2>1. Heard(x, kind, ids)
    BY <1>1 DEF Heard
  <2> QED  BY <2>1, HeardOk DEF ReadersOk
<1>3. ListOk(r)'
  BY <1>1, ElsewhereOk
<1> QED  BY <1>2, <1>3 DEF ReadersOk

\* What a change of the two tables leaves of the lists.
LEMMA TablesAlone ==
  ASSUME UNCHANGED <<profiles, commands>>
  PROVE  (TablesOk => TablesOk') /\ \A kind \in Lists : \A ids : RowsStay(kind, ids)
BY DEF TablesOk, CommandsOk, RowsStay, Listed, KeyOf

\* Rows of the profiles outside ids stay, and at most one more comes.
LEMMA ProfilesMove ==
  ASSUME TablesOk, UNCHANGED commands, NEW ids, NEW p,
         DOMAIN profiles' \subseteq DOMAIN profiles \cup {p},
         \A x \in DOMAIN profiles \ ids : x \in DOMAIN profiles' /\ profiles'[x] = profiles[x]
  PROVE  TablesOk' /\ RowsStay("list_profiles", ids) /\ RowsStay("list_commands", {})
<1>1. IsFiniteSet(DOMAIN profiles')
  <2>1. IsFiniteSet(DOMAIN profiles \cup {p})
    BY FS_AddElement DEF TablesOk
  <2> QED  BY <2>1, FS_Subset
<1> QED  BY <1>1 DEF TablesOk, CommandsOk, RowsStay, Listed, KeyOf

\* The same of the commands.
LEMMA CommandsMove ==
  ASSUME TablesOk, CommandsOk', UNCHANGED profiles, NEW ids, NEW c,
         DOMAIN commands' \subseteq DOMAIN commands \cup {c},
         \A x \in DOMAIN commands \ ids : x \in DOMAIN commands' /\ commands'[x] = commands[x]
  PROVE  /\ TablesOk'
         /\ RowsStay("list_commands", ids)
         /\ RowsStay("list_profiles", {})
<1>1. IsFiniteSet(DOMAIN commands')
  <2>1. IsFiniteSet(DOMAIN commands \cup {c})
    BY FS_AddElement DEF TablesOk
  <2> QED  BY <2>1, FS_Subset
<1> QED  BY <1>1 DEF TablesOk, RowsStay, Listed, KeyOf

LEMMA FailGoes == \A r \in Requests : Over(r).stage = "done"
<1> SUFFICES ASSUME NEW r \in Requests PROVE Over(r).stage = "done"
  OBVIOUS
<1>1. PICK q : q = Idle(req[r].kind) /\ IsRequest(q)
  BY IdleOK DEF RequestOK
<1> QED  BY <1>1 DEF Over, IsRequest

\* Each request but the readers of lists.
LEMMA ProfileRequestsKeepLists ==
  ASSUME RecordsInv, TablesOk, ReadersOk, NEW r \in Requests,
         Create(r) \/ CheckUpdate(r) \/ ReadRow(r) \/ WriteRow(r) \/ CheckDelete(r) \/ DeleteIfIdle(r)
  PROVE  TablesOk' /\ ReadersOk'
<1>0. RequestsOK /\ IsRequest(req[r])
  BY DEF RecordsInv, RequestsOK, RequestOK
<1>1. CASE Create(r)
  <2>1. PICK p \in Profiles \ DOMAIN profiles, new \in NewRows : UNCHANGED profiles \/ Put(p, Row(new))
    BY <1>1 DEF Create
  <2>2. /\ DOMAIN profiles' \subseteq DOMAIN profiles \cup {p}
        /\ \A x \in DOMAIN profiles : x \in DOMAIN profiles' /\ profiles'[x] = profiles[x]
    BY <2>1 DEF Put
  <2>3. UNCHANGED commands
    BY <1>1 DEF Create
  <2>4. TablesOk' /\ \A kind \in Lists : RowsStay(kind, {})
    BY <2>2, <2>3, ProfilesMove DEF Lists
  <2>5. PICK q : q = [req[r] EXCEPT !.stage = "done"]
    OBVIOUS
  <2>6. req' = [req EXCEPT ![r] = q] /\ q.stage = "done"
    BY <1>0, <1>1, <2>5 DEF Create, Goto, IsRequest
  <2> QED  BY <1>0, <2>4, <2>6, OneGoesOn
<1>2. CASE CheckUpdate(r) \/ ReadRow(r) \/ CheckDelete(r)
  <2>1. UNCHANGED <<profiles, commands>>
    BY <1>2 DEF CheckUpdate, ReadRow, CheckDelete
  <2>2. TablesOk' /\ \A kind \in Lists : RowsStay(kind, {})
    BY <2>1, TablesAlone
  <2>3. PICK q : req' = [req EXCEPT ![r] = q] /\ q.stage \in {"read", "write", "delete", "done"}
    <3>1. CASE CheckUpdate(r)
      <4>1. PICK p, edit :
              req' = [req EXCEPT ![r].stage = "read", ![r].target = p, ![r].edit = edit]
        BY <3>1 DEF CheckUpdate
      <4>2. PICK q : q = [req[r] EXCEPT !.stage = "read", !.target = p, !.edit = edit]
        OBVIOUS
      <4>3. q.stage = "read"
        BY <1>0, <4>2 DEF IsRequest
      <4> QED  BY <4>1, <4>2, <4>3
    <3>2. CASE ReadRow(r)
      <4>1. PICK row : row = Updated(profiles[req[r].target], req[r].edit)
        OBVIOUS
      <4>2. CASE req' = [req EXCEPT ![r].row = row, ![r].readAt = now, ![r].stage = "write"]
        <5>1. PICK q : q = [req[r] EXCEPT !.row = row, !.readAt = now, !.stage = "write"]
          OBVIOUS
        <5>2. q.stage = "write"
          BY <1>0, <5>1 DEF IsRequest
        <5> QED  BY <4>2, <5>1, <5>2
      <4>3. CASE Fail(r)
        BY <4>3, FailGoes DEF Fail
      <4> QED  BY <3>2, <4>1, <4>2, <4>3 DEF ReadRow
    <3>3. CASE CheckDelete(r)
      <4>1. PICK p : req' = [req EXCEPT ![r].stage = "delete", ![r].target = p]
        BY <3>3 DEF CheckDelete
      <4>2. PICK q : q = [req[r] EXCEPT !.stage = "delete", !.target = p]
        OBVIOUS
      <4>3. q.stage = "delete"
        BY <1>0, <4>2 DEF IsRequest
      <4> QED  BY <4>1, <4>2, <4>3
    <3> QED  BY <1>2, <3>1, <3>2, <3>3
  <2> QED  BY <1>0, <2>2, <2>3, OneGoesOn
<1>3. CASE WriteRow(r) \/ DeleteIfIdle(r)
  <2>1. PICK p : p = req[r].target
    OBVIOUS
  <2>2. PICK ids : /\ GoOn(r, Over(r), "list_profiles", ids)
                   /\ DOMAIN profiles' \subseteq DOMAIN profiles \cup {p}
                   /\ \A x \in DOMAIN profiles \ ids : x \in DOMAIN profiles' /\ profiles'[x] = profiles[x]
    <3>1. CASE WriteRow(r)
      <4>1. GoOn(r, Over(r), "list_profiles", {p}) /\ (UNCHANGED profiles \/ \E row : Put(p, row))
        BY <2>1, <3>1 DEF WriteRow
      <4> QED  BY <4>1 DEF Put
    <3>2. CASE DeleteIfIdle(r)
      <4>1. PICK ids : ids = {p} \ DOMAIN profiles'
        OBVIOUS
      <4>2. /\ GoOn(r, Over(r), "list_profiles", ids)
            /\ UNCHANGED profiles \/ profiles' = [q \in DOMAIN profiles \ {p} |-> profiles[q]]
        BY <2>1, <3>2, <4>1 DEF DeleteIfIdle
      <4> QED  BY <4>1, <4>2
    <3> QED  BY <1>3, <3>1, <3>2
  <2>3. UNCHANGED commands
    BY <1>3 DEF WriteRow, DeleteIfIdle
  <2>4. TablesOk' /\ RowsStay("list_profiles", ids) /\ RowsStay("list_commands", {})
    BY <2>2, <2>3, ProfilesMove DEF Lists
  <2>5. Over(r).stage = "done"
    BY FailGoes
  <2> QED  BY <1>0, <2>2, <2>4, <2>5, OneChangesRows DEF Lists
<1> QED  BY <1>1, <1>2, <1>3

LEMMA SessionRequestsKeepLists ==
  ASSUME RecordsInv, TablesOk, ReadersOk, NEW r \in Requests,
         Resolve(r) \/ StartSession(r) \/ MarkConnected(r) \/ AppendCommand(r) \/ Prune(r) \/ FinishSession(r)
  PROVE  TablesOk' /\ ReadersOk'
<1>0. RequestsOK /\ IsRequest(req[r]) /\ now \in Nat
  BY DEF RecordsInv, RequestsOK, RequestOK
<1>1. CASE Resolve(r) \/ StartSession(r) \/ FinishSession(r)
  <2>1. UNCHANGED <<profiles, commands>>
    BY <1>1 DEF Resolve, StartSession, FinishSession
  <2>2. TablesOk' /\ \A kind \in Lists : RowsStay(kind, {})
    BY <2>1, TablesAlone
  <2>3. PICK q : req' = [req EXCEPT ![r] = q] /\ q.stage \in {"start", "connecting", "done"}
    <3>1. CASE Resolve(r)
      <4>1. PICK p : req' = [req EXCEPT ![r].stage = "start", ![r].target = p]
        BY <3>1 DEF Resolve
      <4>2. PICK q : q = [req[r] EXCEPT !.stage = "start", !.target = p]
        OBVIOUS
      <4>3. q.stage = "start"
        BY <1>0, <4>2 DEF IsRequest
      <4> QED  BY <4>1, <4>2, <4>3
    <3>2. CASE StartSession(r) \/ FinishSession(r)
      <4>1. CASE Goto(r, "connecting")
        <5>1. PICK q : q = [req[r] EXCEPT !.stage = "connecting"]
          OBVIOUS
        <5>2. q.stage = "connecting"
          BY <1>0, <5>1 DEF IsRequest
        <5> QED  BY <4>1, <5>1, <5>2 DEF Goto
      <4>2. CASE Fail(r)
        BY <4>2, FailGoes DEF Fail
      <4> QED  BY <3>2, <4>1, <4>2 DEF StartSession, FinishSession
    <3> QED  BY <1>1, <3>1, <3>2
  <2> QED  BY <1>0, <2>2, <2>3, OneGoesOn
<1>2. Stage(r, "connected").stage = "connected"
  BY <1>0 DEF Stage, IsRequest
<1>3. CASE MarkConnected(r)
  <2>1. PICK p : /\ p = req[r].target
                 /\ GoOn(r, Stage(r, "connected"), "list_profiles", {p})
                 /\ UNCHANGED profiles \/ \E row : Put(p, row)
                 /\ UNCHANGED commands
    BY <1>3 DEF MarkConnected
  <2>2. /\ DOMAIN profiles' \subseteq DOMAIN profiles \cup {p}
        /\ \A x \in DOMAIN profiles \ {p} : x \in DOMAIN profiles' /\ profiles'[x] = profiles[x]
    BY <2>1 DEF Put
  <2>3. TablesOk' /\ RowsStay("list_profiles", {p}) /\ RowsStay("list_commands", {})
    BY <2>1, <2>2, ProfilesMove DEF Lists
  <2> QED  BY <1>0, <1>2, <2>1, <2>3, OneChangesRows DEF Lists
<1>4. CASE AppendCommand(r)
  <2>1. PICK c \in Commands \ DOMAIN commands :
          commands' = [d \in DOMAIN commands \cup {c} |->
                         IF d = c THEN [time |-> now, session |-> r] ELSE commands[d]]
    BY <1>4 DEF AppendCommand
  <2>2. /\ DOMAIN commands' \subseteq DOMAIN commands \cup {c} /\ CommandsOk'
        /\ \A x \in DOMAIN commands : x \in DOMAIN commands' /\ commands'[x] = commands[x]
    BY <1>0, <2>1 DEF TablesOk, CommandsOk
  <2>3. UNCHANGED profiles
    BY <1>4 DEF AppendCommand
  <2>4. TablesOk' /\ \A kind \in Lists : RowsStay(kind, {})
    BY <2>2, <2>3, CommandsMove DEF Lists
  <2>5. PICK q : q = [req[r] EXCEPT !.stage = "prune"]
    OBVIOUS
  <2>6. req' = [req EXCEPT ![r] = q] /\ q.stage = "prune"
    BY <1>0, <1>4, <2>5 DEF AppendCommand, Goto, IsRequest
  <2> QED  BY <1>0, <2>4, <2>6, OneGoesOn
<1>5. CASE Prune(r)
  <2>1. PICK old : /\ commands' = [c \in DOMAIN commands \ old |-> commands[c]]
                   /\ GoOn(r, Stage(r, "connected"), "list_commands", old)
                   /\ UNCHANGED profiles
    BY <1>5 DEF Prune
  <2>2. /\ DOMAIN commands' \subseteq DOMAIN commands \cup {0} /\ CommandsOk'
        /\ \A x \in DOMAIN commands \ old : x \in DOMAIN commands' /\ commands'[x] = commands[x]
    BY <2>1 DEF TablesOk, CommandsOk
  <2>3. TablesOk' /\ RowsStay("list_commands", old) /\ RowsStay("list_profiles", {})
    BY <2>1, <2>2, CommandsMove DEF Lists
  <2> QED  BY <1>0, <1>2, <2>1, <2>3, OneChangesRows DEF Lists
<1> QED  BY <1>1, <1>3, <1>4, <1>5

\* The keys of a list are the keys of its rows, and a finite set.
LEMMA KeysOfRows ==
  ASSUME RecordsInv, TablesOk, NEW kind \in Lists
  PROVE  /\ KeysOf(kind) \subseteq RowKeys /\ IsFiniteSet(KeysOf(kind))
         /\ \A x \in Listed(kind) : KeyOf(kind, x) \in KeysOf(kind)
         /\ \A k \in KeysOf(kind) : k.id \in Listed(kind) /\ k = KeyOf(kind, k.id)
<1>1. /\ \A p \in DOMAIN profiles : p \in Nat /\ profiles[p].updated \in Nat
      /\ \A c \in DOMAIN commands : c \in Nat /\ commands[c].time \in Nat
  BY RecordsAssumption DEF RecordsInv, ProfilesOK, SoundRow, ProfileRows, TablesOk, CommandsOk
<1>2. KeysOf(kind) = {KeyOf(kind, x) : x \in Listed(kind)}
  BY DEF KeysOf, ProfileKeys, Keys, KeyOf, Listed, Lists
<1>3. \A x \in Listed(kind) : KeyOf(kind, x) \in RowKeys /\ KeyOf(kind, x).id = x
  BY <1>1 DEF KeyOf, Listed, RowKeys, Lists
<1>4. IsFiniteSet(KeysOf(kind))
  <2>1. PICK f : f = [x \in Listed(kind) |-> KeyOf(kind, x)]
    OBVIOUS
  <2>2. f \in Surjection(Listed(kind), KeysOf(kind))
    BY <1>2, <2>1 DEF Surjection
  <2>3. IsFiniteSet(Listed(kind))
    BY DEF Listed, TablesOk
  <2> QED  BY <2>2, <2>3, FS_Surjection
<1> QED  BY <1>2, <1>3, <1>4

\* One more page is seen.
LEMMA OnePageMore ==
  ASSUME NEW seen \in Seq(SUBSET Nat), NEW ids \in SUBSET Nat, NEW x, NEW more,
         more = Append(seen, ids)
  PROVE  /\ more \in Seq(SUBSET Nat)
         /\ x \notin ids /\ Unmet(seen, x) => Unmet(more, x)
         /\ x \notin ids /\ MetOnce(seen, x) => MetOnce(more, x)
         /\ x \in ids /\ Unmet(seen, x) => MetOnce(more, x)
<1>1. /\ more \in Seq(SUBSET Nat) /\ Len(seen) \in Nat
      /\ \A n \in DOMAIN seen : n \in DOMAIN more /\ more[n] = seen[n]
      /\ \A n \in DOMAIN more : n \in DOMAIN seen \/ n = Len(seen) + 1
      /\ Len(seen) + 1 \in DOMAIN more /\ more[Len(seen) + 1] = ids
  OBVIOUS
<1>2. x \notin ids /\ Unmet(seen, x) => Unmet(more, x)
  BY <1>1 DEF Unmet
<1>3. x \notin ids /\ MetOnce(seen, x) => MetOnce(more, x)
  BY <1>1 DEF MetOnce
<1>4. x \in ids /\ Unmet(seen, x) => MetOnce(more, x)
  BY <1>1 DEF MetOnce, Unmet
<1> QED  BY <1>1, <1>2, <1>3, <1>4

LEMMA StartListOk ==
  ASSUME RecordsInv, TablesOk, ReadersOk, NEW r \in Requests, StartList(r)
  PROVE  TablesOk' /\ ReadersOk'
<1>1. UNCHANGED <<profiles, commands>>
  BY DEF StartList
<1>2. TablesOk' /\ \A kind \in Lists : RowsStay(kind, {})
  BY <1>1, TablesAlone
<1>3. RequestsOK /\ IsRequest(req[r])
  BY DEF RecordsInv, RequestsOK, RequestOK
<1>4. PICK kind \in Lists : kind = req[r].kind
  BY DEF StartList, Lists
<1>5. PICK next : next = [req[r] EXCEPT !.stage = "page", !.untouched = Listed(kind)]
  OBVIOUS
<1>6. /\ req'[r] = next /\ \A x \in Requests \ {r} : req'[x] = req[x]
  BY <1>3, <1>4, <1>5 DEF StartList, RequestsOK
<1>7. /\ next.stage = "page" /\ next.kind = kind /\ next.untouched = Listed(kind)
      /\ next.cursor = req[r].cursor /\ next.seen = req[r].seen
  BY <1>3, <1>4, <1>5 DEF IsRequest
<1>8. req[r].cursor = NoCursor /\ req[r].seen = <<>>
  BY DEF ReadersOk, ListOk, StartList, At
<1>9. ListOk(r)'
  <2>1. next.seen = <<>> /\ next.cursor = NoCursor /\ Listed(kind)' = Listed(kind)
    BY <1>1, <1>7, <1>8 DEF Listed
  <2>2. \A x : Unmet(next.seen, x)
    BY <2>1 DEF Unmet
  <2>3. next.seen \in Seq(SUBSET Nat)
    BY <2>1
  <2> QED  BY <1>4, <1>6, <1>7, <2>1, <2>2, <2>3 DEF ListOk, Ahead
<1>10. ASSUME NEW x \in Requests \ {r} PROVE ListOk(x)'
  BY <1>2, <1>3, <1>6, NobodyHears, HeardOk DEF ReadersOk
<1> QED  BY <1>2, <1>9, <1>10 DEF ReadersOk

LEMMA ReadPageOk ==
  ASSUME RecordsInv, TablesOk, ReadersOk, NEW r \in Requests, ReadPage(r)
  PROVE  TablesOk' /\ ReadersOk'
<1>1. UNCHANGED <<profiles, commands>>
  BY DEF ReadPage
<1>2. TablesOk' /\ \A kind \in Lists : RowsStay(kind, {})
  BY <1>1, TablesAlone
<1>3. RequestsOK /\ IsRequest(req[r])
  BY DEF RecordsInv, RequestsOK, RequestOK
<1>4. PICK q : q = req[r]
  OBVIOUS
<1>5. /\ q.stage = "page" /\ q.kind \in Lists /\ q.seen \in Seq(SUBSET Nat)
      /\ q.untouched \subseteq Listed(q.kind) /\ q.cursor \in RowKeys \cup {NoCursor}
      /\ \A x \in q.untouched :
           IF Ahead(q.cursor, KeyOf(q.kind, x)) THEN Unmet(q.seen, x) ELSE MetOnce(q.seen, x)
  BY <1>4 DEF ReadersOk, ListOk, ReadPage, At
<1>6. PICK taken : taken = Page(KeysOf(q.kind), q.cursor)
  OBVIOUS
<1>7. PICK ids : ids = {k.id : k \in taken.items}
  OBVIOUS
<1>8. PICK more : more = Append(q.seen, ids)
  OBVIOUS
<1>9. PICK stage : stage = IF taken.next = NoCursor THEN "listed" ELSE "page"
  OBVIOUS
<1>10. PICK next : next = [q EXCEPT !.seen = more, !.cursor = taken.next, !.stage = stage]
  OBVIOUS
<1>11. req'[r] = next /\ \A x \in Requests \ {r} : req'[x] = req[x]
  <2>1. req' = [req EXCEPT ![r].seen = more, ![r].cursor = taken.next, ![r].stage = stage]
    BY <1>4, <1>6, <1>7, <1>8, <1>9 DEF ReadPage, KeysOf
  <2> QED  BY <1>3, <1>4, <1>10, <2>1 DEF RequestsOK
<1>12. /\ next.kind = q.kind /\ next.untouched = q.untouched
       /\ next.seen = more /\ next.cursor = taken.next /\ next.stage = stage
  BY <1>3, <1>4, <1>10 DEF IsRequest
<1>13. /\ KeysOf(q.kind) \subseteq RowKeys /\ IsFiniteSet(KeysOf(q.kind))
       /\ \A x \in Listed(q.kind) : KeyOf(q.kind, x) \in KeysOf(q.kind) /\ KeyOf(q.kind, x).id = x
       /\ \A k \in KeysOf(q.kind) : k.id \in Listed(q.kind) /\ k = KeyOf(q.kind, k.id)
  BY <1>5, KeysOfRows DEF KeyOf
<1>14. /\ taken.items \subseteq {k \in KeysOf(q.kind) : Ahead(q.cursor, k)}
       /\ taken.next \in RowKeys \cup {NoCursor}
       /\ taken.next = NoCursor => taken.items = {k \in KeysOf(q.kind) : Ahead(q.cursor, k)}
       /\ taken.next # NoCursor =>
            \A k \in KeysOf(q.kind) :
              Precedes(taken.next, k) <=> Ahead(q.cursor, k) /\ k \notin taken.items
  BY <1>5, <1>6, <1>13, PageTakes
<1>15. ids \in SUBSET Nat /\ \A x \in Listed(q.kind) : x \in ids <=> KeyOf(q.kind, x) \in taken.items
  <2>1. \A k \in taken.items : k.id \in Nat /\ k.id \in Listed(q.kind) /\ k = KeyOf(q.kind, k.id)
    BY <1>13, <1>14 DEF RowKeys
  <2> QED  BY <1>7, <1>13, <2>1
<1>16. ASSUME NEW x \in q.untouched
       PROVE  IF stage = "page" /\ Ahead(taken.next, KeyOf(q.kind, x))
                THEN Unmet(more, x) ELSE MetOnce(more, x)
  <2>1. PICK k \in KeysOf(q.kind) : k = KeyOf(q.kind, x) /\ (x \in ids <=> k \in taken.items)
    BY <1>5, <1>13, <1>15
  <2>2. stage = "page" /\ Ahead(taken.next, k) <=> Ahead(q.cursor, k) /\ k \notin taken.items
    <3>1. CASE taken.next = NoCursor
      BY <1>9, <1>14, <3>1
    <3>2. CASE taken.next # NoCursor
      BY <1>9, <1>14, <3>2 DEF Ahead
    <3> QED  BY <3>1, <3>2
  <2>3. IF Ahead(q.cursor, k) THEN Unmet(q.seen, x) ELSE MetOnce(q.seen, x)
    BY <1>5, <2>1
  <2>4. k \in taken.items => Ahead(q.cursor, k)
    BY <1>14
  <2> QED  BY <1>5, <1>8, <1>15, <2>1, <2>2, <2>3, <2>4, OnePageMore, ZenonT(40)
<1>17. more \in Seq(SUBSET Nat)
  BY <1>5, <1>8, <1>15, OnePageMore
<1>18. ListOk(r)'
  <2>1. /\ \A x : x \in Listed(q.kind)' <=> x \in Listed(q.kind)
        /\ \A x : KeyOf(q.kind, x)' = KeyOf(q.kind, x)
    BY <1>1 DEF Listed, KeyOf
  <2>2. stage \in {"page", "listed"}
    BY <1>9
  <2> QED  BY <1>5, <1>11, <1>12, <1>14, <1>16, <1>17, <2>1, <2>2 DEF ListOk
<1>19. ASSUME NEW x \in Requests \ {r} PROVE ListOk(x)'
  BY <1>2, <1>3, <1>11, NobodyHears, HeardOk DEF ReadersOk
<1> QED  BY <1>2, <1>18, <1>19 DEF ReadersOk

\* A clear of the panel takes rows, and the readers of commands hear of it.
LEMMA ServePanelOk ==
  ASSUME RecordsInv, TablesOk, ReadersOk, NEW a \in panel.asked, ServePanel(a)
  PROVE  TablesOk' /\ ReadersOk'
<1>1. PICK gone :
        /\ commands' = [c \in DOMAIN commands \ gone |-> commands[c]]
        /\ req' = [q \in Requests |->
             [req[q] EXCEPT !.untouched = IF req[q].kind = "list_commands" THEN @ \ gone ELSE @]]
        /\ UNCHANGED profiles
  BY DEF ServePanel
<1>2. /\ DOMAIN commands' \subseteq DOMAIN commands \cup {0} /\ CommandsOk'
      /\ \A x \in DOMAIN commands \ gone : x \in DOMAIN commands' /\ commands'[x] = commands[x]
  BY <1>1 DEF TablesOk, CommandsOk
<1>3. TablesOk' /\ RowsStay("list_commands", gone) /\ RowsStay("list_profiles", {})
  BY <1>1, <1>2, CommandsMove
<1>4. ASSUME NEW x \in Requests PROVE ListOk(x)'
  <2>1. Heard(x, "list_commands", gone)
    BY <1>1, <1>3 DEF Heard, Lists
  <2> QED  BY <2>1, HeardOk DEF ReadersOk, RecordsInv
<1> QED  BY <1>3, <1>4 DEF ReadersOk

\* A step that changes no request, and at most adds a profile.
LEMMA BesideLists ==
  ASSUME RecordsInv, TablesOk, ReadersOk, UNCHANGED <<req, commands>>, NEW p,
         DOMAIN profiles' \subseteq DOMAIN profiles \cup {p},
         \A x \in DOMAIN profiles : x \in DOMAIN profiles' /\ profiles'[x] = profiles[x]
  PROVE  TablesOk' /\ ReadersOk'
<1>1. TablesOk' /\ \A kind \in Lists : RowsStay(kind, {})
  BY ProfilesMove DEF Lists
<1>2. ASSUME NEW x \in Requests PROVE ListOk(x)'
  <2>1. RequestsOK /\ req'[x] = req[x]
    BY DEF RecordsInv
  <2> QED  BY <1>1, <2>1, NobodyHears, HeardOk DEF ReadersOk
<1> QED  BY <1>1, <1>2 DEF ReadersOk

LEMMA ListsInit == Init => ListsInv
<1> SUFFICES ASSUME Init PROVE ListsInv
  OBVIOUS
<1>1. PICK start \in Starts : /\ profiles = start.profiles
                              /\ req = [r \in Requests |-> Idle(start.kind[r])]
  BY DEF Init
<1>2. DOMAIN commands = {}
  BY DEF Init
<1>3. TablesOk
  BY <1>1, <1>2, InputAssumption, FS_EmptySet DEF TablesOk, CommandsOk
<1>4. ASSUME NEW r \in Requests PROVE ListOk(r)
  <2>1. PICK empty : empty = <<>>
    OBVIOUS
  <2>2. PICK q : q = [kind |-> start.kind[r], stage |-> "new", target |-> Nothing, edit |-> NoEdit,
                      row |-> Nothing, readAt |-> 0, cursor |-> NoCursor, seen |-> empty,
                      untouched |-> {}]
    OBVIOUS
  <2>3. q.stage = "new" /\ q.cursor = NoCursor /\ q.seen = empty
    BY <2>2
  <2>4. req[r] = q
    BY <1>1, <2>1, <2>2 DEF Idle
  <2> QED  BY <2>1, <2>3, <2>4 DEF ListOk
<1> QED  BY <1>3, <1>4 DEF ListsInv, ReadersOk

LEMMA ListsStep ==
  ASSUME RecordsInv, ListsInv, [Next]_vars
  PROVE  ListsInv'
<1>1. CASE \E r \in Requests : Step(r)
  <2>1. PICK r \in Requests : Step(r)
    BY <1>1
  <2>2. CASE SwitchPanel(r)
    BY <2>2, BesideLists DEF SwitchPanel, ListsInv
  <2> QED  BY <2>1, <2>2, ProfileRequestsKeepLists, SessionRequestsKeepLists, StartListOk, ReadPageOk
           DEF Step, ListsInv
<1>2. CASE \E a \in panel.asked : ServePanel(a)
  BY <1>2, ServePanelOk DEF ListsInv
<1>3. CASE UNCHANGED <<profiles, commands, req>>
  BY <1>3, BesideLists DEF ListsInv
<1> QED
  BY <1>1, <1>2, <1>3 DEF Next, Tick, LosePanel, UsePanel, HearAnswer, vars

LEMMA ListsAreComplete ==
  ASSUME ListsInv
  PROVE  ListIsComplete
<1> SUFFICES ASSUME NEW r \in Requests, At(r, "listed"), NEW x \in req[r].untouched
             PROVE  Cardinality({n \in DOMAIN req[r].seen : x \in req[r].seen[n]}) = 1
  BY DEF ListIsComplete
<1>1. MetOnce(req[r].seen, x)
  BY DEF ListsInv, ReadersOk, ListOk, At
<1>2. PICK n : {m \in DOMAIN req[r].seen : x \in req[r].seen[m]} = {n}
  BY <1>1 DEF MetOnce
<1> QED  BY <1>2, FS_Singleton

\* However rows come, move and go while a client reads a list of profiles or of
\* commands page by page: at the end it has met each row that nobody touched
\* exactly once (storage/pagination.ts and the list queries).
THEOREM ListsAreRead == Spec => []ListIsComplete
<1>1. Init => ListsInv
  BY ListsInit
<1>2. RecordsInv /\ ListsInv /\ [Next]_vars => ListsInv'
  BY ListsStep
<1>3. ListsInv => ListIsComplete
  BY ListsAreComplete
<1> QED  BY <1>1, <1>2, <1>3, RecordsInvHolds, PTL DEF Spec

-----------------------------------------------------------------------------
(* The import of devices.                                                  *)


ImportRows == [page : Requests, stage : {"sent", "creating", "answered", "failed"}, wish : Wishes,
               todo : SUBSET Devices, wanted : SUBSET Devices, created : SUBSET Profiles,
               lost : BOOLEAN]

ImportsOK == imports \in Seq(ImportRows)

LEMMA ImportedOK ==
  ASSUME NEW d \in Devices, NEW wish \in Wishes, now \in Nat
  PROVE  SoundRow(Imported(d, wish))
<1> DEFINE new == [host |-> d, name |-> DisplayName, method |-> wish.method, port |-> wish.port,
                   persistence |-> IF wish.method = "tailscale_ssh" THEN "saved" ELSE "prompt"]
<1>1. IsNew(new) /\ (new.method = "tailscale_ssh" => new.port = 22)
  BY ImportAssumption DEF IsNew
<1> HIDE DEF new
<1>2. SoundRow(Row(new))
  BY <1>1, RowOK
<1> QED  BY <1>2 DEF Imported, new

\* Of the other requests nothing changes.
LEMMA SetImportFacts ==
  ASSUME ImportsOK, NEW i \in DOMAIN imports, NEW next \in ImportRows, SetImport(i, next)
  PROVE  /\ ImportsOK' /\ DOMAIN imports' = DOMAIN imports
         /\ imports'[i] = next
         /\ \A j \in DOMAIN imports \ {i} : imports'[j] = imports[j]
BY DEF ImportsOK, SetImport

LEMMA GoingFacts ==
  ASSUME NEW import \in ImportRows
  PROVE  /\ Going(import) \in ImportRows
         /\ Going(import).stage = IF import.todo = {} THEN "answered" ELSE "creating"
         /\ Going(import).page = import.page /\ Going(import).wish = import.wish
         /\ Going(import).todo = import.todo /\ Going(import).wanted = import.wanted
         /\ Going(import).created = import.created /\ Going(import).lost = import.lost
BY DEF Going, ImportRows

\* What the look up makes of a request.
LEMMA LookUpFacts ==
  ASSUME ImportsOK, NEW i \in DOMAIN imports, LookUp(i)
  PROVE  \E next \in ImportRows :
           /\ imports[i].stage = "sent" /\ SetImport(i, next)
           /\ next.stage = IF next.todo = {} THEN "answered" ELSE "creating"
           /\ next.todo = {d \in next.wanted : Targets(d, next.wish) = {}}
           /\ next.page = imports[i].page /\ next.wish = imports[i].wish
           /\ next.created = imports[i].created /\ next.lost = imports[i].lost
<1>1. imports[i] \in ImportRows
  BY DEF ImportsOK
<1>2. PICK found \in Discoveries :
        LET wanted == imports[i].todo \cap Authorized(found)
            new    == {d \in wanted : Targets(d, imports[i].wish) = {}}
        IN  SetImport(i, Going([imports[i] EXCEPT !.wanted = wanted, !.todo = new]))
  BY DEF LookUp
<1> DEFINE wanted == imports[i].todo \cap Authorized(found)
           new    == {d \in wanted : Targets(d, imports[i].wish) = {}}
           next   == [imports[i] EXCEPT !.wanted = wanted, !.todo = new]
<1>3. wanted \in SUBSET Devices /\ new \in SUBSET Devices
  BY <1>1 DEF ImportRows
<1>4. SetImport(i, Going(next))
  BY <1>2
<1>5. /\ next \in ImportRows /\ next.wanted = wanted /\ next.todo = new
      /\ next.page = imports[i].page /\ next.wish = imports[i].wish
      /\ next.created = imports[i].created /\ next.lost = imports[i].lost
  <2> HIDE DEF wanted, new
  <2> QED  BY <1>1, <1>3 DEF ImportRows
<1>6. new = {d \in wanted : Targets(d, imports[i].wish) = {}}
  OBVIOUS
<1>7. imports[i].stage = "sent"
  BY DEF LookUp
<1> HIDE DEF next, new, wanted
<1> QED  BY <1>4, <1>5, <1>6, <1>7, GoingFacts

\* What a step of the loop makes of a request: it fails, or goes on with one
\* profile more.
LEMMA CreateFacts ==
  ASSUME ImportsOK, NEW i \in DOMAIN imports, CreateNext(i)
  PROVE  /\ imports[i].stage = "creating"
         /\ \E next \in ImportRows :
              /\ SetImport(i, next)
              /\ next.page = imports[i].page /\ next.wish = imports[i].wish
              /\ next.wanted = imports[i].wanted /\ next.lost = imports[i].lost
              /\ \/ /\ next.stage = "failed" /\ next.created = imports[i].created
                    /\ UNCHANGED profiles
                 \/ \E d \in imports[i].todo, p \in Fresh :
                      /\ next.stage = IF next.todo = {} THEN "answered" ELSE "creating"
                      /\ next.todo = imports[i].todo \ {d}
                      /\ next.created = imports[i].created \cup {p}
                      /\ ~Taken(p, Imported(d, next.wish)) /\ Put(p, Imported(d, next.wish))
<1>1. PICK d \in imports[i].todo, p \in Fresh :
        IF Taken(p, Imported(d, imports[i].wish))
          THEN SetImport(i, [imports[i] EXCEPT !.stage = "failed"]) /\ UNCHANGED profiles
          ELSE /\ Put(p, Imported(d, imports[i].wish))
               /\ SetImport(i, Going([imports[i] EXCEPT !.todo = @ \ {d}, !.created = @ \cup {p}]))
  BY DEF CreateNext
<1>2. imports[i] \in ImportRows /\ imports[i].stage = "creating"
  BY DEF ImportsOK, CreateNext
<1>3. d \in Devices /\ p \in Profiles
  BY <1>2 DEF ImportRows, Fresh
<1>4. CASE Taken(p, Imported(d, imports[i].wish))
  <2> DEFINE next == [imports[i] EXCEPT !.stage = "failed"]
  <2>1. /\ next \in ImportRows /\ next.stage = "failed" /\ next.created = imports[i].created
        /\ next.page = imports[i].page /\ next.wish = imports[i].wish
        /\ next.wanted = imports[i].wanted /\ next.lost = imports[i].lost
    BY <1>2 DEF ImportRows
  <2>2. SetImport(i, next) /\ UNCHANGED profiles
    BY <1>1, <1>4
  <2> HIDE DEF next
  <2> QED  BY <1>2, <2>1, <2>2
<1>5. CASE ~Taken(p, Imported(d, imports[i].wish))
  <2> DEFINE todo    == imports[i].todo \ {d}
             created == imports[i].created \cup {p}
             next    == [imports[i] EXCEPT !.todo = todo, !.created = created]
  <2>1. todo \in SUBSET Devices /\ created \in SUBSET Profiles
    BY <1>2, <1>3 DEF ImportRows
  <2>2. /\ next \in ImportRows /\ next.todo = todo /\ next.created = created
        /\ next.page = imports[i].page /\ next.wish = imports[i].wish
        /\ next.wanted = imports[i].wanted /\ next.lost = imports[i].lost
    <3> HIDE DEF todo, created
    <3> QED  BY <1>2, <2>1 DEF ImportRows
  <2>3. SetImport(i, Going(next)) /\ Put(p, Imported(d, imports[i].wish))
    BY <1>1, <1>2, <1>5
  <2> HIDE DEF next
  <2>4. /\ Going(next) \in ImportRows
        /\ Going(next).stage = IF Going(next).todo = {} THEN "answered" ELSE "creating"
        /\ Going(next).todo = imports[i].todo \ {d}
        /\ Going(next).created = imports[i].created \cup {p}
        /\ Going(next).page = imports[i].page /\ Going(next).wish = imports[i].wish
        /\ Going(next).wanted = imports[i].wanted /\ Going(next).lost = imports[i].lost
    BY <2>2, GoingFacts
  <2> DEFINE m == Going(next)
  <2>5. /\ ~Taken(p, Imported(d, m.wish)) /\ Put(p, Imported(d, m.wish)) /\ SetImport(i, m)
    BY <1>5, <2>3, <2>4
  <2> HIDE DEF m, todo, created
  <2>6. \E x \in imports[i].todo, y \in Fresh :
          /\ m.stage = IF m.todo = {} THEN "answered" ELSE "creating"
          /\ m.todo = imports[i].todo \ {x}
          /\ m.created = imports[i].created \cup {y}
          /\ ~Taken(y, Imported(x, m.wish)) /\ Put(y, Imported(x, m.wish))
    BY <2>4, <2>5 DEF m
  <2> QED  BY <1>2, <2>4, <2>5, <2>6 DEF m
<1> QED  BY <1>4, <1>5

LEMMA BreakFacts ==
  ASSUME ImportsOK, NEW i \in DOMAIN imports, BreakImport(i)
  PROVE  /\ imports[i].stage \in {"sent", "creating"}
         /\ \E next \in ImportRows :
              /\ SetImport(i, next) /\ next.stage = "failed"
              /\ next.page = imports[i].page /\ next.wish = imports[i].wish
              /\ next.created = imports[i].created /\ next.lost = imports[i].lost
<1> DEFINE next == [imports[i] EXCEPT !.stage = "failed"]
<1>a. imports[i] \in ImportRows
  BY DEF ImportsOK
<1>1. /\ next \in ImportRows /\ next.stage = "failed" /\ next.created = imports[i].created
      /\ next.page = imports[i].page /\ next.wish = imports[i].wish /\ next.lost = imports[i].lost
  BY <1>a DEF ImportRows
<1>2. imports[i].stage \in {"sent", "creating"} /\ SetImport(i, next)
  BY DEF BreakImport
<1> HIDE DEF next
<1> QED  BY <1>1, <1>2 

\* Of the page of an import.
PageRows == [shown : [Profiles -> Nat], open : BOOLEAN, import : Nat]
PagesOK == page \in [Requests -> PageRows]

\* What a step of a page makes of the requests: one more is sent, or the answer
\* of one is lost, or they stay.
LEMMA PageFacts ==
  ASSUME ImportsOK, PagesOK, NEW r \in Requests, PageStep(r)
  PROVE  /\ ImportsOK' /\ DOMAIN imports \subseteq DOMAIN imports'
         /\ \A i \in DOMAIN imports :
              /\ imports'[i].page = imports[i].page /\ imports'[i].wish = imports[i].wish
              /\ imports'[i].stage = imports[i].stage /\ imports'[i].todo = imports[i].todo
              /\ imports'[i].wanted = imports[i].wanted /\ imports'[i].created = imports[i].created
         /\ \A i \in DOMAIN imports' \ DOMAIN imports :
              imports'[i].stage = "sent" /\ imports'[i].created = {}
<1>1. CASE UNCHANGED imports
  BY <1>1 DEF ImportsOK
<1>2. CASE Submit(r)
  <2>1. PICK found \in Discoveries, wish \in Wishes :
          \E selected \in SUBSET Authorized(found) \ {{}} :
            imports' = Append(imports, [page |-> r, stage |-> "sent", wish |-> wish,
                                        todo |-> selected, wanted |-> {}, created |-> {},
                                        lost |-> FALSE])
    BY <1>2 DEF Submit
  <2>2. PICK selected \in SUBSET Authorized(found) \ {{}} :
          imports' = Append(imports, [page |-> r, stage |-> "sent", wish |-> wish,
                                      todo |-> selected, wanted |-> {}, created |-> {},
                                      lost |-> FALSE])
    BY <2>1
  <2> DEFINE m == [page |-> r, stage |-> "sent", wish |-> wish, todo |-> selected, wanted |-> {},
                   created |-> {}, lost |-> FALSE]
  <2>3. selected \in SUBSET Devices
    BY ImportAssumption DEF Authorized
  <2>4. m \in ImportRows /\ m.stage = "sent" /\ m.created = {}
    BY <2>3 DEF ImportRows
  <2>5. imports' = Append(imports, m)
    BY <2>2
  <2> HIDE DEF m
  <2> QED  BY <2>4, <2>5 DEF ImportsOK
<1>3. CASE LoseImport(r)
  <2> DEFINE i    == page[r].import
             next == [imports[i] EXCEPT !.lost = TRUE]
  <2>1. SetImport(i, next)
    BY <1>3 DEF LoseImport
  <2>2. CASE i \in DOMAIN imports
    <3>1. imports[i] \in ImportRows
      BY <2>2 DEF ImportsOK
    <3>2. /\ next \in ImportRows
          /\ next.page = imports[i].page /\ next.wish = imports[i].wish
          /\ next.stage = imports[i].stage /\ next.todo = imports[i].todo
          /\ next.wanted = imports[i].wanted /\ next.created = imports[i].created
      BY <3>1 DEF ImportRows
    <3> HIDE DEF next
    <3> QED  BY <2>1, <2>2, <3>2, SetImportFacts
  <2>3. CASE i \notin DOMAIN imports
    <3>1. imports' = imports
      BY <2>1, <2>3 DEF SetImport, ImportsOK
    <3> QED  BY <1>1, <3>1
  <2> QED  BY <2>2, <2>3
<1> QED  BY <1>1, <1>2, <1>3 DEF PageStep, OpenDialog, HearImport, CloseDialog

-----------------------------------------------------------------------------
(* An import is exact.                                                      *)

\* While devices are left, a profile of one of them can only be there if an
\* import made it meanwhile; what is done is there.
ImportExact(m) ==
  /\ m.stage = "creating" =>
       \A d \in m.todo \ touched : \A p \in Targets(d, m.wish) : profiles[p].name = DisplayName
  /\ m.stage \in {"creating", "answered"} =>
       \A d \in m.wanted \ (m.todo \cup touched) : Targets(d, m.wish) # {}
  /\ m.stage = "answered" => m.todo = {}

OneTarget ==
  \A d \in Devices \ touched, wish \in Wishes : \A p, q \in Targets(d, wish) : p = q

ExactInv == ImportsOK /\ OneTarget /\ \A i \in DOMAIN imports : ImportExact(imports[i])

\* Where the records change by another's hand, they are no longer vouched for.
LEMMA OthersExact ==
  ASSUME ExactInv, touched' = touched \cup Changed, UNCHANGED imports
  PROVE  ExactInv'
<1>1. ASSUME NEW d \in Devices, d \notin touched', NEW wish
      PROVE  /\ d \notin touched /\ Targets(d, wish)' = Targets(d, wish)
             /\ \A p \in Targets(d, wish) : profiles'[p].name = profiles[p].name
  <2>1. d \notin touched /\ RowsOf(d)' = RowsOf(d)
    BY <1>1, ImportAssumption DEF Changed
  <2>2. ASSUME NEW p \in DOMAIN profiles, profiles[p].host = d
        PROVE  p \in DOMAIN profiles' /\ Identity(profiles'[p]) = Identity(profiles[p])
    <3>1. <<p, Identity(profiles[p])>> \in RowsOf(d)'
      BY <2>1, <2>2 DEF RowsOf
    <3>2. PICK q \in DOMAIN profiles' : <<p, Identity(profiles[p])>> = <<q, Identity(profiles'[q])>>
      BY <3>1 DEF RowsOf
    <3> QED  BY <3>2
  <2>3. ASSUME NEW p \in DOMAIN profiles', profiles'[p].host = d
        PROVE  p \in DOMAIN profiles /\ Identity(profiles'[p]) = Identity(profiles[p])
    <3>1. <<p, Identity(profiles'[p])>> \in RowsOf(d)
      BY <2>1, <2>3 DEF RowsOf
    <3>2. PICK q \in DOMAIN profiles : <<p, Identity(profiles'[p])>> = <<q, Identity(profiles[q])>>
      BY <3>1 DEF RowsOf
    <3> QED  BY <3>2
  <2>4. \A x, y : Identity(x) = Identity(y) => x.host = y.host /\ x.port = y.port /\ x.name = y.name
    BY DEF Identity
  <2>5. \A p : p \in DOMAIN profiles /\ profiles[p].host = d =>
                 /\ p \in DOMAIN profiles' /\ profiles'[p].host = d
                 /\ profiles'[p].port = profiles[p].port /\ profiles'[p].name = profiles[p].name
    BY <2>2, <2>4
  <2>6. \A p : p \in DOMAIN profiles' /\ profiles'[p].host = d =>
                 /\ p \in DOMAIN profiles /\ profiles[p].host = d
                 /\ profiles'[p].port = profiles[p].port
    BY <2>3, <2>4
  <2> QED  BY <2>1, <2>5, <2>6 DEF Targets
<1>2. OneTarget'
  BY <1>1 DEF ExactInv, OneTarget
<1>3. ASSUME NEW i \in DOMAIN imports
      PROVE  ImportExact(imports[i])'
  <2>1. imports[i] \in ImportRows /\ imports'[i] = imports[i] /\ ImportExact(imports[i])
    BY DEF ExactInv, ImportsOK
  <2>2. imports[i].todo \subseteq Devices /\ imports[i].wanted \subseteq Devices
    BY <2>1 DEF ImportRows
  <2> QED  BY <1>1, <2>1, <2>2 DEF ImportExact
<1> QED  BY <1>2, <1>3 DEF ExactInv, ImportsOK

\* Nothing else changes than one request, which is exact again.
LEMMA OneExact ==
  ASSUME ExactInv, UNCHANGED <<profiles, touched>>, NEW i \in DOMAIN imports,
         NEW next \in ImportRows, SetImport(i, next), ImportExact(next)
  PROVE  ExactInv'
<1>1. /\ ImportsOK' /\ DOMAIN imports' = DOMAIN imports /\ imports'[i] = next
      /\ \A j \in DOMAIN imports \ {i} : imports'[j] = imports[j]
  BY SetImportFacts DEF ExactInv
<1>2. \A d, wish : Targets(d, wish)' = Targets(d, wish)
  BY DEF Targets
<1>3. OneTarget'
  <2>1. OneTarget /\ touched' = touched
    BY DEF ExactInv
  <2> QED  BY <1>2, <2>1 DEF OneTarget
<1>4. \A m : ImportExact(m) => ImportExact(m)'
  BY <1>2 DEF ImportExact, Targets
<1>5. \A j \in DOMAIN imports' : ImportExact(imports'[j])
  BY <1>1 DEF ExactInv
<1>6. \A j \in DOMAIN imports' : \E m : m = imports'[j] /\ ImportExact(m)'
  BY <1>4, <1>5
<1>7. (\A j \in DOMAIN imports : ImportExact(imports[j]))'
  BY <1>6 DEF ImportExact
<1> QED  BY <1>1, <1>3, <1>7 DEF ExactInv

LEMMA LookUpExact ==
  ASSUME ExactInv, NEW i \in DOMAIN imports, LookUp(i)
  PROVE  ExactInv'
<1>1. PICK next \in ImportRows :
        /\ SetImport(i, next)
        /\ next.stage = IF next.todo = {} THEN "answered" ELSE "creating"
        /\ next.todo = {d \in next.wanted : Targets(d, next.wish) = {}}
  BY LookUpFacts DEF ExactInv
<1>2. ImportExact(next)
  BY <1>1 DEF ImportExact
<1>3. UNCHANGED <<profiles, touched>>
  BY DEF LookUp, vars
<1> QED  BY <1>1, <1>2, <1>3, OneExact

LEMMA BreakExact ==
  ASSUME ExactInv, NEW i \in DOMAIN imports, BreakImport(i)
  PROVE  ExactInv'
<1>1. PICK next \in ImportRows : SetImport(i, next) /\ next.stage = "failed"
  BY BreakFacts DEF ExactInv
<1>2. ImportExact(next)
  BY <1>1 DEF ImportExact
<1>3. UNCHANGED <<profiles, touched>>
  BY DEF BreakImport, vars
<1> QED  BY <1>1, <1>2, <1>3, OneExact

\* The unique index keeps a second import of the same device out.
LEMMA CreateExact ==
  ASSUME ExactInv, NEW i \in DOMAIN imports, CreateNext(i)
  PROVE  ExactInv'
<1>1. PICK next \in ImportRows :
        /\ SetImport(i, next)
        /\ next.wish = imports[i].wish /\ next.wanted = imports[i].wanted
        /\ \/ next.stage = "failed" /\ UNCHANGED profiles
           \/ \E d \in imports[i].todo, p \in Fresh :
                /\ next.stage = IF next.todo = {} THEN "answered" ELSE "creating"
                /\ next.todo = imports[i].todo \ {d}
                /\ ~Taken(p, Imported(d, next.wish)) /\ Put(p, Imported(d, next.wish))
  BY CreateFacts DEF ExactInv
<1>2. UNCHANGED touched /\ imports[i].stage = "creating" /\ imports[i] \in ImportRows
  BY DEF CreateNext, ExactInv, ImportsOK
<1>3. CASE next.stage = "failed" /\ UNCHANGED profiles
  <2>1. ImportExact(next)
    BY <1>3 DEF ImportExact
  <2> QED  BY <1>1, <1>2, <1>3, <2>1, OneExact
<1>4. CASE \E d \in imports[i].todo, p \in Fresh :
             /\ next.stage = IF next.todo = {} THEN "answered" ELSE "creating"
             /\ next.todo = imports[i].todo \ {d}
             /\ ~Taken(p, Imported(d, next.wish)) /\ Put(p, Imported(d, next.wish))
  <2> DEFINE wish == next.wish
  <2>1. PICK d \in imports[i].todo, p \in Fresh :
          /\ next.stage = IF next.todo = {} THEN "answered" ELSE "creating"
          /\ next.todo = imports[i].todo \ {d}
          /\ ~Taken(p, Imported(d, wish)) /\ Put(p, Imported(d, wish))
    BY <1>4
  <2> DEFINE row == Imported(d, wish)
  <2>2. /\ row.host = d /\ row.port = wish.port /\ row.name = DisplayName
        /\ Identity(row) = <<d, wish.port, DisplayName>>
    BY DEF Imported, Row, Identity
  <2>3. ~Taken(p, row) /\ Put(p, row)
    BY <2>1
  <2> HIDE DEF row
  <2>4. /\ p \notin DOMAIN profiles /\ DOMAIN profiles' = DOMAIN profiles \cup {p}
        /\ profiles'[p] = row /\ \A q \in DOMAIN profiles : profiles'[q] = profiles[q]
    BY <2>3 DEF Put, Fresh
  <2>5. \A x, v : Targets(x, v)' = Targets(x, v) \cup (IF x = d /\ v.port = wish.port THEN {p} ELSE {})
    BY <2>2, <2>4 DEF Targets
  <2>6. d \notin touched => Targets(d, wish) = {}
    <3> SUFFICES ASSUME d \notin touched, NEW q \in Targets(d, wish) PROVE FALSE
      OBVIOUS
    <3>1. profiles[q].name = DisplayName
      BY <1>1, <1>2 DEF ExactInv, ImportExact
    <3>2. q \in DOMAIN profiles \ {p} /\ Identity(profiles[q]) = Identity(row)
      BY <2>2, <2>4, <3>1 DEF Targets, Identity
    <3> QED  BY <2>3, <3>2 DEF Taken
  <2>7. d \in Devices /\ \A v : v.port = wish.port => Targets(d, v) = Targets(d, wish)
    BY <1>2 DEF ImportRows, Targets
  <2>8. OneTarget'
    BY <1>2, <2>5, <2>6, <2>7 DEF ExactInv, OneTarget
  <2>9. /\ ImportsOK' /\ DOMAIN imports' = DOMAIN imports /\ imports'[i] = next
        /\ \A j \in DOMAIN imports \ {i} : imports'[j] = imports[j]
    BY <1>1, SetImportFacts DEF ExactInv
  <2>10. ASSUME NEW m, ImportExact(m)
         PROVE  ImportExact(m)'
    <3>1. \A x, v : \A q \in Targets(x, v)' :
            q \in Targets(x, v) \/ profiles'[q].name = DisplayName
      BY <2>2, <2>4, <2>5
    <3>2. \A x, v : \A q \in Targets(x, v) : profiles'[q].name = profiles[q].name
      BY <2>4 DEF Targets
    <3>3. \A x, v : Targets(x, v) # {} => Targets(x, v)' # {}
      BY <2>5
    <3> QED  BY <1>2, <2>10, <3>1, <3>2, <3>3 DEF ImportExact
  <2>11. ImportExact(next)'
    <3>1. ImportExact(imports[i])
      BY DEF ExactInv
    <3>2. \E m : m = imports[i] /\ ImportExact(m)'
      BY <2>10, <3>1
    <3>3. PICK m : m = imports[i] /\ ImportExact(m)'
      BY <3>2
    <3>4. Targets(d, wish)' # {} /\ m.stage = "creating"
      BY <1>2, <2>5, <3>3
    <3>5. m.todo = imports[i].todo /\ m.wanted = next.wanted /\ m.wish = next.wish
      BY <1>1, <3>3
    <3>6. /\ \A x \in m.todo \ touched' :
               \A q \in Targets(x, m.wish)' : profiles'[q].name = DisplayName
          /\ \A x \in m.wanted \ (m.todo \cup touched') : Targets(x, m.wish)' # {}
      BY <3>3, <3>4 DEF ImportExact
    <3> HIDE DEF wish
    <3>7. /\ \A x \in next.todo \ touched' :
               \A q \in Targets(x, next.wish)' : profiles'[q].name = DisplayName
          /\ \A x \in next.wanted \ (next.todo \cup touched') : Targets(x, next.wish)' # {}
      BY <2>1, <3>4, <3>5, <3>6 DEF wish
    <3> QED  BY <2>1, <3>7 DEF ImportExact
  <2>12. \A j \in DOMAIN imports' : \E m : m = imports'[j] /\ ImportExact(m)'
    <3> SUFFICES ASSUME NEW j \in DOMAIN imports' PROVE \E m : m = imports'[j] /\ ImportExact(m)'
      OBVIOUS
    <3>1. CASE j = i
      BY <2>9, <2>11, <3>1
    <3>2. CASE j # i
      <4>1. imports'[j] = imports[j] /\ ImportExact(imports[j])
        BY <2>9, <3>2 DEF ExactInv
      <4> QED  BY <2>10, <4>1
    <3> QED  BY <3>1, <3>2
  <2>13. (\A j \in DOMAIN imports : ImportExact(imports[j]))'
    BY <2>12 DEF ImportExact
  <2> QED  BY <2>8, <2>9, <2>13 DEF ExactInv
<1> QED  BY <1>1, <1>3, <1>4

LEMMA PageExact ==
  ASSUME ExactInv, PagesOK, NEW r \in Requests, PageStep(r)
  PROVE  ExactInv'
<1>1. UNCHANGED <<profiles, touched>>
  BY DEF PageStep, OpenDialog, Submit, HearImport, LoseImport, CloseDialog, vars
<1>2. \A d, wish : Targets(d, wish)' = Targets(d, wish)
  BY <1>1 DEF Targets
<1>3. OneTarget'
  <2>1. OneTarget
    BY DEF ExactInv
  <2> QED  BY <1>1, <1>2, <2>1 DEF OneTarget
<1>4. ImportsOK' /\ DOMAIN imports \subseteq DOMAIN imports'
  BY PageFacts DEF ExactInv
<1>5. ASSUME NEW i \in DOMAIN imports'
      PROVE  \E m : m = imports'[i] /\ ImportExact(m)'
  <2>1. CASE i \in DOMAIN imports
    <3>1. /\ imports'[i].wish = imports[i].wish /\ imports'[i].stage = imports[i].stage
          /\ imports'[i].todo = imports[i].todo /\ imports'[i].wanted = imports[i].wanted
      BY <2>1, PageFacts DEF ExactInv
    <3>2. ImportExact(imports[i])
      BY <2>1 DEF ExactInv
    <3> QED  BY <1>1, <1>2, <3>1, <3>2 DEF ImportExact
  <2>2. CASE i \notin DOMAIN imports
    <3>1. imports'[i].stage = "sent"
      BY <1>5, <2>2, PageFacts DEF ExactInv
    <3> QED  BY <3>1 DEF ImportExact
  <2> QED  BY <2>1, <2>2
<1>6. (\A j \in DOMAIN imports : ImportExact(imports[j]))'
  BY <1>5 DEF ImportExact
<1> QED  BY <1>3, <1>4, <1>6 DEF ExactInv

-----------------------------------------------------------------------------
(* An import is shown.                                                      *)

\* How often the page of an import has listed its profiles.
TimesShown(i) ==
  LET m == imports[i]
  IN  IF m.stage = "answered" /\ ~m.lost /\ page[m.page].import # i THEN 1 ELSE 0

\* A page waits for an import of its own that is not lost, and for each that is
\* under way; imports share no profile.
ShownInv ==
  /\ \A r \in Requests : page[r].import # 0 =>
       /\ page[r].import \in DOMAIN imports
       /\ imports[page[r].import].page = r /\ ~imports[page[r].import].lost
  /\ \A i \in DOMAIN imports : imports[i].stage \in {"sent", "creating"} /\ ~imports[i].lost =>
       page[imports[i].page].import = i
  /\ \A i, j \in DOMAIN imports : \A p \in imports[i].created : p \in imports[j].created => i = j
  /\ \A i \in DOMAIN imports : \A p \in imports[i].created :
       page[imports[i].page].shown[p] = TimesShown(i)
  /\ \A r \in Requests, p \in Profiles :
       (\A i \in DOMAIN imports : p \notin imports[i].created) => page[r].shown[p] = 0

\* While a request is under way, nothing of it is shown.
LEMMA ServedShown ==
  ASSUME ImportsOK, ShownInv, UNCHANGED page, NEW i \in DOMAIN imports,
         NEW next \in ImportRows, SetImport(i, next),
         imports[i].stage \in {"sent", "creating"},
         next.page = imports[i].page, next.lost = imports[i].lost,
         imports[i].created \subseteq next.created,
         \A p \in next.created \ imports[i].created :
           \A j \in DOMAIN imports : p \notin imports[j].created
  PROVE  ShownInv'
<1>1. /\ DOMAIN imports' = DOMAIN imports /\ imports'[i] = next
      /\ \A j \in DOMAIN imports \ {i} : imports'[j] = imports[j]
  BY SetImportFacts
<1>2. next.created \subseteq Profiles /\ next.page \in Requests
  BY DEF ImportRows
<1>3. \A r \in Requests : page'[r].import # 0 =>
       /\ page'[r].import \in DOMAIN imports'
       /\ imports'[page'[r].import].page = r /\ ~imports'[page'[r].import].lost
  BY <1>1 DEF ShownInv
<1>4. \A j \in DOMAIN imports' : imports'[j].stage \in {"sent", "creating"} /\ ~imports'[j].lost =>
       page'[imports'[j].page].import = j
  BY <1>1 DEF ShownInv
<1>5. \A j, k \in DOMAIN imports' :
        \A p \in imports'[j].created : p \in imports'[k].created => j = k
  BY <1>1 DEF ShownInv
<1>6. ASSUME NEW j \in DOMAIN imports', NEW p \in imports'[j].created
      PROVE  page'[imports'[j].page].shown[p] = TimesShown(j)'
  <2>1. CASE j = i
    <3>1. TimesShown(i)' = 0 /\ TimesShown(i) = 0
      BY <1>1 DEF TimesShown, ShownInv
    <3>2. p \in imports[i].created \/ \A k \in DOMAIN imports : p \notin imports[k].created
      BY <1>1, <1>6, <2>1
    <3>3. page[next.page].shown[p] = 0
      <4>1. p \in Profiles
        BY <1>1, <1>2, <1>6, <2>1
      <4> QED  BY <1>2, <3>1, <3>2, <4>1 DEF ShownInv
    <3> QED  BY <1>1, <2>1, <3>1, <3>3
  <2>2. CASE j # i
    <3>1. imports'[j] = imports[j] /\ TimesShown(j)' = TimesShown(j)
      BY <1>1, <1>6, <2>2 DEF TimesShown
    <3> QED  BY <1>1, <1>6, <3>1 DEF ShownInv
  <2> QED  BY <2>1, <2>2
<1>7. \A r \in Requests, p \in Profiles :
        (\A j \in DOMAIN imports' : p \notin imports'[j].created) => page'[r].shown[p] = 0
  <2>1. \A j \in DOMAIN imports : imports[j].created \subseteq imports'[j].created
    BY <1>1
  <2> QED  BY <1>1, <2>1 DEF ShownInv
<1> QED  BY <1>3, <1>4, <1>5, <1>6, <1>7 DEF ShownInv

LEMMA PageStepShown ==
  ASSUME ImportsOK, PagesOK, ShownInv, NEW r \in Requests, PageStep(r)
  PROVE  PagesOK' /\ ShownInv'
<1>1. /\ page[r] \in PageRows /\ \A i \in DOMAIN imports : imports[i] \in ImportRows
      /\ DOMAIN imports \subseteq Nat \ {0}
  BY DEF PagesOK, ImportsOK
<1>2. ASSUME NEW next \in PageRows, SetPage(r, next), next.import = page[r].import \/
               (next.import = 0 /\ page[r].import = 0),
             next.shown = page[r].shown, UNCHANGED imports
      PROVE  PagesOK' /\ ShownInv'
  <2>1. /\ PagesOK' /\ page'[r] = next
        /\ \A q \in Requests \ {r} : page'[q] = page[q]
    BY <1>2 DEF PagesOK, SetPage
  <2>2. \A q \in Requests : page'[q].import = page[q].import /\ page'[q].shown = page[q].shown
    BY <1>2, <2>1
  <2>3. \A i \in DOMAIN imports : imports[i].page \in Requests
    BY <1>1 DEF ImportRows
  <2> QED  BY <1>2, <2>1, <2>2, <2>3 DEF ShownInv, TimesShown
<1>3. CASE OpenDialog(r)
  <2> DEFINE next == [page[r] EXCEPT !.open = TRUE]
  <2>1. next \in PageRows /\ next.import = page[r].import /\ next.shown = page[r].shown
    BY <1>1 DEF PageRows
  <2>2. SetPage(r, next) /\ UNCHANGED imports
    BY <1>3 DEF OpenDialog
  <2> HIDE DEF next
  <2> QED  BY <1>2, <2>1, <2>2
<1>4. CASE CloseDialog(r)
  <2>1. Closed(r) \in PageRows /\ Closed(r).import = 0 /\ Closed(r).shown = page[r].shown
    BY <1>1 DEF PageRows, Closed
  <2>2. SetPage(r, Closed(r)) /\ UNCHANGED imports /\ page[r].import = 0
    BY <1>4 DEF CloseDialog
  <2> QED  BY <1>2, <2>1, <2>2
<1>5. CASE Submit(r)
  <2> DEFINE n    == Len(imports) + 1
             next == [page[r] EXCEPT !.import = n]
  <2>1. PICK found \in Discoveries, wish \in Wishes :
          \E selected \in SUBSET Authorized(found) \ {{}} :
            imports' = Append(imports, [page |-> r, stage |-> "sent", wish |-> wish,
                                        todo |-> selected, wanted |-> {}, created |-> {},
                                        lost |-> FALSE])
    BY <1>5 DEF Submit
  <2>2. PICK selected \in SUBSET Authorized(found) \ {{}} :
          imports' = Append(imports, [page |-> r, stage |-> "sent", wish |-> wish,
                                      todo |-> selected, wanted |-> {}, created |-> {},
                                      lost |-> FALSE])
    BY <2>1
  <2> DEFINE m == [page |-> r, stage |-> "sent", wish |-> wish, todo |-> selected, wanted |-> {},
                   created |-> {}, lost |-> FALSE]
  <2>3. m.page = r /\ m.stage = "sent" /\ m.created = {} /\ ~m.lost
    OBVIOUS
  <2>4. imports' = Append(imports, m)
    BY <2>2
  <2> HIDE DEF m
  <2>5. /\ DOMAIN imports' = DOMAIN imports \cup {n} /\ imports'[n] = m
        /\ \A i \in DOMAIN imports : imports'[i] = imports[i] /\ i # n
        /\ n \in Nat \ {0}
    BY <2>4 DEF ImportsOK
  <2>6. next \in PageRows /\ next.import = n /\ next.shown = page[r].shown
    BY <1>1, <2>5 DEF PageRows
  <2>7. SetPage(r, next) /\ page[r].import = 0
    BY <1>5 DEF Submit
  <2> HIDE DEF next, n
  <2>8. /\ PagesOK' /\ page'[r] = next /\ \A q \in Requests \ {r} : page'[q] = page[q]
    BY <2>6, <2>7 DEF PagesOK, SetPage
  <2>9. \A q \in Requests : page'[q].shown = page[q].shown
    BY <2>6, <2>8
  <2>10. \A i \in DOMAIN imports : imports[i].page \in Requests
    BY <1>1 DEF ImportRows
  <2>11. \A i \in DOMAIN imports :
           \/ imports[i].page = r /\ page'[r].import # i /\ page[r].import # i
           \/ imports[i].page # r /\ page'[imports[i].page] = page[imports[i].page]
    BY <1>1, <2>5, <2>6, <2>7, <2>8, <2>10
  <2>12. \A i \in DOMAIN imports : TimesShown(i)' = TimesShown(i)
    BY <2>5, <2>11 DEF TimesShown
  <2>13. \A q \in Requests : page'[q].import # 0 =>
           /\ page'[q].import \in DOMAIN imports'
           /\ imports'[page'[q].import].page = q /\ ~imports'[page'[q].import].lost
    BY <2>3, <2>5, <2>6, <2>8 DEF ShownInv
  <2>14. \A i \in DOMAIN imports' : imports'[i].stage \in {"sent", "creating"} /\ ~imports'[i].lost =>
           page'[imports'[i].page].import = i
    <3>1. \A i \in DOMAIN imports : imports[i].stage \in {"sent", "creating"} /\ ~imports[i].lost =>
            page[imports[i].page].import = i
      BY DEF ShownInv
    <3> QED  BY <1>1, <2>3, <2>5, <2>6, <2>8, <2>11, <3>1
  <2>15. \A i, j \in DOMAIN imports' :
           \A p \in imports'[i].created : p \in imports'[j].created => i = j
    BY <2>3, <2>5 DEF ShownInv
  <2>16. \A i \in DOMAIN imports' : \A p \in imports'[i].created :
           page'[imports'[i].page].shown[p] = TimesShown(i)'
    BY <2>3, <2>5, <2>9, <2>10, <2>12 DEF ShownInv
  <2>17. \A q \in Requests, p \in Profiles :
           (\A i \in DOMAIN imports' : p \notin imports'[i].created) => page'[q].shown[p] = 0
    BY <2>5, <2>9 DEF ShownInv
  <2> QED  BY <2>8, <2>13, <2>14, <2>15, <2>16, <2>17 DEF ShownInv
<1>6. CASE HearImport(r)
  <2> DEFINE i     == page[r].import
             shown == [p \in Profiles |-> IF p \in imports[i].created
                                            THEN page[r].shown[p] + 1 ELSE page[r].shown[p]]
             quiet == [page[r] EXCEPT !.import = 0]
             next  == [quiet EXCEPT !.shown = shown]
  <2>1. /\ i # 0 /\ imports[i].stage \in {"answered", "failed"} /\ UNCHANGED imports
        /\ SetPage(r, IF imports[i].stage = "failed" THEN quiet ELSE next)
    BY <1>1, <1>6 DEF HearImport, PageRows
  <2>2. /\ i \in DOMAIN imports /\ imports[i].page = r /\ ~imports[i].lost
    BY <2>1 DEF ShownInv
  <2>3. shown \in [Profiles -> Nat]
    BY <1>1 DEF PageRows
  <2>4. quiet \in PageRows /\ quiet.import = 0 /\ quiet.shown = page[r].shown
    BY <1>1 DEF PageRows
  <2>5. next \in PageRows /\ next.import = 0 /\ next.shown = shown
    <3> HIDE DEF shown, quiet
    <3> QED  BY <2>3, <2>4 DEF PageRows
  <2> HIDE DEF next, quiet
  <2>6. /\ PagesOK' /\ page'[r].import = 0 /\ \A q \in Requests \ {r} : page'[q] = page[q]
        /\ page'[r].shown = IF imports[i].stage = "failed" THEN page[r].shown ELSE shown
    BY <2>1, <2>4, <2>5 DEF PagesOK, SetPage
  <2>7. \A j \in DOMAIN imports : imports[j].page \in Requests /\ imports[j].created \subseteq Profiles
    BY <1>1 DEF ImportRows
  <2>8. \A p \in Profiles : page'[r].shown[p] = IF imports[i].stage = "answered" /\ p \in imports[i].created
                                                  THEN page[r].shown[p] + 1 ELSE page[r].shown[p]
    BY <2>1, <2>6
  <2> HIDE DEF shown
  <2>9. \A q \in Requests : page'[q].import # 0 =>
          /\ page'[q].import \in DOMAIN imports
          /\ imports[page'[q].import].page = q /\ ~imports[page'[q].import].lost
    BY <2>6 DEF ShownInv
  <2>10. \A j \in DOMAIN imports : imports[j].stage \in {"sent", "creating"} /\ ~imports[j].lost =>
           page'[imports[j].page].import = j
    <3>1. \A j \in DOMAIN imports : imports[j].stage \in {"sent", "creating"} /\ ~imports[j].lost =>
            page[imports[j].page].import = j
      BY DEF ShownInv
    <3>2. \A j \in DOMAIN imports : imports[j].stage \in {"sent", "creating"} /\ imports[j].page = r =>
            page[r].import # j
      BY <2>1
    <3> QED  BY <2>6, <2>7, <3>1, <3>2
  <2>11. ASSUME NEW j \in DOMAIN imports, NEW p \in imports[j].created
         PROVE  page'[imports[j].page].shown[p] = TimesShown(j)'
    <3>1. page[imports[j].page].shown[p] = TimesShown(j) /\ p \in Profiles
      BY <2>7, <2>11 DEF ShownInv
    <3>2. CASE j = i
      <4>1. TimesShown(j) = 0
        BY <2>2, <3>2 DEF TimesShown
      <4>2. TimesShown(j)' = IF imports[i].stage = "answered" THEN 1 ELSE 0
        BY <2>1, <2>2, <2>6, <3>2 DEF TimesShown
      <4>3. j \in Nat \ {0}
        BY <1>1, <2>11
      <4> QED  BY <2>2, <2>8, <2>11, <3>1, <3>2, <4>1, <4>2
    <3>3. CASE j # i /\ imports[j].page = r
      <4>1. TimesShown(j)' = TimesShown(j)
        BY <1>1, <2>1, <2>6, <2>11, <3>3 DEF TimesShown
      <4>2. p \notin imports[i].created
        BY <2>2, <2>11, <3>3 DEF ShownInv
      <4> QED  BY <2>8, <3>1, <3>3, <4>1, <4>2
    <3>4. CASE imports[j].page # r
      <4>1. page'[imports[j].page] = page[imports[j].page]
        BY <2>6, <2>7, <2>11, <3>4
      <4>2. TimesShown(j)' = TimesShown(j)
        BY <2>1, <4>1 DEF TimesShown
      <4> QED  BY <3>1, <4>1, <4>2
    <3> QED  BY <3>2, <3>3, <3>4
  <2>12. \A q \in Requests, p \in Profiles :
           (\A j \in DOMAIN imports : p \notin imports[j].created) => page'[q].shown[p] = 0
    BY <2>2, <2>6, <2>8 DEF ShownInv
  <2>13. \A j, k \in DOMAIN imports :
           \A p \in imports[j].created : p \in imports[k].created => j = k
    BY DEF ShownInv
  <2> QED  BY <2>1, <2>6, <2>9, <2>10, <2>11, <2>12, <2>13 DEF ShownInv
<1>7. CASE LoseImport(r)
  <2> DEFINE i    == page[r].import
             gone == [imports[i] EXCEPT !.lost = TRUE]
             next == [page[r] EXCEPT !.import = 0]
  <2>1. i # 0 /\ SetImport(i, gone) /\ SetPage(r, next)
    BY <1>1, <1>7 DEF LoseImport, PageRows
  <2>2. i \in DOMAIN imports /\ imports[i].page = r /\ ~imports[i].lost
    BY <2>1 DEF ShownInv
  <2>3. /\ gone \in ImportRows /\ gone.lost /\ gone.page = r
        /\ gone.created = imports[i].created /\ gone.stage = imports[i].stage
    <3>1. PICK import \in ImportRows : import = imports[i]
      BY <1>1, <2>2
    <3>2. PICK lost : lost = [import EXCEPT !.lost = TRUE]
      OBVIOUS
    <3>3. /\ lost \in ImportRows /\ lost.lost /\ lost.page = import.page
          /\ lost.created = import.created /\ lost.stage = import.stage
      BY <3>2 DEF ImportRows
    <3> QED  BY <2>2, <3>1, <3>2, <3>3
  <2>4. next \in PageRows /\ next.import = 0 /\ next.shown = page[r].shown
    BY <1>1 DEF PageRows
  <2> HIDE DEF next, gone
  <2>5. /\ DOMAIN imports' = DOMAIN imports /\ imports'[i] = gone
        /\ \A j \in DOMAIN imports \ {i} : imports'[j] = imports[j]
    BY <2>1, <2>2, <2>3, SetImportFacts
  <2>6. /\ PagesOK' /\ page'[r].import = 0 /\ \A q \in Requests \ {r} : page'[q] = page[q]
        /\ \A q \in Requests : page'[q].shown = page[q].shown
    BY <2>1, <2>4 DEF PagesOK, SetPage
  <2>7. \A j \in DOMAIN imports : imports[j].page \in Requests
    BY <1>1 DEF ImportRows
  <2>8. \A q \in Requests : page'[q].import # 0 =>
          /\ page'[q].import \in DOMAIN imports'
          /\ imports'[page'[q].import].page = q /\ ~imports'[page'[q].import].lost
    <3> SUFFICES ASSUME NEW q \in Requests, page'[q].import # 0
                 PROVE  /\ page'[q].import \in DOMAIN imports'
                        /\ imports'[page'[q].import].page = q /\ ~imports'[page'[q].import].lost
      OBVIOUS
    <3>1. q # r /\ page'[q] = page[q]
      BY <2>6
    <3>2. /\ page[q].import \in DOMAIN imports /\ imports[page[q].import].page = q
          /\ ~imports[page[q].import].lost
      BY <3>1 DEF ShownInv
    <3>3. page[q].import # i
      BY <2>2, <3>1, <3>2
    <3> QED  BY <2>5, <3>1, <3>2, <3>3
  <2>9. \A j \in DOMAIN imports' : imports'[j].stage \in {"sent", "creating"} /\ ~imports'[j].lost =>
          page'[imports'[j].page].import = j
    <3>1. \A j \in DOMAIN imports : imports[j].stage \in {"sent", "creating"} /\ ~imports[j].lost =>
            page[imports[j].page].import = j
      BY DEF ShownInv
    <3>2. \A j \in DOMAIN imports' : ~imports'[j].lost => j # i /\ imports'[j] = imports[j]
      BY <2>3, <2>5
    <3> QED  BY <2>5, <2>6, <2>7, <3>1, <3>2
  <2>10. ASSUME NEW j \in DOMAIN imports'
         PROVE  /\ TimesShown(j)' = TimesShown(j)
                /\ imports'[j].page = imports[j].page /\ imports'[j].created = imports[j].created
    <3>1. CASE j = i
      <4>1. TimesShown(j)' = 0 /\ TimesShown(j) = 0
        BY <2>2, <2>3, <2>5, <3>1 DEF TimesShown
      <4> QED  BY <2>2, <2>3, <2>5, <3>1, <4>1
    <3>2. CASE j # i
      <4>1. imports'[j] = imports[j] /\ j # 0
        BY <1>1, <2>5, <2>10, <3>2
      <4>2. page'[imports[j].page].import # j <=> page[imports[j].page].import # j
        BY <2>5, <2>6, <2>7, <2>10, <3>2, <4>1
      <4> QED  BY <4>1, <4>2 DEF TimesShown
    <3> QED  BY <3>1, <3>2
  <2>11. \A j \in DOMAIN imports' : \A p \in imports'[j].created :
           page'[imports'[j].page].shown[p] = TimesShown(j)'
    BY <2>5, <2>6, <2>7, <2>10 DEF ShownInv
  <2>12. \A q \in Requests, p \in Profiles :
           (\A j \in DOMAIN imports' : p \notin imports'[j].created) => page'[q].shown[p] = 0
    BY <2>5, <2>6, <2>10 DEF ShownInv
  <2>13. \A j, k \in DOMAIN imports' :
           \A p \in imports'[j].created : p \in imports'[k].created => j = k
    BY <2>5, <2>10 DEF ShownInv
  <2> QED  BY <2>6, <2>8, <2>9, <2>11, <2>12, <2>13 DEF ShownInv
<1> QED  BY <1>3, <1>4, <1>5, <1>6, <1>7 DEF PageStep

-----------------------------------------------------------------------------
(* The theorems.                                                            *)

ImportInv ==
  /\ RecordsInv /\ OpenSessionKeepsProfile /\ PanelInv /\ ListsInv
  /\ PagesOK /\ ExactInv /\ ShownInv

LEMMA ImportInitInv == ImportInit => ImportInv
<1> SUFFICES ASSUME ImportInit PROVE ImportInv
  OBVIOUS
<1>1. RecordsInv /\ PanelInv /\ ListsInv /\ OpenSessionKeepsProfile
  BY InitInv, PanelInit, ListsInit DEF ImportInit, Init, NoSession, OpenSessionKeepsProfile
<1>2. NoPage \in PageRows /\ NoPage.import = 0 /\ \A p \in Profiles : NoPage.shown[p] = 0
  BY DEF NoPage, PageRows
<1>3. PagesOK /\ \A r \in Requests : page[r] = NoPage
  BY <1>2 DEF ImportInit, PagesOK
<1>4. ImportsOK /\ DOMAIN imports = {}
  BY DEF ImportInit, ImportsOK
<1>5. OneTarget
  BY ImportAssumption DEF ImportInit, OneTarget
<1>6. ExactInv /\ ShownInv
  BY <1>2, <1>3, <1>4, <1>5 DEF ExactInv, ShownInv
<1> QED  BY <1>1, <1>3, <1>6 DEF ImportInv

\* What a step of the loop makes of the records: a profile that is sound, and
\* of a device.
LEMMA CreateKeepsRecords ==
  ASSUME RecordsInv, OpenSessionKeepsProfile, ListsInv, ImportsOK, NEW i \in DOMAIN imports, CreateNext(i)
  PROVE  RecordsInv' /\ OpenSessionKeepsProfile' /\ ListsInv'
<1>1. PICK next \in ImportRows :
        /\ next.wish = imports[i].wish
        /\ \/ UNCHANGED profiles
           \/ \E d \in imports[i].todo, p \in Fresh : Put(p, Imported(d, next.wish))
  BY CreateFacts
<1>2. UNCHANGED <<now, sessions, req, commands>>
  BY DEF CreateNext
<1>3. CASE UNCHANGED profiles
  <2>1. RecordsInv' /\ OpenSessionKeepsProfile'
    BY <1>2, <1>3 DEF RecordsInv, ProfilesOK, RequestsOK, SessionsOK, OpenSessionKeepsProfile, Exists
  <2>2. ListsInv'
    BY <1>2, <1>3, BesideLists DEF ListsInv
  <2> QED  BY <2>1, <2>2
<1>4. CASE \E d \in imports[i].todo, p \in Fresh : Put(p, Imported(d, next.wish))
  <2>1. PICK d \in imports[i].todo, p \in Fresh : Put(p, Imported(d, next.wish))
    BY <1>4
  <2>2. d \in Devices /\ p \in Profiles /\ next.wish \in Wishes
    <3>1. imports[i] \in ImportRows
      BY DEF ImportsOK
    <3> QED  BY <2>1, <3>1 DEF ImportRows, Fresh
  <2>3. SoundRow(Imported(d, next.wish))
    BY <2>2, ImportedOK DEF RecordsInv
  <2>4. ProfilesOK' /\ DOMAIN profiles' = DOMAIN profiles \cup {p}
    BY <2>1, <2>2, <2>3, PutOK DEF RecordsInv
  <2>5. RecordsInv' /\ OpenSessionKeepsProfile'
    BY <1>2, <2>4 DEF RecordsInv, RequestsOK, SessionsOK, OpenSessionKeepsProfile, Exists
  <2>6. p \notin DOMAIN profiles /\ \A x \in DOMAIN profiles : profiles'[x] = profiles[x]
    BY <2>1 DEF Fresh, Put
  <2>7. ListsInv'
    BY <1>2, <2>4, <2>6, BesideLists DEF ListsInv
  <2> QED  BY <2>5, <2>7
<1> QED  BY <1>1, <1>3, <1>4

LEMMA ServerInv ==
  ASSUME ImportInv, NEW i \in DOMAIN imports, LookUp(i) \/ BreakImport(i) \/ CreateNext(i)
  PROVE  ImportInv'
<1>1. UNCHANGED page /\ PagesOK' /\ PanelInv'
  <2>1. UNCHANGED <<page, panel, commands>>
    BY DEF LookUp, BreakImport, CreateNext, vars
  <2> QED  BY <2>1, PanelCommandsInv DEF ImportInv, PagesOK, PanelInv
<1>2. ExactInv'
  BY LookUpExact, BreakExact, CreateExact DEF ImportInv
<1>3. RecordsInv' /\ OpenSessionKeepsProfile' /\ ListsInv'
  <2>1. CASE CreateNext(i)
    BY <2>1, CreateKeepsRecords DEF ImportInv, ExactInv
  <2>2. CASE UNCHANGED vars
    BY <2>2, StepFacts, ListsStep DEF ImportInv
  <2> QED  BY <2>1, <2>2 DEF LookUp, BreakImport
<1>4. ShownInv'
  <2>1. \E next \in ImportRows :
          /\ SetImport(i, next) /\ imports[i].stage \in {"sent", "creating"}
          /\ next.page = imports[i].page /\ next.lost = imports[i].lost
          /\ imports[i].created \subseteq next.created
          /\ \A p \in next.created \ imports[i].created : p \in Fresh
    <3>1. CASE LookUp(i)
      BY <3>1, LookUpFacts DEF ImportInv, ExactInv
    <3>2. CASE BreakImport(i)
      BY <3>2, BreakFacts DEF ImportInv, ExactInv
    <3>3. CASE CreateNext(i)
      BY <3>3, CreateFacts DEF ImportInv, ExactInv
    <3> QED  BY <3>1, <3>2, <3>3
  <2> QED  BY <1>1, <2>1, ServedShown DEF ImportInv, ExactInv, Fresh
<1> QED  BY <1>1, <1>2, <1>3, <1>4 DEF ImportInv

LEMMA ImportStepInv == ImportInv /\ [ImportNext]_importVars => ImportInv'
<1> SUFFICES ASSUME ImportInv, [ImportNext]_importVars PROVE ImportInv'
  OBVIOUS
<1>1. CASE Next /\ touched' = touched \cup Changed /\ UNCHANGED <<page, imports>>
  <2>1. RecordsInv' /\ OpenSessionKeepsProfile' /\ PanelInv' /\ ListsInv'
    BY <1>1, StepFacts, PanelStepInv, ListsStep DEF ImportInv
  <2>2. ExactInv'
    BY <1>1, OthersExact DEF ImportInv
  <2>3. PagesOK' /\ ShownInv'
    BY <1>1 DEF ImportInv, PagesOK, ShownInv, TimesShown
  <2> QED  BY <2>1, <2>2, <2>3 DEF ImportInv
<1>2. ASSUME NEW r \in Requests, PageStep(r)
      PROVE  ImportInv'
  <2>1. UNCHANGED vars
    BY <1>2 DEF PageStep, OpenDialog, Submit, HearImport, LoseImport, CloseDialog
  <2>2. RecordsInv' /\ OpenSessionKeepsProfile' /\ PanelInv' /\ ListsInv'
    BY <2>1, StepFacts, PanelStepInv, ListsStep DEF ImportInv
  <2>3. ExactInv' /\ PagesOK' /\ ShownInv'
    BY <1>2, PageExact, PageStepShown DEF ImportInv, ExactInv
  <2> QED  BY <2>2, <2>3 DEF ImportInv
<1>3. ASSUME NEW i \in DOMAIN imports, LookUp(i) \/ BreakImport(i) \/ CreateNext(i)
      PROVE  ImportInv'
  BY <1>3, ServerInv
<1>4. CASE UNCHANGED importVars
  <2>1. UNCHANGED vars /\ UNCHANGED <<page, imports, touched, profiles>>
    BY <1>4 DEF importVars, vars
  <2>2. RecordsInv' /\ OpenSessionKeepsProfile' /\ PanelInv' /\ ListsInv'
    BY <2>1, StepFacts, PanelStepInv, ListsStep DEF ImportInv
  <2>3. PagesOK' /\ ShownInv'
    BY <2>1 DEF ImportInv, PagesOK, ShownInv, TimesShown
  <2>4. ExactInv'
    BY <2>1 DEF ImportInv, ExactInv, ImportsOK, OneTarget, ImportExact, Targets
  <2> QED  BY <2>2, <2>3, <2>4 DEF ImportInv
<1> QED  BY <1>1, <1>2, <1>3, <1>4 DEF ImportNext

THEOREM ImportInvHolds == ImportSpec => []ImportInv
BY ImportInitInv, ImportStepInv, PTL DEF ImportSpec

\* However imports overlap, are retried or fail midway, and whatever others do
\* to profiles: an import that importDevices answers leaves each device it was
\* asked for with exactly one profile of its target.
THEOREM ImportsAreExact == ImportSpec => []ImportIsExact
<1>1. ImportInv => ImportIsExact
  <2> SUFFICES ASSUME ImportInv, NEW i \in DOMAIN imports, imports[i].stage = "answered",
                      NEW d \in imports[i].wanted \ touched
               PROVE  \E p \in DOMAIN profiles : Targets(d, imports[i].wish) = {p}
    BY DEF ImportIsExact
  <2>1. imports[i] \in ImportRows /\ ImportExact(imports[i])
    BY DEF ImportInv, ExactInv, ImportsOK
  <2>2. d \in Devices /\ imports[i].wish \in Wishes
    BY <2>1 DEF ImportRows
  <2>3. PICK p : p \in Targets(d, imports[i].wish)
    BY <2>1 DEF ImportExact
  <2>4. Targets(d, imports[i].wish) = {p}
    BY <2>2, <2>3 DEF ImportInv, ExactInv, OneTarget
  <2> QED  BY <2>3, <2>4 DEF Targets
<1> QED  BY <1>1, ImportInvHolds, PTL

\* The page lists each profile of an import it asked for once, unless the answer
\* was lost: handleOpenChange of the dialog waits for it.
THEOREM ImportsAreShown == ImportSpec => []ImportIsShown
<1>1. ImportInv => ImportIsShown
  BY DEF ImportInv, ShownInv, TimesShown, ImportIsShown
<1> QED  BY <1>1, ImportInvHolds, PTL

\* Imports leave the other promises of the records as they are: the profiles
\* they make are sound too, open sessions keep theirs, and lists are complete.
THEOREM ImportsKeepRecords ==
  ImportSpec => [](RowIsSound /\ OpenSessionKeepsProfile /\ PanelShowsItsSession /\ ListIsComplete)
<1>1. ImportInv => RowIsSound /\ OpenSessionKeepsProfile /\ PanelShowsItsSession /\ ListIsComplete
  BY ListsAreComplete DEF ImportInv, RecordsInv, ProfilesOK, SoundRow, RowIsSound, PanelInv
<1> QED  BY <1>1, ImportInvHolds, PTL
=============================================================================
