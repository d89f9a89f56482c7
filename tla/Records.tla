------------------------------- MODULE Records -------------------------------
(***************************************************************************)
(* The stored records of a workbench: connection profiles                  *)
(* (storage/profiles.ts, http/profiles.ts), the rows of connection sessions *)
(* and their captured commands (storage/history.ts, http/history.ts), the  *)
(* use of a profile by a session that starts (D1SSHProfileRepository of    *)
(* durable/ssh-session.ts), and the history panel of the browser.          *)
(*                                                                         *)
(* Requests overlap; each D1 statement is a step.  A request is known by   *)
(* its id, and so is the session a connect request makes.  A host stands   *)
(* for an address and the user name at it; texts are left out, credentials *)
(* are there or not, and a passphrase belongs to its private key.          *)
(***************************************************************************)
EXTENDS Pagination, Sequences

CONSTANTS Requests, Nothing,
          Hosts, Names,   \* of profiles
          Profiles,       \* ids of profiles, as numbers (ids are compared)
          Commands,       \* ids of captured commands, as numbers
          MaxHistory,     \* MAX_COMMAND_HISTORY
          Starts,         \* bound: what each request id may be (kind), the
                          \* profiles and the time at first: [kind, profiles, now]
          NewRows,        \* bound: what a create may ask for
          Edits,          \* bound: what an update may ask for
          MaxTime,        \* bound: the clock stops
          MaxSwitches, MaxAsked \* bounds of the panel

Kind == {"create", "update", "delete", "connect", "list_profiles", "list_commands",
         "panel", "page", "none"}

ASSUME RecordsAssumption ==
  /\ Profiles \cup Commands \cup {MaxHistory, MaxTime, MaxSwitches, MaxAsked} \subseteq Nat
  /\ Nothing \notin Profiles /\ Nothing \notin Hosts /\ Nothing \notin Names
  /\ \A start \in Starts : start.kind \in [Requests -> Kind] /\ start.now \in Nat

Method == {"password", "private_key", "tailscale_ssh"}

ProfileRows == [host : Hosts, name : Names, method : Method, port : Nat,
                persistence : {"saved", "prompt"}, secrets : SUBSET Method,
                updated : Nat, connected : Nat]

\* The one stored secret a method needs.
Needs(method) == IF method = "tailscale_ssh" THEN {} ELSE {method}

\* Tailscale SSH on port 22 with no secret, none where it is asked for at each
\* connection, and none that another method needs.
Sound(row) ==
  /\ row.method = "tailscale_ssh" => row.port = 22 /\ row.persistence = "saved"
  /\ row.secrets \subseteq (IF row.persistence = "prompt" THEN {} ELSE Needs(row.method))

\* What the schemas of the API let through (packages/contracts/src/profiles.ts).
CredentialOK(c) ==
  /\ c.method \in Method
  /\ c.persistence \in (IF c.method = "tailscale_ssh" THEN {"none"} ELSE {"saved", "prompt"})

\* The columns of the unique index.
Identity(row) == <<row.host, row.port, row.name>>

IsNew(new) ==
  /\ new.host \in Hosts /\ new.name \in Names
  /\ new.method \in Method /\ new.port \in Nat /\ new.persistence \in {"saved", "prompt"}
  /\ new.method = "tailscale_ssh" => new.persistence = "saved"

IsEdit(edit) ==
  /\ edit.host \in Hosts \cup {Nothing} /\ edit.name \in Names \cup {Nothing}
  /\ edit.port \in Nat \cup {Nothing}
  /\ edit.credential = Nothing \/ CredentialOK(edit.credential)

ASSUME InputAssumption ==
  /\ \A start \in Starts :
       /\ DOMAIN start.profiles \subseteq Profiles /\ IsFiniteSet(DOMAIN start.profiles)
       /\ \A p \in DOMAIN start.profiles :
            start.profiles[p] \in ProfileRows /\ Sound(start.profiles[p])
       /\ \A p, q \in DOMAIN start.profiles :
            p # q => Identity(start.profiles[p]) # Identity(start.profiles[q])
  /\ \A new \in NewRows : IsNew(new)
  /\ \A edit \in Edits : IsEdit(edit)

VARIABLES now,
          profiles,     \* table profiles: id -> row
          sessions,     \* table connection_sessions, by connect request
          commands,     \* table command_history: id -> [time, session]
          req,          \* what each request is and how far it has come
          panel         \* the history panel of the selected tab

vars == <<now, profiles, sessions, commands, req, panel>>

\* A row, its secrets the fields that hold one; updated orders the list, and
\* connected counts the connections marked in it.
Row(new) ==
  [host |-> new.host, name |-> new.name, method |-> new.method, port |-> new.port,
   persistence |-> new.persistence,
   secrets |-> IF new.persistence = "saved" THEN Needs(new.method) ELSE {},
   updated |-> now, connected |-> 0]

\* What a request says of the credential: its method, whether it is kept, and
\* keep or replace for the stored one.
Credential(method, persistence, action) ==
  [method |-> method, persistence |-> persistence, action |-> action]

NoEdit == [host |-> Nothing, name |-> Nothing, port |-> Nothing, credential |-> Nothing]

NoSession == [profile |-> Nothing, status |-> "none"]

Idle(kind) ==
  [kind |-> kind, stage |-> "new", target |-> Nothing, edit |-> NoEdit, row |-> Nothing,
   readAt |-> 0, cursor |-> NoCursor, seen |-> <<>>, untouched |-> {}]

At(r, stage) == req[r].stage = stage
Goto(r, stage) == req' = [req EXCEPT ![r].stage = stage]
Over(r) == [Idle(req[r].kind) EXCEPT !.stage = "done"]
Fail(r) == req' = [req EXCEPT ![r] = Over(r)]

Exists(p) == p \in DOMAIN profiles
Listed(kind) == IF kind = "list_profiles" THEN DOMAIN profiles ELSE DOMAIN commands

\* r becomes next; lists of this kind that are being read no longer answer
\* for ids.
GoOn(r, next, kind, ids) ==
  req' = [q \in Requests |->
            IF q = r THEN next
            ELSE [req[q] EXCEPT !.untouched = IF req[q].kind = kind THEN @ \ ids ELSE @]]

Stage(r, stage) == [req[r] EXCEPT !.stage = stage]

Put(p, row) == profiles' = [q \in DOMAIN profiles \cup {p} |-> IF q = p THEN row ELSE profiles[q]]

Taken(p, row) == \E q \in DOMAIN profiles \ {p} : Identity(profiles[q]) = Identity(row)

-----------------------------------------------------------------------------
(* Profiles are created, edited and deleted.                                *)

Create(r) ==
  /\ At(r, "new") /\ req[r].kind = "create"
  /\ \E p \in Profiles \ DOMAIN profiles, new \in NewRows :
       /\ new.method = "tailscale_ssh" => new.port = 22
       /\ IF Taken(p, Row(new)) THEN UNCHANGED profiles ELSE Put(p, Row(new))
  /\ Goto(r, "done")
  /\ UNCHANGED <<now, sessions, commands, panel>>

\* updateProfile: the request is checked against the profile as it is.  A saved
\* credential cannot be cleared, and kept only where it is stored.
CheckUpdate(r) ==
  /\ At(r, "new") /\ req[r].kind = "update"
  /\ \E p \in DOMAIN profiles, edit \in Edits :
       LET c == edit.credential
       IN
       /\ (IF c = Nothing THEN profiles[p].method ELSE c.method) = "tailscale_ssh" =>
            (IF edit.port = Nothing THEN profiles[p].port ELSE edit.port) = 22
       /\ c # Nothing /\ c.persistence = "saved" /\ c.action = "keep" =>
            c.method \in profiles[p].secrets
       /\ req' = [req EXCEPT ![r].stage = "read", ![r].target = p, ![r].edit = edit]
  /\ UNCHANGED <<now, profiles, sessions, commands, panel>>

\* The secrets after the mutation c of a row: what the method does not use is
\* deleted, and so is everything when it is asked for at each connection.
Mutated(row, c) ==
  IF c.persistence # "saved" THEN {}
  ELSE IF c.action = "replace" THEN {c.method}
  ELSE row.secrets \cap {c.method}

Or(new, old) == IF new = Nothing THEN old ELSE new

\* The row an update makes of the row it has read.
Updated(row, edit) ==
  LET c == edit.credential
  IN  [row EXCEPT
        !.host = Or(edit.host, @), !.name = Or(edit.name, @), !.port = Or(edit.port, @),
        !.method = IF c = Nothing THEN @ ELSE c.method,
        !.persistence = IF c = Nothing THEN @
                        ELSE IF c.method = "tailscale_ssh" THEN "saved" ELSE c.persistence,
        !.secrets = IF c = Nothing THEN @ ELSE Mutated(row, c)]

\* ProfileRepository.update reads the row again and checks port 22 again.
ReadRow(r) ==
  LET p   == req[r].target
      row == Updated(profiles[p], req[r].edit)
  IN  /\ At(r, "read")
      /\ IF Exists(p) /\ (row.method = "tailscale_ssh" => row.port = 22)
           THEN req' = [req EXCEPT ![r].row = row, ![r].readAt = now, ![r].stage = "write"]
           ELSE Fail(r)
      /\ UNCHANGED <<now, profiles, sessions, commands, panel>>

\* Faulty variant of WriteRow: only the columns of the patch.
WriteChanged(r) ==
  LET p == req[r].target
  IN  /\ At(r, "write")
      /\ \E t \in req[r].readAt .. now :
           IF Exists(p)
             THEN Put(p, [Updated(profiles[p], req[r].edit)
                            EXCEPT !.updated = t])
             ELSE UNCHANGED profiles
      /\ GoOn(r, Over(r), "list_profiles", {p})
      /\ UNCHANGED <<now, sessions, commands, panel>>

\* The UPDATE: every column but those of the last connection; the timestamp
\* was taken since the read.  A row deleted meanwhile stays deleted, and the
\* unique index may refuse the change.
WriteRow(r) ==
  LET p == req[r].target
  IN  /\ At(r, "write")
      /\ \E t \in req[r].readAt .. now :
           IF Exists(p) /\ ~Taken(p, req[r].row)
             THEN Put(p, [req[r].row EXCEPT !.updated = t,
                                            !.connected = profiles[p].connected])
             ELSE UNCHANGED profiles
      /\ GoOn(r, Over(r), "list_profiles", {p})
      /\ UNCHANGED <<now, sessions, commands, panel>>

\* deleteProfile looks first, then deletes.
CheckDelete(r) ==
  /\ At(r, "new") /\ req[r].kind = "delete"
  /\ \E p \in DOMAIN profiles : req' = [req EXCEPT ![r].stage = "delete", ![r].target = p]
  /\ UNCHANGED <<now, profiles, sessions, commands, panel>>

\* Sessions of p whose row is not final.
Active(p) == {s \in Requests : sessions[s].profile = p /\ sessions[s].status = "open"}

\* ON DELETE SET NULL
Detached(p) == [s \in Requests |-> IF sessions[s].profile = p
                                     THEN [sessions[s] EXCEPT !.profile = Nothing]
                                     ELSE sessions[s]]

\* Faulty variant of DeleteIfIdle: the look was enough.
DeleteAnyway(r) ==
  LET p == req[r].target
  IN  /\ At(r, "delete")
      /\ profiles' = [q \in DOMAIN profiles \ {p} |-> profiles[q]]
      /\ sessions' = Detached(p)
      /\ GoOn(r, Over(r), "list_profiles", {p})
      /\ UNCHANGED <<now, commands, panel>>

\* deleteIfNoActiveSessions: one statement looks for sessions and deletes.
DeleteIfIdle(r) ==
  LET p == req[r].target
  IN  /\ At(r, "delete")
      /\ IF Active(p) = {}
           THEN /\ profiles' = [q \in DOMAIN profiles \ {p} |-> profiles[q]]
                /\ sessions' = Detached(p)
           ELSE UNCHANGED <<profiles, sessions>>
      /\ GoOn(r, Over(r), "list_profiles", {p} \ DOMAIN profiles')
      /\ UNCHANGED <<now, commands, panel>>

-----------------------------------------------------------------------------
(* A session uses a profile, and writes its row and its commands.           *)

\* resolve: the ticket takes the profile as it is, with the credential that is
\* stored or, typed (any profile but one of Tailscale SSH), comes along.
Resolve(r) ==
  /\ At(r, "new") /\ req[r].kind = "connect"
  /\ \E p \in DOMAIN profiles, typed \in BOOLEAN :
       LET row == profiles[p]
       IN  /\ IF row.method = "tailscale_ssh" THEN row.port = 22 /\ ~typed
              ELSE typed \/ (row.persistence = "saved" /\ row.method \in row.secrets)
           /\ req' = [req EXCEPT ![r].stage = "start", ![r].target = p]
  /\ UNCHANGED <<now, profiles, sessions, commands, panel>>

\* The row of the session; its foreign key refuses a profile deleted since.
StartSession(r) ==
  /\ At(r, "start")
  /\ IF Exists(req[r].target)
       THEN /\ sessions' = [sessions EXCEPT ![r] = [profile |-> req[r].target, status |-> "open"]]
            /\ Goto(r, "connecting")
       ELSE Fail(r) /\ UNCHANGED sessions
  /\ UNCHANGED <<now, profiles, commands, panel>>

MarkConnected(r) ==
  LET p == req[r].target
  IN  /\ At(r, "connecting")
      /\ IF Exists(p) THEN Put(p, [profiles[p] EXCEPT !.connected = @ + 1, !.updated = now])
                      ELSE UNCHANGED profiles
      /\ GoOn(r, Stage(r, "connected"), "list_profiles", {p})
      /\ UNCHANGED <<now, sessions, commands, panel>>

Keys == {[time |-> commands[c].time, id |-> c] : c \in DOMAIN commands}

AppendCommand(r) ==
  /\ At(r, "connected")
  /\ \E c \in Commands \ DOMAIN commands :
       commands' = [d \in DOMAIN commands \cup {c} |->
                      IF d = c THEN [time |-> now, session |-> r] ELSE commands[d]]
  /\ Goto(r, "prune")
  /\ UNCHANGED <<now, profiles, sessions, panel>>

\* prune: what comes after the first MaxHistory of the list.
Prune(r) ==
  LET old == {k.id : k \in {k \in Keys : Cardinality({j \in Keys : Precedes(j, k)}) >= MaxHistory}}
  IN  /\ At(r, "prune")
      /\ commands' = [c \in DOMAIN commands \ old |-> commands[c]]
      /\ GoOn(r, Stage(r, "connected"), "list_commands", old)
      /\ UNCHANGED <<now, profiles, sessions, panel>>

FinishSession(r) ==
  /\ req[r].stage \in {"connecting", "connected"} /\ req[r].kind = "connect"
  /\ sessions' = [sessions EXCEPT ![r].status = "final"]
  /\ Fail(r)
  /\ UNCHANGED <<now, profiles, commands, panel>>

-----------------------------------------------------------------------------
(* A client reads a list page by page.                                      *)

ProfileKeys == {[time |-> profiles[p].updated, id |-> p] : p \in DOMAIN profiles}

StartList(r) ==
  /\ At(r, "new") /\ req[r].kind \in {"list_profiles", "list_commands"}
  /\ req' = [req EXCEPT ![r].stage = "page", ![r].untouched = Listed(req[r].kind)]
  /\ UNCHANGED <<now, profiles, sessions, commands, panel>>

ReadPage(r) ==
  LET page == Page(IF req[r].kind = "list_profiles" THEN ProfileKeys ELSE Keys, req[r].cursor)
  IN  /\ At(r, "page")
      /\ req' = [req EXCEPT ![r].seen = Append(@, {k.id : k \in page.items}),
                            ![r].cursor = page.next,
                            ![r].stage = IF page.next = NoCursor THEN "listed" ELSE "page"]
      /\ UNCHANGED <<now, profiles, sessions, commands, panel>>

-----------------------------------------------------------------------------
(* The history panel.  It loads and clears the commands of one session, and *)
(* remembers the generation it asked in.                                    *)

NoPanel == [channel |-> Nothing, generation |-> 0, shown |-> {}, asked |-> {}]

\* A request of the panel, its answer (a set of commands) to come.
Ask(kind, s, generation) ==
  [kind |-> kind, session |-> s, generation |-> generation, served |-> FALSE, items |-> {}]

\* The tab gets the channel of another session: the panel starts anew and loads.
SwitchPanel(s) ==
  /\ \E r \in Requests : req[r].kind = "panel"
  /\ sessions[s].status = "open" /\ panel.channel # s /\ panel.generation < MaxSwitches
  /\ panel' = [panel EXCEPT !.channel = s, !.generation = @ + 1, !.shown = {},
                            !.asked = @ \cup {Ask("load", s, panel.generation + 1)}]
  /\ UNCHANGED <<now, profiles, sessions, commands, req>>

\* The channel goes; what is shown stays.
LosePanel ==
  /\ panel.channel # Nothing /\ panel.generation < MaxSwitches
  /\ panel' = [panel EXCEPT !.channel = Nothing, !.generation = @ + 1]
  /\ UNCHANGED <<now, profiles, sessions, commands, req>>

\* The refresh and the clear button.
UsePanel(kind) ==
  /\ panel.channel # Nothing /\ Cardinality(panel.asked) < MaxAsked
  /\ panel' = [panel EXCEPT !.asked = @ \cup {Ask(kind, panel.channel, panel.generation)}]
  /\ UNCHANGED <<now, profiles, sessions, commands, req>>

\* The server reads, or deletes, the commands of the session.
ServePanel(a) ==
  LET those == {c \in DOMAIN commands : commands[c].session = a.session}
      gone  == IF a.kind = "clear" THEN those ELSE {}
      answer == [a EXCEPT !.served = TRUE,
                   !.items = {[id |-> c, session |-> a.session] : c \in those \ gone}]
  IN  /\ a \in panel.asked /\ ~a.served
      /\ commands' = [c \in DOMAIN commands \ gone |-> commands[c]]
      /\ panel' = [panel EXCEPT !.asked = (@ \ {a}) \cup {answer}]
      /\ req' = [q \in Requests |->
           [req[q] EXCEPT !.untouched = IF req[q].kind = "list_commands" THEN @ \ gone ELSE @]]
      /\ UNCHANGED <<now, profiles, sessions>>

\* Faulty variant of HearAnswer: an answer is shown whenever it comes.
HearAnyAnswer(a) ==
  /\ a \in panel.asked /\ a.served
  /\ panel' = [panel EXCEPT !.asked = @ \ {a}, !.shown = a.items]
  /\ UNCHANGED <<now, profiles, sessions, commands, req>>

\* Answers arrive in any order; one of an earlier generation is dropped.
HearAnswer(a) ==
  /\ a \in panel.asked /\ a.served
  /\ panel' = [panel EXCEPT !.asked = @ \ {a},
                            !.shown = IF a.generation = panel.generation THEN a.items ELSE @]
  /\ UNCHANGED <<now, profiles, sessions, commands, req>>

-----------------------------------------------------------------------------
Tick == now < MaxTime /\ now' = now + 1
        /\ UNCHANGED <<profiles, sessions, commands, req, panel>>

Init ==
  /\ sessions = [r \in Requests |-> NoSession]
  /\ commands = <<>>
  /\ \E start \in Starts : /\ now = start.now
                           /\ profiles = start.profiles
                           /\ req = [r \in Requests |-> Idle(start.kind[r])]
  /\ panel = NoPanel

Step(r) ==
  \/ Create(r)
  \/ CheckUpdate(r) \/ ReadRow(r) \/ WriteRow(r)
  \/ CheckDelete(r) \/ DeleteIfIdle(r)
  \/ Resolve(r) \/ StartSession(r) \/ MarkConnected(r)
  \/ AppendCommand(r) \/ Prune(r) \/ FinishSession(r)
  \/ StartList(r) \/ ReadPage(r)
  \/ SwitchPanel(r)

Next ==
  \/ Tick
  \/ \E r \in Requests : Step(r)
  \/ LosePanel \/ UsePanel("load") \/ UsePanel("clear")
  \/ \E a \in panel.asked : ServePanel(a) \/ HearAnswer(a)

Spec == Init /\ [][Next]_vars

-----------------------------------------------------------------------------
(* What the records promise.                                                *)

\* However edits overlap, a profile is one a single edit could have made.
RowIsSound == \A p \in DOMAIN profiles : Sound(profiles[p])

\* An edit that overlaps a connection never takes back that the profile was
\* connected.
ConnectionStaysMarked ==
  [][\A p \in DOMAIN profiles :
       p \in DOMAIN profiles' => profiles'[p].connected >= profiles[p].connected]_profiles

\* A profile is not deleted under a session that is open: the session's row
\* keeps its profile, and the profile exists.
OpenSessionKeepsProfile ==
  \A s \in Requests : sessions[s].status = "open" =>
    sessions[s].profile # Nothing /\ Exists(sessions[s].profile)

\* A client that has read a list to its end has met every row that nobody
\* touched meanwhile exactly once, whatever other rows did.
ListIsComplete ==
  \A r \in Requests : At(r, "listed") =>
    \A x \in req[r].untouched :
      Cardinality({n \in DOMAIN req[r].seen : x \in req[r].seen[n]}) = 1

\* The panel shows commands of the session it is connected to, never those of
\* the one before, however late answers come.
PanelShowsItsSession ==
  panel.channel # Nothing => \A x \in panel.shown : x.session = panel.channel
=============================================================================
