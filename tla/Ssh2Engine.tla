----------------------------- MODULE Ssh2Engine -----------------------------
(***************************************************************************)
(* SSH2Engine (apps/worker/src/ssh/ssh2-engine.ts) from connect() to       *)
(* close(), for several sessions that connect to the same target with the  *)
(* same profile and share its pinned host key (D1HostKeyRepository in      *)
(* apps/worker/src/durable/ssh-session.ts).                                *)
(*                                                                         *)
(* connect(), the host-key verification and close() are three asynchronous *)
(* activities of one engine; every await is a step of its own.  An error   *)
(* event closes the engine in the same turn: the session that hears it     *)
(* answers with close().  The ssh2 client is external: it asks for the     *)
(* host key once, becomes ready only after a positive verdict, and may     *)
(* fail at any time.                                                       *)
(*                                                                         *)
(* The two timers count down in ticks; a due timer fires before the next   *)
(* tick.                                                                   *)
(***************************************************************************)
EXTENDS Integers

CONSTANTS Engines,          \* engines of sessions that use one profile
          Keys,             \* host keys servers may present
          NoKey,            \* no key: nothing is pinned, or none has been presented
          ReadyTimeout,     \* readyTimeout of the ssh2 client, in ticks
          ConfirmTimeout    \* hostConfirmationTimeoutMs, in ticks

ASSUME KeyAssumption == NoKey \notin Keys
ASSUME TimeoutAssumption == ReadyTimeout \in Nat \ {0} /\ ConfirmTimeout \in Nat \ {0}

Off == -1

VARIABLES
  state,        \* currentState
  step,         \* the await connect() is at
  transport,    \* the TCP or WebSocket transport
  key,          \* the host key the server presented
  verify,       \* the await verifyHostKey() is at, "asking" is pendingHostKey
  trust,        \* why the engine trusts the key
  closing,      \* closePromise, and whether "closed" has been told
  readyLeft,    \* ticks until readyTimeout, or Off
  askLeft,      \* ticks until the confirmation times out, or Off
  pin,          \* known_hosts: the pinned key of (profile, host, port)
  profile       \* the profile row exists

engineVars == <<state, step, transport, key, verify, trust, closing, readyLeft, askLeft>>
vars == <<state, step, transport, key, verify, trust, closing, readyLeft, askLeft,
          pin, profile>>

Asking(e) == verify[e] = "asking"
Closed(e) == state[e] = "closed"
AtDatabase == {"lookup", "inserting", "reading", "touching"}

(***************************************************************************)
(* close(), for the first caller; later ones only wait for it.             *)
(***************************************************************************)
Shut(e) ==
  /\ closing' = [closing EXCEPT ![e] = IF @ = "no" THEN "started" ELSE @]
  /\ state' = [state EXCEPT ![e] = IF closing[e] = "no" THEN "closed" ELSE @]
  /\ transport' = [transport EXCEPT ![e] = IF @ = "held" THEN "closing" ELSE @]
  /\ readyLeft' = [readyLeft EXCEPT ![e] = Off]

\* A dial in progress and a shell that has just opened are not interrupted;
\* whatever else connect() awaits comes to nothing.
Interrupted(e) ==
  [step EXCEPT ![e] = IF @ \in {"idle", "dialing", "opened"} THEN @ ELSE "failed"]

\* close() also rejects a pending host-key question.
Close(e) ==
  /\ Shut(e)
  /\ step' = Interrupted(e)
  /\ verify' = [verify EXCEPT ![e] = IF @ = "asking" THEN "refused" ELSE @]
  /\ askLeft' = [askLeft EXCEPT ![e] = Off]
  /\ UNCHANGED <<key, trust, pin, profile>>

\* The transport, if there is one, has closed: the "closed" event is emitted.
CloseFinishes(e) ==
  /\ closing[e] = "started"
  /\ closing' = [closing EXCEPT ![e] = "done"]
  /\ transport' = [transport EXCEPT ![e] = IF @ = "closing" THEN "closed" ELSE @]
  /\ UNCHANGED <<state, step, key, verify, trust, readyLeft, askLeft, pin, profile>>

\* The session ends: its cleanup() closes the engine.
SessionCloses(e) ==
  /\ step[e] # "idle"
  /\ closing[e] = "no"
  /\ Close(e)

-----------------------------------------------------------------------------
(* connect()                                                               *)

\* validateProfile or normalizeTerminal may throw, before anything is told.
Connect(e) ==
  /\ step[e] = "idle"
  /\ \/ /\ step' = [step EXCEPT ![e] = "dialing"]
        /\ state' = [state EXCEPT ![e] = "connecting"]
     \/ /\ step' = [step EXCEPT ![e] = "refused"]
        /\ UNCHANGED state
  /\ UNCHANGED <<transport, key, verify, trust, closing, readyLeft, askLeft, pin, profile>>

\* Faulty variant of TransportOpens: isClosed() is not looked at.
TransportOpensUnchecked(e) ==
  /\ step[e] = "dialing"
  /\ transport' = [transport EXCEPT ![e] = "held"]
  /\ step' = [step EXCEPT ![e] = "handshake"]
  /\ readyLeft' = [readyLeft EXCEPT ![e] = ReadyTimeout]
  /\ UNCHANGED <<state, key, verify, trust, closing, askLeft, pin, profile>>

\* A transport that opens after close() is assigned to the engine and never
\* closed: close() looked for it before it was there.
TransportOpens(e) ==
  /\ step[e] = "dialing"
  /\ \/ /\ ~Closed(e)
        /\ transport' = [transport EXCEPT ![e] = "held"]
        /\ step' = [step EXCEPT ![e] = "handshake"]
        /\ readyLeft' = [readyLeft EXCEPT ![e] = ReadyTimeout]
     \/ /\ Closed(e)
        /\ transport' = [transport EXCEPT ![e] = "orphan"]
        /\ step' = [step EXCEPT ![e] = "failed"]
        /\ UNCHANGED readyLeft
  /\ UNCHANGED <<state, key, verify, trust, closing, askLeft, pin, profile>>

\* The dial fails or times out: error event, close().
TransportFails(e) ==
  /\ step[e] = "dialing"
  /\ Shut(e)
  /\ step' = [step EXCEPT ![e] = "failed"]
  /\ UNCHANGED <<key, verify, trust, askLeft, pin, profile>>

InClient(e) == step[e] \in {"handshake", "shell", "opened", "done"} /\ closing[e] = "no"

\* Faulty variant of ClientReady: ready is told before the shell is open.
ClientReadyAtOnce(e) ==
  /\ step[e] = "handshake"
  /\ verify[e] = "trusted"
  /\ step' = [step EXCEPT ![e] = "done"]
  /\ state' = [state EXCEPT ![e] = "ready"]
  /\ readyLeft' = [readyLeft EXCEPT ![e] = Off]
  /\ UNCHANGED <<transport, key, verify, trust, closing, askLeft, pin, profile>>

\* Authenticated: connectClient resolves and the shell is requested.
ClientReady(e) ==
  /\ step[e] = "handshake"
  /\ verify[e] = "trusted"
  /\ step' = [step EXCEPT ![e] = "shell"]
  /\ readyLeft' = [readyLeft EXCEPT ![e] = Off]
  /\ UNCHANGED <<state, transport, key, verify, trust, closing, askLeft, pin, profile>>

\* The client's shell callback; connect() resumes in a later microtask, and the
\* channel may have closed again by then.
ShellOpens(e) ==
  /\ step[e] = "shell"
  /\ step' = [step EXCEPT ![e] = "opened"]
  /\ UNCHANGED <<state, transport, key, verify, trust, closing, readyLeft, askLeft,
                 pin, profile>>

\* isClosed() is not asked again: a closed engine says "ready" here.
ShellContinues(e) ==
  /\ step[e] = "opened"
  /\ step' = [step EXCEPT ![e] = "done"]
  /\ state' = [state EXCEPT ![e] = "ready"]
  /\ UNCHANGED <<transport, key, verify, trust, closing, readyLeft, askLeft, pin, profile>>

\* The client reports an error, the server or the shell channel closes.
ClientFails(e) == InClient(e) /\ Close(e)

\* readyTimeout of the client, armed until the handshake is over.
ReadyTimeoutFires(e) == readyLeft[e] = 0 /\ Close(e)

-----------------------------------------------------------------------------
(* verifyHostKey()                                                         *)

HostKeyArrives(e) ==
  /\ step[e] = "handshake"
  /\ verify[e] = "none"
  /\ \E k \in Keys : key' = [key EXCEPT ![e] = k]
  /\ verify' = [verify EXCEPT ![e] = "lookup"]
  /\ UNCHANGED <<state, step, transport, trust, closing, readyLeft, askLeft, pin, profile>>

\* verifyHostKey answers true; a closed engine's client no longer listens.
Trust(e, reason) ==
  /\ verify' = [verify EXCEPT ![e] = "trusted"]
  /\ trust' = [trust EXCEPT ![e] = reason]
  /\ UNCHANGED <<state, step, transport, closing, readyLeft>>

\* verifyHostKey emits an error event and answers false.
Refuse(e) ==
  /\ Shut(e)
  /\ step' = Interrupted(e)
  /\ verify' = [verify EXCEPT ![e] = "refused"]
  /\ UNCHANGED trust

GoTo(e, next) ==
  /\ verify' = [verify EXCEPT ![e] = next]
  /\ UNCHANGED <<state, step, transport, closing, readyLeft, trust>>

\* hostKeys.get: the pinned key decides; without one the user is asked, even
\* by an engine that was closed while it looked.
LookUp(e) ==
  /\ verify[e] = "lookup"
  /\ \/ pin = key[e] /\ Trust(e, "matched") /\ UNCHANGED askLeft
     \/ pin \in Keys \ {key[e]} /\ Refuse(e) /\ UNCHANGED askLeft
     \/ /\ pin = NoKey
        /\ GoTo(e, "asking")
        /\ askLeft' = [askLeft EXCEPT ![e] = ConfirmTimeout]
  /\ UNCHANGED <<key, pin, profile>>

\* decideHostKey, called while the session is live.
Decide(e) ==
  /\ Asking(e)
  /\ closing[e] = "no"
  /\ askLeft' = [askLeft EXCEPT ![e] = Off]
  /\ \/ Refuse(e)
     \/ Trust(e, "once")
     \/ GoTo(e, "inserting")
  /\ UNCHANGED <<key, pin, profile>>

\* Faulty variant of AskTimeoutFires: the question is dropped, not rejected.
AskTimeoutUnheard(e) ==
  /\ askLeft[e] = 0
  /\ askLeft' = [askLeft EXCEPT ![e] = Off]
  /\ UNCHANGED <<state, step, transport, key, verify, trust, closing, readyLeft, pin, profile>>

AskTimeoutFires(e) ==
  /\ askLeft[e] = 0
  /\ Asking(e)
  /\ askLeft' = [askLeft EXCEPT ![e] = Off]
  /\ Refuse(e)
  /\ UNCHANGED <<key, pin, profile>>

\* INSERT ... SELECT ... FROM profiles ... ON CONFLICT: first come, first pinned.
PinInserted(e) == pin' = IF profile /\ pin = NoKey THEN key[e] ELSE pin

PinInsert(e) ==
  /\ verify[e] = "inserting"
  /\ PinInserted(e)
  /\ GoTo(e, "reading")
  /\ UNCHANGED <<key, askLeft, profile>>

\* Faulty variant of PinRead: the key read back is not compared.
PinReadUnchecked(e) ==
  /\ verify[e] = "reading"
  /\ \/ pin # NoKey /\ GoTo(e, "touching")
     \/ pin = NoKey /\ Refuse(e)
  /\ UNCHANGED <<key, askLeft, pin, profile>>

\* pinIfAbsent reads the pin back: nothing there, or another key, is a refusal.
PinRead(e) ==
  /\ verify[e] = "reading"
  /\ \/ pin = key[e] /\ GoTo(e, "touching")
     \/ pin # key[e] /\ Refuse(e)
  /\ UNCHANGED <<key, askLeft, pin, profile>>

\* The profile's last fingerprint is updated, and the key trusted.
PinTouch(e) ==
  /\ verify[e] = "touching"
  /\ Trust(e, "remembered")
  /\ UNCHANGED <<key, askLeft, pin, profile>>

\* Any of these D1 statements throws: HOST_KEY_VERIFICATION_FAILED.
DatabaseFails(e) ==
  /\ verify[e] \in AtDatabase
  /\ Refuse(e)
  /\ UNCHANGED <<key, askLeft, pin, profile>>

-----------------------------------------------------------------------------
\* The user deletes the profile; its pinned keys go with it (ON DELETE CASCADE).
DeleteProfile ==
  /\ profile
  /\ profile' = FALSE
  /\ pin' = NoKey
  /\ UNCHANGED engineVars

Due == \E e \in Engines : readyLeft[e] = 0 \/ askLeft[e] = 0
Armed == \E e \in Engines : readyLeft[e] > 0 \/ askLeft[e] > 0
Elapse(left) == [e \in Engines |-> IF left[e] = Off THEN Off ELSE left[e] - 1]

Tick ==
  /\ Armed /\ ~Due
  /\ readyLeft' = Elapse(readyLeft)
  /\ askLeft' = Elapse(askLeft)
  /\ UNCHANGED <<state, step, transport, key, verify, trust, closing, pin, profile>>

Init ==
  /\ state = [e \in Engines |-> "idle"]
  /\ step = [e \in Engines |-> "idle"]
  /\ transport = [e \in Engines |-> "none"]
  /\ key = [e \in Engines |-> NoKey]
  /\ verify = [e \in Engines |-> "none"]
  /\ trust = [e \in Engines |-> "none"]
  /\ closing = [e \in Engines |-> "no"]
  /\ readyLeft = [e \in Engines |-> Off]
  /\ askLeft = [e \in Engines |-> Off]
  /\ pin \in Keys \cup {NoKey}
  /\ profile = TRUE

\* D1 answers or fails.
Database(e) ==
  LookUp(e) \/ PinInsert(e) \/ PinRead(e) \/ PinTouch(e) \/ DatabaseFails(e)

Dials(e) == TransportOpens(e) \/ TransportFails(e)

EngineStep(e) ==
  \/ Connect(e) \/ Dials(e) \/ HostKeyArrives(e) \/ ClientReady(e) \/ ClientFails(e)
  \/ ShellOpens(e) \/ ShellContinues(e)
  \/ ReadyTimeoutFires(e) \/ AskTimeoutFires(e)
  \/ Database(e) \/ Decide(e)
  \/ SessionCloses(e) \/ CloseFinishes(e)

Next ==
  \/ \E e \in Engines : EngineStep(e)
  \/ DeleteProfile
  \/ Tick

Spec == Init /\ [][Next]_vars

(***************************************************************************)
(* Fairness: time passes, timers fire, dials and D1 statements settle (the *)
(* factories have deadlines of their own), closing finishes.  The server   *)
(* need not answer and the user need not decide.                           *)
(***************************************************************************)
FairSpec ==
  /\ Spec
  /\ WF_vars(Tick)
  /\ \A e \in Engines :
       /\ WF_vars(Dials(e)) /\ WF_vars(Database(e))
       /\ WF_vars(ReadyTimeoutFires(e)) /\ WF_vars(AskTimeoutFires(e))
       /\ WF_vars(ShellContinues(e)) /\ WF_vars(CloseFinishes(e))

-----------------------------------------------------------------------------
TypeOK ==
  /\ state \in [Engines -> {"idle", "connecting", "ready", "closed"}]
  /\ step \in [Engines -> {"idle", "refused", "dialing", "handshake", "shell",
                           "opened", "done", "failed"}]
  /\ transport \in [Engines -> {"none", "held", "closing", "closed", "orphan"}]
  /\ key \in [Engines -> Keys \cup {NoKey}]
  /\ verify \in [Engines -> AtDatabase \cup {"none", "asking", "trusted", "refused"}]
  /\ trust \in [Engines -> {"none", "matched", "once", "remembered"}]
  /\ closing \in [Engines -> {"no", "started", "done"}]
  /\ readyLeft \in [Engines -> {Off} \cup 0..ReadyTimeout]
  /\ askLeft \in [Engines -> {Off} \cup 0..ConfirmTimeout]
  /\ pin \in Keys \cup {NoKey}
  /\ profile \in BOOLEAN

(***************************************************************************)
(* A pinned host key is never replaced by another one, however many        *)
(* sessions confirm different keys at once; only deleting the profile      *)
(* removes it.                                                             *)
(***************************************************************************)
PinIsForever == [][pin # NoKey /\ pin' # pin => DeleteProfile]_vars

(***************************************************************************)
(* An engine that trusts its key because it matched the pin, or because    *)
(* the user chose to remember it, trusts the key that is pinned: two       *)
(* sessions can never remember different keys for one target.              *)
(***************************************************************************)
TrustIsPinned ==
  \A e \in Engines :
    trust[e] \in {"matched", "remembered"} /\ profile => pin = key[e]

(***************************************************************************)
(* A closed engine holds no transport it knew of when it closed.  (One it  *)
(* was still dialing is left open: the orphan of TransportOpens.)          *)
(***************************************************************************)
ClosedHoldsNothing ==
  \A e \in Engines : closing[e] # "no" => transport[e] # "held" /\ readyLeft[e] = Off

(***************************************************************************)
(* A host-key question ends: by an answer, its timeout, or with the        *)
(* engine, even when it is asked by an engine that has closed already.     *)
(***************************************************************************)
QuestionEnds == \A e \in Engines : Asking(e) ~> ~Asking(e)

\* A dial settles within the timeouts: authenticated, or closed.
ConnectEnds ==
  \A e \in Engines : step[e] = "dialing" ~> step[e] \notin {"dialing", "handshake"}

\* Whoever hears that an engine failed or was closed also hears that it has closed.
ClosingEnds == \A e \in Engines : closing[e] = "started" ~> closing[e] = "done"

\* Nothing an engine waits for is waited for without end.
EngineSettles == QuestionEnds /\ ConnectEnds /\ ClosingEnds

(***************************************************************************)
(* The user has until confirmationExpiresAt to decide: while a question    *)
(* has time left, the handshake's own timer does not come due.  The code   *)
(* does not keep this: readyTimeout includes the time the user takes.      *)
(***************************************************************************)
ConfirmationWindow ==
  \A e \in Engines : Asking(e) /\ askLeft[e] > 0 => readyLeft[e] # 0

(***************************************************************************)
(* The engines keep the contract the session objects rely on.              *)
(***************************************************************************)
Phase(e) ==
  IF closing[e] # "no" THEN "closed"
  ELSE CASE step[e] \in {"shell", "opened"} -> "opening"
         [] step[e] = "done"               -> "ready"
         [] step[e] = "handshake"          -> CASE verify[e] \in {"none", "lookup"} -> "dialing"
                                                [] Asking(e) -> "confirming"
                                                [] OTHER     -> "authenticating"
         [] OTHER                          -> step[e]

Phases == [e \in Engines |-> Phase(e)]
Contract == INSTANCE EngineContract WITH phase <- Phases
KeepsContract == Contract!Spec
=============================================================================
