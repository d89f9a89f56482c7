----------------------------- MODULE SshSession -----------------------------
(***************************************************************************)
(* The life of one SSHSessionDO (apps/worker/src/durable/ssh-session.ts):  *)
(* a ticket is issued and redeemed for a WebSocket, the connect message    *)
(* takes a lease, writes the audit row and starts the SSH engine, and      *)
(* whatever ends the session has to undo all of it.                        *)
(*                                                                         *)
(* Every await of the code is a point where other events come in: the      *)
(* browser goes away, the deadline fires, the engine fails, the object     *)
(* crashes.  Between two awaits a handler is atomic.  Messages of a socket *)
(* are handled one at a time (messageQueues); close events and timers are  *)
(* not queued behind them.                                                 *)
(*                                                                         *)
(* Time is abstract: a ticket alarm, a deadline or a lease expiry may come *)
(* at any moment at which it is armed.  Renewal is module LeaseRenewal.    *)
(***************************************************************************)
EXTENDS Naturals, Sequences, FiniteSets

CONSTANTS Attempts,         \* WebSocket upgrades that present the ticket
          EngineMayReject,  \* may the engine refuse the profile or terminal?
          MaxCrashes        \* bound on crashes of the object

ASSUME RejectAssumption == EngineMayReject \in BOOLEAN
ASSUME CrashAssumption == MaxCrashes \in Nat

VARIABLES
  up,           \* the object is in memory
  ticket,       \* TICKET_STORAGE_KEY in durable storage: "none", "stored", "gone"
  upgrade,      \* where each upgrade attempt is in consumeTicket
  socket,       \* the accepted WebSocket; "gone": the close event is undelivered
  phase,        \* the socket's serialized attachment
  authorized,   \* authorizations.has(socket)
  live,         \* sessions.has(socket)
  deadline,     \* deadlines.has(socket)
  handler,      \* the await the connect handler is at, or "none"
  answer,       \* the registry's answer to acquire
  lease,        \* the registry holds a lease for this session
  wire,         \* requests on their way to the registry
  audit,        \* [queue: audit writes not done, closure: first finish() arguments]
  row,          \* connection_sessions: [status, reason]
  engine,       \* the SSH engine of the live session
  crashes,      \* crashes so far
  faults        \* history: what went wrong that no later step can repair

durableVars == <<ticket, lease, wire, row>>
memoryVars == <<authorized, live, deadline, handler, answer, audit, engine>>
vars == <<up, ticket, upgrade, socket, phase, authorized, live, deadline,
          handler, answer, lease, wire, audit, row, engine, crashes, faults>>

NoRow == [status |-> "none", reason |-> "none"]
NoClosure == [status |-> "none", reason |-> "none"]
NoAudit == [queue |-> << >>, closure |-> NoClosure]
Closed(reason) == [status |-> "closed", reason |-> reason]
Failed(reason) == [status |-> "error", reason |-> reason]

Final == {"closed", "error"}
AuditWrites == {"progress", "failure", "finish"}
Waiting == {"none", "acquiring", "limited", "returning", "inserting", "noting",
            "unwinding", "abandoning", "stopping", "failing", "disconnecting"}
Dialling == {"dialing", "confirming", "authenticating"}
EnginePhases == Dialling \cup {"none", "rejected", "opening", "ready", "closed"}

Open == socket = "open"

-----------------------------------------------------------------------------
(* SSHSessionAudit: writes are appended to one promise chain.              *)

Queue(writes) == [audit EXCEPT !.queue = @ \o writes]

\* finish(): the first call fixes what the row will say, later calls only wait.
Finish(chain, closure) ==
  IF chain.closure = NoClosure
  THEN [queue |-> Append(chain.queue, "finish"), closure |-> closure]
  ELSE chain

\* The next write of the chain reaches D1, or fails and is logged.
AuditWrite ==
  /\ up
  /\ audit.queue # << >>
  /\ audit' = [audit EXCEPT !.queue = Tail(@)]
  /\ \/ /\ row' = CASE Head(audit.queue) = "progress" -> [row EXCEPT !.status = "progress"]
                    [] Head(audit.queue) = "failure"  -> [row EXCEPT !.status = "error"]
                    [] Head(audit.queue) = "finish"   -> audit.closure
        /\ UNCHANGED faults
     \/ /\ faults' = faults \cup {"database"}
        /\ UNCHANGED row
  /\ UNCHANGED <<up, ticket, upgrade, socket, phase, authorized, live, deadline,
                 handler, answer, lease, wire, engine, crashes>>

-----------------------------------------------------------------------------
(* cleanup(): drop the socket from every map; a live session is closed,    *)
(* its lease released and its audit finished, all started in this turn.    *)
(* closeSocket() closes the WebSocket once those have settled.             *)

DropSession ==
  /\ deadline' = FALSE
  /\ authorized' = FALSE
  /\ live' = FALSE
  /\ engine' = IF live THEN "closed" ELSE engine
  /\ wire' = IF live THEN wire \cup {"release"} ELSE wire

Cleanup(closure) ==
  /\ DropSession
  /\ audit' = IF live THEN Finish(audit, closure) ELSE audit

Settled == "release" \notin wire /\ audit.queue = << >>

\* Without a live session there is nothing to wait for.
SocketAfterwards ==
  IF ~Open THEN socket ELSE IF live THEN "closing" ELSE "closed"

CloseSocket(closure) == Cleanup(closure) /\ socket' = SocketAfterwards

SocketCloses ==
  /\ up
  /\ socket = "closing"
  /\ Settled
  /\ socket' = "closed"
  /\ UNCHANGED <<up, upgrade, phase, crashes, faults>>
  /\ UNCHANGED <<durableVars, memoryVars>>

-----------------------------------------------------------------------------
(* Ticket: issueTicket, consumeTicket, upgrade and alarm.                  *)

IssueTicket ==
  /\ up
  /\ ticket = "none"
  /\ ticket' = "stored"
  /\ UNCHANGED <<up, upgrade, socket, phase, lease, wire, row, crashes, faults>>
  /\ UNCHANGED memoryVars

\* Faulty variant of TakeTicket: the ticket is looked at but not deleted.
TakeTicketKept(a) ==
  /\ up
  /\ upgrade[a] = "none"
  /\ ticket = "stored"
  /\ \E verdict \in {"taken", "refused"} : upgrade' = [upgrade EXCEPT ![a] = verdict]
  /\ UNCHANGED <<up, ticket, socket, phase, lease, wire, row, crashes, faults>>
  /\ UNCHANGED memoryVars

\* One transaction: whoever finds the ticket deletes it, good request or bad.
\* Only a ticket of the wrong length is refused without looking.
TakeTicket(a) ==
  /\ up
  /\ upgrade[a] = "none"
  /\ \E verdict \in {"taken", "refused"} :
       /\ upgrade' = [upgrade EXCEPT ![a] = verdict]
       /\ \/ ticket = "stored" /\ ticket' = "gone"
          \/ verdict = "refused" /\ UNCHANGED ticket
  /\ UNCHANGED <<up, socket, phase, lease, wire, row, crashes, faults>>
  /\ UNCHANGED memoryVars

\* alarm(): an unused ticket is deleted when it expires.
TicketAlarm ==
  /\ up
  /\ ticket = "stored"
  /\ ticket' = "gone"
  /\ UNCHANGED <<up, upgrade, socket, phase, lease, wire, row, crashes, faults>>
  /\ UNCHANGED memoryVars

\* The profile has been opened with the ticket: the WebSocket is accepted.
Accept(a) ==
  /\ up
  /\ upgrade[a] = "taken"
  /\ upgrade' = [upgrade EXCEPT ![a] = "accepted"]
  /\ socket' = "open"
  /\ phase' = "waiting"
  /\ authorized' = TRUE
  /\ deadline' = TRUE
  /\ UNCHANGED <<up, live, handler, answer, audit, engine, crashes, faults>>
  /\ UNCHANGED durableVars

\* The connect deadline of an idle socket.
DeadlineFires ==
  /\ up
  /\ deadline
  /\ CloseSocket(Failed("internal_error"))
  /\ UNCHANGED <<up, ticket, upgrade, phase, handler, answer, lease, row,
                 crashes, faults>>

-----------------------------------------------------------------------------
(* The browser's side of the socket.                                       *)

\* While the object is down, Crash covers a browser that leaves.
BrowserLeaves ==
  /\ up
  /\ socket \in {"open", "closing"}
  /\ socket' = "gone"
  /\ UNCHANGED <<up, upgrade, phase, crashes, faults>>
  /\ UNCHANGED <<durableVars, memoryVars>>

\* Faulty variant of CloseEvent: the event does not reach cleanup().
CloseEventIgnored ==
  /\ up
  /\ socket = "gone"
  /\ socket' = "closed"
  /\ UNCHANGED <<up, upgrade, phase, crashes, faults>>
  /\ UNCHANGED <<durableVars, memoryVars>>

\* webSocketClose or webSocketError is delivered.
CloseEvent ==
  /\ up
  /\ socket = "gone"
  /\ socket' = "closed"
  /\ \E closure \in {Closed("user_disconnect"), Failed("network_error")} :
        Cleanup(closure)
  /\ UNCHANGED <<up, ticket, upgrade, phase, handler, answer, lease, row,
                 crashes, faults>>

\* A message after the session ended finds no authorization: fatal.
StrayMessage ==
  /\ up
  /\ handler = "none"
  /\ socket = "closing"
  /\ socket' = "closed"
  /\ UNCHANGED <<up, upgrade, phase, crashes, faults>>
  /\ UNCHANGED <<durableVars, memoryVars>>

\* The "disconnect" command, whose handler waits for the whole closeSocket.
Disconnect ==
  /\ up
  /\ handler = "none"
  /\ live
  /\ handler' = "disconnecting"
  /\ CloseSocket(Closed("user_disconnect"))
  /\ UNCHANGED <<up, ticket, upgrade, phase, answer, lease, row, crashes, faults>>

Disconnected ==
  /\ up
  /\ handler = "disconnecting"
  /\ Settled
  /\ handler' = "none"
  /\ UNCHANGED <<up, ticket, upgrade, socket, phase, authorized, live, deadline,
                 answer, lease, wire, audit, row, engine, crashes, faults>>

\* A session command before "connect", or a malformed message: fatal.
BadMessage ==
  /\ up
  /\ handler = "none"
  /\ authorized \/ live
  /\ CloseSocket(Failed("internal_error"))
  /\ UNCHANGED <<up, ticket, upgrade, phase, handler, answer, lease, row,
                 crashes, faults>>

-----------------------------------------------------------------------------
(* handleClientMessage "connect", one action per await.  A handler that    *)
(* throws ends in a fatal closeSocket (processWebSocketMessage).           *)

Connect ==
  /\ up
  /\ handler = "none"
  /\ authorized /\ ~live
  /\ deadline' = FALSE
  /\ handler' = "acquiring"
  /\ answer' = "none"
  /\ wire' = wire \cup {"acquire"}
  /\ UNCHANGED <<up, ticket, upgrade, socket, phase, authorized, live, lease,
                 audit, row, engine, crashes, faults>>

\* 409: security event, error message, and the socket is closed.
LimitReached ==
  /\ up
  /\ \/ /\ handler = "acquiring" /\ answer = "refused"
        /\ handler' = "limited"
        /\ UNCHANGED <<socket, authorized, live, deadline, engine, wire, audit>>
     \/ /\ handler = "limited"
        /\ handler' = "none"
        /\ CloseSocket(Failed("internal_error"))
  /\ UNCHANGED <<up, ticket, upgrade, phase, answer, lease, row, crashes, faults>>

\* The acquire call throws, although the registry may have granted the lease.
AcquireThrows ==
  /\ up
  /\ handler = "acquiring"
  /\ handler' = "none"
  /\ faults' = faults \cup {"registry"}
  /\ CloseSocket(Failed("internal_error"))
  /\ UNCHANGED <<up, ticket, upgrade, phase, answer, lease, row, crashes>>

StillWanted == Open /\ authorized

\* Lease in hand: look again whether anybody still wants the session.
LeaseInHand ==
  /\ up
  /\ handler = "acquiring"
  /\ answer = "granted"
  /\ \/ /\ StillWanted
        /\ handler' = "inserting"
        /\ UNCHANGED wire
     \/ /\ ~StillWanted
        /\ handler' = "returning"
        /\ wire' = wire \cup {"release"}
  /\ UNCHANGED <<up, ticket, upgrade, socket, phase, authorized, live, deadline,
                 answer, lease, audit, row, engine, crashes, faults>>

\* A release that throws here is tried once more before the handler fails.
LeaseReturned ==
  /\ up
  /\ handler = "returning"
  /\ "release" \notin wire
  /\ \/ handler' = "none" /\ UNCHANGED wire
     \/ "registry" \in faults /\ handler' = "failing" /\ wire' = wire \cup {"release"}
  /\ UNCHANGED <<up, ticket, upgrade, socket, phase, authorized, live, deadline,
                 answer, lease, audit, row, engine, crashes, faults>>

\* SSHSessionAudit.start: insert the row, then the "authorized" event; when
\* the event fails the row is finished before the error is passed on.  The
\* insert fails when a first connect of this session has left its row.
StartAudit ==
  /\ up
  /\ \/ /\ handler = "inserting" /\ row = NoRow
        /\ row' = [status |-> "authorizing", reason |-> "none"]
        /\ handler' = "noting"
        /\ UNCHANGED <<wire, faults>>
     \/ /\ handler = "inserting"
        /\ handler' = "failing"
        /\ wire' = wire \cup {"release"}
        /\ UNCHANGED <<row, faults>>
     \/ /\ handler = "noting"
        /\ handler' = "unwinding"
        /\ UNCHANGED <<wire, row, faults>>
     \/ /\ handler = "unwinding"
        /\ handler' = "failing"
        /\ wire' = wire \cup {"release"}
        /\ \/ row' = Failed("internal_error") /\ UNCHANGED faults
           \/ faults' = faults \cup {"database"} /\ UNCHANGED row
  /\ UNCHANGED <<up, ticket, upgrade, socket, phase, authorized, live, deadline,
                 answer, lease, audit, engine, crashes>>

\* Faulty variant of AbandonStart: the audit is finished, the lease kept.
AbandonStartKeepingLease ==
  /\ up
  /\ handler = "noting"
  /\ ~StillWanted
  /\ handler' = "abandoning"
  /\ audit' = Finish(audit, Closed("user_disconnect"))
  /\ UNCHANGED <<up, ticket, upgrade, socket, phase, authorized, live, deadline,
                 answer, lease, wire, row, engine, crashes, faults>>

\* The audit has started but the socket has gone: undo both, in parallel.
AbandonStart ==
  /\ up
  /\ handler = "noting"
  /\ ~StillWanted
  /\ handler' = "abandoning"
  /\ wire' = wire \cup {"release"}
  /\ audit' = Finish(audit, Closed("user_disconnect"))
  /\ UNCHANGED <<up, ticket, upgrade, socket, phase, authorized, live, deadline,
                 answer, lease, row, engine, crashes, faults>>

StartAbandoned ==
  /\ up
  /\ handler = "abandoning"
  /\ Settled
  /\ handler' = "none"
  /\ UNCHANGED <<up, ticket, upgrade, socket, phase, authorized, live, deadline,
                 answer, lease, wire, audit, row, engine, crashes, faults>>

\* Faulty variant of GoLive: the socket is not looked at again.
GoLiveUnchecked ==
  /\ up
  /\ handler = "noting"
  /\ phase' = "connecting"
  /\ live' = TRUE
  /\ authorized' = FALSE
  /\ handler' = "none"
  /\ engine' = "dialing" /\ audit' = Queue(<<"progress">>)
  /\ UNCHANGED <<up, ticket, upgrade, socket, deadline, answer, lease, wire, row,
                 crashes, faults>>

\* From here on the session is live.  engine.connect() is not awaited: it
\* starts dialing, or rejects before it has told anybody, and that is ignored.
GoLive ==
  /\ up
  /\ handler = "noting"
  /\ StillWanted
  /\ phase' = "connecting"
  /\ live' = TRUE
  /\ authorized' = FALSE
  /\ handler' = "none"
  /\ \/ engine' = "dialing" /\ audit' = Queue(<<"progress">>)
     \/ EngineMayReject /\ engine' = "rejected" /\ UNCHANGED audit
  /\ UNCHANGED <<up, ticket, upgrade, socket, deadline, answer, lease, wire, row,
                 crashes, faults>>

\* Creating the transport or the engine throws: finish, then release, then fail.
StartThrows ==
  /\ up
  /\ \/ /\ handler = "noting" /\ StillWanted
        /\ handler' = "stopping"
        /\ audit' = Finish(audit, Failed("internal_error"))
        /\ UNCHANGED wire
     \/ /\ handler = "stopping" /\ audit.queue = << >>
        /\ handler' = "failing"
        /\ wire' = wire \cup {"release"}
        /\ UNCHANGED audit
  /\ UNCHANGED <<up, ticket, upgrade, socket, phase, authorized, live, deadline,
                 answer, lease, row, engine, crashes, faults>>

StartFailed ==
  /\ up
  /\ handler = "failing"
  /\ "release" \notin wire
  /\ handler' = "none"
  /\ CloseSocket(Failed("internal_error"))
  /\ UNCHANGED <<up, ticket, upgrade, phase, answer, lease, row, crashes, faults>>

-----------------------------------------------------------------------------
(* Events of the live session.                                             *)

\* handleEngineEvent drops what the engine reports once the session is not
\* live or its socket not open; otherwise audit gets the writes.
Heard == live /\ Open

\* The engine gets on: status and host-key events become audit writes.
EngineProgress ==
  /\ up
  /\ \/ engine = "dialing" /\ engine' \in {"confirming", "authenticating"}
     \/ engine = "authenticating" /\ engine' = "opening"
     \/ engine = "opening" /\ engine' = "ready"
  /\ audit' = IF Heard /\ engine' # "opening" THEN Queue(<<"progress">>) ELSE audit
  /\ phase' = IF engine' = "ready" /\ live THEN "connected" ELSE phase
  /\ UNCHANGED <<up, ticket, upgrade, socket, authorized, live, deadline, handler,
                 answer, lease, wire, row, crashes, faults>>

Running == engine \in Dialling \cup {"opening", "ready"}

\* An error event, or a closed event, of an engine that is then closed.
EngineEnds ==
  /\ up
  /\ Running
  /\ \/ /\ Heard
        /\ \/ /\ DropSession
              /\ socket' = SocketAfterwards
              /\ audit' = Finish(Queue(<<"failure">>), Failed("engine_error"))
           \/ CloseSocket(Closed("remote_closed"))
     \/ /\ ~Heard
        /\ engine' = "closed"
        /\ UNCHANGED <<deadline, authorized, live, socket, wire, audit>>
  /\ UNCHANGED <<up, ticket, upgrade, phase, handler, answer, lease, row,
                 crashes, faults>>

\* "host-key-decision".  On a rejection verifyHostKey runs first, so its error
\* event ends the session before the handler adds its own write.
HostKeyDecision ==
  /\ up
  /\ handler = "none"
  /\ live /\ engine = "confirming"
  /\ \/ /\ engine' = "authenticating"
        /\ audit' = Queue(<<"progress", "progress">>)
        /\ UNCHANGED <<deadline, authorized, live, socket, wire>>
     \/ /\ Open
        /\ DropSession
        /\ socket' = SocketAfterwards
        /\ audit' = [Finish(Queue(<<"failure">>), Failed("host_key_rejected"))
                       EXCEPT !.queue = Append(@, "failure")]
     \/ /\ ~Open
        /\ engine' = "closed"
        /\ audit' = Queue(<<"failure">>)
        /\ UNCHANGED <<deadline, authorized, live, socket, wire>>
  /\ UNCHANGED <<up, ticket, upgrade, phase, handler, answer, lease, row,
                 crashes, faults>>

\* The renewal was refused or failed too often (module LeaseRenewal).
LeaseLost ==
  /\ up
  /\ live
  /\ CloseSocket(Failed("internal_error"))
  /\ UNCHANGED <<up, ticket, upgrade, phase, handler, answer, lease, row,
                 crashes, faults>>

-----------------------------------------------------------------------------
(* The registry, as this session sees it (module SessionRegistry).         *)

RegistryAcquires ==
  /\ "acquire" \in wire
  /\ wire' = wire \ {"acquire"}
  /\ \E verdict \in {"granted", "refused"} :
       /\ lease' = (lease \/ verdict = "granted")
       /\ answer' = IF handler = "acquiring" THEN verdict ELSE answer
  /\ UNCHANGED <<up, ticket, upgrade, socket, phase, authorized, live, deadline,
                 handler, audit, row, engine, crashes, faults>>

RegistryReleases ==
  /\ "release" \in wire
  /\ wire' = wire \ {"release"}
  /\ \/ lease' = FALSE /\ UNCHANGED faults
     \/ faults' = faults \cup {"registry"} /\ UNCHANGED lease
  /\ UNCHANGED <<up, ticket, upgrade, socket, phase, crashes, row>>
  /\ UNCHANGED memoryVars

\* A lease nobody renews; a start-up is shorter than a lease.
LeaseExpires ==
  /\ lease
  /\ ~live /\ handler = "none"
  /\ lease' = FALSE
  /\ UNCHANGED <<up, ticket, upgrade, socket, phase, wire, row, crashes, faults>>
  /\ UNCHANGED memoryVars

-----------------------------------------------------------------------------
(* Crash and restart of the object.  What was in memory is gone, requests  *)
(* under way may be lost, and the socket may or may not survive.           *)

Crash ==
  /\ up
  /\ crashes < MaxCrashes
  /\ crashes' = crashes + 1
  /\ up' = FALSE
  /\ authorized' = FALSE /\ live' = FALSE /\ deadline' = FALSE
  /\ handler' = "none" /\ answer' = "none" /\ audit' = NoAudit
  /\ engine' = IF engine = "none" THEN "none" ELSE "closed"
  /\ upgrade' = [a \in Attempts |-> IF upgrade[a] = "taken" THEN "refused"
                                    ELSE upgrade[a]]
  /\ wire' \in SUBSET wire
  /\ \/ socket \in {"none", "open", "closing"} /\ socket' = socket
     \/ socket # "none" /\ socket' = "closed"
  /\ faults' = faults \cup (IF phase = "waiting" THEN {"crash while starting"} ELSE {})
                      \cup (IF socket' = "closed" THEN {"crash detached"} ELSE {})
  /\ UNCHANGED <<ticket, phase, lease, row>>

\* Faulty variant of Restart: rows are finished whatever their status.
RestartBlindly ==
  /\ ~up
  /\ up' = TRUE
  /\ IF socket \in {"open", "closing"} /\ phase # "waiting"
     THEN row' = Failed("worker_restart") /\ wire' = wire \cup {"release"}
     ELSE UNCHANGED <<row, wire>>
  /\ socket' = IF socket = "none" THEN socket ELSE "closed"
  /\ UNCHANGED <<ticket, upgrade, phase, lease, crashes, faults>>
  /\ UNCHANGED memoryVars

\* The constructor: recoverRestartedSocket for a socket that survived.
Restart ==
  /\ ~up
  /\ up' = TRUE
  /\ IF socket \in {"open", "closing"}
     THEN /\ socket' = "closed"
          /\ \/ /\ phase # "waiting"
                /\ wire' = wire \cup {"release"}
                /\ \/ /\ row' = IF row.status \in Final \cup {"none"} THEN row
                                ELSE Failed("worker_restart")
                      /\ UNCHANGED faults
                   \/ /\ faults' = faults \cup {"database"}
                      /\ UNCHANGED row
             \/ /\ phase # "waiting"    \* the query for the row fails
                /\ faults' = faults \cup {"database", "registry"}
                /\ UNCHANGED <<row, wire>>
             \/ /\ phase = "waiting"
                /\ UNCHANGED <<row, wire, faults>>
     ELSE UNCHANGED <<socket, row, wire, faults>>
  /\ UNCHANGED <<ticket, upgrade, phase, lease, crashes>>
  /\ UNCHANGED memoryVars

Init ==
  /\ up = TRUE
  /\ ticket = "none"
  /\ upgrade = [a \in Attempts |-> "none"]
  /\ socket = "none" /\ phase = "none"
  /\ authorized = FALSE /\ live = FALSE /\ deadline = FALSE
  /\ handler = "none" /\ answer = "none"
  /\ lease = FALSE /\ wire = {}
  /\ audit = NoAudit /\ row = NoRow
  /\ engine = "none"
  /\ crashes = 0 /\ faults = {}

\* What users, the network and the platform may do but need not do.
Environment ==
  \/ IssueTicket \/ TicketAlarm
  \/ \E a \in Attempts : TakeTicket(a)
  \/ BrowserLeaves \/ StrayMessage \/ Disconnect \/ BadMessage
  \/ Connect \/ HostKeyDecision
  \/ LeaseLost \/ LeaseExpires
  \/ Crash

\* What goes on by itself: every pending call of the handlers settles.
Handlers ==
  \/ LimitReached \/ AcquireThrows \/ LeaseInHand \/ LeaseReturned
  \/ StartAudit \/ AbandonStart \/ StartAbandoned
  \/ GoLive \/ StartThrows \/ StartFailed \/ Disconnected

Next ==
  \/ Environment
  \/ Handlers
  \/ \E a \in Attempts : Accept(a)
  \/ DeadlineFires \/ CloseEvent \/ SocketCloses
  \/ EngineProgress \/ EngineEnds
  \/ AuditWrite
  \/ RegistryAcquires \/ RegistryReleases
  \/ Restart

Spec == Init /\ [][Next]_vars

(***************************************************************************)
(* Fairness: calls to the registry and to D1 settle, timers and close      *)
(* events are delivered, the engine's connect and ready timeouts end what  *)
(* does not authenticate (opening the shell has no timeout), and the       *)
(* platform restarts a crashed object.                                     *)
(***************************************************************************)
FairSpec ==
  /\ Spec
  /\ WF_vars(Handlers) /\ WF_vars(AuditWrite)
  /\ WF_vars(RegistryAcquires) /\ WF_vars(RegistryReleases)
  /\ WF_vars(DeadlineFires) /\ WF_vars(CloseEvent) /\ WF_vars(SocketCloses)
  /\ WF_vars(EngineEnds /\ engine \in Dialling)
  /\ WF_vars(Restart)

-----------------------------------------------------------------------------
Reasons == {"internal_error", "user_disconnect", "network_error", "remote_closed",
            "engine_error", "host_key_rejected", "worker_restart"}
Outcomes == [status : Final, reason : Reasons]
Chains == [queue : Seq(AuditWrites), closure : Outcomes \cup {NoClosure}]
Rows == [status : {"none", "authorizing", "progress"} \cup Final,
         reason : Reasons \cup {"none"}]

TypeOK ==
  /\ up \in BOOLEAN
  /\ ticket \in {"none", "stored", "gone"}
  /\ upgrade \in [Attempts -> {"none", "taken", "refused", "accepted"}]
  /\ socket \in {"none", "open", "gone", "closing", "closed"}
  /\ phase \in {"none", "waiting", "connecting", "connected"}
  /\ authorized \in BOOLEAN /\ live \in BOOLEAN /\ deadline \in BOOLEAN
  /\ handler \in Waiting
  /\ answer \in {"none", "granted", "refused"}
  /\ lease \in BOOLEAN /\ wire \in SUBSET {"acquire", "release"}
  /\ audit \in Chains /\ row \in Rows
  /\ engine \in EnginePhases
  /\ crashes \in 0..MaxCrashes
  /\ faults \subseteq {"registry", "database", "crash while starting", "crash detached"}

(***************************************************************************)
(* README.md, "one-time SSH tickets": however upgrades, the expiry alarm   *)
(* and crashes interleave, one ticket opens at most one WebSocket.         *)
(***************************************************************************)
OneSocketPerTicket ==
  \A a, b \in Attempts :
    upgrade[a] \in {"taken", "accepted"} /\ upgrade[b] \in {"taken", "accepted"} => a = b

(***************************************************************************)
(* A live session is accounted for: its lease is held and not being        *)
(* released, its audit row exists and is not final, and its socket is      *)
(* marked so that a restart would find and finish it.                      *)
(***************************************************************************)
LiveIsAccounted ==
  live =>
    /\ lease /\ "release" \notin wire
    /\ row.status \notin {"none", "closed"}
    /\ audit.closure = NoClosure
    /\ phase \in {"connecting", "connected"}
    /\ socket \in {"open", "gone"}

\* Nothing of the session is under way any more.
Quiet ==
  /\ up
  /\ ~live /\ ~authorized
  /\ handler = "none"
  /\ wire = {} /\ audit.queue = << >>
  /\ \A a \in Attempts : upgrade[a] # "taken"

(***************************************************************************)
(* However a session ends (startup abandoned halfway, the limit reached,   *)
(* two causes at once, a crash with its socket attached), nothing is left  *)
(* behind: the engine is closed, the lease returned unless a registry call *)
(* failed or a crash hid it, the row final unless a write failed or a      *)
(* crash hid it.                                                           *)
(***************************************************************************)
NothingLeftBehind ==
  Quiet =>
    /\ engine \in {"none", "closed"}
    /\ lease => faults \cap {"registry", "crash while starting", "crash detached"} # {}
    /\ row.status \notin Final \cup {"none"}
         => faults \cap {"database", "crash while starting", "crash detached"} # {}

(***************************************************************************)
(* A row that has become final never shows a session in progress again,    *)
(* although writes are still queued behind finish() and a restarted object *)
(* finishes rows too; and its outcome is never rewritten, by a restart     *)
(* least of all.                                                           *)
(***************************************************************************)
OutcomeIsKept ==
  [][row.status \in Final =>
       /\ row'.status \in Final
       /\ row.reason # "none" => row'.reason = row.reason]_vars

(***************************************************************************)
(* A connection attempt does not hang: a session that went live            *)
(* authenticates or ends within the engine's timeouts (CONNECT_TIMEOUT_MS) *)
(***************************************************************************)
ConnectSettles == live ~> engine \in {"opening", "ready"} \/ ~live

(***************************************************************************)
(* Nothing of a session stays undecided.  An accepted socket does not stay *)
(* half-open: the connect deadline closes it, it is refused, or its        *)
(* session becomes live.  A live session authenticates or ends, unless the *)
(* engine has rejected it (ConnectSettles).  And when the browser's socket *)
(* has gone, everything is settled, so NothingLeftBehind applies.          *)
(***************************************************************************)
SessionSettles ==
  /\ authorized ~> ~authorized
  /\ live ~> engine \in {"opening", "ready", "rejected"} \/ ~live
  /\ socket \in {"gone", "closed"} ~> Quiet

(***************************************************************************)
(* The session keeps the contract about its lease that it shares with      *)
(* LeaseRenewal: in use between the registry's consent and the release.    *)
(***************************************************************************)
LeaseStage ==
  IF live THEN "live"
  ELSE IF handler = "acquiring"
       THEN [none |-> "asking", granted |-> "granted", refused |-> "out"][answer]
  ELSE IF handler \in {"inserting", "noting", "unwinding", "stopping"} THEN "holding"
  ELSE "out"

LeaseUse == INSTANCE LeaseContract WITH stage <- LeaseStage, held <- lease
KeepsLeaseContract == LeaseUse!Spec
=============================================================================
