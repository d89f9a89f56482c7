-------------------------- MODULE SshSessionProofs --------------------------
(***************************************************************************)
(* Proofs about one SSHSessionDO, for any number of upgrade attempts and   *)
(* of crashes: one socket per ticket, a live session has its lease and its *)
(* row, an ended one leaves neither behind, and an outcome stays.          *)
(***************************************************************************)
EXTENDS SshSession, TLAPS

\* The crashes that recovery cannot see.
Hidden == faults \cap {"crash while starting", "crash detached"} # {}

InQueue(chain, write) == \E i \in 1..Len(chain.queue) : chain.queue[i] = write

\* The ticket is gone before the one socket of this object is accepted, and
\* nothing is touched before that.
TicketFirst ==
  /\ ticket # "gone" => \A a \in Attempts : upgrade[a] \notin {"taken", "accepted"}
  /\ socket # "none" => phase # "none" /\ \E a \in Attempts : upgrade[a] = "accepted"
  /\ socket = "none" =>
       /\ ~authorized /\ ~live /\ ~deadline /\ ~lease
       /\ phase = "none" /\ handler = "none" /\ engine = "none"
       /\ wire = {} /\ audit = NoAudit /\ row = NoRow

\* Who may be active at the same time.
Roles ==
  /\ authorized => ~live /\ phase = "waiting" /\ socket \in {"open", "gone"}
  /\ live => /\ handler = "none"
             /\ phase \in {"connecting", "connected"}
             /\ socket \in {"open", "gone"}
  /\ deadline => authorized /\ handler = "none"
  /\ engine \notin {"none", "closed"} => live
  /\ ~up => /\ ~authorized /\ ~live /\ handler = "none"
            /\ audit = NoAudit
            /\ \/ socket = "none" \/ Hidden
               \/ socket \in {"open", "closing"} /\ phase \in {"connecting", "connected"}

\* What the connect handler knows at each of its awaits.
AtAwait ==
  /\ handler \in {"none", "acquiring"} /\ StillWanted => row = NoRow /\ audit = NoAudit
  /\ handler = "acquiring" => phase = "waiting"
  /\ handler = "inserting" => row = NoRow /\ audit = NoAudit
  /\ handler \in {"noting", "unwinding"} =>
       row = [status |-> "authorizing", reason |-> "none"] /\ audit = NoAudit
  /\ handler \in {"returning", "abandoning"} => ~StillWanted
  /\ handler = "disconnecting" => ~authorized

HoldsLease ==
  \/ live
  \/ handler \in {"inserting", "noting", "unwinding", "stopping"}
  \/ handler = "acquiring" /\ answer = "granted"

\* Where the lease is, and who may be giving it back.
LeaseTraced ==
  /\ HoldsLease => lease
  /\ lease => HoldsLease \/ "release" \in wire \/ ~up \/ "registry" \in faults \/ Hidden
  /\ "release" \in wire =>
       \/ handler \in {"returning", "failing", "abandoning", "disconnecting"}
       \/ handler = "none" /\ ~authorized /\ ~live
  /\ "acquire" \in wire =>
       \/ handler = "acquiring" /\ answer = "none"
       \/ "registry" \in faults \/ Hidden
  /\ handler = "acquiring" /\ answer # "none" => "acquire" \notin wire

\* An audit chain fits the row it writes: progress comes first, finish() once,
\* and what has an outcome is not finished again.
Fits(chain, r) ==
  /\ chain.queue # << >> => r.status # "none"
  /\ \A i \in 1..Len(chain.queue) :
       chain.queue[i] = "progress" =>
         r.status \notin Final /\ \A j \in 1..i : chain.queue[j] = "progress"
  /\ \A i, j \in 1..Len(chain.queue) :
       chain.queue[i] = "finish" /\ chain.queue[j] = "finish" => i = j
  /\ InQueue(chain, "finish") => chain.closure # NoClosure /\ r.reason = "none"
  /\ r.status = "closed" => r.reason # "none"
  /\ r.reason # "none" => r.status \in Final

\* What will make the row final.
RowTraced ==
  /\ live => row.status # "none" /\ audit.closure = NoClosure /\ row.reason = "none"
  /\ Running => row.status \notin Final /\ audit.queue \in Seq({"progress"})
  /\ row.status \in {"authorizing", "progress"} =>
       \/ live \/ handler \in {"noting", "unwinding"} \/ InQueue(audit, "finish") \/ ~up
       \/ "database" \in faults \/ Hidden

SessionInv ==
  /\ TypeOK
  /\ OneSocketPerTicket
  /\ TicketFirst
  /\ Roles
  /\ AtAwait
  /\ LeaseTraced
  /\ Fits(audit, row)
  /\ RowTraced

LEMMA SessionInvInit == Init => SessionInv
<1> SUFFICES ASSUME Init PROVE SessionInv
  OBVIOUS
<1> USE DEF Init
<1>1. TypeOK
  <2>1. audit \in Chains /\ row \in Rows
    BY DEF Chains, Rows, NoAudit, NoRow, AuditWrites
  <2>2. /\ crashes \in 0..MaxCrashes
        /\ upgrade \in [Attempts -> {"none", "taken", "refused", "accepted"}]
    BY CrashAssumption
  <2>3. handler \in Waiting /\ engine \in EnginePhases
    BY DEF Waiting, EnginePhases
  <2> QED BY <2>1, <2>2, <2>3 DEF TypeOK
<1>2. OneSocketPerTicket /\ TicketFirst /\ Roles
  BY DEF OneSocketPerTicket, TicketFirst, Roles
<1>3. AtAwait /\ LeaseTraced
  BY DEF AtAwait, StillWanted, Open, LeaseTraced, HoldsLease
<1>4. Fits(audit, row)
  BY DEF Fits, InQueue, NoAudit, NoRow, Final
<1>5. RowTraced
  BY DEF RowTraced, Running, Dialling, NoRow
<1> QED BY <1>1, <1>2, <1>3, <1>4, <1>5 DEF SessionInv

-----------------------------------------------------------------------------
(* The audit chain.                                                        *)

LEMMA ProgressFits ==
  ASSUME NEW chain \in Chains, NEW r \in Rows, chain.queue \in Seq({"progress"}),
         r.status \notin Final \cup {"none"}, r.reason = "none"
  PROVE  Fits(chain, r)
<1>1. \A i \in 1..Len(chain.queue) : chain.queue[i] = "progress"
  OBVIOUS
<1>2. \A i \in 1..Len(chain.queue) : \A j \in 1..i : chain.queue[j] = "progress"
  <2>1. Len(chain.queue) \in Nat
    OBVIOUS
  <2> QED BY <1>1, <2>1
<1>3. ~InQueue(chain, "finish")
  BY <1>1 DEF InQueue
<1> QED BY <1>1, <1>2, <1>3 DEF Fits, Final

LEMMA MoreProgress ==
  ASSUME NEW chain \in Chains, chain.queue \in Seq({"progress"}),
         NEW writes \in Seq({"progress"})
  PROVE  /\ [chain EXCEPT !.queue = @ \o writes] \in Chains
         /\ [chain EXCEPT !.queue = @ \o writes].queue \in Seq({"progress"})
         /\ [chain EXCEPT !.queue = @ \o writes].closure = chain.closure
<1>1. chain.queue \o writes \in Seq({"progress"})
  OBVIOUS
<1>2. chain.queue \o writes \in Seq(AuditWrites)
  BY <1>1 DEF AuditWrites
<1> QED BY <1>1, <1>2 DEF Chains

LEMMA FailureFits ==
  ASSUME NEW chain \in Chains, NEW r \in Rows, Fits(chain, r), r.status # "none"
  PROVE  LET more == [chain EXCEPT !.queue = @ \o <<"failure">>] IN
         /\ more \in Chains /\ more.closure = chain.closure
         /\ Fits(more, r)
         /\ InQueue(chain, "finish") <=> InQueue(more, "finish")
<1> DEFINE more == [chain EXCEPT !.queue = @ \o <<"failure">>]
<1>1. chain.queue \in Seq(AuditWrites) /\ "failure" \in AuditWrites
  BY DEF Chains, AuditWrites
<1>2. more = [queue |-> chain.queue \o <<"failure">>, closure |-> chain.closure]
  <2>1. PICK q : q = chain.queue \o <<"failure">>
    OBVIOUS
  <2>2. more = [chain EXCEPT !.queue = q]
    BY <2>1
  <2>3. more = [queue |-> q, closure |-> chain.closure]
    BY <2>2 DEF Chains
  <2> QED BY <2>1, <2>3
<1>3. more \in Chains
  BY <1>1, <1>2 DEF Chains
<1>4. /\ Len(more.queue) = Len(chain.queue) + 1
      /\ more.queue[Len(chain.queue) + 1] = "failure"
      /\ \A i \in 1..Len(chain.queue) : more.queue[i] = chain.queue[i]
  BY <1>1, <1>2
<1>5. InQueue(chain, "finish") <=> InQueue(more, "finish")
  BY <1>1, <1>4 DEF InQueue
<1>6. Len(chain.queue) \in Nat
  BY <1>1
<1>7. Fits(more, r)
  BY <1>2, <1>4, <1>5, <1>6 DEF Fits
<1> QED BY <1>2, <1>3, <1>5, <1>7

LEMMA FinishFits ==
  ASSUME NEW chain \in Chains, NEW r \in Rows, Fits(chain, r), r.status # "none",
         r.reason = "none", chain.closure = NoClosure, NEW closure \in Outcomes
  PROVE  LET more == Finish(chain, closure) IN
         /\ more \in Chains
         /\ Fits(more, r)
         /\ InQueue(more, "finish")
<1> DEFINE more == Finish(chain, closure)
<1>1. chain.queue \in Seq(AuditWrites) /\ "finish" \in AuditWrites
  BY DEF Chains, AuditWrites
<1>2. more = [queue |-> Append(chain.queue, "finish"), closure |-> closure]
  BY DEF Finish
<1>3. more \in Chains
  BY <1>1, <1>2 DEF Chains
<1>4. /\ Len(more.queue) = Len(chain.queue) + 1
      /\ more.queue[Len(chain.queue) + 1] = "finish"
      /\ \A i \in 1..Len(chain.queue) : more.queue[i] = chain.queue[i]
  BY <1>1, <1>2
<1>5. Len(chain.queue) \in Nat
  BY <1>1
<1>6. InQueue(more, "finish")
  BY <1>4, <1>5 DEF InQueue
<1>7. more.closure # NoClosure
  BY <1>2 DEF Outcomes, NoClosure, Reasons
<1>8. \A i \in 1..Len(chain.queue) : chain.queue[i] # "finish"
  BY DEF Fits, InQueue
<1>9. \A i \in 1..Len(more.queue) :
        more.queue[i] = "progress" =>
          r.status \notin Final /\ \A j \in 1..i : more.queue[j] = "progress"
  <2> SUFFICES ASSUME NEW i \in 1..Len(more.queue), more.queue[i] = "progress"
               PROVE  r.status \notin Final /\ \A j \in 1..i : more.queue[j] = "progress"
    OBVIOUS
  <2>1. i \in 1..Len(chain.queue)
    BY <1>4, <1>5
  <2>2. /\ chain.queue[i] = "progress"
        /\ \A j \in 1..i : j \in 1..Len(chain.queue)
    BY <1>4, <1>5, <2>1
  <2>3. r.status \notin Final /\ \A j \in 1..i : chain.queue[j] = "progress"
    BY <2>1, <2>2 DEF Fits
  <2> QED BY <1>4, <2>2, <2>3
<1>10. \A i, j \in 1..Len(more.queue) :
         more.queue[i] = "finish" /\ more.queue[j] = "finish" => i = j
  BY <1>4, <1>5, <1>8
<1>11. Fits(more, r)
  BY <1>7, <1>9, <1>10 DEF Fits
<1> QED BY <1>3, <1>6, <1>11

-----------------------------------------------------------------------------
(* Steps that leave the ticket and its redemption alone.                   *)

LEMMA TicketUntouched ==
  ASSUME SessionInv, UNCHANGED <<ticket, upgrade>>,
         socket # "none", socket' # "none", phase' # "none"
  PROVE  OneSocketPerTicket' /\ TicketFirst'
BY DEF SessionInv, OneSocketPerTicket, TicketFirst

\* The session is dropped, whatever becomes of the socket and of the handler.
LEMMA DropStep ==
  ASSUME SessionInv, up, DropSession,
         UNCHANGED <<up, ticket, upgrade, phase, answer, lease, row, crashes>>,
         audit' \in Chains, Fits(audit', row'),
         live \/ InQueue(audit, "finish") => InQueue(audit', "finish"),
         ~live => audit' = audit,
         socket # "none", socket' \in {"open", "gone", "closing", "closed"},
         \/ handler' = handler
         \/ handler' = "disconnecting" /\ handler = "none"
         \/ /\ handler' = "none" /\ handler \notin {"noting", "unwinding"}
            /\ HoldsLease \/ "acquire" \in wire => "registry" \in faults' \/ Hidden,
         faults \subseteq faults',
         faults' \subseteq {"registry", "database", "crash while starting", "crash detached"}
  PROVE  SessionInv'
<1> USE DEF DropSession
<1>1. TypeOK'
  <2>1. handler' \in Waiting /\ engine' \in EnginePhases
    BY DEF SessionInv, TypeOK, Waiting, EnginePhases
  <2>2. wire' \in SUBSET {"acquire", "release"}
    BY DEF SessionInv, TypeOK
  <2>3. row' \in Rows
    BY DEF SessionInv, TypeOK
  <2> QED BY <2>1, <2>2, <2>3 DEF SessionInv, TypeOK
<1>2. OneSocketPerTicket' /\ TicketFirst'
  BY TicketUntouched DEF SessionInv, TicketFirst
<1>3. Roles'
  BY DEF SessionInv, Roles, Running, Hidden
<1>4. AtAwait'
  BY DEF SessionInv, Roles, AtAwait, StillWanted, HoldsLease
<1>5. LeaseTraced'
  BY DEF SessionInv, TypeOK, Roles, LeaseTraced, HoldsLease, Hidden
<1>6. RowTraced'
  <2>1. ~live' /\ ~Running'
    BY DEF SessionInv, Roles, Running, Dialling
  <2>2. row' = row /\ up' = up /\ (Hidden => Hidden')
    BY DEF Hidden
  <2>3. handler \in {"noting", "unwinding"} => handler' = handler
    OBVIOUS
  <2> QED BY <2>1, <2>2, <2>3 DEF SessionInv, RowTraced
<1> QED BY <1>1, <1>2, <1>3, <1>4, <1>5, <1>6 DEF SessionInv

(* cleanup(): the audit of a live session is finished on the way.          *)
LEMMA CleanupStep ==
  ASSUME SessionInv, up, NEW closure \in Outcomes, Cleanup(closure),
         UNCHANGED <<up, ticket, upgrade, phase, answer, lease, row, crashes>>,
         socket # "none", socket' \in {"open", "gone", "closing", "closed"},
         \/ handler' = handler
         \/ handler' = "disconnecting" /\ handler = "none"
         \/ /\ handler' = "none" /\ handler \notin {"noting", "unwinding"}
            /\ HoldsLease \/ "acquire" \in wire => "registry" \in faults' \/ Hidden,
         faults \subseteq faults',
         faults' \subseteq {"registry", "database", "crash while starting", "crash detached"}
  PROVE  SessionInv'
<1>1. CASE live
  <2>1. /\ audit \in Chains /\ row \in Rows /\ Fits(audit, row)
        /\ row.status # "none" /\ row.reason = "none" /\ audit.closure = NoClosure
    BY <1>1 DEF SessionInv, TypeOK, RowTraced
  <2>2. audit' = Finish(audit, closure) /\ DropSession
    BY <1>1 DEF Cleanup
  <2>3. audit' \in Chains /\ Fits(audit', row') /\ InQueue(audit', "finish")
    BY <2>1, <2>2, FinishFits
  <2> QED BY <1>1, <2>2, <2>3, DropStep
<1>2. CASE ~live
  <2>1. audit' = audit /\ DropSession
    BY <1>2 DEF Cleanup
  <2>2. audit' \in Chains /\ Fits(audit', row')
    BY <2>1 DEF SessionInv, TypeOK
  <2> QED BY <1>2, <2>1, <2>2, DropStep
<1> QED BY <1>1, <1>2

LEMMA SocketAfterwardsType ==
  ASSUME SessionInv, socket # "none", socket' = SocketAfterwards
  PROVE  socket' \in {"open", "gone", "closing", "closed"}
BY DEF SessionInv, TypeOK, SocketAfterwards, Open

LEMMA OutcomeTypes ==
  /\ Closed("user_disconnect") \in Outcomes /\ Closed("remote_closed") \in Outcomes
  /\ Failed("internal_error") \in Outcomes /\ Failed("network_error") \in Outcomes
  /\ Failed("engine_error") \in Outcomes /\ Failed("host_key_rejected") \in Outcomes
  /\ Failed("worker_restart") \in Outcomes
BY DEF Closed, Failed, Outcomes, Final, Reasons

\* Whatever is active has a socket.
LEMMA ActiveHasSocket ==
  ASSUME SessionInv, authorized \/ live \/ deadline \/ handler # "none"
                       \/ engine # "none" \/ wire # {} \/ lease \/ audit.queue # << >>
  PROVE  socket # "none"
BY DEF SessionInv, TicketFirst, NoAudit

LEMMA ClosingStep ==
  ASSUME SessionInv,
         DeadlineFires \/ CloseEvent \/ Disconnect \/ BadMessage \/ LeaseLost
           \/ AcquireThrows \/ StartFailed
  PROVE  SessionInv'
<1>1. CASE DeadlineFires
  BY <1>1, CleanupStep, SocketAfterwardsType, OutcomeTypes, ActiveHasSocket
     DEF DeadlineFires, CloseSocket, SessionInv, TypeOK
<1>2. CASE CloseEvent
  BY <1>2, CleanupStep, OutcomeTypes DEF CloseEvent, SessionInv, TypeOK
<1>3. CASE Disconnect
  BY <1>3, CleanupStep, SocketAfterwardsType, OutcomeTypes, ActiveHasSocket
     DEF Disconnect, CloseSocket, SessionInv, TypeOK
<1>4. CASE BadMessage
  BY <1>4, CleanupStep, SocketAfterwardsType, OutcomeTypes, ActiveHasSocket
     DEF BadMessage, CloseSocket, SessionInv, TypeOK
<1>5. CASE LeaseLost
  BY <1>5, CleanupStep, SocketAfterwardsType, OutcomeTypes, ActiveHasSocket
     DEF LeaseLost, CloseSocket, SessionInv, TypeOK
<1>6. CASE AcquireThrows
  BY <1>6, CleanupStep, SocketAfterwardsType, OutcomeTypes, ActiveHasSocket
     DEF AcquireThrows, CloseSocket, SessionInv, TypeOK
<1>7. CASE StartFailed
  BY <1>7, CleanupStep, SocketAfterwardsType, OutcomeTypes, ActiveHasSocket
     DEF StartFailed, CloseSocket, SessionInv, TypeOK, LeaseTraced, Roles, HoldsLease
<1> QED BY <1>1, <1>2, <1>3, <1>4, <1>5, <1>6, <1>7

-----------------------------------------------------------------------------
(* The ticket, and the socket by itself.                                   *)

LEMMA TicketStep ==
  ASSUME SessionInv,
         IssueTicket \/ TicketAlarm \/ \E a \in Attempts : TakeTicket(a)
  PROVE  SessionInv'
<1>1. /\ UNCHANGED <<up, socket, phase, lease, wire, row, crashes, faults>>
      /\ UNCHANGED memoryVars
  BY DEF IssueTicket, TicketAlarm, TakeTicket
<1>2. TypeOK' /\ OneSocketPerTicket' /\ TicketFirst'
  <2> USE <1>1 DEF memoryVars
  <2>1. CASE IssueTicket \/ TicketAlarm
    <3>1. UNCHANGED upgrade /\ ticket' \in {"stored", "gone"} /\ ticket # "gone"
      BY <2>1 DEF IssueTicket, TicketAlarm
    <3>2. TypeOK'
      BY <3>1, ZenonT(40) DEF SessionInv, TypeOK
    <3> QED BY <3>1, <3>2 DEF SessionInv, OneSocketPerTicket, TicketFirst
  <2>2. CASE \E a \in Attempts : TakeTicket(a)
    <3>1. PICK a \in Attempts : TakeTicket(a)
      BY <2>2
    <3>2. PICK verdict \in {"taken", "refused"} :
            /\ upgrade' = [upgrade EXCEPT ![a] = verdict]
            /\ \/ ticket = "stored" /\ ticket' = "gone"
               \/ verdict = "refused" /\ UNCHANGED ticket
      BY <3>1 DEF TakeTicket
    <3>3. upgrade[a] = "none"
      BY <3>1 DEF TakeTicket
    <3>4. TypeOK'
      <4>1. /\ ticket' \in {"none", "stored", "gone"}
            /\ upgrade' \in [Attempts -> {"none", "taken", "refused", "accepted"}]
        BY <3>2 DEF SessionInv, TypeOK
      <4> QED BY <4>1, ZenonT(40) DEF SessionInv, TypeOK
    <3>5. OneSocketPerTicket'
      BY <3>2 DEF SessionInv, TypeOK, OneSocketPerTicket, TicketFirst
    <3>6. TicketFirst'
      BY <3>2, <3>3 DEF SessionInv, TypeOK, TicketFirst
    <3> QED BY <3>4, <3>5, <3>6
  <2> QED BY <2>1, <2>2
<1> USE <1>1 DEF memoryVars
<1>3. Roles'
  BY DEF SessionInv, Roles, Hidden
<1>4. AtAwait'
  BY DEF SessionInv, AtAwait, StillWanted, Open
<1>5. LeaseTraced'
  BY DEF SessionInv, LeaseTraced, HoldsLease, Hidden
<1>6. Fits(audit, row)'
  BY DEF SessionInv, Fits, InQueue
<1>7. RowTraced'
  BY DEF SessionInv, InQueue, RowTraced, Running, Hidden
<1> QED BY <1>2, <1>3, <1>4, <1>5, <1>6, <1>7 DEF SessionInv

LEMMA AcceptStep ==
  ASSUME SessionInv, NEW a \in Attempts, Accept(a)
  PROVE  SessionInv'
<1> USE DEF Accept, durableVars
<1>1. ticket = "gone" /\ socket = "none"
  <2>1. \A b \in Attempts : upgrade[b] # "accepted"
    BY DEF SessionInv, OneSocketPerTicket
  <2> QED BY <2>1 DEF SessionInv, TypeOK, TicketFirst
<1>2. TypeOK'
  BY DEF SessionInv, TypeOK
<1>3. OneSocketPerTicket'
  BY DEF SessionInv, TypeOK, OneSocketPerTicket
<1>4. TicketFirst'
  BY <1>1 DEF SessionInv, TypeOK, TicketFirst
<1>5. /\ ~live /\ handler = "none" /\ engine = "none" /\ ~lease /\ wire = {}
      /\ audit = NoAudit /\ row = NoRow
  BY <1>1 DEF SessionInv, TicketFirst
<1>6. Roles' /\ AtAwait' /\ LeaseTraced'
  BY <1>5 DEF Roles, AtAwait, LeaseTraced, HoldsLease
<1>7. Fits(audit, row)'
  BY DEF SessionInv, Fits, InQueue
<1>8. RowTraced'
  BY <1>5 DEF RowTraced, Running, Dialling, NoRow
<1> QED BY <1>2, <1>3, <1>4, <1>6, <1>7, <1>8 DEF SessionInv

LEMMA SocketStep ==
  ASSUME SessionInv, SocketCloses \/ BrowserLeaves \/ StrayMessage
  PROVE  SessionInv'
<1>1. /\ UNCHANGED <<up, upgrade, phase, crashes, faults>>
      /\ UNCHANGED <<durableVars, memoryVars>>
      /\ \/ socket \in {"open", "closing"} /\ socket' = "gone"
         \/ socket = "closing" /\ socket' = "closed"
      /\ up
  BY DEF SocketCloses, BrowserLeaves, StrayMessage
<1> USE <1>1 DEF durableVars, memoryVars
<1>2. TypeOK'
  BY DEF SessionInv, TypeOK
<1>3. OneSocketPerTicket' /\ TicketFirst'
  BY TicketUntouched DEF SessionInv, TicketFirst
<1>4. Roles'
  BY DEF SessionInv, Roles, Hidden
<1>5. AtAwait'
  BY DEF SessionInv, AtAwait, StillWanted, Open
<1>6. LeaseTraced'
  BY DEF SessionInv, LeaseTraced, HoldsLease, Hidden
<1>7. Fits(audit, row)'
  BY DEF SessionInv, Fits, InQueue
<1>8. RowTraced'
  BY DEF SessionInv, InQueue, RowTraced, Running, Hidden
<1> QED BY <1>2, <1>3, <1>4, <1>5, <1>6, <1>7, <1>8 DEF SessionInv

-----------------------------------------------------------------------------
(* The connect handler between two awaits.                                 *)

\* What such a step leaves alone, and what that keeps.
LEMMA HandlerFrame ==
  ASSUME SessionInv, up, handler # "none" \/ authorized,
         (handler # "none" /\ UNCHANGED deadline) \/ deadline' = FALSE,
         UNCHANGED <<up, ticket, upgrade, socket, phase, authorized, live, lease,
                     engine, crashes>>
  PROVE  /\ ~live /\ ~Running /\ ~Running'
         /\ OneSocketPerTicket' /\ TicketFirst' /\ Roles'
<1>1. ~live /\ socket # "none"
  BY ActiveHasSocket DEF SessionInv, Roles
<1>2. phase' # "none"
  BY <1>1 DEF SessionInv, TicketFirst
<1>3. OneSocketPerTicket' /\ TicketFirst'
  BY <1>1, <1>2, TicketUntouched
<1>4. Roles'
  BY <1>1 DEF SessionInv, Roles
<1>5. ~Running /\ ~Running'
  BY <1>1 DEF SessionInv, Roles, Running, Dialling
<1> QED BY <1>1, <1>3, <1>4, <1>5

\* A step that leaves the audit alone as well.
LEMMA HandlerQuiet ==
  ASSUME SessionInv, up, handler # "none" \/ authorized,
         (handler # "none" /\ UNCHANGED deadline) \/ deadline' = FALSE,
         UNCHANGED <<up, ticket, upgrade, socket, phase, authorized, live, lease,
                     engine, crashes, faults, audit, row>>,
         handler' \in Waiting, handler' \in {"noting", "unwinding"}
                                 <=> handler \in {"noting", "unwinding"},
         answer' \in {answer, "none"}, wire' \subseteq {"acquire", "release"},
         AtAwait', LeaseTraced'
  PROVE  SessionInv'
<1>1. TypeOK'
  <2>1. answer' \in {"none", "granted", "refused"} /\ deadline' \in BOOLEAN
        /\ wire' \in SUBSET {"acquire", "release"}
    BY DEF SessionInv, TypeOK
  <2> QED BY <2>1 DEF SessionInv, TypeOK
<1>2. Fits(audit, row)'
  BY DEF SessionInv, Fits, InQueue
<1>3. Hidden' = Hidden /\ InQueue(audit, "finish")' = InQueue(audit, "finish")
  BY DEF Hidden, InQueue
<1>4. RowTraced'
  BY <1>3, HandlerFrame DEF SessionInv, RowTraced
<1> QED BY <1>1, <1>2, <1>4, HandlerFrame DEF SessionInv

LEMMA ConnectStep ==
  ASSUME SessionInv, Connect
  PROVE  SessionInv'
<1> USE DEF Connect
<1>1. AtAwait'
  BY DEF SessionInv, Roles, AtAwait, StillWanted, Open
<1>2. "release" \notin wire
  BY DEF SessionInv, LeaseTraced
<1>3. LeaseTraced'
  BY <1>2 DEF SessionInv, LeaseTraced, HoldsLease, Hidden
<1>4. handler' \in Waiting /\ wire' \subseteq {"acquire", "release"}
  BY DEF SessionInv, TypeOK, Waiting
<1> QED BY <1>1, <1>3, <1>4, HandlerQuiet

LEMMA LeaseInHandStep ==
  ASSUME SessionInv, LeaseInHand
  PROVE  SessionInv'
<1> USE DEF LeaseInHand
<1>1. AtAwait'
  BY DEF SessionInv, AtAwait, StillWanted, Open
<1>2. LeaseTraced'
  BY DEF SessionInv, LeaseTraced, HoldsLease, Hidden
<1>3. handler' \in Waiting /\ wire' \subseteq {"acquire", "release"}
  BY DEF SessionInv, TypeOK, Waiting
<1>4. handler # "none" /\ UNCHANGED deadline /\ answer' \in {answer, "none"}
  OBVIOUS
<1> QED BY <1>1, <1>2, <1>3, <1>4, HandlerQuiet

LEMMA LeaseReturnedStep ==
  ASSUME SessionInv, LeaseReturned
  PROVE  SessionInv'
<1> USE DEF LeaseReturned
<1>1. AtAwait'
  BY DEF SessionInv, AtAwait, StillWanted, Open
<1>2. LeaseTraced'
  BY DEF SessionInv, LeaseTraced, HoldsLease, Hidden
<1>3. handler' \in Waiting /\ wire' \subseteq {"acquire", "release"}
  BY DEF SessionInv, TypeOK, Waiting
<1> QED BY <1>1, <1>2, <1>3, HandlerQuiet

LEMMA WaitEndsStep ==
  ASSUME SessionInv, StartAbandoned \/ Disconnected
  PROVE  SessionInv'
<1>1. /\ handler \in {"abandoning", "disconnecting"} /\ handler' = "none"
      /\ up /\ "release" \notin wire
      /\ UNCHANGED <<up, ticket, upgrade, socket, phase, authorized, live, deadline,
                     answer, lease, wire, audit, row, engine, crashes, faults>>
  BY DEF StartAbandoned, Disconnected, Settled
<1>2. AtAwait'
  BY <1>1 DEF SessionInv, AtAwait, StillWanted, Open
<1>3. LeaseTraced'
  BY <1>1 DEF SessionInv, LeaseTraced, HoldsLease, Hidden
<1>4. handler' \in Waiting /\ wire' \subseteq {"acquire", "release"}
  BY <1>1 DEF SessionInv, TypeOK, Waiting
<1> QED BY <1>1, <1>2, <1>3, <1>4, HandlerQuiet

LEMMA LimitReachedStep ==
  ASSUME SessionInv, LimitReached
  PROVE  SessionInv'
<1>1. CASE handler = "acquiring"
  <2> USE <1>1 DEF LimitReached
  <2>1. /\ handler' = "limited" /\ answer = "refused"
        /\ UNCHANGED <<socket, authorized, live, deadline, engine, wire, audit>>
    OBVIOUS
  <2>2. AtAwait'
    BY <2>1 DEF SessionInv, AtAwait, StillWanted, Open
  <2>3. LeaseTraced'
    BY <2>1 DEF SessionInv, LeaseTraced, HoldsLease, Hidden
  <2>4. handler' \in Waiting /\ wire' \subseteq {"acquire", "release"}
    BY <2>1 DEF SessionInv, TypeOK, Waiting
  <2> QED BY <2>1, <2>2, <2>3, <2>4, HandlerQuiet
<1>2. CASE handler = "limited"
  <2>1. CloseSocket(Failed("internal_error")) /\ handler' = "none"
    BY <1>2 DEF LimitReached
  <2>2. "acquire" \in wire => "registry" \in faults \/ Hidden
    BY <1>2 DEF SessionInv, LeaseTraced
  <2>3. ~HoldsLease
    BY <1>2 DEF SessionInv, Roles, HoldsLease
  <2> QED BY <1>2, <2>1, <2>2, <2>3, CleanupStep, SocketAfterwardsType, OutcomeTypes,
             ActiveHasSocket
          DEF LimitReached, CloseSocket, SessionInv, TypeOK
<1> QED BY <1>1, <1>2 DEF LimitReached

LEMMA StartAuditStep ==
  ASSUME SessionInv, StartAudit
  PROVE  SessionInv'
<1>1. /\ up /\ handler \in {"inserting", "noting", "unwinding"}
      /\ UNCHANGED <<up, ticket, upgrade, socket, phase, authorized, live, deadline,
                     answer, lease, audit, engine, crashes>>
  BY DEF StartAudit
<1>2. audit = NoAudit /\ lease
  BY <1>1 DEF SessionInv, AtAwait, LeaseTraced, HoldsLease
<1>3. \A write \in AuditWrites : ~InQueue(audit, write) /\ ~InQueue(audit', write)
  BY <1>1, <1>2 DEF InQueue, NoAudit
<1>4. CASE /\ handler = "inserting" /\ row = NoRow
           /\ row' = [status |-> "authorizing", reason |-> "none"]
           /\ handler' = "noting"
           /\ UNCHANGED <<wire, faults>>
  <2>1. TypeOK'
    BY <1>1, <1>4, ZenonT(40) DEF SessionInv, TypeOK, Rows, Waiting
  <2>2. AtAwait' /\ LeaseTraced'
    BY <1>1, <1>2, <1>4 DEF SessionInv, AtAwait, LeaseTraced, HoldsLease, Hidden
  <2>3. Fits(audit, row)'
    BY <1>1, <1>2, <1>4 DEF Fits, InQueue, NoAudit, Final
  <2>4. RowTraced'
    BY <1>1, <1>4, HandlerFrame DEF RowTraced
  <2> QED BY <1>1, <1>4, <2>1, <2>2, <2>3, <2>4, HandlerFrame DEF SessionInv
<1>5. CASE /\ handler = "inserting"
           /\ handler' = "failing"
           /\ wire' = wire \cup {"release"}
           /\ UNCHANGED <<row, faults>>
  <2>1. AtAwait' /\ LeaseTraced'
    BY <1>1, <1>5, ZenonT(40) DEF SessionInv, AtAwait, LeaseTraced, HoldsLease, Hidden
  <2>2. TypeOK'
    BY <1>1, <1>5, ZenonT(40) DEF SessionInv, TypeOK, Waiting
  <2>3. Fits(audit, row)'
    BY <1>1, <1>5 DEF SessionInv, Fits, InQueue
  <2>4. RowTraced'
    BY <1>1, <1>5, HandlerFrame DEF SessionInv, AtAwait, RowTraced, NoRow
  <2> QED BY <1>1, <1>5, <2>1, <2>2, <2>3, <2>4, HandlerFrame DEF SessionInv
<1>6. CASE /\ handler = "noting"
           /\ handler' = "unwinding"
           /\ UNCHANGED <<wire, row, faults>>
  <2>1. AtAwait' /\ LeaseTraced'
    BY <1>1, <1>6 DEF SessionInv, AtAwait, LeaseTraced, HoldsLease, Hidden
  <2>2. handler' \in Waiting /\ wire' \subseteq {"acquire", "release"}
    BY <1>1, <1>6 DEF SessionInv, TypeOK, Waiting
  <2> QED BY <1>1, <1>6, <2>1, <2>2, HandlerQuiet
<1>7. CASE /\ handler = "unwinding"
           /\ handler' = "failing"
           /\ wire' = wire \cup {"release"}
           /\ \/ row' = Failed("internal_error") /\ UNCHANGED faults
              \/ faults' = faults \cup {"database"} /\ UNCHANGED row
  <2>1. row' \in Rows
    <3>1. Failed("internal_error") \in Rows
      BY OutcomeTypes DEF Outcomes, Rows
    <3> QED BY <1>7, <3>1 DEF SessionInv, TypeOK
  <2>2. TypeOK'
    <3>1. TypeOK
      BY DEF SessionInv
    <3>2. handler' \in Waiting /\ wire' \in SUBSET {"acquire", "release"}
      BY <1>7, <3>1 DEF TypeOK, Waiting
    <3>3. faults' \subseteq {"registry", "database", "crash while starting", "crash detached"}
      BY <1>7, <3>1 DEF TypeOK
    <3> QED BY <1>1, <1>7, <2>1, <3>1, <3>2, <3>3, ZenonT(40) DEF TypeOK
  <2>3. AtAwait' /\ LeaseTraced'
    BY <1>1, <1>7 DEF SessionInv, AtAwait, LeaseTraced, HoldsLease, Hidden
  <2>4. Fits(audit, row)'
    BY <1>1, <1>2, <1>7 DEF SessionInv, Fits, InQueue, NoAudit, Failed, Final
  <2>5. RowTraced'
    BY <1>1, <1>7, HandlerFrame DEF RowTraced, Failed
  <2> QED BY <1>1, <1>7, <2>2, <2>3, <2>4, <2>5, HandlerFrame DEF SessionInv
<1> QED BY <1>4, <1>5, <1>6, <1>7 DEF StartAudit

LEMMA AbandonStartStep ==
  ASSUME SessionInv, AbandonStart
  PROVE  SessionInv'
<1> USE DEF AbandonStart
<1>1. /\ row = [status |-> "authorizing", reason |-> "none"] /\ audit = NoAudit /\ lease
  BY DEF SessionInv, AtAwait, LeaseTraced, HoldsLease
<1>2. audit' \in Chains /\ Fits(audit', row) /\ InQueue(audit', "finish")
  BY <1>1, FinishFits, OutcomeTypes DEF SessionInv, TypeOK, NoAudit
<1>3. TypeOK'
  BY <1>2, ZenonT(40) DEF SessionInv, TypeOK, Waiting
<1>4. AtAwait' /\ LeaseTraced'
  BY DEF SessionInv, AtAwait, StillWanted, Open, LeaseTraced, HoldsLease, Hidden
<1>5. RowTraced'
  BY <1>2, HandlerFrame DEF RowTraced
<1> QED BY <1>2, <1>3, <1>4, <1>5, HandlerFrame DEF SessionInv

LEMMA StartThrowsStep ==
  ASSUME SessionInv, StartThrows
  PROVE  SessionInv'
<1>1. /\ up /\ handler \in {"noting", "stopping"}
      /\ UNCHANGED <<up, ticket, upgrade, socket, phase, authorized, live, deadline,
                     answer, lease, row, engine, crashes, faults>>
  BY DEF StartThrows
<1>2. CASE /\ handler = "noting" /\ StillWanted
           /\ handler' = "stopping"
           /\ audit' = Finish(audit, Failed("internal_error"))
           /\ UNCHANGED wire
  <2>1. /\ row = [status |-> "authorizing", reason |-> "none"] /\ audit = NoAudit
    BY <1>2 DEF SessionInv, AtAwait
  <2>2. audit' \in Chains /\ Fits(audit', row) /\ InQueue(audit', "finish")
    BY <1>2, <2>1, FinishFits, OutcomeTypes DEF SessionInv, TypeOK, NoAudit
  <2>3. TypeOK'
    BY <1>1, <1>2, <2>2, ZenonT(40) DEF SessionInv, TypeOK, Waiting
  <2>4. AtAwait' /\ LeaseTraced'
    BY <1>1, <1>2 DEF SessionInv, AtAwait, LeaseTraced, HoldsLease, Hidden
  <2>5. RowTraced'
    BY <1>1, <2>2, HandlerFrame DEF RowTraced
  <2> QED BY <1>1, <2>2, <2>3, <2>4, <2>5, HandlerFrame DEF SessionInv
<1>3. CASE /\ handler = "stopping" /\ audit.queue = << >>
           /\ handler' = "failing"
           /\ wire' = wire \cup {"release"}
           /\ UNCHANGED audit
  <2>1. AtAwait' /\ LeaseTraced'
    BY <1>1, <1>3 DEF SessionInv, AtAwait, LeaseTraced, HoldsLease, Hidden
  <2>2. handler' \in Waiting /\ wire' \subseteq {"acquire", "release"}
    BY <1>1, <1>3 DEF SessionInv, TypeOK, Waiting
  <2> QED BY <1>1, <1>3, <2>1, <2>2, HandlerQuiet
<1> QED BY <1>2, <1>3 DEF StartThrows

LEMMA GoLiveStep ==
  ASSUME SessionInv, GoLive
  PROVE  SessionInv'
<1> USE DEF GoLive
<1>1. /\ row = [status |-> "authorizing", reason |-> "none"] /\ audit = NoAudit /\ lease
      /\ socket = "open" /\ "release" \notin wire /\ ~deadline /\ ~live
  BY DEF SessionInv, AtAwait, LeaseTraced, HoldsLease, StillWanted, Open, Roles
<1>2. /\ audit' \in Chains /\ Fits(audit', row) /\ audit'.closure = NoClosure
      /\ audit'.queue \in Seq({"progress"})
  <2>1. audit \in Chains /\ audit.queue \in Seq({"progress"}) /\ audit.closure = NoClosure
    <3>1. << >> \in Seq({"progress"})
      OBVIOUS
    <3> QED BY <1>1, <3>1 DEF SessionInv, TypeOK, NoAudit
  <2>2. <<"progress">> \in Seq({"progress"})
    OBVIOUS
  <2>3. audit' \in Chains /\ audit'.closure = NoClosure /\ audit'.queue \in Seq({"progress"})
    BY <2>1, <2>2, MoreProgress DEF Queue
  <2> QED BY <1>1, <2>3, ProgressFits DEF SessionInv, TypeOK, Final
<1>3. TypeOK'
  <2>1. engine' \in EnginePhases /\ handler' \in Waiting
    BY DEF EnginePhases, Dialling, Waiting
  <2> QED BY <1>2, <2>1 DEF SessionInv, TypeOK
<1>4. OneSocketPerTicket' /\ TicketFirst'
  BY <1>1, TicketUntouched
<1>5. Roles'
  BY <1>1 DEF SessionInv, Roles
<1>6. AtAwait' /\ LeaseTraced'
  BY <1>1 DEF SessionInv, AtAwait, StillWanted, LeaseTraced, HoldsLease, Hidden
<1>7. RowTraced'
  BY <1>1, <1>2 DEF RowTraced, Final
<1> QED BY <1>2, <1>3, <1>4, <1>5, <1>6, <1>7 DEF SessionInv

-----------------------------------------------------------------------------
(* The live session.                                                       *)

LEMMA EngineProgressStep ==
  ASSUME SessionInv, EngineProgress
  PROVE  SessionInv'
<1>1. /\ up /\ Running /\ engine' \notin {"none", "closed"} /\ engine' \in EnginePhases
      /\ UNCHANGED <<up, ticket, upgrade, socket, authorized, live, deadline, handler,
                     answer, lease, wire, row, crashes, faults>>
      /\ phase' \in {phase, "connected"}
      /\ audit' = audit \/ audit' = Queue(<<"progress">>)
  <2>1. /\ up /\ engine \in {"dialing", "authenticating", "opening"}
        /\ engine' \in {"confirming", "authenticating", "opening", "ready"}
        /\ UNCHANGED <<up, ticket, upgrade, socket, authorized, live, deadline, handler,
                       answer, lease, wire, row, crashes, faults>>
    BY DEF EngineProgress
  <2>2. phase' \in {phase, "connected"}
    <3>1. phase' = IF engine' = "ready" /\ live THEN "connected" ELSE phase
      BY DEF EngineProgress
    <3> QED BY <3>1, Zenon
  <2>3. audit' = audit \/ audit' = Queue(<<"progress">>)
    BY DEF EngineProgress
  <2> QED BY <2>1, <2>2, <2>3 DEF Running, Dialling, EnginePhases
<1>2. live /\ ~authorized /\ handler = "none" /\ socket # "none"
  BY <1>1, ActiveHasSocket DEF SessionInv, Roles, Running, Dialling
<1>3. /\ row \in Rows /\ row.status \notin Final \cup {"none"} /\ row.reason = "none"
      /\ audit \in Chains /\ audit.queue \in Seq({"progress"})
      /\ audit.closure = NoClosure
  BY <1>1, <1>2 DEF SessionInv, TypeOK, RowTraced
<1>4. /\ audit' \in Chains /\ audit'.queue \in Seq({"progress"})
      /\ audit'.closure = NoClosure
  <2>1. <<"progress">> \in Seq({"progress"})
    OBVIOUS
  <2>2. CASE audit' = Queue(<<"progress">>)
    BY <1>3, <2>1, <2>2, MoreProgress DEF Queue
  <2> QED BY <1>1, <1>3, <2>2
<1>5. Fits(audit', row')
  BY <1>1, <1>3, <1>4, ProgressFits
<1>6. TypeOK'
  BY <1>1, <1>4, ZenonT(40) DEF SessionInv, TypeOK
<1>7. OneSocketPerTicket' /\ TicketFirst'
  <2>1. phase' # "none"
    BY <1>1, <1>2 DEF SessionInv, TicketFirst
  <2> QED BY <1>1, <1>2, <2>1, TicketUntouched
<1>8. Roles'
  BY <1>1, <1>2 DEF SessionInv, Roles
<1>9. AtAwait' /\ LeaseTraced'
  BY <1>1, <1>2 DEF SessionInv, AtAwait, StillWanted, LeaseTraced, HoldsLease, Hidden
<1>10. RowTraced'
  BY <1>1, <1>2, <1>3, <1>4 DEF RowTraced
<1> QED BY <1>5, <1>6, <1>7, <1>8, <1>9, <1>10 DEF SessionInv

\* An engine that nobody hears any more is closed; its session stays live.
LEMMA EngineClosedStep ==
  ASSUME SessionInv, up, live, engine' = "closed",
         audit' = audit \/ audit' = Queue(<<"failure">>),
         UNCHANGED <<up, ticket, upgrade, socket, phase, authorized, live, deadline,
                     handler, answer, lease, wire, row, crashes, faults>>
  PROVE  SessionInv'
<1>1. audit \in Chains /\ row \in Rows /\ Fits(audit, row) /\ row.status # "none"
  BY DEF SessionInv, TypeOK, RowTraced
<1>2. /\ audit' \in Chains /\ Fits(audit', row') /\ audit'.closure = audit.closure
      /\ InQueue(audit, "finish") => InQueue(audit', "finish")
  BY <1>1, FailureFits DEF Queue
<1>3. ~authorized /\ handler = "none" /\ socket # "none" /\ phase # "none"
  BY ActiveHasSocket DEF SessionInv, Roles
<1>4. TypeOK'
  BY <1>2 DEF SessionInv, TypeOK, EnginePhases
<1>5. OneSocketPerTicket' /\ TicketFirst'
  BY <1>3, TicketUntouched
<1>6. Roles'
  BY <1>3 DEF SessionInv, Roles
<1>7. AtAwait' /\ LeaseTraced'
  BY <1>3 DEF SessionInv, AtAwait, StillWanted, LeaseTraced, HoldsLease, Hidden
<1>8. RowTraced'
  BY <1>2 DEF SessionInv, RowTraced, Running, Dialling
<1> QED BY <1>2, <1>4, <1>5, <1>6, <1>7, <1>8 DEF SessionInv

LEMMA EngineEndsStep ==
  ASSUME SessionInv, EngineEnds
  PROVE  SessionInv'
<1>1. /\ up /\ live
      /\ UNCHANGED <<up, ticket, upgrade, phase, handler, answer, lease, row, crashes,
                     faults>>
  BY DEF EngineEnds, SessionInv, Roles, Running, Dialling
<1>2. /\ audit \in Chains /\ row \in Rows /\ Fits(audit, row) /\ row.status # "none"
      /\ audit.closure = NoClosure /\ row.reason = "none" /\ socket # "none"
  BY <1>1 DEF SessionInv, TypeOK, RowTraced, Roles
<1>3. faults' \subseteq {"registry", "database", "crash while starting", "crash detached"}
  BY <1>1 DEF SessionInv, TypeOK
<1>4. CASE /\ DropSession
           /\ socket' = SocketAfterwards
           /\ audit' = Finish(Queue(<<"failure">>), Failed("engine_error"))
  <2>1. audit' \in Chains /\ Fits(audit', row') /\ InQueue(audit', "finish")
    BY <1>1, <1>2, <1>4, FailureFits, FinishFits, OutcomeTypes DEF Queue
  <2> QED BY <1>1, <1>2, <1>3, <1>4, <2>1, SocketAfterwardsType, DropStep
<1>5. CASE CloseSocket(Closed("remote_closed"))
  BY <1>1, <1>2, <1>3, <1>5, SocketAfterwardsType, OutcomeTypes, CleanupStep
     DEF CloseSocket
<1>6. CASE /\ engine' = "closed"
           /\ UNCHANGED <<deadline, authorized, live, socket, wire, audit>>
  BY <1>1, <1>6, EngineClosedStep
<1> QED BY <1>4, <1>5, <1>6 DEF EngineEnds

LEMMA HostKeyDecisionStep ==
  ASSUME SessionInv, HostKeyDecision
  PROVE  SessionInv'
<1>1. /\ up /\ live /\ engine = "confirming" /\ handler = "none" /\ Running
      /\ UNCHANGED <<up, ticket, upgrade, phase, handler, answer, lease, row, crashes,
                     faults>>
  BY DEF HostKeyDecision, Running, Dialling
<1>2. /\ audit \in Chains /\ row \in Rows /\ Fits(audit, row) /\ row.status # "none"
      /\ row.status \notin Final /\ audit.queue \in Seq({"progress"})
      /\ audit.closure = NoClosure /\ row.reason = "none" /\ socket # "none"
      /\ ~authorized
  BY <1>1 DEF SessionInv, TypeOK, RowTraced, Roles
<1>3. CASE /\ engine' = "authenticating"
           /\ audit' = Queue(<<"progress", "progress">>)
           /\ UNCHANGED <<deadline, authorized, live, socket, wire>>
  <2>1. /\ audit' \in Chains /\ audit'.queue \in Seq({"progress"})
        /\ audit'.closure = NoClosure
    <3>1. <<"progress", "progress">> \in Seq({"progress"})
      OBVIOUS
    <3> QED BY <1>2, <1>3, <3>1, MoreProgress DEF Queue
  <2>2. Fits(audit', row')
    BY <1>1, <1>2, <2>1, ProgressFits
  <2>3. TypeOK'
    BY <1>1, <1>3, <2>1, ZenonT(40) DEF SessionInv, TypeOK, EnginePhases, Dialling
  <2>4. OneSocketPerTicket' /\ TicketFirst'
    BY <1>1, <1>2, <1>3, TicketUntouched DEF SessionInv, Roles
  <2>5. Roles'
    BY <1>1, <1>3 DEF SessionInv, Roles
  <2>6. AtAwait' /\ LeaseTraced'
    BY <1>1, <1>2, <1>3
       DEF SessionInv, AtAwait, StillWanted, LeaseTraced, HoldsLease, Hidden
  <2>7. RowTraced'
    BY <1>1, <1>2, <1>3, <2>1 DEF RowTraced
  <2> QED BY <2>2, <2>3, <2>4, <2>5, <2>6, <2>7 DEF SessionInv
<1>4. CASE /\ Open
           /\ DropSession
           /\ socket' = SocketAfterwards
           /\ audit' = [Finish(Queue(<<"failure">>), Failed("host_key_rejected"))
                          EXCEPT !.queue = Append(@, "failure")]
  <2> DEFINE first == Queue(<<"failure">>)
             second == Finish(first, Failed("host_key_rejected"))
             third == [second EXCEPT !.queue = @ \o <<"failure">>]
  <2>1. first \in Chains /\ Fits(first, row) /\ first.closure = NoClosure
    BY <1>2, FailureFits DEF Queue
  <2> HIDE DEF first
  <2>2. second \in Chains /\ Fits(second, row) /\ InQueue(second, "finish")
    BY <1>2, <2>1, FinishFits, OutcomeTypes
  <2> HIDE DEF second
  <2>3. third \in Chains /\ Fits(third, row) /\ InQueue(third, "finish")
    BY <1>2, <2>2, FailureFits
  <2>4. audit' = [second EXCEPT !.queue = Append(@, "failure")]
    BY <1>4 DEF first, second
  <2>5. second.queue \o <<"failure">> = Append(second.queue, "failure")
    BY <2>2 DEF Chains, AuditWrites
  <2>6. audit' = third
    BY <2>2, <2>4, <2>5 DEF Chains
  <2>7. faults' \subseteq {"registry", "database", "crash while starting",
                           "crash detached"}
    BY <1>1 DEF SessionInv, TypeOK
  <2> HIDE DEF third
  <2> QED BY <1>1, <1>2, <1>4, <2>3, <2>6, <2>7, SocketAfterwardsType, DropStep
<1>5. CASE /\ engine' = "closed"
           /\ audit' = Queue(<<"failure">>)
           /\ UNCHANGED <<deadline, authorized, live, socket, wire>>
  BY <1>1, <1>5, EngineClosedStep
<1> QED BY <1>3, <1>4, <1>5 DEF HostKeyDecision

-----------------------------------------------------------------------------
(* Writes of the audit chain.                                              *)

\* What the writes behind the first one are.
LEMMA WriteLeaves ==
  ASSUME NEW chain \in Chains, NEW r \in Rows, Fits(chain, r), chain.queue # << >>
  PROVE  LET rest == [chain EXCEPT !.queue = Tail(@)] IN
         /\ rest \in Chains /\ rest.closure = chain.closure
         /\ Head(chain.queue) \in AuditWrites /\ Head(chain.queue) = chain.queue[1]
         /\ Len(rest.queue) + 1 = Len(chain.queue) /\ Len(rest.queue) \in Nat
         /\ \A i \in 1..Len(rest.queue) : rest.queue[i] = chain.queue[i + 1]
         /\ InQueue(chain, "finish")
              <=> Head(chain.queue) = "finish" \/ InQueue(rest, "finish")
         /\ chain.queue \in Seq({"progress"}) =>
              rest.queue \in Seq({"progress"}) /\ Head(chain.queue) = "progress"
<1> DEFINE rest == [chain EXCEPT !.queue = Tail(@)]
<1>1. chain.queue \in Seq(AuditWrites)
  BY DEF Chains
<1>2. /\ Tail(chain.queue) \in Seq(AuditWrites)
      /\ Head(chain.queue) \in AuditWrites /\ Head(chain.queue) = chain.queue[1]
      /\ Len(Tail(chain.queue)) + 1 = Len(chain.queue) /\ Len(Tail(chain.queue)) \in Nat
      /\ \A i \in 1..Len(Tail(chain.queue)) : Tail(chain.queue)[i] = chain.queue[i + 1]
  BY <1>1
<1>3. rest \in Chains /\ rest.closure = chain.closure /\ rest.queue = Tail(chain.queue)
  BY <1>2 DEF Chains
<1> HIDE DEF rest
<1>4. InQueue(chain, "finish")
        <=> Head(chain.queue) = "finish" \/ InQueue(rest, "finish")
  <2>1. ASSUME InQueue(chain, "finish"), Head(chain.queue) # "finish"
        PROVE  InQueue(rest, "finish")
    <3>1. PICK i \in 1..Len(chain.queue) : chain.queue[i] = "finish"
      BY <2>1 DEF InQueue
    <3>2. i - 1 \in 1..Len(rest.queue) /\ rest.queue[i - 1] = "finish"
      BY <1>2, <1>3, <2>1, <3>1
    <3> QED BY <3>2 DEF InQueue
  <2>2. ASSUME InQueue(rest, "finish")
        PROVE  InQueue(chain, "finish")
    <3>1. PICK i \in 1..Len(rest.queue) : rest.queue[i] = "finish"
      BY <2>2 DEF InQueue
    <3>2. i + 1 \in 1..Len(chain.queue) /\ chain.queue[i + 1] = "finish"
      BY <1>2, <1>3, <3>1
    <3> QED BY <3>2 DEF InQueue
  <2>3. ASSUME Head(chain.queue) = "finish"
        PROVE  InQueue(chain, "finish")
    <3>1. 1 \in 1..Len(chain.queue) /\ chain.queue[1] = "finish"
      BY <1>2, <2>3
    <3> QED BY <3>1 DEF InQueue
  <2> QED BY <2>1, <2>2, <2>3
<1>5. chain.queue \in Seq({"progress"}) =>
        Tail(chain.queue) \in Seq({"progress"}) /\ Head(chain.queue) = "progress"
  OBVIOUS
<1> QED BY <1>2, <1>3, <1>4, <1>5 DEF rest

\* After the write, or its failure, the rest of the chain fits the row.
LEMMA WriteFits ==
  ASSUME NEW chain \in Chains, NEW r \in Rows, Fits(chain, r), chain.queue # << >>
  PROVE  LET rest == [chain EXCEPT !.queue = Tail(@)] IN
         /\ Fits(rest, r)
         /\ Head(chain.queue) = "progress" =>
              r.status \notin Final \cup {"none"}
                /\ Fits(rest, [r EXCEPT !.status = "progress"])
         /\ Head(chain.queue) = "failure" => Fits(rest, [r EXCEPT !.status = "error"])
         /\ Head(chain.queue) = "finish" =>
              /\ chain.closure \in Outcomes /\ r.reason = "none"
              /\ Fits(rest, chain.closure)
<1> DEFINE rest == [chain EXCEPT !.queue = Tail(@)]
<1>1. /\ rest.closure = chain.closure
      /\ Head(chain.queue) = chain.queue[1]
      /\ Len(rest.queue) + 1 = Len(chain.queue) /\ Len(rest.queue) \in Nat
      /\ \A i \in 1..Len(rest.queue) : rest.queue[i] = chain.queue[i + 1]
      /\ InQueue(rest, "finish") => InQueue(chain, "finish")
  BY WriteLeaves
<1> HIDE DEF rest
<1>2. r.status # "none"
  BY DEF Fits
<1>3. \A i \in 1..Len(rest.queue) :
        rest.queue[i] = "progress" =>
          /\ r.status \notin Final /\ chain.queue[1] = "progress"
          /\ \A j \in 1..i : rest.queue[j] = "progress"
  <2> SUFFICES ASSUME NEW i \in 1..Len(rest.queue), rest.queue[i] = "progress"
               PROVE  /\ r.status \notin Final /\ chain.queue[1] = "progress"
                      /\ \A j \in 1..i : rest.queue[j] = "progress"
    OBVIOUS
  <2>1. i + 1 \in 1..Len(chain.queue) /\ chain.queue[i + 1] = "progress"
    BY <1>1
  <2>2. r.status \notin Final /\ \A j \in 1..(i + 1) : chain.queue[j] = "progress"
    BY <2>1 DEF Fits
  <2>3. ASSUME NEW j \in 1..i
        PROVE  rest.queue[j] = "progress"
    <3>1. j \in 1..Len(rest.queue) /\ j + 1 \in 1..(i + 1)
      BY <1>1
    <3> QED BY <1>1, <2>2, <3>1
  <2> QED BY <2>2, <2>3
<1>4. \A i, j \in 1..Len(rest.queue) :
        rest.queue[i] = "finish" /\ rest.queue[j] = "finish" => i = j
  <2> SUFFICES ASSUME NEW i \in 1..Len(rest.queue), NEW j \in 1..Len(rest.queue),
                      rest.queue[i] = "finish", rest.queue[j] = "finish"
               PROVE  i = j
    OBVIOUS
  <2>1. /\ i + 1 \in 1..Len(chain.queue) /\ chain.queue[i + 1] = "finish"
        /\ j + 1 \in 1..Len(chain.queue) /\ chain.queue[j + 1] = "finish"
    BY <1>1
  <2>2. i + 1 = j + 1
    BY <2>1 DEF Fits
  <2> QED BY <2>2
<1>5. Fits(rest, r)
  BY <1>1, <1>2, <1>3, <1>4 DEF Fits
<1>6. ASSUME Head(chain.queue) = "progress"
      PROVE  /\ r.status \notin Final \cup {"none"}
             /\ Fits(rest, [r EXCEPT !.status = "progress"])
  <2>1. r.status \notin Final
    BY <1>1, <1>6 DEF Fits
  <2> DEFINE new == [r EXCEPT !.status = "progress"]
  <2>2. new.status = "progress" /\ new.reason = r.reason
    BY DEF Rows
  <2>3. r.reason = "none"
    BY <2>1 DEF Fits
  <2> HIDE DEF new
  <2>4. Fits(rest, new)
    BY <1>3, <1>5, <2>2, <2>3 DEF Fits, Final
  <2> QED BY <1>2, <2>1, <2>4 DEF new
<1>7. ASSUME Head(chain.queue) = "failure"
      PROVE  Fits(rest, [r EXCEPT !.status = "error"])
  <2> DEFINE new == [r EXCEPT !.status = "error"]
  <2>1. new.status = "error" /\ new.reason = r.reason
    BY DEF Rows
  <2> HIDE DEF new
  <2>2. Fits(rest, new)
    BY <1>1, <1>3, <1>5, <1>7, <2>1 DEF Fits, Final
  <2> QED BY <2>2 DEF new
<1>8. ASSUME Head(chain.queue) = "finish"
      PROVE  /\ chain.closure \in Outcomes /\ r.reason = "none"
             /\ Fits(rest, chain.closure)
  <2>1. 1 \in 1..Len(chain.queue) /\ chain.queue[1] = "finish"
    BY <1>1, <1>8
  <2>2. InQueue(chain, "finish")
    BY <2>1 DEF InQueue
  <2>3. chain.closure \in Outcomes /\ r.reason = "none"
    BY <2>2 DEF Fits, Chains
  <2>4. chain.closure.status \in Final /\ chain.closure.reason # "none"
    BY <2>3 DEF Outcomes, Reasons
  <2>5. ~InQueue(rest, "finish")
    <3> SUFFICES ASSUME NEW i \in 1..Len(rest.queue), rest.queue[i] = "finish"
                 PROVE  FALSE
      BY DEF InQueue
    <3>1. i + 1 \in 1..Len(chain.queue) /\ chain.queue[i + 1] = "finish" /\ i + 1 # 1
      BY <1>1
    <3> QED BY <2>1, <3>1 DEF Fits
  <2>6. \A i \in 1..Len(rest.queue) : rest.queue[i] # "progress"
    BY <1>3, <2>1
  <2> QED BY <1>4, <2>3, <2>4, <2>5, <2>6 DEF Fits, Final
<1> QED BY <1>5, <1>6, <1>7, <1>8 DEF rest

\* The four things a write can do to the row.
LEMMA WriteCases ==
  ASSUME SessionInv, AuditWrite
  PROVE  /\ audit \in Chains /\ row \in Rows /\ Fits(audit, row) /\ audit.queue # << >>
         /\ audit' = [audit EXCEPT !.queue = Tail(@)]
         /\ \/ /\ Head(audit.queue) = "progress"
               /\ row' = [row EXCEPT !.status = "progress"] /\ UNCHANGED faults
            \/ /\ Head(audit.queue) = "failure"
               /\ row' = [row EXCEPT !.status = "error"] /\ UNCHANGED faults
            \/ /\ Head(audit.queue) = "finish"
               /\ row' = audit.closure /\ UNCHANGED faults
            \/ faults' = faults \cup {"database"} /\ UNCHANGED row
<1>1. audit \in Chains /\ row \in Rows /\ Fits(audit, row) /\ audit.queue # << >>
  BY DEF SessionInv, TypeOK, AuditWrite
<1>2. Head(audit.queue) \in {"progress", "failure", "finish"}
  BY <1>1, WriteLeaves DEF AuditWrites
<1> QED BY <1>1, <1>2 DEF AuditWrite

LEMMA AuditWriteStep ==
  ASSUME SessionInv, AuditWrite
  PROVE  SessionInv'
<1>1. /\ up
      /\ UNCHANGED <<up, ticket, upgrade, socket, phase, authorized, live, deadline,
                     handler, answer, lease, wire, engine, crashes>>
  BY DEF AuditWrite
<1>2. /\ audit \in Chains /\ row \in Rows /\ Fits(audit, row) /\ audit.queue # << >>
      /\ audit' = [audit EXCEPT !.queue = Tail(@)]
  BY WriteCases
<1>3. /\ audit' \in Chains /\ audit'.closure = audit.closure
      /\ Head(audit.queue) # "finish" /\ InQueue(audit, "finish")
           => InQueue(audit', "finish")
      /\ Head(audit.queue) = "finish" => InQueue(audit, "finish")
      /\ audit.queue \in Seq({"progress"}) =>
           audit'.queue \in Seq({"progress"}) /\ Head(audit.queue) = "progress"
  BY <1>2, WriteLeaves
<1>4. row.status # "none" /\ audit # NoAudit
  BY <1>2 DEF Fits, NoAudit
<1>5. /\ row' \in Rows /\ Fits(audit', row')
      /\ faults \subseteq faults' /\ faults' \subseteq faults \cup {"database"}
      /\ row'.status # "none"
      /\ audit.closure = NoClosure /\ row.reason = "none" => row'.reason = "none"
      /\ audit.queue \in Seq({"progress"}) /\ row.status \notin Final =>
           row'.status \notin Final
      /\ row'.status \in {"authorizing", "progress"} =>
           \/ row.status \in {"authorizing", "progress"} /\ Head(audit.queue) # "finish"
           \/ "database" \in faults'
  <2>1. CASE /\ Head(audit.queue) = "progress"
             /\ row' = [row EXCEPT !.status = "progress"] /\ UNCHANGED faults
    <3>1. row' \in Rows /\ row'.status = "progress" /\ row'.reason = row.reason
      BY <1>2, <2>1 DEF Rows
    <3>2. Fits(audit', row') /\ row.status \notin Final \cup {"none"}
      BY <1>2, <2>1, WriteFits
    <3>3. row.status \in {"authorizing", "progress"}
      BY <1>2, <3>2 DEF Rows
    <3> QED BY <2>1, <3>1, <3>2, <3>3 DEF Final
  <2>2. CASE /\ Head(audit.queue) = "failure"
             /\ row' = [row EXCEPT !.status = "error"] /\ UNCHANGED faults
    <3>1. row' \in Rows /\ row'.status = "error" /\ row'.reason = row.reason
      BY <1>2, <2>2 DEF Rows, Final
    <3>2. Fits(audit', row')
      BY <1>2, <2>2, WriteFits
    <3> QED BY <1>3, <2>2, <3>1, <3>2
  <2>3. CASE /\ Head(audit.queue) = "finish"
             /\ row' = audit.closure /\ UNCHANGED faults
    <3>1. Fits(audit', row') /\ row' \in Outcomes
      BY <1>2, <2>3, WriteFits
    <3>2. row' \in Rows /\ row'.status \in Final
      BY <3>1 DEF Outcomes, Rows
    <3>3. audit.closure # NoClosure
      BY <1>2, <1>3, <2>3 DEF Fits
    <3> QED BY <1>3, <2>3, <3>1, <3>2, <3>3 DEF Final
  <2>4. CASE faults' = faults \cup {"database"} /\ UNCHANGED row
    <3>1. Fits(audit', row')
      BY <1>2, <2>4, WriteFits
    <3> QED BY <1>2, <1>4, <2>4, <3>1
  <2> QED BY <2>1, <2>2, <2>3, <2>4, WriteCases
<1>6. TypeOK'
  BY <1>1, <1>3, <1>5, ZenonT(40) DEF SessionInv, TypeOK
<1>7. OneSocketPerTicket' /\ TicketFirst'
  <2>1. socket # "none" /\ phase # "none"
    BY <1>2, ActiveHasSocket DEF SessionInv, TicketFirst
  <2> QED BY <1>1, <2>1, TicketUntouched
<1>8. Roles'
  BY <1>1 DEF SessionInv, Roles
<1>9. AtAwait'
  BY <1>1, <1>4 DEF SessionInv, AtAwait, StillWanted, Open
<1>10. LeaseTraced'
  BY <1>1, <1>5 DEF SessionInv, LeaseTraced, HoldsLease, Hidden
<1>11. RowTraced'
  <2>1. live => row'.status # "none" /\ audit'.closure = NoClosure /\ row'.reason = "none"
    BY <1>3, <1>5 DEF SessionInv, RowTraced
  <2>2. Running => row'.status \notin Final /\ audit'.queue \in Seq({"progress"})
    BY <1>3, <1>5 DEF SessionInv, RowTraced
  <2>3. row'.status \in {"authorizing", "progress"} =>
          \/ live \/ handler \in {"noting", "unwinding"} \/ InQueue(audit', "finish")
          \/ ~up \/ "database" \in faults' \/ Hidden'
    BY <1>1, <1>3, <1>5 DEF SessionInv, RowTraced, Hidden
  <2> QED BY <1>1, <2>1, <2>2, <2>3 DEF RowTraced, Running
<1> QED BY <1>5, <1>6, <1>7, <1>8, <1>9, <1>10, <1>11 DEF SessionInv

-----------------------------------------------------------------------------
(* The registry.                                                           *)

LEMMA RegistryStep ==
  ASSUME SessionInv, RegistryAcquires \/ RegistryReleases \/ LeaseExpires
  PROVE  SessionInv'
<1>1. /\ UNCHANGED <<up, ticket, upgrade, socket, phase, authorized, live, deadline,
                     handler, audit, row, engine, crashes>>
      /\ socket # "none"
      /\ faults \subseteq faults' /\ faults' \subseteq faults \cup {"registry"}
      /\ wire' \subseteq wire
  BY ActiveHasSocket DEF RegistryAcquires, RegistryReleases, LeaseExpires, memoryVars
<1>2. /\ lease' \in BOOLEAN /\ answer' \in {"none", "granted", "refused"}
      /\ LeaseTraced'
  <2>1. CASE RegistryAcquires
    <3>1. PICK verdict \in {"granted", "refused"} :
            /\ lease' = (lease \/ verdict = "granted")
            /\ answer' = IF handler = "acquiring" THEN verdict ELSE answer
      BY <2>1 DEF RegistryAcquires
    <3>2. lease' \in BOOLEAN /\ (lease' <=> lease \/ verdict = "granted")
      BY <3>1
    <3>3. "acquire" \in wire /\ wire' = wire \ {"acquire"} /\ UNCHANGED faults
      BY <2>1 DEF RegistryAcquires
    <3>4. CASE handler = "acquiring"
      <4>1. answer = "none" /\ answer' = verdict
        BY <3>1, <3>3, <3>4 DEF SessionInv, LeaseTraced
      <4> QED BY <1>1, <3>2, <3>3, <3>4, <4>1
              DEF SessionInv, LeaseTraced, HoldsLease, Hidden
    <3>5. CASE handler # "acquiring"
      <4>1. ("registry" \in faults \/ Hidden) /\ UNCHANGED answer
        BY <3>1, <3>3, <3>5 DEF SessionInv, LeaseTraced
      <4> QED BY <1>1, <3>2, <3>3, <3>5, <4>1
              DEF SessionInv, TypeOK, LeaseTraced, HoldsLease, Hidden
    <3> QED BY <3>4, <3>5
  <2>2. CASE RegistryReleases
    <3>1. /\ "release" \in wire /\ wire' = wire \ {"release"} /\ UNCHANGED answer
          /\ \/ lease' = FALSE
             \/ UNCHANGED lease /\ "registry" \in faults'
      BY <2>2 DEF RegistryReleases, memoryVars
    <3>2. ~HoldsLease /\ ~HoldsLease'
      BY <1>1, <3>1 DEF SessionInv, LeaseTraced, HoldsLease, Roles
    <3> QED BY <1>1, <3>1, <3>2 DEF SessionInv, TypeOK, LeaseTraced, Hidden
  <2>3. CASE LeaseExpires
    <3>1. lease' = FALSE /\ UNCHANGED <<answer, wire, faults>>
      BY <2>3 DEF LeaseExpires, memoryVars
    <3>2. ~HoldsLease /\ ~HoldsLease'
      BY <1>1, <2>3 DEF LeaseExpires, HoldsLease
    <3> QED BY <1>1, <3>1, <3>2 DEF SessionInv, TypeOK, LeaseTraced, Hidden
  <2> QED BY <2>1, <2>2, <2>3
<1>3. TypeOK'
  <2>1. /\ faults' \subseteq {"registry", "database", "crash while starting",
                              "crash detached"}
        /\ wire' \in SUBSET {"acquire", "release"}
    BY <1>1 DEF SessionInv, TypeOK
  <2> QED BY <1>1, <1>2, <2>1 DEF SessionInv, TypeOK
<1>4. OneSocketPerTicket' /\ TicketFirst'
  BY <1>1, TicketUntouched DEF SessionInv, TicketFirst
<1>5. Roles' /\ AtAwait'
  BY <1>1 DEF SessionInv, Roles, AtAwait, StillWanted, Open, Hidden
<1>6. Fits(audit, row)' /\ RowTraced'
  BY <1>1 DEF SessionInv, Fits, InQueue, RowTraced, Running, Hidden
<1> QED BY <1>2, <1>3, <1>4, <1>5, <1>6 DEF SessionInv

-----------------------------------------------------------------------------
(* Crash and restart.                                                      *)

LEMMA CrashStep ==
  ASSUME SessionInv, Crash
  PROVE  SessionInv'
<1>1. /\ UNCHANGED <<ticket, phase, lease, row>>
      /\ up' = FALSE /\ live' = FALSE /\ authorized' = FALSE /\ deadline' = FALSE
      /\ handler' = "none" /\ answer' = "none" /\ audit' = NoAudit
      /\ crashes < MaxCrashes /\ crashes' = crashes + 1
  BY DEF Crash
<1>2. /\ wire' \subseteq wire
      /\ engine' \in {"none", "closed"} /\ (engine = "none" => engine' = "none")
  BY DEF Crash
<1>3. /\ socket' = socket \/ (socket # "none" /\ socket' = "closed")
      /\ socket' \in {"none", "open", "closing", "closed"}
  <2>1. \/ socket \in {"none", "open", "closing"} /\ socket' = socket
        \/ socket # "none" /\ socket' = "closed"
    BY DEF Crash
  <2>2. CASE socket \in {"none", "open", "closing"} /\ socket' = socket
    BY <2>2
  <2>3. CASE socket # "none" /\ socket' = "closed"
    BY <2>3
  <2> QED BY <2>1, <2>2, <2>3
<1>4. /\ faults \subseteq faults'
      /\ faults' \subseteq faults \cup {"crash while starting", "crash detached"}
      /\ phase = "waiting" => "crash while starting" \in faults'
      /\ socket' = "closed" => "crash detached" \in faults'
  BY DEF Crash
<1>5. upgrade' = [a \in Attempts |-> IF upgrade[a] = "taken" THEN "refused"
                                     ELSE upgrade[a]]
  BY DEF Crash
<1>6. audit'.queue = << >> /\ audit' \in Chains
  <2>1. << >> \in Seq(AuditWrites)
    OBVIOUS
  <2> QED BY <1>1, <2>1 DEF NoAudit, Chains
<1>7. TypeOK'
  <2>1. upgrade' \in [Attempts -> {"none", "taken", "refused", "accepted"}]
    BY <1>5 DEF SessionInv, TypeOK
  <2>2. crashes' \in 0..MaxCrashes
    <3>1. crashes \in 0..MaxCrashes
      BY DEF SessionInv, TypeOK
    <3> QED BY <1>1, <3>1, CrashAssumption
  <2>3. wire' \in SUBSET {"acquire", "release"}
    BY <1>2 DEF SessionInv, TypeOK
  <2>4. faults' \subseteq {"registry", "database", "crash while starting",
                           "crash detached"}
    BY <1>4 DEF SessionInv, TypeOK
  <2>5. handler' \in Waiting /\ engine' \in EnginePhases
    BY <1>1, <1>2 DEF Waiting, EnginePhases
  <2> QED BY <1>1, <1>3, <1>6, <2>1, <2>2, <2>3, <2>4, <2>5 DEF SessionInv, TypeOK
<1>8. OneSocketPerTicket' /\ TicketFirst'
  <2>1. \A a \in Attempts : /\ upgrade'[a] \in {"taken", "accepted"} =>
                                upgrade[a] \in {"taken", "accepted"}
                            /\ upgrade[a] = "accepted" => upgrade'[a] = "accepted"
    BY <1>5
  <2>2. OneSocketPerTicket'
    BY <2>1 DEF SessionInv, OneSocketPerTicket
  <2>3. /\ ticket' # "gone" => \A a \in Attempts : upgrade'[a] \notin {"taken", "accepted"}
        /\ socket' # "none" => phase' # "none" /\ \E a \in Attempts : upgrade'[a] = "accepted"
    BY <1>1, <1>3, <2>1 DEF SessionInv, TicketFirst
  <2>4. socket' = "none" =>
          /\ ~authorized' /\ ~live' /\ ~deadline' /\ ~lease'
          /\ phase' = "none" /\ handler' = "none" /\ engine' = "none"
          /\ wire' = {} /\ audit' = NoAudit /\ row' = NoRow
    BY <1>1, <1>2, <1>3 DEF SessionInv, TicketFirst
  <2> QED BY <2>2, <2>3, <2>4 DEF TicketFirst
<1>9. Roles'
  <2>1. \/ socket' = "none" \/ Hidden'
        \/ socket' \in {"open", "closing"} /\ phase' \in {"connecting", "connected"}
    BY <1>1, <1>3, <1>4 DEF SessionInv, TypeOK, TicketFirst, Hidden
  <2> QED BY <1>1, <1>2, <2>1 DEF Roles
<1>10. AtAwait'
  BY <1>1 DEF AtAwait, StillWanted
<1>11. LeaseTraced'
  <2>1. "acquire" \in wire => "registry" \in faults \/ Hidden'
    BY <1>1, <1>4 DEF SessionInv, LeaseTraced, AtAwait, Hidden
  <2> QED BY <1>1, <1>2, <1>4, <2>1 DEF LeaseTraced, HoldsLease
<1>12. Fits(audit, row)'
  <2>1. \A i : i \notin 1..Len(audit'.queue)
    BY <1>6
  <2> QED BY <1>1, <1>6, <2>1 DEF SessionInv, Fits, InQueue
<1>13. RowTraced'
  BY <1>1, <1>2 DEF RowTraced, Running, Dialling
<1> QED BY <1>7, <1>8, <1>9, <1>10, <1>11, <1>12, <1>13 DEF SessionInv

LEMMA RestartStep ==
  ASSUME SessionInv, Restart
  PROVE  SessionInv'
<1>1. /\ ~up /\ up' = TRUE
      /\ UNCHANGED <<ticket, upgrade, phase, lease, crashes>>
      /\ UNCHANGED <<authorized, live, deadline, handler, answer, audit, engine>>
  BY DEF Restart, memoryVars
<1>2. /\ ~authorized /\ ~live /\ ~deadline /\ handler = "none" /\ audit = NoAudit
      /\ engine \in {"none", "closed"}
  BY <1>1 DEF SessionInv, Roles
<1>3. /\ \/ socket \in {"open", "closing"} /\ socket' = "closed"
         \/ UNCHANGED socket
      /\ wire \subseteq wire' /\ wire' \subseteq wire \cup {"release"}
      /\ wire' # wire => socket \in {"open", "closing"}
      /\ faults \subseteq faults' /\ faults' \subseteq faults \cup {"database", "registry"}
  BY DEF Restart
<1>4. \/ row' = row
      \/ row.status \notin Final \cup {"none"} /\ row' = Failed("worker_restart")
  <2>1. CASE row.status \in Final \cup {"none"}
    <3>1. UNCHANGED row
      BY <2>1, Zenon DEF Restart
    <3> QED BY <3>1
  <2>2. CASE row.status \notin Final \cup {"none"}
    <3>1. row' = row \/ row' = Failed("worker_restart")
      BY <2>2, Zenon DEF Restart
    <3> QED BY <2>2, <3>1
  <2> QED BY <2>1, <2>2
<1>5. /\ socket = "none" => UNCHANGED <<wire, row>>
      /\ socket \in {"open", "closing"} /\ phase # "waiting" =>
           \/ "release" \in wire' /\ row'.status \in Final \cup {"none"}
           \/ "release" \in wire' /\ "database" \in faults'
           \/ "database" \in faults' /\ "registry" \in faults'
  BY DEF Restart, Failed, Final
<1>6. socket = "none" \/ Hidden \/ (socket \in {"open", "closing"} /\ phase # "waiting")
  <2>1. \/ socket = "none" \/ Hidden
        \/ socket \in {"open", "closing"} /\ phase \in {"connecting", "connected"}
    BY <1>1 DEF SessionInv, Roles
  <2>2. phase \in {"connecting", "connected"} => phase # "waiting"
    OBVIOUS
  <2> QED BY <2>1, <2>2
<1>7. Hidden => Hidden'
  BY <1>3 DEF Hidden
<1>8. TypeOK'
  <2>1. row' \in Rows
    BY <1>4, OutcomeTypes DEF SessionInv, TypeOK, Outcomes, Rows
  <2>2. /\ wire' \in SUBSET {"acquire", "release"}
        /\ socket' \in {"none", "open", "gone", "closing", "closed"}
        /\ faults' \subseteq {"registry", "database", "crash while starting",
                              "crash detached"}
    BY <1>3 DEF SessionInv, TypeOK
  <2> QED BY <1>1, <2>1, <2>2 DEF SessionInv, TypeOK
<1>9. OneSocketPerTicket' /\ TicketFirst'
  BY <1>1, <1>3, <1>5 DEF SessionInv, OneSocketPerTicket, TicketFirst
<1>10. Roles'
  BY <1>1, <1>2 DEF Roles
<1>11. AtAwait'
  BY <1>1, <1>2 DEF AtAwait, StillWanted
<1>12. LeaseTraced'
  <2>1. lease => "release" \in wire' \/ "registry" \in faults' \/ Hidden'
    BY <1>5, <1>6, <1>7 DEF SessionInv, TicketFirst
  <2>2. "acquire" \in wire' => "registry" \in faults' \/ Hidden'
    BY <1>2, <1>3, <1>7 DEF SessionInv, LeaseTraced
  <2> QED BY <1>1, <1>2, <2>1, <2>2 DEF LeaseTraced, HoldsLease
<1>13. Fits(audit, row)'
  <2>1. audit'.queue = << >>
    BY <1>1, <1>2 DEF NoAudit
  <2>2. \A i : i \notin 1..Len(audit'.queue)
    BY <2>1
  <2> QED BY <1>4, <2>1, <2>2 DEF SessionInv, Fits, InQueue, Failed, Final
<1>14. RowTraced'
  <2>1. row'.status \in {"authorizing", "progress"} => "database" \in faults' \/ Hidden'
    BY <1>5, <1>6, <1>7 DEF SessionInv, TicketFirst, NoRow, Final
  <2> QED BY <1>1, <1>2, <2>1 DEF RowTraced, Running, Dialling
<1> QED BY <1>8, <1>9, <1>10, <1>11, <1>12, <1>13, <1>14 DEF SessionInv

-----------------------------------------------------------------------------
\* Every action of the object, its browser, its engine and the registry keeps it.
LEMMA SessionInvStep == SessionInv /\ [Next]_vars => SessionInv'
<1> SUFFICES ASSUME SessionInv, [Next]_vars PROVE SessionInv'
  OBVIOUS
<1>1. CASE Environment
  <2>1. \/ IssueTicket \/ TicketAlarm \/ \E a \in Attempts : TakeTicket(a)
        \/ BrowserLeaves \/ StrayMessage \/ Disconnect \/ BadMessage
        \/ Connect \/ HostKeyDecision \/ LeaseLost \/ LeaseExpires \/ Crash
    BY <1>1 DEF Environment
  <2> QED BY <2>1, TicketStep, SocketStep, ClosingStep, ConnectStep, HostKeyDecisionStep,
             RegistryStep, CrashStep
<1>2. CASE Handlers
  BY <1>2, LimitReachedStep, ClosingStep, LeaseInHandStep, LeaseReturnedStep,
     StartAuditStep, AbandonStartStep, WaitEndsStep, GoLiveStep, StartThrowsStep
  DEF Handlers
<1>3. CASE \E a \in Attempts : Accept(a)
  BY <1>3, AcceptStep
<1>4. CASE \/ DeadlineFires \/ CloseEvent \/ SocketCloses
           \/ EngineProgress \/ EngineEnds \/ AuditWrite
           \/ RegistryAcquires \/ RegistryReleases \/ Restart
  BY <1>4, ClosingStep, SocketStep, EngineProgressStep, EngineEndsStep, AuditWriteStep,
     RegistryStep, RestartStep
<1>5. CASE UNCHANGED vars
  <2> USE <1>5 DEF vars
  <2>1. TypeOK'
    <3>1. TypeOK
      BY DEF SessionInv
    <3>2. audit' = audit /\ row' = row /\ upgrade' = upgrade
      OBVIOUS
    <3>3. audit' \in Chains /\ row' \in Rows
          /\ upgrade' \in [Attempts -> {"none", "taken", "refused", "accepted"}]
      BY <3>1, <3>2, Zenon DEF TypeOK
    <3>4. /\ up' \in BOOLEAN /\ ticket' \in {"none", "stored", "gone"}
          /\ socket' \in {"none", "open", "gone", "closing", "closed"}
          /\ phase' \in {"none", "waiting", "connecting", "connected"}
          /\ authorized' \in BOOLEAN /\ live' \in BOOLEAN /\ deadline' \in BOOLEAN
      BY <3>1 DEF TypeOK
    <3>5. /\ handler' \in Waiting /\ answer' \in {"none", "granted", "refused"}
          /\ lease' \in BOOLEAN /\ wire' \in SUBSET {"acquire", "release"}
          /\ engine' \in EnginePhases /\ crashes' \in 0..MaxCrashes
          /\ faults' \subseteq {"registry", "database", "crash while starting", "crash detached"}
      BY <3>1 DEF TypeOK
    <3> HIDE <1>5
    <3> QED BY <3>3, <3>4, <3>5 DEF TypeOK
  <2>2. OneSocketPerTicket' /\ TicketFirst'
    BY DEF SessionInv, OneSocketPerTicket, TicketFirst
  <2>3. Roles'
    BY DEF SessionInv, Roles, Hidden
  <2>4. AtAwait'
    BY DEF SessionInv, AtAwait, StillWanted, Open
  <2>5. LeaseTraced'
    BY DEF SessionInv, LeaseTraced, HoldsLease, Hidden
  <2>6. Fits(audit, row)'
    BY DEF SessionInv, Fits, InQueue
  <2>7. RowTraced'
    BY DEF SessionInv, InQueue, RowTraced, Running, Hidden
  <2> QED BY <2>1, <2>2, <2>3, <2>4, <2>5, <2>6, <2>7 DEF SessionInv
<1> QED BY <1>1, <1>2, <1>3, <1>4, <1>5 DEF Next

\* Everything above holds in every reachable state of an SSHSessionDO.
THEOREM SessionInvariant == Spec => []SessionInv
BY SessionInvInit, SessionInvStep, PTL DEF Spec

-----------------------------------------------------------------------------
(* Every variable of the session keeps its type.                           *)
THEOREM SessionTypes == Spec => []TypeOK
<1>1. SessionInv => TypeOK
  BY DEF SessionInv
<1> QED BY <1>1, SessionInvariant, PTL

(***************************************************************************)
(* One ticket opens at most one WebSocket (consumeTicket deletes it in the *)
(* transaction that finds it), for any number of racing upgrades.          *)
(***************************************************************************)
THEOREM TicketIsUsedOnce == Spec => []OneSocketPerTicket
<1>1. SessionInv => OneSocketPerTicket
  BY DEF SessionInv
<1> QED BY <1>1, SessionInvariant, PTL

(***************************************************************************)
(* A live session holds a lease nobody is returning, its audit row is open *)
(* and its attachment lets a restart find it (handleClientMessage looks    *)
(* again after each await before it registers the session).                *)
(***************************************************************************)
THEOREM LiveSessionIsAccounted == Spec => []LiveIsAccounted
<1>1. SessionInv => LiveIsAccounted
  <2> SUFFICES ASSUME SessionInv, live PROVE LiveIsAccounted
    BY DEF LiveIsAccounted
  <2>1. lease /\ "release" \notin wire
    BY DEF SessionInv, Roles, LeaseTraced, HoldsLease
  <2>2. row.status \notin {"none", "closed"} /\ audit.closure = NoClosure
    BY DEF SessionInv, RowTraced, Fits
  <2>3. phase \in {"connecting", "connected"} /\ socket \in {"open", "gone"}
    BY DEF SessionInv, Roles
  <2> QED BY <2>1, <2>2, <2>3 DEF LiveIsAccounted
<1> QED BY <1>1, SessionInvariant, PTL

(***************************************************************************)
(* When nothing of a session is under way any more, the engine is closed,  *)
(* and a lease or an unfinished row is left only where a call to the       *)
(* registry or a write failed, or a crash hid the session from recovery.   *)
(***************************************************************************)
THEOREM EndedSessionLeavesNothing == Spec => []NothingLeftBehind
<1>1. SessionInv => NothingLeftBehind
  <2> SUFFICES ASSUME SessionInv, Quiet PROVE NothingLeftBehind
    BY DEF NothingLeftBehind
  <2>1. engine \in {"none", "closed"}
    BY DEF SessionInv, Roles, Quiet
  <2>2. lease => faults \cap {"registry", "crash while starting", "crash detached"} # {}
    BY DEF SessionInv, LeaseTraced, HoldsLease, Quiet, Hidden
  <2>3. ~InQueue(audit, "finish")
    BY DEF Quiet, InQueue
  <2>4. row.status \notin Final \cup {"none"}
          => faults \cap {"database", "crash while starting", "crash detached"} # {}
    BY <2>3 DEF SessionInv, TypeOK, Rows, RowTraced, Quiet, Hidden
  <2> QED BY <2>1, <2>2, <2>4 DEF NothingLeftBehind
<1> QED BY <1>1, SessionInvariant, PTL

(***************************************************************************)
(* A row that is final stays final, and the reason it gives stays: neither *)
(* writes queued behind finish() nor a restarted object touch it.          *)
(***************************************************************************)
THEOREM RecordedOutcomeIsKept == Spec => OutcomeIsKept
<1> DEFINE Kept == row.status \in Final =>
                     /\ row'.status \in Final
                     /\ row.reason # "none" => row'.reason = row.reason
<1>1. SessionInv /\ [Next]_vars => [Kept]_vars
  <2> SUFFICES ASSUME SessionInv, Next, row.status \in Final PROVE Kept
    OBVIOUS
  <2>1. CASE UNCHANGED row
    BY <2>1
  <2>2. CASE AuditWrite
    <3>1. audit \in Chains /\ row \in Rows /\ Fits(audit, row) /\ audit.queue # << >>
      BY <2>2, WriteCases
    <3>2. CASE Head(audit.queue) = "failure" /\ row' = [row EXCEPT !.status = "error"]
      BY <3>1, <3>2 DEF Rows, Final
    <3>3. CASE Head(audit.queue) = "finish" /\ row' = audit.closure
      BY <3>1, <3>3, WriteFits DEF Outcomes
    <3>4. Head(audit.queue) # "progress"
      BY <3>1, WriteFits
    <3> QED BY <2>1, <2>2, <3>2, <3>3, <3>4, WriteCases
  <2>3. CASE StartAudit
    <3>1. UNCHANGED row \/ handler \in {"inserting", "unwinding"}
      BY <2>3 DEF StartAudit
    <3>2. handler \notin {"inserting", "unwinding"}
      BY DEF SessionInv, AtAwait, NoRow, Final
    <3> QED BY <2>1, <3>1, <3>2
  <2>4. CASE Restart
    <3>1. UNCHANGED row
      BY <2>4 DEF Restart
    <3> QED BY <2>1, <3>1
  <2>5. UNCHANGED row \/ AuditWrite \/ StartAudit \/ Restart
    BY DEF Next, Environment, Handlers, IssueTicket, TicketAlarm, TakeTicket,
           BrowserLeaves, StrayMessage, Disconnect, BadMessage, Connect, HostKeyDecision,
           LeaseLost, LeaseExpires, Crash, LimitReached, AcquireThrows, LeaseInHand,
           LeaseReturned, AbandonStart, StartAbandoned, GoLive, StartThrows, StartFailed,
           Disconnected, Accept, DeadlineFires, CloseEvent, SocketCloses, EngineProgress,
           EngineEnds, RegistryAcquires, RegistryReleases, durableVars
  <2> QED BY <2>1, <2>2, <2>3, <2>4, <2>5
<1> QED BY <1>1, SessionInvariant, PTL DEF Spec, OutcomeIsKept
-----------------------------------------------------------------------------
(* The lease of the session, as LeaseContract has it.                      *)

LeaseStep == [LeaseUse!Next]_(LeaseUse!vars)

StageReads ==
  /\ live => LeaseStage = "live"
  /\ ~live /\ handler = "acquiring" =>
       /\ answer = "none" => LeaseStage = "asking"
       /\ answer = "granted" => LeaseStage = "granted"
       /\ answer = "refused" => LeaseStage = "out"
  /\ ~live /\ handler \in {"inserting", "noting", "unwinding", "stopping"} =>
       LeaseStage = "holding"
  /\ ~live /\ handler \notin {"acquiring", "inserting", "noting", "unwinding", "stopping"} =>
       LeaseStage = "out"

LEMMA StageReadings == StageReads /\ StageReads'
BY DEF StageReads, LeaseStage

\* Neither the lease nor what decides about it.
LEMMA LeaseUntouched ==
  ASSUME UNCHANGED <<live, handler, answer, lease, wire>>
  PROVE  LeaseStep
BY DEF LeaseStep, LeaseStage, LeaseUse!vars

\* cleanup() gives the lease of a live session back; before that, a handler
\* goes on with the lease it has, or fails.
LEMMA DropKeepsContract ==
  ASSUME SessionInv, DropSession, UNCHANGED <<answer, lease>>,
         handler' = handler \/ handler' \in {"none", "disconnecting"}
  PROVE  LeaseStep
<1>1. live => handler = "none"
  BY DEF SessionInv, Roles
<1>2. ~live' /\ wire' = IF live THEN wire \cup {"release"} ELSE wire
  BY DEF DropSession
<1>3. CASE live
  <2>1. LeaseStage = "live" /\ LeaseStage' = "out" /\ wire' = wire \cup {"release"}
    BY <1>1, <1>2, <1>3, StageReadings DEF StageReads
  <2> QED BY <2>1 DEF LeaseStep, LeaseUse!Next, LeaseUse!GiveBack, LeaseUse!InUse
<1>4. CASE ~live /\ handler' = handler
  <2>1. live' = live
    BY <1>2, <1>4 DEF SessionInv, TypeOK, DropSession
  <2> QED BY <1>2, <1>4, <2>1, LeaseUntouched
<1>5. CASE ~live /\ handler' \in {"none", "disconnecting"}
  <2>1. LeaseStage' = "out" /\ wire' = wire
    BY <1>2, <1>5, StageReadings DEF StageReads
  <2> QED BY <2>1 DEF LeaseStep, LeaseUse!Next, LeaseUse!Fail
<1> QED BY <1>3, <1>4, <1>5

\* The ways in and out of use that a handler has.
LEMMA HandlersKeepContract ==
  ASSUME SessionInv, Handlers
  PROVE  LeaseStep
<1>1. live => handler = "none"
  BY DEF SessionInv, Roles
<1>2. CASE LimitReached
  <2>1. CASE handler = "limited"
    BY <1>2, <2>1, DropKeepsContract DEF LimitReached, CloseSocket, Cleanup
  <2>2. CASE handler = "acquiring"
    <3>1. LeaseStage = "out" /\ LeaseStage' = "out" /\ UNCHANGED <<lease, wire>>
      BY <1>1, <1>2, <2>2, StageReadings DEF LimitReached, StageReads
    <3> QED BY <3>1 DEF LeaseStep, LeaseUse!vars
  <2> QED BY <1>2, <2>1, <2>2 DEF LimitReached
<1>3. CASE AcquireThrows \/ StartFailed
  BY <1>3, DropKeepsContract DEF AcquireThrows, StartFailed, CloseSocket, Cleanup
<1>4. CASE LeaseInHand
  <2>1. LeaseStage = "granted" /\ UNCHANGED lease
        /\ \/ LeaseStage' = "holding" /\ UNCHANGED wire
           \/ LeaseStage' = "out" /\ wire' = wire \cup {"release"}
    BY <1>1, <1>4, StageReadings DEF LeaseInHand, StageReads
  <2> QED BY <2>1 DEF LeaseStep, LeaseUse!Next, LeaseUse!Hear, LeaseUse!GiveBack, LeaseUse!InUse
<1>5. CASE LeaseReturned
  <2>1. LeaseStage = "out" /\ LeaseStage' = "out" /\ UNCHANGED lease
        /\ (UNCHANGED wire \/ wire' = wire \cup {"release"})
    BY <1>1, <1>5, StageReadings DEF LeaseReturned, StageReads
  <2> QED BY <2>1 DEF LeaseStep, LeaseUse!Next, LeaseUse!GiveBack, LeaseUse!vars
<1>6. CASE StartAudit \/ AbandonStart \/ StartThrows
  <2>1. ~live /\ handler \in {"inserting", "noting", "unwinding", "stopping"}
        /\ UNCHANGED <<live, lease>>
        /\ \/ handler' \in {"noting", "unwinding", "stopping"} /\ UNCHANGED wire
           \/ handler' \in {"failing", "abandoning"} /\ wire' = wire \cup {"release"}
    BY <1>1, <1>6 DEF StartAudit, AbandonStart, StartThrows
  <2>2. LeaseStage = "holding"
        /\ \/ LeaseStage' = "holding" /\ UNCHANGED wire
           \/ LeaseStage' = "out" /\ wire' = wire \cup {"release"}
    BY <2>1, StageReadings DEF StageReads
  <2> QED BY <2>1, <2>2 DEF LeaseStep, LeaseUse!Next, LeaseUse!GiveBack, LeaseUse!InUse, LeaseUse!vars
<1>7. CASE GoLive
  <2>1. LeaseStage = "holding" /\ LeaseStage' = "live" /\ UNCHANGED <<lease, wire>>
    BY <1>1, <1>7, StageReadings DEF GoLive, StageReads
  <2> QED BY <2>1 DEF LeaseStep, LeaseUse!Next, LeaseUse!GoLive
<1>8. CASE StartAbandoned \/ Disconnected
  <2>1. LeaseStage = "out" /\ LeaseStage' = "out" /\ UNCHANGED <<lease, wire>>
    BY <1>1, <1>8, StageReadings DEF StartAbandoned, Disconnected, StageReads
  <2> QED BY <2>1 DEF LeaseStep, LeaseUse!vars
<1> QED BY <1>2, <1>3, <1>4, <1>5, <1>6, <1>7, <1>8 DEF Handlers

\* The registry answers, and a lease nobody uses runs out.
LEMMA RegistryKeepsContract ==
  ASSUME SessionInv, RegistryAcquires \/ RegistryReleases \/ LeaseExpires
  PROVE  LeaseStep
<1>1. CASE RegistryAcquires
  <2>1. live => handler = "none"
    BY DEF SessionInv, Roles
  <2>2. handler = "acquiring" => answer = "none"
    BY <1>1 DEF RegistryAcquires, SessionInv, LeaseTraced
  <2>3. PICK verdict \in {"granted", "refused"} :
          /\ "acquire" \in wire /\ wire' = wire \ {"acquire"}
          /\ lease' = (lease \/ verdict = "granted")
          /\ answer' = IF handler = "acquiring" THEN verdict ELSE answer
          /\ UNCHANGED <<live, handler>>
    BY <1>1 DEF RegistryAcquires
  <2>4. lease \in BOOLEAN
    BY DEF SessionInv, TypeOK
  <2>5. CASE handler = "acquiring"
    <3>1. LeaseStage = "asking"
          /\ LeaseStage' = IF verdict = "granted" THEN "granted" ELSE "out"
      BY <2>1, <2>2, <2>3, <2>5, StageReadings DEF StageReads
    <3> QED BY <2>3, <2>4, <3>1 DEF LeaseStep, LeaseUse!Next, LeaseUse!Grant, LeaseUse!Refuse
  <2>6. CASE handler # "acquiring"
    <3>1. LeaseStage' = LeaseStage /\ LeaseStage # "asking"
      BY <2>3, <2>6 DEF LeaseStage
    <3> QED BY <2>3, <2>4, <3>1 DEF LeaseStep, LeaseUse!Next, LeaseUse!Grant, LeaseUse!Refuse
  <2> QED BY <2>5, <2>6
<1>2. CASE RegistryReleases
  <2>1. /\ "release" \in wire /\ wire' = wire \ {"release"} /\ LeaseStage' = LeaseStage
        /\ lease' = FALSE \/ UNCHANGED lease
    BY <1>2 DEF RegistryReleases, memoryVars, LeaseStage
  <2> QED BY <2>1 DEF LeaseStep, LeaseUse!Next, LeaseUse!Released, LeaseUse!Lost
<1>3. CASE LeaseExpires
  <2>1. /\ LeaseStage = "out" /\ LeaseStage' = "out" /\ UNCHANGED wire /\ lease' = FALSE
    BY <1>3, StageReadings DEF LeaseExpires, memoryVars, StageReads
  <2> QED BY <2>1 DEF LeaseStep, LeaseUse!Next, LeaseUse!Lapse, LeaseUse!InUse
<1> QED BY <1>1, <1>2, <1>3

\* A new request for a lease, the loss of the object, and its recovery.
LEMMA RestartKeepsContract ==
  ASSUME SessionInv, Connect \/ Crash \/ Restart
  PROVE  LeaseStep
<1>1. CASE Connect
  <2>1. "release" \notin wire
    BY <1>1 DEF Connect, SessionInv, LeaseTraced
  <2>2. /\ LeaseStage = "out" /\ LeaseStage' = "asking"
        /\ wire' = wire \cup {"acquire"} /\ UNCHANGED lease
    BY <1>1, StageReadings DEF Connect, StageReads
  <2> QED BY <2>1, <2>2 DEF LeaseStep, LeaseUse!Next, LeaseUse!Ask
<1>2. CASE Crash
  <2>1. LeaseStage' = "out" /\ wire' \in SUBSET wire /\ UNCHANGED lease
    BY <1>2, StageReadings DEF Crash, StageReads
  <2> QED BY <2>1 DEF LeaseStep, LeaseUse!Next, LeaseUse!Fail
<1>3. CASE Restart
  <2>1. ~live /\ handler = "none"
    BY <1>3 DEF Restart, SessionInv, Roles
  <2>2. /\ UNCHANGED <<lease, live, handler>>
        /\ UNCHANGED wire \/ wire' = wire \cup {"release"}
    BY <1>3 DEF Restart, memoryVars
  <2>3. LeaseStage = "out" /\ LeaseStage' = "out"
    BY <2>1, <2>2, StageReadings DEF StageReads
  <2> QED BY <2>2, <2>3 DEF LeaseStep, LeaseUse!Next, LeaseUse!GiveBack, LeaseUse!vars
<1> QED BY <1>1, <1>2, <1>3

LEMMA NextKeepsContract ==
  ASSUME SessionInv, [Next]_vars
  PROVE  LeaseStep
<1>1. CASE \/ DeadlineFires \/ CloseEvent \/ Disconnect \/ BadMessage \/ LeaseLost
  BY <1>1, DropKeepsContract DEF DeadlineFires, CloseEvent, Disconnect, BadMessage, LeaseLost,
                                 CloseSocket, Cleanup
<1>2. CASE EngineEnds \/ HostKeyDecision
  <2>1. UNCHANGED <<handler, answer, lease>>
    BY <1>2 DEF EngineEnds, HostKeyDecision
  <2>2. DropSession \/ UNCHANGED <<live, wire>>
    BY <1>2 DEF EngineEnds, HostKeyDecision, CloseSocket, Cleanup
  <2> QED BY <2>1, <2>2, DropKeepsContract, LeaseUntouched
<1>3. CASE \/ IssueTicket \/ TicketAlarm \/ \E a \in Attempts : TakeTicket(a) \/ Accept(a)
           \/ BrowserLeaves \/ StrayMessage \/ SocketCloses \/ EngineProgress \/ AuditWrite
           \/ UNCHANGED vars
  <2>1. UNCHANGED <<live, handler, answer, lease, wire>>
    BY <1>3 DEF IssueTicket, TicketAlarm, TakeTicket, Accept, BrowserLeaves, StrayMessage,
                SocketCloses, EngineProgress, AuditWrite, vars, memoryVars, durableVars
  <2> QED BY <2>1, LeaseUntouched
<1> QED BY <1>1, <1>2, <1>3, HandlersKeepContract, RegistryKeepsContract, RestartKeepsContract
        DEF Next, Environment

(***************************************************************************)
(* Whatever a session goes through, it uses its lease as LeaseContract     *)
(* says: it asks only when it is not giving one back, goes live only with  *)
(* a lease in hand, and gives it back when it stops, however it stops; and *)
(* while it starts or lives it relies on the lease to last, as LeaseRenewal*)
(* shows it does.                                                          *)
(***************************************************************************)
THEOREM SessionKeepsLeaseContract == Spec => KeepsLeaseContract
<1>1. Init => LeaseUse!Init
  BY StageReadings DEF Init, LeaseUse!Init, StageReads
<1>2. SessionInv /\ [Next]_vars => [LeaseUse!Next]_(LeaseUse!vars)
  BY NextKeepsContract DEF LeaseStep
<1> QED BY <1>1, <1>2, SessionInvariant, PTL DEF Spec, KeepsLeaseContract, LeaseUse!Spec
=============================================================================
