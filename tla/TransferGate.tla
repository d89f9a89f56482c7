---------------------------- MODULE TransferGate ----------------------------
(***************************************************************************)
(* The browser's gate for file transfers                                   *)
(* (apps/web/src/lib/transfer-gate.ts): over all sessions one transfer at  *)
(* a time holds a lease, the others wait in order.  A lease is released by *)
(* its transfer, or taken away when its session closes.                    *)
(*                                                                         *)
(* The operations are functions on a gate; module FileTransfer uses them.  *)
(***************************************************************************)
EXTENDS Queues

CONSTANTS Sessions,     \* sessions of the workbench
          Transfers     \* <<session, number>>: what users may ask for

ASSUME TransferAssumption == Transfers \subseteq Sessions \X Nat

Owner(t) == t[1]
None == <<>>

\* A lease exists once its transfer is resolved; an aborted transfer that was
\* not resolved has been rejected.
EmptyGate == [active |-> None, queue |-> <<>>,
              resolved |-> {}, released |-> {}, aborted |-> {}]

Queued(g) == {g.queue[i] : i \in DOMAIN g.queue}

\* drain: an idle gate goes to the first in the queue.
Drain(g) ==
  IF g.active # None \/ g.queue = <<>> THEN g
  ELSE [g EXCEPT !.active = Head(g.queue), !.queue = Tail(@),
                 !.resolved = @ \cup {Head(g.queue)}]

Acquire(g, t) == Drain([g EXCEPT !.queue = Append(@, t)])

\* Faulty variant of Release: whoever is active is released.
ReleaseAny(g, t) ==
  IF t \in g.released THEN g
  ELSE Drain([g EXCEPT !.released = @ \cup {t}, !.active = None])

\* release(), which works once and frees the gate only for the active transfer.
Release(g, t) ==
  IF t \in g.released THEN g
  ELSE Drain([g EXCEPT !.released = @ \cup {t},
                       !.active = IF @ = t THEN None ELSE @])

\* Faulty variant of Cancel: the gate is not handed on.
CancelUndrained(g, ts) ==
  [g EXCEPT !.active = IF @ \in ts THEN None ELSE @,
            !.queue = Without(@, ts),
            !.aborted = @ \cup (ts \cap (Queued(g) \cup {g.active}))]

\* cancelSession with the transfers of one session, cancelAll with all of them.
Cancel(g, ts) ==
  Drain([g EXCEPT !.active = IF @ \in ts THEN None ELSE @,
                  !.queue = Without(@, ts),
                  !.aborted = @ \cup (ts \cap (Queued(g) \cup {g.active}))])

OfSession(s) == {t \in Transfers : Owner(t) = s}
=============================================================================
