------------------------------- MODULE Queues -------------------------------
(***************************************************************************)
(* Lists of the browser from which entries are taken anywhere: the loop    *)
(* with splice() in transfer-gate.ts, the filter() of prompt-queue.ts and  *)
(* workbench-sessions.ts.  All keep the order of what they leave.          *)
(***************************************************************************)
EXTENDS Naturals, Sequences

\* What is left of a queue without some entries.
Without(q, gone) ==
  LET kept[n \in 0..Len(q)] ==
        IF n = 0 THEN <<>>
        ELSE IF q[n] \in gone THEN kept[n - 1] ELSE Append(kept[n - 1], q[n])
  IN  kept[Len(q)]
=============================================================================
