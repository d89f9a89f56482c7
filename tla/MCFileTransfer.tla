--------------------------- MODULE MCFileTransfer ---------------------------
(* File transfers on a small instance: two transfers of one session and one *)
(* of another, with the kinds of request that compete there.                *)
EXTENDS FileTransfer

CONSTANTS a, b          \* two sessions

MCTransfers == {<<a, 1>>, <<a, 2>>, <<b, 1>>}

\* The first session writes a file or an empty one and then reads or writes, the
\* other one reads and stays up.
MCNext ==
  /\ Next
  /\ want'[<<a, 1>>] # "read"
  /\ want'[<<a, 2>>] # "empty"
  /\ want'[<<b, 1>>] \in {"none", "read", "settled"}
  /\ up'[b]

MCSpec == Init /\ [][MCNext]_vars /\ Fairness
=============================================================================
