------------------------------ MODULE Pagination ------------------------------
(***************************************************************************)
(* The lists of the HTTP API (storage/pagination.ts and the list queries of *)
(* storage/profiles and storage/history): rows newest first, ties of the   *)
(* millisecond clock broken by the random id, and a cursor that names the  *)
(* last row of the page before.  A row is known by its key [time, id].     *)
(***************************************************************************)
EXTENDS Naturals, FiniteSets

CONSTANTS NoCursor, PageSize

ASSUME PageAssumption == PageSize \in Nat \ {0} /\ NoCursor \notin [time : Nat, id : Nat]

\* ORDER BY time DESC, id DESC
Precedes(j, k) == j.time > k.time \/ (j.time = k.time /\ j.id > k.id)

\* Faulty variant of After: the cursor's time alone.
AfterTime(keys, cursor) ==
  IF cursor = NoCursor THEN keys ELSE {k \in keys : k.time < cursor.time}

\* WHERE time < ? OR (time = ? AND id < ?)
After(keys, cursor) ==
  IF cursor = NoCursor THEN keys ELSE {k \in keys : Precedes(cursor, k)}

\* LIMIT ? + 1, of which the last only says that there is more.
Page(keys, cursor) ==
  LET rest  == After(keys, cursor)
      items == {k \in rest : Cardinality({j \in rest : Precedes(j, k)}) < PageSize}
  IN  [items |-> items,
       next  |-> IF rest = items THEN NoCursor
                 ELSE CHOOSE k \in items : \A j \in items \ {k} : Precedes(j, k)]
=============================================================================
