----------------------------- MODULE MCWorkbench -----------------------------
(* Three tabs, so that a split leaves one tab in the background.  The first  *)
(* has a stored credential, the others ask for theirs at each attempt.       *)
EXTENDS Workbench

CONSTANTS tab1, tab2, tab3

MCTabs == {tab1, tab2, tab3}
MCPrompting == {tab2, tab3}
MCAttempts == [t \in MCTabs |-> IF t = tab1 THEN 2 ELSE 1]
=============================================================================
