------------------------------ MODULE TabLayout ------------------------------
(***************************************************************************)
(* The layout of the browser workbench                                     *)
(* (apps/web/src/lib/workbench-sessions.ts): the tabs in their order, the  *)
(* active one, and one or two panes that show tabs.                        *)
(*                                                                         *)
(* The cases of the reducer that touch the layout are functions on a       *)
(* layout; module Workbench applies them.                                  *)
(***************************************************************************)
EXTENDS Queues

CONSTANTS Tabs,     \* client session ids: one per tab ever opened
          NoTab     \* undefined

ASSUME NoTabAssumption == NoTab \notin Tabs

Pane == {0, 1}

Layouts == [order : Seq(Tabs), active : Tabs \cup {NoTab}, split : BOOLEAN,
            panes : [Pane -> Tabs \cup {NoTab}], focused : Pane]

EmptyLayout == [order |-> <<>>, active |-> NoTab, split |-> FALSE,
                panes |-> [p \in Pane |-> NoTab], focused |-> 0]

TabsOf(v) == {v.order[i] : i \in DOMAIN v.order}

\* a ?? b
Else(a, b) == IF a # NoTab THEN a ELSE b

\* The first tab of the order outside the excluded ones, if there is one.
NextAvailable(order, excluded) ==
  LET free == {i \in DOMAIN order : order[i] \notin excluded}
  IN  IF free = {} THEN NoTab
      ELSE order[CHOOSE i \in free : \A j \in free : i =< j]

\* Faulty variant of SelectTab: the focused pane takes the tab even when the
\* other one shows it already.
SelectTabTwice(v, t) ==
  [v EXCEPT !.active = t,
            !.panes = [p \in Pane |-> IF p = 1 /\ ~v.split THEN NoTab
                                      ELSE IF p = v.focused THEN t ELSE v.panes[p]]]

\* A tab that a pane of the split shows is focused there; any other goes into
\* the focused pane.
SelectTab(v, t) ==
  LET showing == {p \in Pane : v.panes[p] = t}
      focused == IF ~v.split \/ showing = {} THEN v.focused
                 ELSE IF 0 \in showing THEN 0 ELSE 1
  IN  [v EXCEPT !.active = t, !.focused = focused,
                !.panes = [p \in Pane |-> IF p = 1 /\ ~v.split THEN NoTab
                                          ELSE IF p = focused THEN t ELSE v.panes[p]]]

OpenTab(v, t) == SelectTab([v EXCEPT !.order = Append(@, t)], t)

\* Back to one pane with the active tab, or two panes with the active tab and
\* the first other one.
ToggleSplit(v) ==
  LET shown     == Else(v.active, Else(v.panes[v.focused], v.panes[0]))
      primary   == Else(v.active, Else(v.panes[0], NextAvailable(v.order, {})))
      secondary == NextAvailable(v.order, {primary})
  IN  IF v.split
        THEN [v EXCEPT !.split = FALSE, !.focused = 0, !.active = shown,
                       !.panes = [p \in Pane |-> IF p = 0 THEN shown ELSE NoTab]]
      ELSE IF NoTab \in {primary, secondary} THEN v
      ELSE [v EXCEPT !.split = TRUE, !.focused = 0, !.active = primary,
                     !.panes = [p \in Pane |-> IF p = 0 THEN primary ELSE secondary]]

\* A removed tab leaves its pane to the first tab no pane shows; a split that
\* cannot be filled becomes a single pane.
RemoveTab(v, t) ==
  LET order   == Without(v.order, {t})
      left    == [p \in Pane |-> IF v.panes[p] = t THEN NoTab ELSE v.panes[p]]
      first   == Else(left[0], NextAvailable(order, {left[1]}))
      second  == IF v.split THEN Else(left[1], NextAvailable(order, {first})) ELSE left[1]
      split   == v.split /\ NoTab \notin {first, second}
      kept    == IF v.focused = 0 THEN first ELSE second
      single  == Else(kept, Else(first, Else(second, NextAvailable(order, {}))))
      panes   == [p \in Pane |-> IF split THEN IF p = 0 THEN first ELSE second
                                 ELSE IF p = 0 THEN single ELSE NoTab]
      focused == IF split /\ v.focused = 1 THEN 1 ELSE 0
      active  == IF v.active \in {t, NoTab}
                   THEN Else(panes[focused], Else(panes[0], NextAvailable(order, {})))
                   ELSE v.active
  IN  [order |-> order, panes |-> panes, split |-> split, focused |-> focused,
       active |-> active]

-----------------------------------------------------------------------------
\* The active tab is the one its focused pane shows; a split shows two
\* different tabs, a single pane leaves the second one and the focus alone.
Sane(v) ==
  /\ \A i, j \in DOMAIN v.order : v.order[i] = v.order[j] => i = j
  /\ v.active = v.panes[v.focused]
  /\ v.active = NoTab <=> v.order = <<>>
  /\ \A p \in Pane : v.panes[p] \in TabsOf(v) \cup {NoTab}
  /\ IF v.split THEN NoTab \notin {v.panes[0], v.panes[1]} /\ v.panes[0] # v.panes[1]
     ELSE v.panes[1] = NoTab /\ v.focused = 0
=============================================================================
