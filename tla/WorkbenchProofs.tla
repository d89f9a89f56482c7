---------------------------- MODULE WorkbenchProofs ----------------------------
(***************************************************************************)
(* Proofs about the browser workbench, for any tabs and any number of      *)
(* attempts: the layout is sane after every operation, channels and typed  *)
(* credentials are those of the current attempt, and every prompt can      *)
(* still be answered.                                                      *)
(***************************************************************************)
EXTENDS Workbench, WellFoundedInduction, TLAPS

-----------------------------------------------------------------------------
(* The invariant.                                                          *)

Once(q) == \A i, j \in DOMAIN q : q[i] = q[j] => i = j

Pages == [layout : Layouts, session : [Tabs -> Session], prompts : Seq(Prompt),
          secret : [Tabs -> Attempt]]
PageOk(pg) == pg \in Pages /\ Sane(pg.layout) /\ Once(pg.prompts)

Remotes == {"none", "starting", "asked", "ready", "ending", "over"}
Terminals == [effect : Attempt, socket : Socket]

Types ==
  /\ PageOk(page)
  /\ pane \in [Tabs -> Terminals]
  /\ remote \in [Tabs -> Remotes]
  /\ timers \subseteq Tabs \X Attempt
  /\ logout \in {"no", "draining", "revoking", "out"}
  /\ urgent \in BOOLEAN
  /\ logout = "out" => \A t \in Tabs : ~IsOpen(page, t)

Ended == {"idle", "closed", "error"}

\* The tab and its terminal: attempts only grow, what is published or typed is of
\* the current attempt, an open socket's channel is published.
TabOk(t) ==
  LET s == page.session[t]
      a == s.attempt
  IN  /\ pane[t].effect =< a /\ page.secret[t] =< a
      /\ IsOpen(page, t) => a # 0
      /\ ~IsOpen(page, t) => s.channel = 0
      /\ pane[t].socket # "none" => pane[t].effect # 0
      /\ s.wanted => s.state \notin Ended
      /\ s.channel # 0 => /\ s.channel = a /\ pane[t].effect = a
                          /\ pane[t].socket \in {"open", "closing"}
      /\ IsOpen(page, t) /\ page.secret[t] # 0 =>
           /\ page.secret[t] = a /\ s.wanted
           /\ pane[t].effect = a => pane[t].socket = "asking"
      /\ IsOpen(page, t) /\ pane[t].effect = a /\ pane[t].socket = "open" => s.channel = a

\* The run of an attempt that is still going is one the page wants.
Going(t) == \/ pane[t].socket \in {"asking", "connecting"}
            \/ pane[t].socket = "open" /\ remote[t] # "over"
Heeded(t) ==
  IsOpen(page, t) /\ pane[t].effect = page.session[t].attempt /\ Going(t)
    => page.session[t].wanted

\* A prompt of an open tab: a host-key question has a run that is wanted and a
\* socket, a credential prompt none.
PromptOk(p) ==
  LET s == page.session[p.tab]
      run == pane[p.tab].effect = p.attempt
      socket == pane[p.tab].socket
  IN  /\ p.attempt # 0 /\ p.attempt =< s.attempt
      /\ IsOpen(page, p.tab) =>
           /\ p.attempt = s.attempt
           /\ p.kind = "host-key" => s.wanted /\ run /\ socket \in {"open", "closing"}
           /\ p.kind = "credential" => ~s.wanted /\ ~Running(s) /\ (run => socket = "none")

PromptsOk ==
  /\ \A p \in ToSet(page.prompts) : PromptOk(p)
  /\ \A p, r \in ToSet(page.prompts) : p.tab = r.tab /\ IsOpen(page, p.tab) => p = r

WorkbenchInv ==
  /\ Types
  /\ \A t \in Tabs : TabOk(t)
  /\ urgent \/ \A t \in Tabs : Heeded(t)
  /\ PromptsOk
-----------------------------------------------------------------------------
(* Sequences.                                                               *)

\* Every non-empty set of natural numbers has a least element.
LEMMA Least ==
  ASSUME NEW X, X \subseteq Nat, X # {}
  PROVE  \E k \in X : \A j \in X : k =< j
<1>1. IsWellFoundedOn(OpToRel(<, Nat), Nat)
  BY NatLessThanWellFounded
<1>2. PICK k \in X : \A j \in X : ~(<<j, k>> \in OpToRel(<, Nat))
  BY <1>1, WFMin
<1>3. \A j \in X : ~(j < k)
  BY <1>2 DEF OpToRel
<1> QED
  BY <1>3

LEMMA EmptySeq ==
  ASSUME NEW S, NEW e, e = <<>>
  PROVE  e \in Seq(S) /\ DOMAIN e = {}
OBVIOUS

LEMMA Appended ==
  ASSUME NEW S, NEW q \in Seq(S), NEW e \in S
  PROVE  /\ Append(q, e) \in Seq(S) /\ Len(Append(q, e)) = Len(q) + 1
         /\ DOMAIN q = 1 .. Len(q) /\ Len(q) \in Nat
         /\ DOMAIN Append(q, e) = 1 .. Len(q) + 1
         /\ \A i \in DOMAIN q : i \in DOMAIN Append(q, e) /\ Append(q, e)[i] = q[i]
         /\ Append(q, e)[Len(q) + 1] = e
         /\ \A i \in DOMAIN Append(q, e) : i \in DOMAIN q \/ i = Len(q) + 1
OBVIOUS

LEMMA HeadAndTail ==
  ASSUME NEW S, NEW q \in Seq(S), q # <<>>
  PROVE  /\ Tail(q) \in Seq(S) /\ Len(Tail(q)) = Len(q) - 1 /\ Len(q) \in Nat
         /\ DOMAIN Tail(q) = 1 .. Len(q) - 1 /\ DOMAIN q = 1 .. Len(q)
         /\ \A i \in DOMAIN Tail(q) : /\ i \in Nat /\ i + 1 \in DOMAIN q /\ i + 1 # 1
                                      /\ Tail(q)[i] = q[i + 1]
         /\ \A i \in DOMAIN q : i # 1 => i \in Nat /\ i - 1 \in DOMAIN Tail(q) /\ Tail(q)[i - 1] = q[i]
         /\ Head(q) = q[1] /\ 1 \in DOMAIN q /\ Head(q) \in S
OBVIOUS

\* The recursion of Without, up to place m, and that it has a solution.
Keeps(f, q, ts, m) ==
  f = [n \in 0..m |-> IF n = 0 THEN <<>>
                      ELSE IF q[n] \in ts THEN f[n - 1] ELSE Append(f[n - 1], q[n])]

LEMMA KeptExists ==
  ASSUME NEW q, NEW ts, NEW m \in Nat
  PROVE  \E f : Keeps(f, q, ts, m)
<1> DEFINE Kept(f, k) == f = [n \in 0..k |-> IF n = 0 THEN <<>>
                              ELSE IF q[n] \in ts THEN f[n - 1] ELSE Append(f[n - 1], q[n])]
           Bad == {k \in Nat : ~ \E f : Kept(f, k)}
<1>1. SUFFICES Bad = {}
  BY DEF Keeps
<1>2. SUFFICES ASSUME Bad # {} PROVE FALSE
  OBVIOUS
<1>3. PICK k \in Bad : \A j \in Bad : k =< j
  <2>1. Bad \subseteq Nat
    OBVIOUS
  <2> HIDE DEF Bad
  <2> QED
    BY <1>2, <2>1, Least
<1>4. k \in Nat /\ ~ \E f : Kept(f, k)
  OBVIOUS
<1>5. CASE k = 0
  <2>1. Kept([n \in 0..0 |-> <<>>], 0)
    OBVIOUS
  <2> QED
    BY <1>4, <1>5, <2>1
<1>6. CASE k # 0
  <2>1. k - 1 \in Nat /\ k - 1 \notin Bad
    <3>1. k - 1 \in Nat /\ ~(k =< k - 1)
      BY <1>4, <1>6
    <3> HIDE DEF Bad
    <3> QED
      BY <1>3, <3>1
  <2>2. PICK f : Kept(f, k - 1)
    BY <2>1
  <2>3. PICK h : h = [n \in 0..k |->
               IF n < k THEN f[n] ELSE IF q[k] \in ts THEN f[k - 1] ELSE Append(f[k - 1], q[k])]
    OBVIOUS
  <2>4. \A n \in 0..k - 1 : f[n] = IF n = 0 THEN <<>>
                              ELSE IF q[n] \in ts THEN f[n - 1] ELSE Append(f[n - 1], q[n])
    BY <2>2
  <2>5. \A n \in 0..k - 1 : h[n] = f[n]
    BY <1>4, <2>3
  <2>6. \A n \in 0..k : h[n] = IF n = 0 THEN <<>>
                              ELSE IF q[n] \in ts THEN h[n - 1] ELSE Append(h[n - 1], q[n])
    <3> SUFFICES ASSUME NEW n \in 0..k
                 PROVE  h[n] = IF n = 0 THEN <<>>
                              ELSE IF q[n] \in ts THEN h[n - 1] ELSE Append(h[n - 1], q[n])
      OBVIOUS
    <3>1. CASE n = 0
      <4>1. 0 \in 0..k - 1
        BY <1>4, <1>6
      <4> QED
        BY <2>4, <2>5, <3>1, <4>1
    <3>2. CASE n # 0 /\ n < k
      <4>1. n \in 0..k - 1 /\ n - 1 \in 0..k - 1
        BY <1>4, <3>2
      <4> QED
        BY <2>4, <2>5, <3>2, <4>1
    <3>3. CASE n = k
      <4>1. k - 1 \in 0..k - 1
        BY <1>4, <1>6
      <4> QED
        BY <1>4, <1>6, <2>3, <2>5, <3>3, <4>1
    <3> QED
      BY <1>4, <3>1, <3>2, <3>3
  <2>7. Kept(h, k)
    BY <2>3, <2>6
  <2> QED
    BY <1>4, <2>7
<1> QED
  BY <1>4, <1>5, <1>6

\* What is left of a queue is what is not removed, once if it was there once.
LEMMA WithoutOk ==
  ASSUME NEW S, NEW q \in Seq(S), NEW ts, Once(q)
  PROVE  /\ Without(q, ts) \in Seq(S)
         /\ ToSet(Without(q, ts)) = ToSet(q) \ ts
         /\ Once(Without(q, ts))
<1>1. Len(q) \in Nat /\ DOMAIN q = 1..Len(q) /\ \A i \in 1..Len(q) : q[i] \in S
  OBVIOUS
<1> DEFINE Kept(f) == f = [n \in 0..Len(q) |-> IF n = 0 THEN <<>>
                           ELSE IF q[n] \in ts THEN f[n - 1] ELSE Append(f[n - 1], q[n])]
<1>2. PICK f : f = CHOOSE g : Kept(g)
  OBVIOUS
<1>8. Kept(f)
  <2>1. \E g : Kept(g)
    <3>1. PICK m \in Nat : m = Len(q)
      BY <1>1
    <3>2. \E g : Keeps(g, q, ts, m)
      BY KeptExists
    <3>3. \A g : Keeps(g, q, ts, m) => Kept(g)
      BY <3>1 DEF Keeps
    <3> QED
      BY <3>2, <3>3
  <2> QED
    BY <1>2, <2>1
<1>9. Without(q, ts) = f[Len(q)]
  BY <1>2 DEF Without
<1>3. /\ f[0] = <<>>
      /\ \A n \in 1..Len(q) : f[n] = IF q[n] \in ts THEN f[n - 1] ELSE Append(f[n - 1], q[n])
  <2>1. 0 \in 0..Len(q) /\ \A n \in 1..Len(q) : n \in 0..Len(q) /\ n # 0
    BY <1>1
  <2>2. \A n \in 0..Len(q) : f[n] = IF n = 0 THEN <<>>
          ELSE IF q[n] \in ts THEN f[n - 1] ELSE Append(f[n - 1], q[n])
    BY <1>8
  <2> QED
    BY <2>1, <2>2
<1> HIDE DEF Kept
<1> DEFINE Good(n) == /\ f[n] \in Seq(S) /\ Once(f[n])
                      /\ \A e : e \in ToSet(f[n]) <=> e \notin ts /\ \E i \in 1..n : q[i] = e
           Bad == {n \in 0..Len(q) : ~Good(n)}
<1>4. Good(0)
  BY <1>3 DEF Once, ToSet
<1>5. ASSUME NEW n \in 1..Len(q), Good(n - 1) PROVE Good(n)
  <2>1. \A i \in 1..n : i \in 1..n - 1 \/ i = n
    BY <1>1
  <2>2. \A i \in 1..n - 1 : i \in 1..n /\ i \in DOMAIN q /\ i # n
    BY <1>1
  <2>3. n \in DOMAIN q /\ n \in 1..n
    BY <1>1
  <2>4. PICK p \in Seq(S) : p = f[n - 1] /\ Once(p)
    BY <1>5
  <2>5. \A e : e \in ToSet(p) <=> e \notin ts /\ \E i \in 1..n - 1 : q[i] = e
    BY <1>5, <2>4
  <2>6. CASE q[n] \in ts
    <3>1. f[n] = p
      BY <1>3, <2>4, <2>6
    <3>2. \A e : e \in ToSet(p) <=> e \notin ts /\ \E i \in 1..n : q[i] = e
      BY <2>1, <2>2, <2>5, <2>6
    <3> QED
      BY <2>4, <3>1, <3>2
  <2>7. CASE q[n] \notin ts
    <3>1. PICK x \in S : x = q[n]
      BY <1>1
    <3>2. PICK r : r = Append(p, x) /\ f[n] = r
      BY <1>3, <2>4, <2>7, <3>1
    <3>3. x \notin ToSet(p)
      <4>1. \A i \in 1..n - 1 : q[i] # x
        BY <2>2, <2>3, <3>1 DEF Once
      <4> QED
        BY <2>5, <4>1
    <3>4. /\ r \in Seq(S) /\ DOMAIN p = 1 .. Len(p) /\ DOMAIN r = 1 .. Len(p) + 1
          /\ \A i \in DOMAIN p : i \in DOMAIN r /\ r[i] = p[i]
          /\ r[Len(p) + 1] = x /\ Len(p) + 1 \in DOMAIN r
          /\ \A i \in DOMAIN r : i \in DOMAIN p \/ i = Len(p) + 1
      BY <2>4, <3>1, <3>2, Appended
    <3>5. ToSet(r) = ToSet(p) \cup {x}
      BY <3>4 DEF ToSet
    <3>6. Once(r)
      BY <2>4, <3>3, <3>4 DEF Once, ToSet
    <3>7. \A e : e \in ToSet(r) <=> e \notin ts /\ \E i \in 1..n : q[i] = e
      BY <2>1, <2>2, <2>3, <2>5, <2>7, <3>1, <3>5
    <3> QED
      BY <3>2, <3>4, <3>6, <3>7
  <2> QED
    BY <2>6, <2>7
<1>6. Bad = {}
  <2> SUFFICES ASSUME Bad # {} PROVE FALSE
    OBVIOUS
  <2>1. PICK k \in Bad : \A j \in Bad : k =< j
    <3>1. Bad \subseteq Nat
      BY <1>1
    <3> HIDE DEF Bad
    <3> QED
      BY <3>1, Least
  <2>2. k \in 0..Len(q) /\ ~Good(k)
    BY <2>1
  <2> HIDE DEF Good
  <2>3. k # 0 /\ k \in 1..Len(q) /\ k - 1 \in 0..Len(q) /\ ~(k =< k - 1)
    BY <1>1, <1>4, <2>2
  <2>4. Good(k - 1)
    BY <2>1, <2>3
  <2>5. Good(k)
    BY <1>5, <2>3, <2>4
  <2> QED
    BY <2>2, <2>5
<1>7. Good(Len(q))
  <2>1. Len(q) \in 0..Len(q)
    BY <1>1
  <2> QED
    BY <1>6, <2>1
<1> QED
  BY <1>1, <1>9, <1>7 DEF ToSet

-----------------------------------------------------------------------------
(* The layout.                                                             *)

LEMMA NextOk ==
  ASSUME NEW order \in Seq(Tabs), NEW excluded
  PROVE  /\ NextAvailable(order, excluded) \in (ToSet(order) \ excluded) \cup {NoTab}
         /\ NextAvailable(order, excluded) = NoTab => ToSet(order) \subseteq excluded
<1>1. PICK free : free = {i \in DOMAIN order : order[i] \notin excluded}
  OBVIOUS
<1>2. DOMAIN order \subseteq Nat /\ \A i \in DOMAIN order : order[i] \in Tabs
  OBVIOUS
<1>3. CASE free = {}
  BY <1>1, <1>3 DEF NextAvailable, ToSet
<1>4. CASE free # {}
  <2>1. PICK i : i = CHOOSE k \in free : \A j \in free : k =< j
    OBVIOUS
  <2>2. i \in free
    <3>1. \E k \in free : \A j \in free : k =< j
      BY <1>1, <1>2, <1>4, Least
    <3> QED
      BY <2>1, <3>1
  <2>3. NextAvailable(order, excluded) = order[i]
    BY <1>1, <1>4, <2>1 DEF NextAvailable
  <2>4. order[i] \in ToSet(order) \ excluded /\ order[i] # NoTab
    BY <1>1, <1>2, <2>2, NoTabAssumption DEF ToSet
  <2> QED
    BY <2>3, <2>4
<1> QED
  BY <1>3, <1>4

\* The panes of a layout: two different tabs, or one and nothing else to focus.
PanesOk(v) ==
  /\ \A p \in Pane : v.panes[p] \in TabsOf(v) \cup {NoTab}
  /\ IF v.split THEN NoTab \notin {v.panes[0], v.panes[1]} /\ v.panes[0] # v.panes[1]
     ELSE v.panes[1] = NoTab /\ v.focused = 0

LEMMA SaneIs ==
  ASSUME NEW v
  PROVE  Sane(v) <=> /\ Once(v.order) /\ PanesOk(v) /\ v.active = v.panes[v.focused]
                     /\ v.active = NoTab <=> v.order = <<>>
BY DEF Sane, PanesOk, Once

LEMMA NoTabNot == \A v \in Layouts : NoTab \notin TabsOf(v) /\ TabsOf(v) \subseteq Tabs
<1> SUFFICES ASSUME NEW v \in Layouts PROVE NoTab \notin TabsOf(v) /\ TabsOf(v) \subseteq Tabs
  OBVIOUS
<1>1. PICK q \in Seq(Tabs) : q = v.order
  BY DEF Layouts
<1>2. \A i \in DOMAIN q : q[i] \in Tabs
  OBVIOUS
<1> QED
  BY <1>1, <1>2, NoTabAssumption DEF TabsOf

LEMMA SelectOk ==
  ASSUME NEW v \in Layouts, Once(v.order), PanesOk(v), NEW t \in TabsOf(v)
  PROVE  /\ SelectTab(v, t) \in Layouts /\ Sane(SelectTab(v, t))
         /\ TabsOf(SelectTab(v, t)) = TabsOf(v)
<1>1. t \in Tabs /\ t # NoTab
  BY NoTabNot
<1>2. /\ v.order \in Seq(Tabs) /\ v.split \in BOOLEAN /\ v.panes \in [Pane -> Tabs \cup {NoTab}]
      /\ v.focused \in Pane
  BY DEF Layouts
<1>3. PICK focused : focused = IF ~v.split \/ {p \in Pane : v.panes[p] = t} = {} THEN v.focused
                               ELSE IF 0 \in {p \in Pane : v.panes[p] = t} THEN 0 ELSE 1
  OBVIOUS
<1>4. PICK panes : panes = [p \in Pane |-> IF p = 1 /\ ~v.split THEN NoTab
                                           ELSE IF p = focused THEN t ELSE v.panes[p]]
  OBVIOUS
<1>5. PICK w : w = [v EXCEPT !.active = t, !.focused = focused, !.panes = panes]
  OBVIOUS
<1>6. SelectTab(v, t) = w
  BY <1>3, <1>4, <1>5 DEF SelectTab
<1>7. focused \in Pane /\ panes \in [Pane -> Tabs \cup {NoTab}]
  BY <1>1, <1>2, <1>3, <1>4 DEF Pane
<1>8. /\ w \in Layouts /\ w.order = v.order /\ w.split = v.split /\ w.active = t
      /\ w.focused = focused /\ w.panes = panes
  BY <1>1, <1>5, <1>7 DEF Layouts
<1>9. TabsOf(w) = TabsOf(v) /\ v.order # <<>>
  BY <1>8 DEF TabsOf
<1>10. panes[focused] = t
  BY <1>2, <1>3, <1>4, <1>7 DEF PanesOk, Pane
<1>11. PanesOk(w)
  <2>1. \A p \in Pane : w.panes[p] \in TabsOf(w) \cup {NoTab}
    BY <1>4, <1>8, <1>9 DEF PanesOk
  <2>2. CASE ~v.split
    BY <1>2, <1>3, <1>4, <1>8, <2>1, <2>2 DEF PanesOk, Pane
  <2>3. CASE v.split
    <3>1. panes[0] # NoTab /\ panes[1] # NoTab
      BY <1>1, <1>4, <2>3 DEF PanesOk, Pane
    <3>2. panes[0] # panes[1]
      <4>1. /\ v.panes[0] # v.panes[1]
            /\ panes[0] = IF focused = 0 THEN t ELSE v.panes[0]
            /\ panes[1] = IF focused = 1 THEN t ELSE v.panes[1]
        BY <1>4, <2>3 DEF PanesOk, Pane
      <4>2. \/ v.panes[0] # t /\ v.panes[1] # t
            \/ v.panes[0] = t /\ focused = 0
            \/ v.panes[0] # t /\ v.panes[1] = t /\ focused = 1
        BY <1>3, <2>3 DEF Pane
      <4>3. focused = 0 \/ focused = 1
        BY <1>7 DEF Pane
      <4> QED
        BY <4>1, <4>2, <4>3
    <3> QED
      BY <1>8, <2>1, <2>3, <3>1, <3>2 DEF PanesOk
  <2> QED
    BY <1>2, <2>2, <2>3
<1>12. Sane(w)
  BY <1>1, <1>8, <1>9, <1>10, <1>11, SaneIs
<1> QED
  BY <1>6, <1>8, <1>9, <1>12

LEMMA OpenOk ==
  ASSUME NEW v \in Layouts, Sane(v), NEW t \in Tabs \ TabsOf(v)
  PROVE  /\ OpenTab(v, t) \in Layouts /\ Sane(OpenTab(v, t))
         /\ TabsOf(OpenTab(v, t)) = TabsOf(v) \cup {t}
<1>1. PICK q \in Seq(Tabs) : q = v.order /\ Once(q)
  BY SaneIs DEF Layouts
<1>2. PICK r : r = Append(q, t)
  OBVIOUS
<1>3. /\ r \in Seq(Tabs)
      /\ \A i \in DOMAIN q : i \in DOMAIN r /\ r[i] = q[i]
      /\ \A i \in DOMAIN r : i \in DOMAIN q \/ i = Len(q) + 1
      /\ Len(q) + 1 \in DOMAIN r /\ r[Len(q) + 1] = t
  BY <1>2, Appended
<1>4. PICK w : w = [v EXCEPT !.order = r]
  OBVIOUS
<1>5. /\ w \in Layouts /\ w.order = r /\ w.split = v.split /\ w.panes = v.panes
      /\ w.focused = v.focused
  BY <1>3, <1>4 DEF Layouts
<1>6. TabsOf(w) = TabsOf(v) \cup {t}
  BY <1>1, <1>3, <1>5 DEF TabsOf
<1>7. Once(r)
  BY <1>1, <1>3 DEF Once, TabsOf
<1>8. PanesOk(w)
  BY <1>5, <1>6, SaneIs DEF PanesOk
<1>9. OpenTab(v, t) = SelectTab(w, t)
  BY <1>1, <1>2, <1>4 DEF OpenTab
<1> QED
  BY <1>5, <1>6, <1>7, <1>8, <1>9, SelectOk

LEMMA ToggleOk ==
  ASSUME NEW v \in Layouts, Sane(v)
  PROVE  /\ ToggleSplit(v) \in Layouts /\ Sane(ToggleSplit(v))
         /\ TabsOf(ToggleSplit(v)) = TabsOf(v)
<1>1. /\ v.order \in Seq(Tabs) /\ v.split \in BOOLEAN /\ v.panes \in [Pane -> Tabs \cup {NoTab}]
      /\ v.focused \in Pane /\ v.active \in Tabs \cup {NoTab}
  BY DEF Layouts
<1>2. /\ Once(v.order) /\ PanesOk(v) /\ v.active = v.panes[v.focused]
      /\ v.active = NoTab <=> v.order = <<>>
  BY SaneIs
<1>3. TabsOf(v) = ToSet(v.order)
  BY DEF TabsOf, ToSet
<1>4. PICK shown : shown = Else(v.active, Else(v.panes[v.focused], v.panes[0]))
  OBVIOUS
<1>5. PICK primary : primary = Else(v.active, Else(v.panes[0], NextAvailable(v.order, {})))
  OBVIOUS
<1>6. PICK secondary : secondary = NextAvailable(v.order, {primary})
  OBVIOUS
<1>7. secondary \in (TabsOf(v) \ {primary}) \cup {NoTab}
  BY <1>1, <1>3, <1>6, NextOk
<1>8. CASE v.split
  <2>1. shown = v.active /\ shown # NoTab /\ shown \in TabsOf(v)
    BY <1>1, <1>2, <1>4, <1>8 DEF Else, PanesOk, Pane
  <2>2. PICK panes : panes = [p \in Pane |-> IF p = 0 THEN shown ELSE NoTab]
    OBVIOUS
  <2>3. PICK w : w = [v EXCEPT !.split = FALSE, !.focused = 0, !.active = shown, !.panes = panes]
    OBVIOUS
  <2>4. ToggleSplit(v) = w
    BY <1>4, <1>8, <2>2, <2>3 DEF ToggleSplit
  <2>5. panes \in [Pane -> Tabs \cup {NoTab}] /\ panes[0] = shown /\ panes[1] = NoTab
    BY <2>1, <2>2, NoTabNot DEF Pane
  <2>6. /\ w \in Layouts /\ w.order = v.order /\ w.split = FALSE /\ w.focused = 0
        /\ w.active = shown /\ w.panes = panes
    BY <2>1, <2>3, <2>5, NoTabNot DEF Layouts, Pane
  <2>7. TabsOf(w) = TabsOf(v)
    BY <2>6 DEF TabsOf
  <2>8. PanesOk(w)
    BY <2>1, <2>5, <2>6, <2>7 DEF PanesOk, Pane
  <2> QED
    BY <1>2, <2>1, <2>4, <2>5, <2>6, <2>7, <2>8, SaneIs
<1>9. CASE ~v.split /\ NoTab \in {primary, secondary}
  BY <1>5, <1>6, <1>9 DEF ToggleSplit
<1>10. CASE ~v.split /\ NoTab \notin {primary, secondary}
  <2>1. primary \in TabsOf(v)
    BY <1>1, <1>2, <1>3, <1>5, <1>10, NextOk DEF Else, PanesOk, Pane
  <2>2. PICK panes : panes = [p \in Pane |-> IF p = 0 THEN primary ELSE secondary]
    OBVIOUS
  <2>3. PICK w : w = [v EXCEPT !.split = TRUE, !.focused = 0, !.active = primary, !.panes = panes]
    OBVIOUS
  <2>4. ToggleSplit(v) = w
    BY <1>5, <1>6, <1>10, <2>2, <2>3 DEF ToggleSplit
  <2>5. panes \in [Pane -> Tabs \cup {NoTab}] /\ panes[0] = primary /\ panes[1] = secondary
    BY <1>7, <2>1, <2>2, NoTabNot DEF Pane
  <2>6. /\ w \in Layouts /\ w.order = v.order /\ w.split = TRUE /\ w.focused = 0
        /\ w.active = primary /\ w.panes = panes
    BY <2>1, <2>3, <2>5, NoTabNot DEF Layouts, Pane
  <2>7. TabsOf(w) = TabsOf(v) /\ v.order # <<>>
    BY <2>1, <2>6 DEF TabsOf
  <2>8. PanesOk(w)
    BY <1>7, <1>10, <2>1, <2>5, <2>6, <2>7 DEF PanesOk, Pane
  <2> QED
    BY <1>2, <1>10, <2>4, <2>5, <2>6, <2>7, <2>8, SaneIs
<1> QED
  BY <1>8, <1>9, <1>10

LEMMA RemoveOk ==
  ASSUME NEW v \in Layouts, Sane(v), NEW t \in TabsOf(v)
  PROVE  /\ RemoveTab(v, t) \in Layouts /\ Sane(RemoveTab(v, t))
         /\ TabsOf(RemoveTab(v, t)) = TabsOf(v) \ {t}
<1>1. /\ v.order \in Seq(Tabs) /\ v.split \in BOOLEAN /\ v.panes \in [Pane -> Tabs \cup {NoTab}]
      /\ v.focused \in Pane /\ v.active \in Tabs \cup {NoTab}
  BY DEF Layouts
<1>2. /\ Once(v.order) /\ PanesOk(v) /\ v.active = v.panes[v.focused]
      /\ v.active = NoTab <=> v.order = <<>>
  BY SaneIs
\* The definitions of RemoveTab.
<1> DEFINE order == Without(v.order, {t})
           O == ToSet(order)
           left == [p \in Pane |-> IF v.panes[p] = t THEN NoTab ELSE v.panes[p]]
           first == Else(left[0], NextAvailable(order, {left[1]}))
           second == IF v.split THEN Else(left[1], NextAvailable(order, {first})) ELSE left[1]
           split == v.split /\ NoTab \notin {first, second}
           kept == IF v.focused = 0 THEN first ELSE second
           single == Else(kept, Else(first, Else(second, NextAvailable(order, {}))))
           panes == [p \in Pane |-> IF split THEN IF p = 0 THEN first ELSE second
                                    ELSE IF p = 0 THEN single ELSE NoTab]
           focused == IF split /\ v.focused = 1 THEN 1 ELSE 0
           active == IF v.active \in {t, NoTab}
                       THEN Else(panes[focused], Else(panes[0], NextAvailable(order, {})))
                       ELSE v.active
           w == [order |-> order, panes |-> panes, split |-> split, focused |-> focused,
                 active |-> active]
<1>3. RemoveTab(v, t) = w
  BY DEF RemoveTab
<1> HIDE DEF order, O, left, first, second, split, kept, single, panes, focused, active, w
<1>4. order \in Seq(Tabs) /\ O = ToSet(v.order) \ {t} /\ Once(order)
  BY <1>1, <1>2, WithoutOk DEF order, O
<1>5. /\ O = TabsOf(v) \ {t} /\ O \subseteq Tabs /\ NoTab \notin O /\ t # NoTab
      /\ order = <<>> <=> O = {}
  <2>1. TabsOf(v) = ToSet(v.order)
    BY DEF TabsOf, ToSet
  <2>2. order # <<>> => 1 \in DOMAIN order
    BY <1>4, HeadAndTail
  <2>3. order = <<>> <=> O = {}
    BY <2>2 DEF ToSet, O
  <2> QED
    BY <1>4, <2>1, <2>3, NoTabNot
<1>6. \A excluded : /\ NextAvailable(order, excluded) \in (O \ excluded) \cup {NoTab}
                    /\ NextAvailable(order, excluded) = NoTab => O \subseteq excluded
  BY <1>4, NextOk DEF O
<1>7. 0 \in Pane /\ 1 \in Pane /\ (v.focused = 0 \/ v.focused = 1) /\ focused \in {0, 1}
  BY <1>1 DEF Pane, focused
<1>8. /\ left[0] = IF v.panes[0] = t THEN NoTab ELSE v.panes[0]
      /\ left[1] = IF v.panes[1] = t THEN NoTab ELSE v.panes[1]
      /\ left[0] \in O \cup {NoTab} /\ left[1] \in O \cup {NoTab}
  BY <1>2, <1>5, <1>7 DEF PanesOk, left
<1>9. panes[0] = (IF split THEN first ELSE single) /\ panes[1] = (IF split THEN second ELSE NoTab)
  BY <1>7 DEF panes
<1>10. first \in O \cup {NoTab} /\ second \in O \cup {NoTab}
  BY <1>6, <1>8 DEF Else, first, second
<1>11. single \in O \cup {NoTab}
  BY <1>6, <1>10 DEF Else, kept, single
<1>12. v.focused = 1 => v.split
  BY <1>2 DEF PanesOk
<1>13. ASSUME split
       PROVE  /\ active = panes[focused] /\ (active = NoTab <=> O = {})
              /\ panes[0] \in O \cup {NoTab} /\ panes[1] \in O \cup {NoTab}
              /\ IF split THEN panes[0] # NoTab /\ panes[1] # NoTab /\ panes[0] # panes[1]
                 ELSE panes[1] = NoTab /\ focused = 0
  <2>1. /\ v.split /\ first # NoTab /\ second # NoTab
        /\ panes[0] = first /\ panes[1] = second /\ focused = v.focused
    BY <1>7, <1>9, <1>13 DEF split, focused
  <2>2. first # second
    <3>1. v.panes[0] # v.panes[1]
      BY <1>2, <2>1 DEF PanesOk
    <3> QED
      BY <1>6, <1>8, <2>1, <3>1 DEF Else, first, second
  <2>3. v.active # NoTab
    BY <1>2, <1>7, <2>1 DEF PanesOk
  <2>4. active = panes[focused]
    <3>1. CASE v.active = t
      BY <1>7, <2>1, <3>1 DEF Else, active
    <3>2. CASE v.active # t
      <4>1. left[v.focused] = v.active
        BY <1>2, <1>7, <1>8, <3>2
      <4>2. panes[focused] = v.active
        BY <1>7, <2>1, <2>3, <4>1 DEF Else, first, second
      <4> QED
        BY <2>3, <3>2, <4>2 DEF active
    <3> QED
      BY <3>1, <3>2
  <2> QED
    BY <1>5, <1>7, <1>10, <1>13, <2>1, <2>2, <2>4
<1>14. ASSUME ~split
       PROVE  /\ active = panes[focused] /\ (active = NoTab <=> O = {})
              /\ panes[0] \in O \cup {NoTab} /\ panes[1] \in O \cup {NoTab}
              /\ IF split THEN panes[0] # NoTab /\ panes[1] # NoTab /\ panes[0] # panes[1]
                 ELSE panes[1] = NoTab /\ focused = 0
  <2>1. panes[0] = single /\ panes[1] = NoTab /\ focused = 0
    BY <1>9, <1>14 DEF focused
  <2>2. single = NoTab <=> O = {}
    BY <1>5, <1>6, <1>11 DEF Else, single
  <2>3. active = single
    <3>1. CASE v.active \in {t, NoTab}
      <4>1. active = Else(single, Else(single, NextAvailable(order, {})))
        BY <2>1, <3>1 DEF active
      <4>2. single = NoTab => NextAvailable(order, {}) = NoTab
        BY <1>6, <2>2
      <4> QED
        BY <4>1, <4>2 DEF Else
    <3>2. CASE v.active \notin {t, NoTab}
      <4>1. left[v.focused] = v.active
        BY <1>2, <1>7, <1>8, <3>2
      <4>2. kept = v.active
        BY <1>7, <1>12, <3>2, <4>1 DEF Else, first, second, kept
      <4> QED
        BY <3>2, <4>2 DEF Else, single, active
    <3> QED
      BY <3>1, <3>2
  <2> QED
    BY <1>11, <1>14, <2>1, <2>2, <2>3
<1>15. /\ active = panes[focused] /\ (active = NoTab <=> O = {})
       /\ panes[0] \in O \cup {NoTab} /\ panes[1] \in O \cup {NoTab}
       /\ IF split THEN panes[0] # NoTab /\ panes[1] # NoTab /\ panes[0] # panes[1]
          ELSE panes[1] = NoTab /\ focused = 0
  BY <1>13, <1>14
<1>16. /\ w \in Layouts /\ w.order = order /\ w.panes = panes /\ w.split = split
       /\ w.focused = focused /\ w.active = active
  <2>1. \A p \in Pane : panes[p] \in Tabs \cup {NoTab}
    BY <1>5, <1>15 DEF Pane
  <2>2. panes \in [Pane -> Tabs \cup {NoTab}]
    BY <2>1 DEF panes
  <2>3. active \in Tabs \cup {NoTab} /\ split \in BOOLEAN /\ focused \in Pane
    BY <1>5, <1>7, <1>15 DEF split
  <2> QED
    BY <1>4, <2>2, <2>3 DEF Layouts, w
<1>17. TabsOf(w) = O
  BY <1>16 DEF TabsOf, ToSet, O
<1>18. PanesOk(w)
  BY <1>15, <1>16, <1>17 DEF PanesOk, Pane
<1>19. Sane(w)
  BY <1>4, <1>5, <1>15, <1>16, <1>18, SaneIs
<1> QED
  BY <1>3, <1>5, <1>16, <1>17, <1>19

-----------------------------------------------------------------------------
(* The reducer.  What a function on the page does for one tab, the other     *)
(* tabs do not see.                                                          *)

Same(pg, q, t) ==
  /\ PageOk(q)
  /\ \A u \in Tabs \ {t} : /\ q.session[u] = pg.session[u] /\ q.secret[u] = pg.secret[u]
                           /\ IsOpen(q, u) <=> IsOpen(pg, u)
  /\ \A p \in ToSet(q.prompts) : p \in ToSet(pg.prompts) \/ p.tab = t

LEMMA SameNot ==
  ASSUME NEW pg, PageOk(pg), NEW t \in Tabs
  PROVE  Same(pg, pg, t)
BY DEF Same

LEMMA SameTwice ==
  ASSUME NEW pg, NEW q, NEW r, NEW t \in Tabs, Same(pg, q, t), Same(q, r, t)
  PROVE  Same(pg, r, t)
BY DEF Same

LEMMA PageFacts ==
  ASSUME NEW pg, PageOk(pg)
  PROVE  /\ pg = [layout |-> pg.layout, session |-> pg.session, prompts |-> pg.prompts,
                  secret |-> pg.secret]
         /\ pg.layout \in Layouts /\ Sane(pg.layout)
         /\ pg.session \in [Tabs -> Session]
         /\ pg.prompts \in Seq(Prompt) /\ Once(pg.prompts) /\ ToSet(pg.prompts) \subseteq Prompt
         /\ pg.secret \in [Tabs -> Attempt]
         /\ TabsOf(pg.layout) \subseteq Tabs
<1>1. pg \in Pages
  BY DEF PageOk
<1>2. PICK q \in Seq(Prompt) : q = pg.prompts
  BY <1>1 DEF Pages
<1>3. \A i \in DOMAIN q : q[i] \in Prompt
  OBVIOUS
<1> QED
  BY <1>1, <1>2, <1>3, NoTabNot DEF Pages, PageOk, ToSet

\* The four ways to change a part of the page.
LEMMA SetLayout ==
  ASSUME NEW pg, PageOk(pg), NEW t \in Tabs, NEW v \in Layouts, Sane(v),
         NEW q, q = [pg EXCEPT !.layout = v], \A u \in Tabs \ {t} : u \in TabsOf(v) <=> IsOpen(pg, u)
  PROVE  /\ Same(pg, q, t) /\ q.layout = v
         /\ q.session = pg.session /\ q.prompts = pg.prompts /\ q.secret = pg.secret
<1>1. /\ q \in Pages /\ q.layout = v
      /\ q.session = pg.session /\ q.prompts = pg.prompts /\ q.secret = pg.secret
  BY DEF PageOk, Pages
<1> QED
  BY <1>1 DEF Same, PageOk, IsOpen

LEMMA SetSession ==
  ASSUME NEW pg, PageOk(pg), NEW t \in Tabs, NEW s \in Session,
         NEW q, q = [pg EXCEPT !.session[t] = s]
  PROVE  /\ Same(pg, q, t) /\ q.session[t] = s
         /\ q.layout = pg.layout /\ q.prompts = pg.prompts /\ q.secret = pg.secret
<1>1. /\ q \in Pages /\ q.session = [pg.session EXCEPT ![t] = s]
      /\ q.layout = pg.layout /\ q.prompts = pg.prompts /\ q.secret = pg.secret
  BY DEF PageOk, Pages
<1>2. pg.session \in [Tabs -> Session]
  BY PageFacts
<1> QED
  BY <1>1, <1>2 DEF Same, PageOk, IsOpen

LEMMA SetSecret ==
  ASSUME NEW pg, PageOk(pg), NEW t \in Tabs, NEW a \in Attempt,
         NEW q, q = [pg EXCEPT !.secret[t] = a]
  PROVE  /\ Same(pg, q, t) /\ q.secret[t] = a
         /\ q.layout = pg.layout /\ q.prompts = pg.prompts /\ q.session = pg.session
<1>1. /\ q \in Pages /\ q.secret = [pg.secret EXCEPT ![t] = a]
      /\ q.layout = pg.layout /\ q.prompts = pg.prompts /\ q.session = pg.session
  BY DEF PageOk, Pages
<1>2. pg.secret \in [Tabs -> Attempt]
  BY PageFacts
<1> QED
  BY <1>1, <1>2 DEF Same, PageOk, IsOpen

LEMMA SetPrompts ==
  ASSUME NEW pg, PageOk(pg), NEW t \in Tabs, NEW r \in Seq(Prompt), Once(r),
         \A p \in ToSet(r) : p \in ToSet(pg.prompts) \/ p.tab = t,
         NEW q, q = [pg EXCEPT !.prompts = r]
  PROVE  /\ Same(pg, q, t) /\ q.prompts = r
         /\ q.layout = pg.layout /\ q.session = pg.session /\ q.secret = pg.secret
<1>1. /\ q \in Pages /\ q.prompts = r
      /\ q.layout = pg.layout /\ q.session = pg.session /\ q.secret = pg.secret
  BY DEF PageOk, Pages
<1> QED
  BY <1>1 DEF Same, PageOk, IsOpen

LEMMA EnqueuedOk ==
  ASSUME NEW pg, PageOk(pg), NEW t \in Tabs, NEW p \in Prompt, p.tab = t,
         NEW q, q = Enqueued(pg, p)
  PROVE  /\ Same(pg, q, t) /\ ToSet(q.prompts) = ToSet(pg.prompts) \cup {p}
         /\ q.layout = pg.layout /\ q.session = pg.session /\ q.secret = pg.secret
<1>1. CASE p \in ToSet(pg.prompts)
  BY <1>1, SameNot DEF Enqueued
<1>2. CASE p \notin ToSet(pg.prompts)
  <2>1. PICK o \in Seq(Prompt) : o = pg.prompts /\ Once(o)
    BY PageFacts
  <2>2. PICK r : r = Append(o, p)
    OBVIOUS
  <2>3. /\ r \in Seq(Prompt)
        /\ \A i \in DOMAIN o : i \in DOMAIN r /\ r[i] = o[i]
        /\ \A i \in DOMAIN r : i \in DOMAIN o \/ i = Len(o) + 1
        /\ Len(o) + 1 \in DOMAIN r /\ r[Len(o) + 1] = p
    BY <2>2, Appended
  <2>4. ToSet(r) = ToSet(o) \cup {p}
    BY <2>3 DEF ToSet
  <2>5. Once(r)
    BY <1>2, <2>1, <2>3 DEF Once, ToSet
  <2>6. q = [pg EXCEPT !.prompts = r]
    BY <1>2, <2>1, <2>2, PageFacts DEF Enqueued
  <2> QED
    BY <2>1, <2>3, <2>4, <2>5, <2>6, SetPrompts
<1> QED
  BY <1>1, <1>2

LEMMA DequeuedOk ==
  ASSUME NEW pg, PageOk(pg), NEW t \in Tabs, pg.prompts # <<>>,
         NEW q, q = Dequeued(pg)
  PROVE  /\ Same(pg, q, t) /\ Head(pg.prompts) \in ToSet(pg.prompts)
         /\ ToSet(q.prompts) = ToSet(pg.prompts) \ {Head(pg.prompts)}
         /\ q.layout = pg.layout /\ q.session = pg.session /\ q.secret = pg.secret
<1>1. PICK o \in Seq(Prompt) : o = pg.prompts /\ Once(o) /\ o # <<>>
  BY PageFacts
<1>2. PICK r \in Seq(Prompt) : r = Tail(o)
  BY <1>1, HeadAndTail
<1>3. /\ \A i \in DOMAIN r : i \in Nat /\ i + 1 \in DOMAIN o /\ i + 1 # 1 /\ r[i] = o[i + 1]
      /\ \A i \in DOMAIN o : i # 1 => i - 1 \in DOMAIN r /\ r[i - 1] = o[i]
      /\ Head(o) = o[1] /\ 1 \in DOMAIN o
  BY <1>1, <1>2, HeadAndTail
<1>4. Once(r)
  <2> SUFFICES ASSUME NEW i \in DOMAIN r, NEW j \in DOMAIN r, r[i] = r[j] PROVE i = j
    BY DEF Once
  <2>1. i + 1 \in DOMAIN o /\ j + 1 \in DOMAIN o /\ o[i + 1] = o[j + 1] /\ i \in Nat /\ j \in Nat
    BY <1>3
  <2>2. i + 1 = j + 1
    BY <1>1, <2>1 DEF Once
  <2> QED
    BY <2>1, <2>2
<1>5. ASSUME NEW p \in ToSet(r) PROVE p \in ToSet(o) \ {Head(o)}
  <2>1. PICK i \in DOMAIN r : r[i] = p
    BY DEF ToSet
  <2>2. i + 1 \in DOMAIN o /\ o[i + 1] = p /\ i + 1 # 1
    BY <1>3, <2>1
  <2>3. o[i + 1] # o[1]
    BY <1>1, <1>3, <2>2 DEF Once
  <2> QED
    BY <1>3, <2>2, <2>3 DEF ToSet
<1>6. ASSUME NEW p \in ToSet(o) \ {Head(o)} PROVE p \in ToSet(r)
  <2>1. PICK i \in DOMAIN o : o[i] = p
    BY DEF ToSet
  <2>2. i - 1 \in DOMAIN r /\ r[i - 1] = p
    BY <1>3, <2>1
  <2> QED
    BY <2>2 DEF ToSet
<1>7. q = [pg EXCEPT !.prompts = r]
  BY <1>1, <1>2, PageFacts DEF Dequeued
<1>8. Head(o) \in ToSet(o)
  BY <1>3 DEF ToSet
<1> QED
  BY <1>1, <1>4, <1>5, <1>6, <1>7, <1>8, SetPrompts

LEMMA WithoutPromptsOk ==
  ASSUME NEW pg, PageOk(pg), NEW t \in Tabs, NEW kept,
         NEW q, q = WithoutPromptsOf(pg, t, kept)
  PROVE  /\ Same(pg, q, t)
         /\ ToSet(q.prompts) = {p \in ToSet(pg.prompts) : p.tab # t \/ p.attempt = kept}
         /\ q.layout = pg.layout /\ q.session = pg.session /\ q.secret = pg.secret
<1>1. PICK o \in Seq(Prompt) : o = pg.prompts /\ Once(o)
  BY PageFacts
<1>2. PICK gone : gone = {p \in ToSet(o) : p.tab = t /\ p.attempt # kept}
  OBVIOUS
<1>3. PICK r \in Seq(Prompt) : r = Without(o, gone) /\ ToSet(r) = ToSet(o) \ gone /\ Once(r)
  BY <1>1, WithoutOk
<1>4. q = [pg EXCEPT !.prompts = r]
  BY <1>1, <1>2, <1>3, PageFacts DEF WithoutPromptsOf
<1>5. Same(pg, q, t) /\ q.prompts = r
      /\ q.layout = pg.layout /\ q.session = pg.session /\ q.secret = pg.secret
  BY <1>1, <1>3, <1>4, SetPrompts
<1> QED
  BY <1>1, <1>2, <1>3, <1>5

LEMMA ClearedOk ==
  ASSUME NEW pg, PageOk(pg), NEW t \in Tabs, NEW q, q = Cleared(pg, t)
  PROVE  /\ Same(pg, q, t) /\ q.secret[t] = 0
         /\ ToSet(q.prompts) = {p \in ToSet(pg.prompts) : p.tab # t \/ p.attempt = 0}
         /\ q.layout = pg.layout /\ q.session = pg.session
<1>1. PICK r : r = [pg EXCEPT !.secret[t] = 0]
  OBVIOUS
<1>2. /\ Same(pg, r, t) /\ r.secret[t] = 0
      /\ r.layout = pg.layout /\ r.prompts = pg.prompts /\ r.session = pg.session
  BY <1>1, SetSecret DEF Attempt
<1>3. PageOk(r) /\ q = WithoutPromptsOf(r, t, 0)
  BY <1>1, <1>2 DEF Same, Cleared
<1>4. /\ Same(r, q, t)
      /\ ToSet(q.prompts) = {p \in ToSet(r.prompts) : p.tab # t \/ p.attempt = 0}
      /\ q.layout = r.layout /\ q.session = r.session /\ q.secret = r.secret
  BY <1>3, WithoutPromptsOk
<1> QED
  BY <1>2, <1>4, SameTwice

LEMMA NewSessionOk ==
  ASSUME NEW a \in Nat, NEW start \in BOOLEAN
  PROVE  /\ NewSession(a, start) \in Session
         /\ NewSession(a, start) = [attempt |-> a, wanted |-> start,
              state |-> IF start THEN "authorizing" ELSE "idle", channel |-> 0, closing |-> FALSE]
         /\ [NoSession EXCEPT !.attempt = a] \in Session
         /\ [NoSession EXCEPT !.attempt = a] =
              [attempt |-> a, wanted |-> FALSE, state |-> "idle", channel |-> 0, closing |-> FALSE]
<1>1. NewSession(a, start) = [attempt |-> a, wanted |-> start,
        state |-> IF start THEN "authorizing" ELSE "idle", channel |-> 0, closing |-> FALSE]
  BY DEF NewSession
<1>2. PICK x \in SessionState : x = IF start THEN "authorizing" ELSE "idle"
  BY DEF SessionState
<1>3. [attempt |-> a, wanted |-> start, state |-> x, channel |-> 0, closing |-> FALSE] \in Session
  BY DEF Session, Attempt
<1>4. PICK n : n = NoSession
  OBVIOUS
<1>5. n = [attempt |-> 0, wanted |-> FALSE, state |-> "idle", channel |-> 0, closing |-> FALSE]
  BY <1>4 DEF NoSession
<1>6. n \in Session
  BY <1>5 DEF Session, SessionState, Attempt
<1>7. PICK m : m = [n EXCEPT !.attempt = a]
  OBVIOUS
<1>8. m \in Session
  BY <1>6, <1>7 DEF Session, Attempt
<1>9. m = [attempt |-> a, wanted |-> FALSE, state |-> "idle", channel |-> 0, closing |-> FALSE]
  BY <1>5, <1>6, <1>7 DEF Session
<1>10. m = [NoSession EXCEPT !.attempt = a]
  BY ONLY <1>4, <1>7, Zenon
<1> QED
  BY <1>1, <1>2, <1>3, <1>8, <1>9, <1>10

LEMMA OpenedOk ==
  ASSUME NEW pg, PageOk(pg), NEW t \in Tabs, ~IsOpen(pg, t), NEW start \in BOOLEAN,
         NEW q, q = Opened(pg, t, start)
  PROVE  /\ Same(pg, q, t) /\ IsOpen(q, t) /\ q.session[t] = NewSession(1, start)
         /\ q.prompts = pg.prompts /\ q.secret = pg.secret
<1>1. PICK v \in Layouts : v = pg.layout /\ Sane(v) /\ t \in Tabs \ TabsOf(v)
  BY PageFacts DEF IsOpen
<1>2. PICK w : w = OpenTab(v, t)
  OBVIOUS
<1>3. w \in Layouts /\ Sane(w) /\ TabsOf(w) = TabsOf(v) \cup {t}
  BY <1>1, <1>2, OpenOk
<1>4. PICK r : r = [pg EXCEPT !.layout = w]
  OBVIOUS
<1>5. Same(pg, r, t) /\ r.layout = w
      /\ r.session = pg.session /\ r.prompts = pg.prompts /\ r.secret = pg.secret
  BY <1>1, <1>3, <1>4, SetLayout DEF IsOpen
<1>6. NewSession(1, start) \in Session /\ PageOk(r)
  BY <1>5, NewSessionOk DEF Same
<1>7. q = [r EXCEPT !.session[t] = NewSession(1, start)]
  BY <1>1, <1>2, <1>4, <1>5, PageFacts DEF Opened
<1>8. /\ Same(r, q, t) /\ q.session[t] = NewSession(1, start)
      /\ q.layout = r.layout /\ q.prompts = r.prompts /\ q.secret = r.secret
  BY <1>6, <1>7, PageFacts, SetSession
<1> QED
  BY <1>3, <1>5, <1>8, SameTwice DEF IsOpen

LEMMA RemovedOk ==
  ASSUME NEW pg, PageOk(pg), NEW t \in Tabs, NEW q, q = Removed(pg, t)
  PROVE  /\ Same(pg, q, t) /\ ~IsOpen(q, t)
         /\ q.prompts = pg.prompts /\ q.secret = pg.secret
         /\ q.session[t].attempt = pg.session[t].attempt
         /\ ~IsOpen(pg, t) => q = pg
         /\ IsOpen(pg, t) => q.session[t].channel = 0 /\ ~q.session[t].wanted
<1>1. CASE ~IsOpen(pg, t)
  BY <1>1, SameNot DEF Removed
<1>2. CASE IsOpen(pg, t)
  <2>1. PICK v \in Layouts : v = pg.layout /\ Sane(v) /\ t \in TabsOf(v)
    BY <1>2, PageFacts DEF IsOpen
  <2>2. PICK w : w = RemoveTab(v, t)
    OBVIOUS
  <2>3. w \in Layouts /\ Sane(w) /\ TabsOf(w) = TabsOf(v) \ {t}
    BY <2>1, <2>2, RemoveOk
  <2>4. PICK r : r = [pg EXCEPT !.layout = w]
    OBVIOUS
  <2>5. Same(pg, r, t) /\ r.layout = w
        /\ r.session = pg.session /\ r.prompts = pg.prompts /\ r.secret = pg.secret
    BY <2>1, <2>3, <2>4, SetLayout DEF IsOpen
  <2>6. PICK a \in Nat : a = pg.session[t].attempt
    BY PageFacts DEF Session, Attempt
  <2>7. PICK s \in Session : s = [NoSession EXCEPT !.attempt = a] /\ PageOk(r)
                             /\ s.attempt = a /\ s.channel = 0 /\ ~s.wanted
    BY <2>5, NewSessionOk DEF Same
  <2>8. q = [r EXCEPT !.session[t] = s]
    BY <1>2, <2>1, <2>2, <2>4, <2>6, <2>7, PageFacts DEF Removed
  <2>9. s \in Session /\ PageOk(r)
    BY <2>7
  <2>10. /\ Same(r, q, t) /\ q.session[t] = s
         /\ q.layout = r.layout /\ q.prompts = r.prompts /\ q.secret = r.secret
    BY <2>8, <2>9, PageFacts, SetSession
  <2> QED
    BY <1>2, <2>3, <2>5, <2>6, <2>7, <2>10, SameTwice DEF IsOpen
<1> QED
  BY <1>1, <1>2

LEMMA ReconnectedOk ==
  ASSUME NEW pg, PageOk(pg), NEW t \in Tabs, IsOpen(pg, t), NEW a \in Nat, NEW start \in BOOLEAN,
         NEW q, q = Reconnected(pg, t, a, start)
  PROVE  /\ Same(pg, q, t) /\ q.session[t] = NewSession(a, start)
         /\ q.layout = pg.layout /\ q.prompts = pg.prompts /\ q.secret = pg.secret
<1>1. PICK s \in Session : s = NewSession(a, start)
  BY NewSessionOk
<1>2. q = [pg EXCEPT !.session[t] = s]
  BY <1>1 DEF Reconnected
<1> QED
  BY <1>1, <1>2, PageFacts, SetSession

LEMMA PausedOk ==
  ASSUME NEW pg, PageOk(pg), NEW t \in Tabs, NEW a, Current(pg, t, a),
         NEW q, q = Paused(pg, t, a)
  PROVE  /\ Same(pg, q, t)
         /\ q.session[t].attempt = pg.session[t].attempt /\ ~q.session[t].wanted
         /\ q.session[t].state = "idle" /\ q.session[t].channel = 0
         /\ q.layout = pg.layout /\ q.prompts = pg.prompts /\ q.secret = pg.secret
<1>1. PICK s : s = [pg.session[t] EXCEPT !.wanted = FALSE, !.state = "idle", !.channel = 0]
  OBVIOUS
<1>2. pg.session[t] \in Session
  BY PageFacts
<1>3. s \in Session
  BY <1>1, <1>2 DEF Session, SessionState, Attempt
<1>4. q = [pg EXCEPT !.session[t] = s]
  BY <1>1, <1>2, PageFacts DEF Paused
<1>5. /\ Same(pg, q, t) /\ q.session[t] = s
      /\ q.layout = pg.layout /\ q.prompts = pg.prompts /\ q.secret = pg.secret
  BY <1>3, <1>4, PageFacts, SetSession
<1>6. s.attempt = pg.session[t].attempt /\ ~s.wanted /\ s.state = "idle" /\ s.channel = 0
  BY <1>1, <1>2 DEF Session
<1> QED
  BY <1>5, <1>6

\* All but the channel is as it was.
Others(s, r) == r.attempt = s.attempt /\ r.state = s.state /\ r.wanted = s.wanted

LEMMA ChannelSetOk ==
  ASSUME NEW pg, PageOk(pg), NEW t \in Tabs, NEW a, NEW c \in Nat,
         NEW q, q = ChannelSet(pg, t, a, c)
  PROVE  /\ Same(pg, q, t)
         /\ Current(pg, t, a) => q.session[t].channel = c
         /\ Others(pg.session[t], q.session[t])
         /\ ~Current(pg, t, a) => q = pg
         /\ q.layout = pg.layout /\ q.prompts = pg.prompts /\ q.secret = pg.secret
<1>1. CASE ~Current(pg, t, a)
  BY <1>1, SameNot DEF ChannelSet, Others
<1>2. CASE Current(pg, t, a)
  <2>1. PICK s : s = [pg.session[t] EXCEPT !.channel = c]
    OBVIOUS
  <2>2. pg.session[t] \in Session
    BY PageFacts
  <2>3. s \in Session
    BY <2>1, <2>2 DEF Session, Attempt
  <2>4. q = [pg EXCEPT !.session[t] = s]
    BY <1>2, <2>1, <2>2, PageFacts DEF ChannelSet
  <2>5. /\ Same(pg, q, t) /\ q.session[t] = s
        /\ q.layout = pg.layout /\ q.prompts = pg.prompts /\ q.secret = pg.secret
    BY <2>3, <2>4, PageFacts, SetSession
  <2>6. s.channel = c /\ Others(pg.session[t], s)
    BY <2>1, <2>2 DEF Session, Others
  <2> QED
    BY <1>2, <2>5, <2>6
<1> QED
  BY <1>1, <1>2

LEMMA ForgetSecretOk ==
  ASSUME NEW pg, PageOk(pg), NEW t \in Tabs, NEW a, NEW q, q = ForgetSecret(pg, t, a)
  PROVE  /\ Same(pg, q, t) /\ q.secret[t] = (IF pg.secret[t] = a THEN 0 ELSE pg.secret[t])
         /\ q.layout = pg.layout /\ q.prompts = pg.prompts /\ q.session = pg.session
BY SetSecret, SameNot DEF ForgetSecret, Attempt

\* The state of the session, and that an ended one is wanted no more.
Told(s, r, state) ==
  /\ r.attempt = s.attempt /\ r.channel = s.channel /\ r.closing = s.closing
  /\ r.state = state /\ (r.wanted <=> s.wanted /\ state \notin Ended)

LEMMA StateSetOk ==
  ASSUME NEW pg, PageOk(pg), NEW t \in Tabs, NEW a, NEW s \in SessionState,
         NEW q, q = StateSet(pg, t, a, s)
  PROVE  /\ Same(pg, q, t)
         /\ Current(pg, t, a) => Told(pg.session[t], q.session[t], s)
         /\ ~Current(pg, t, a) => q = pg
         /\ q.layout = pg.layout /\ q.prompts = pg.prompts /\ q.secret = pg.secret
<1>1. CASE ~Current(pg, t, a)
  BY <1>1, SameNot DEF StateSet
<1>2. CASE Current(pg, t, a)
  <2>1. PICK x : x = [pg.session[t] EXCEPT !.state = s, !.wanted = @ /\ s \notin Ended]
    OBVIOUS
  <2>2. pg.session[t] \in Session
    BY PageFacts
  <2>3. x \in Session
    BY <2>1, <2>2 DEF Session
  <2>4. q = [pg EXCEPT !.session[t] = x]
    BY <1>2, <2>1, <2>2, PageFacts DEF StateSet, Ended
  <2>5. /\ Same(pg, q, t) /\ q.session[t] = x
        /\ q.layout = pg.layout /\ q.prompts = pg.prompts /\ q.secret = pg.secret
    BY <2>3, <2>4, PageFacts, SetSession
  <2>6. Told(pg.session[t], x, s)
    BY <2>1, <2>2 DEF Session, Told
  <2> QED
    BY <1>2, <2>5, <2>6
<1> QED
  BY <1>1, <1>2

\* handleState of the current attempt: a session that goes on is told its state,
\* one that has ended is left without prompts, credential and wish to connect.
LEMMA HandleStateOk ==
  ASSUME NEW pg, PageOk(pg), NEW t \in Tabs, NEW a, NEW s \in SessionState,
         NEW q, q = HandleState(pg, t, a, s)
  PROVE  /\ Same(pg, q, t)
         /\ ~Current(pg, t, a) => q = pg
         /\ q.session[t].attempt = pg.session[t].attempt
         /\ IsOpen(q, t) => IsOpen(pg, t)
         /\ Current(pg, t, a) /\ s \notin {"closed", "error"} =>
              /\ Told(pg.session[t], q.session[t], s)
              /\ q.layout = pg.layout /\ q.prompts = pg.prompts /\ q.secret = pg.secret
         /\ Current(pg, t, a) /\ s \in {"closed", "error"} =>
              /\ q.secret[t] = 0
              /\ ToSet(q.prompts) = {p \in ToSet(pg.prompts) : p.tab # t \/ p.attempt = 0}
              /\ ~q.session[t].wanted
              /\ IsOpen(q, t) => Told(pg.session[t], q.session[t], s)
              /\ ~IsOpen(q, t) => q.session[t].channel = 0
<1>1. CASE ~Current(pg, t, a)
  BY <1>1, SameNot DEF HandleState
<1>2. CASE Current(pg, t, a) /\ s \notin {"closed", "error"}
  <2>1. q = StateSet(pg, t, a, s)
    BY <1>2 DEF HandleState
  <2>2. /\ Same(pg, q, t) /\ q.layout = pg.layout /\ q.prompts = pg.prompts /\ q.secret = pg.secret
        /\ Told(pg.session[t], q.session[t], s)
    BY <1>2, <2>1, StateSetOk
  <2> QED
    BY <1>2, <2>2 DEF IsOpen, Told
<1>3. CASE Current(pg, t, a) /\ s \in {"closed", "error"}
  <2>1. PICK c : c = Cleared(pg, t)
    OBVIOUS
  <2>2. /\ Same(pg, c, t) /\ c.secret[t] = 0
        /\ ToSet(c.prompts) = {p \in ToSet(pg.prompts) : p.tab # t \/ p.attempt = 0}
        /\ c.layout = pg.layout /\ c.session = pg.session
    BY <2>1, ClearedOk
  <2>3. PageOk(c) /\ Current(c, t, a)
    BY <1>3, <2>2 DEF Same, Current, IsOpen
  <2>4. PICK r : r = StateSet(c, t, a, s)
    OBVIOUS
  <2>5. /\ Same(c, r, t) /\ r.layout = c.layout /\ r.prompts = c.prompts /\ r.secret = c.secret
        /\ Told(c.session[t], r.session[t], s)
    BY <2>3, <2>4, StateSetOk
  <2>6. Told(pg.session[t], r.session[t], s) /\ ~r.session[t].wanted
    BY <1>3, <2>2, <2>5 DEF Ended, Told
  <2>7. PageOk(r) /\ IsOpen(r, t) /\ IsOpen(pg, t) /\ Same(pg, r, t)
    BY <1>3, <2>2, <2>5, SameTwice DEF Same, IsOpen, Current
  <2>8. CASE ~pg.session[t].closing
    <3>1. q = r
      BY <1>3, <2>1, <2>4, <2>8 DEF HandleState
    <3> QED
      BY <1>3, <2>2, <2>5, <2>6, <2>7, <3>1 DEF Told
  <2>9. CASE pg.session[t].closing
    <3>1. q = Removed(r, t)
      BY <1>3, <2>1, <2>4, <2>9 DEF HandleState
    <3>2. /\ Same(r, q, t) /\ ~IsOpen(q, t)
          /\ q.prompts = r.prompts /\ q.secret = r.secret
          /\ q.session[t].attempt = r.session[t].attempt
          /\ q.session[t].channel = 0 /\ ~q.session[t].wanted
      BY <2>7, <3>1, RemovedOk
    <3>3. Same(pg, q, t)
      BY <2>7, <3>2, SameTwice
    <3> QED
      BY <1>3, <2>2, <2>5, <2>6, <3>2, <3>3 DEF Told
  <2> QED
    BY <2>8, <2>9
<1> QED
  BY <1>1, <1>2, <1>3

-----------------------------------------------------------------------------
(* One tab at a time.                                                        *)

LEMMA OneTab ==
  ASSUME WorkbenchInv, NEW t \in Tabs, Same(page, page', t),
         pane' \in [Tabs -> Terminals], remote' \in [Tabs -> Remotes],
         \A u \in Tabs \ {t} : pane'[u] = pane[u] /\ remote'[u] = remote[u],
         timers' \subseteq Tabs \X Attempt,
         logout' = logout, IsOpen(page', t) => IsOpen(page, t) \/ logout # "out",
         urgent' \in BOOLEAN, urgent' \/ ((\A u \in Tabs : Heeded(u)) /\ Heeded(t)'),
         TabOk(t)',
         \A p \in ToSet(page'.prompts) : p.tab = t => PromptOk(p)',
         IsOpen(page', t) =>
           \A p, r \in ToSet(page'.prompts) : p.tab = t /\ r.tab = t => p = r
  PROVE  WorkbenchInv'
<1>1. \A u \in Tabs \ {t} : /\ page'.session[u] = page.session[u] /\ page'.secret[u] = page.secret[u]
                            /\ IsOpen(page', u) <=> IsOpen(page, u)
  BY DEF Same
<1>2. PageOk(page') /\ \A p \in ToSet(page'.prompts) : p \in ToSet(page.prompts) \/ p.tab = t
  BY DEF Same
<1>3. Types'
  BY <1>1, <1>2 DEF WorkbenchInv, Types
<1>4. \A u \in Tabs : TabOk(u)'
  <2> SUFFICES ASSUME NEW u \in Tabs \ {t} PROVE TabOk(u)'
    OBVIOUS
  <2>1. TabOk(u) /\ pane'[u] = pane[u]
    BY DEF WorkbenchInv
  <2> QED
    BY <1>1, <2>1 DEF TabOk
<1>5. urgent' \/ \A u \in Tabs : Heeded(u)'
  <2> SUFFICES ASSUME NEW u \in Tabs \ {t}, Heeded(u) PROVE Heeded(u)'
    OBVIOUS
  <2> QED
    BY <1>1 DEF Heeded, Going
<1>6. \A p \in ToSet(page'.prompts) : p \in Prompt /\ p.tab \in Tabs
  BY <1>2, PageFacts DEF Prompt
<1>7. \A p \in ToSet(page'.prompts) : PromptOk(p)'
  <2> SUFFICES ASSUME NEW p \in ToSet(page'.prompts), p.tab \in Tabs \ {t} PROVE PromptOk(p)'
    BY <1>6
  <2>1. PromptOk(p) /\ pane'[p.tab] = pane[p.tab]
    BY <1>2 DEF WorkbenchInv, PromptsOk
  <2>2. /\ page'.session[p.tab] = page.session[p.tab]
        /\ IsOpen(page', p.tab) <=> IsOpen(page, p.tab)
    BY <1>1
  <2> QED
    BY <2>1, <2>2 DEF PromptOk
<1>8. \A p, r \in ToSet(page'.prompts) : p.tab = r.tab /\ IsOpen(page', p.tab) => p = r
  <2> SUFFICES ASSUME NEW p \in ToSet(page'.prompts), NEW r \in ToSet(page'.prompts),
                      p.tab = r.tab, IsOpen(page', p.tab), p.tab # t
               PROVE  p = r
    OBVIOUS
  <2>1. p \in ToSet(page.prompts) /\ r \in ToSet(page.prompts) /\ IsOpen(page, p.tab)
    BY <1>1, <1>2, <1>6
  <2> QED
    BY <2>1 DEF WorkbenchInv, PromptsOk
<1> QED
  BY <1>3, <1>4, <1>5, <1>7, <1>8 DEF WorkbenchInv, PromptsOk

\* What the invariant says of one tab.
LEMMA TabFacts ==
  ASSUME WorkbenchInv, NEW t \in Tabs
  PROVE  /\ PageOk(page) /\ TabOk(t)
         /\ pane \in [Tabs -> Terminals] /\ pane[t].effect \in Nat /\ pane[t].socket \in Socket
         /\ remote \in [Tabs -> Remotes] /\ timers \subseteq Tabs \X Attempt
         /\ logout = "out" => ~IsOpen(page, t)
         /\ page.session[t] \in Session /\ page.session[t].attempt \in Nat
         /\ page.session[t].channel \in Nat /\ page.secret[t] \in Nat
         /\ \A p \in ToSet(page.prompts) : p \in Prompt /\ p.attempt # 0
         /\ \A p \in ToSet(page.prompts) : p.tab = t => PromptOk(p)
         /\ IsOpen(page, t) =>
              \A p, r \in ToSet(page.prompts) : p.tab = t /\ r.tab = t => p = r
<1>1. /\ PageOk(page) /\ pane \in [Tabs -> Terminals] /\ remote \in [Tabs -> Remotes]
      /\ timers \subseteq Tabs \X Attempt /\ (logout = "out" => ~IsOpen(page, t))
  BY DEF WorkbenchInv, Types
<1>2. page.session[t] \in Session /\ page.secret[t] \in Nat
      /\ \A p \in ToSet(page.prompts) : p \in Prompt
  BY <1>1, PageFacts DEF Attempt
<1>3. page.session[t].attempt \in Nat /\ page.session[t].channel \in Nat
  BY <1>2 DEF Session, Attempt
<1>4. pane[t].effect \in Nat /\ pane[t].socket \in Socket
  BY <1>1 DEF Terminals, Attempt
<1>5. \A p \in ToSet(page.prompts) : PromptOk(p)
  BY DEF WorkbenchInv, PromptsOk
<1>6. \A p \in ToSet(page.prompts) : p.attempt # 0
  BY <1>5 DEF PromptOk
<1> QED
  BY <1>1, <1>2, <1>3, <1>4, <1>5, <1>6 DEF WorkbenchInv, PromptsOk

\* When effects are not being flushed, every run that goes on is wanted.
LEMMA SettledIsHeeded ==
  ASSUME WorkbenchInv, ~Flushing
  PROVE  \A t \in Tabs : Heeded(t)
<1>1. CASE ~urgent
  BY <1>1 DEF WorkbenchInv
<1>2. CASE urgent
  <2> SUFFICES ASSUME NEW t \in Tabs, IsOpen(page, t), Going(t),
                      pane[t].effect = page.session[t].attempt
               PROVE  page.session[t].wanted
    BY DEF Heeded
  <2>1. Due(t) = pane[t].effect
    BY <1>2 DEF Flushing
  <2>2. pane[t].effect # 0
    BY TabFacts DEF TabOk, Going
  <2> QED
    BY <2>1, <2>2 DEF Due
<1> QED
  BY <1>1, <1>2 DEF WorkbenchInv, Types

LEMMA Sockets == /\ "none" \in Socket /\ "connecting" \in Socket /\ "open" \in Socket
                 /\ "closing" \in Socket
BY DEF Socket

\* Changing what the terminal of one tab holds, and changing its socket alone.
WithSocket(f, t, s) == [f EXCEPT ![t].socket = s]

LEMMA TerminalOf ==
  ASSUME NEW f \in [Tabs -> Terminals], NEW t \in Tabs, NEW e \in Nat, NEW s \in Socket, NEW q,
         q = [f EXCEPT ![t] = [effect |-> e, socket |-> s]]
  PROVE  /\ q \in [Tabs -> Terminals] /\ \A u \in Tabs \ {t} : q[u] = f[u]
         /\ q[t].effect = e /\ q[t].socket = s
<1>1. PICK y \in Terminals : y = [effect |-> e, socket |-> s]
  BY DEF Terminals, Attempt
<1>2. y.effect = e /\ y.socket = s
  BY <1>1
<1>3. q = [f EXCEPT ![t] = y]
  BY <1>1
<1> QED
  BY <1>2, <1>3

LEMMA SocketOf ==
  ASSUME NEW f \in [Tabs -> Terminals], NEW t \in Tabs, NEW s \in Socket, NEW q,
         q = WithSocket(f, t, s)
  PROVE  /\ q \in [Tabs -> Terminals] /\ \A u \in Tabs \ {t} : q[u] = f[u]
         /\ q[t].effect = f[t].effect /\ q[t].socket = s
<1>1. PICK x \in Terminals : x = f[t]
  OBVIOUS
<1>2. PICK y : y = [x EXCEPT !.socket = s]
  OBVIOUS
<1>3. y \in Terminals /\ y.effect = x.effect /\ y.socket = s
  BY <1>2 DEF Terminals
<1>4. q = [f EXCEPT ![t] = y]
  BY <1>1, <1>2 DEF WithSocket
<1> QED
  BY <1>1, <1>3, <1>4

\* close() of the published channel: an open or opening socket starts to close.
LEMMA ClosedByOk ==
  ASSUME pane \in [Tabs -> Terminals], NEW t \in Tabs, NEW q, q = ClosedBy(t)
  PROVE  /\ q \in [Tabs -> Terminals] /\ \A u \in Tabs \ {t} : q[u] = pane[u]
         /\ q[t].effect = pane[t].effect
         /\ \/ q[t].socket = pane[t].socket
            \/ q[t].socket = "closing" /\ pane[t].socket \in {"connecting", "open"}
<1>1. "closing" \in Socket /\ 0 \in Nat
  BY DEF Socket
<1>2. PICK r : r = WithSocket(pane, t, "closing")
  OBVIOUS
<1>3. /\ r \in [Tabs -> Terminals] /\ \A u \in Tabs \ {t} : r[u] = pane[u]
      /\ r[t].effect = pane[t].effect /\ r[t].socket = "closing"
  BY <1>1, <1>2, SocketOf
<1>4. CASE pane[t].socket \in {"connecting", "open"} /\ q = r
  BY <1>3, <1>4
<1>5. CASE q = pane
  BY <1>5
<1> QED
  BY <1>2, <1>4, <1>5 DEF ClosedBy, WithSocket

-----------------------------------------------------------------------------
(* What the user does.                                                       *)

\* A session made anew, for an attempt later than any before, with the prompt it
\* starts from or without one.
LEMMA FreshRun ==
  ASSUME WorkbenchInv, NEW t \in Tabs, NEW a \in Nat, NEW start \in BOOLEAN,
         Same(page, page', t), page'.session[t] = NewSession(a, start), IsOpen(page', t),
         a > page.session[t].attempt, page'.secret[t] \in {0, a},
         page'.secret[t] # 0 => start,
         \A p \in ToSet(page'.prompts) : p.tab = t =>
           ~start /\ p = [kind |-> "credential", tab |-> t, attempt |-> a],
         IsOpen(page, t) \/ logout # "out",
         UNCHANGED <<pane, remote, logout>>, timers' = timers, urgent'
  PROVE  WorkbenchInv'
<1>1. /\ pane \in [Tabs -> Terminals] /\ remote \in [Tabs -> Remotes] /\ TabOk(t)
      /\ pane[t].effect \in Nat /\ page.session[t].attempt \in Nat
      /\ timers \subseteq Tabs \X Attempt
  BY TabFacts
<1>2. PICK s \in Session : /\ s = page'.session[t] /\ s.attempt = a /\ (s.wanted <=> start)
                           /\ s.state = (IF start THEN "authorizing" ELSE "idle") /\ s.channel = 0
  <2>1. NewSession(a, start).attempt = a /\ (NewSession(a, start).wanted <=> start)
        /\ NewSession(a, start).state = (IF start THEN "authorizing" ELSE "idle")
        /\ NewSession(a, start).channel = 0
    BY DEF NewSession
  <2> QED
    BY <2>1, NewSessionOk
<1>3. pane[t].effect < a /\ a # 0
  BY <1>1 DEF TabOk
<1>4. TabOk(t)'
  BY <1>1, <1>2, <1>3 DEF TabOk, Ended
<1>5. \A p \in ToSet(page'.prompts) : p.tab = t => PromptOk(p)'
  <2> SUFFICES ASSUME NEW p \in ToSet(page'.prompts), p.tab = t PROVE PromptOk(p)'
    OBVIOUS
  <2>1. ~start /\ p.kind = "credential" /\ p.attempt = a
    OBVIOUS
  <2> QED
    BY <1>2, <1>3, <2>1 DEF PromptOk, Running
<1> QED
  BY <1>1, <1>4, <1>5, OneTab

\* The prompt that asks for the credential of an attempt.
LEMMA AskedFor ==
  ASSUME NEW t \in Tabs, NEW a \in Nat
  PROVE  LET p == [Credential(t) EXCEPT !.attempt = a]
         IN  p = [kind |-> "credential", tab |-> t, attempt |-> a] /\ p \in Prompt
<1>1. PICK c : c = Credential(t)
  OBVIOUS
<1>2. PICK x : x = page.session[t].attempt
  OBVIOUS
<1>3. c = [kind |-> "credential", tab |-> t, attempt |-> x]
  BY <1>1, <1>2 DEF Credential
<1>4. [c EXCEPT !.attempt = a] = [kind |-> "credential", tab |-> t, attempt |-> a]
  BY <1>3
<1>5. [kind |-> "credential", tab |-> t, attempt |-> a] \in Prompt
  BY DEF Prompt, Attempt
<1> QED
  BY <1>1, <1>4, <1>5

LEMMA OpenKeeps ==
  ASSUME WorkbenchInv, NEW t \in Tabs, Open(t), urgent'
  PROVE  WorkbenchInv'
<1>1. /\ PageOk(page) /\ TabOk(t) /\ page.secret[t] \in Nat /\ pane[t].effect \in Nat
      /\ \A p \in ToSet(page.prompts) : p \in Prompt /\ p.attempt # 0
      /\ \A p \in ToSet(page.prompts) : p.tab = t => PromptOk(p)
  BY TabFacts
<1>2. page.session[t].attempt = 0 /\ logout = "no" /\ UNCHANGED <<pane, remote, timers, logout>>
  BY DEF Open
<1>3. ~IsOpen(page, t) /\ page.secret[t] = 0
  BY <1>1, <1>2 DEF TabOk
<1>4. \A p \in ToSet(page.prompts) : p.tab # t
  BY <1>1, <1>2 DEF PromptOk, Prompt, Attempt
<1>5. PICK start \in BOOLEAN : start <=> t \notin Prompting
  OBVIOUS
<1>6. PICK q : q = Opened(page, t, start)
  OBVIOUS
<1>7. /\ Same(page, q, t) /\ IsOpen(q, t) /\ q.session[t] = NewSession(1, start)
      /\ q.prompts = page.prompts /\ q.secret = page.secret
  BY <1>1, <1>3, <1>6, OpenedOk
<1>8. /\ Same(page, page', t) /\ IsOpen(page', t) /\ page'.session[t] = NewSession(1, start)
      /\ page'.secret[t] = 0
      /\ \A p \in ToSet(page'.prompts) : p.tab = t =>
           ~start /\ p = [kind |-> "credential", tab |-> t, attempt |-> 1]
  <2>1. CASE start
    <3>1. page' = q
      BY <1>5, <1>6, <2>1 DEF Open
    <3> QED
      BY <1>3, <1>4, <1>7, <3>1
  <2>2. CASE ~start
    <3>1. PICK p \in Prompt : p = [kind |-> "credential", tab |-> t, attempt |-> 1]
      BY AskedFor
    <3>2. p = [Credential(t) EXCEPT !.attempt = 1] /\ p.tab = t
      BY <3>1, AskedFor
    <3>3. page' = Enqueued(q, p)
      BY <1>5, <1>6, <2>2, <3>2 DEF Open
    <3>4. PageOk(q)
      BY <1>7 DEF Same
    <3>5. p \in Prompt /\ p.tab = t
      BY <3>2
    <3>6. /\ Same(q, page', t) /\ ToSet(page'.prompts) = ToSet(q.prompts) \cup {p}
          /\ page'.layout = q.layout /\ page'.session = q.session /\ page'.secret = q.secret
      BY <3>3, <3>4, <3>5, EnqueuedOk
    <3> QED
      BY <1>3, <1>4, <1>7, <2>2, <3>1, <3>6, SameTwice DEF IsOpen
  <2> QED
    BY <2>1, <2>2
<1> QED
  BY <1>2, <1>8, FreshRun

\* Tabs that change their place only.
LEMMA LayoutChanges ==
  ASSUME WorkbenchInv, NEW t \in Tabs, NEW v \in Layouts, Sane(v),
         \A u \in Tabs : u \in TabsOf(v) <=> IsOpen(page, u),
         page' = [page EXCEPT !.layout = v],
         UNCHANGED <<pane, remote, timers, logout>>, urgent'
  PROVE  WorkbenchInv'
<1>1. /\ PageOk(page) /\ TabOk(t)
      /\ pane \in [Tabs -> Terminals] /\ remote \in [Tabs -> Remotes]
      /\ timers \subseteq Tabs \X Attempt
      /\ \A p \in ToSet(page.prompts) : p.tab = t => PromptOk(p)
      /\ IsOpen(page, t) =>
           \A p, r \in ToSet(page.prompts) : p.tab = t /\ r.tab = t => p = r
  BY TabFacts
<1>2. /\ Same(page, page', t) /\ page'.layout = v /\ page'.session = page.session
      /\ page'.prompts = page.prompts /\ page'.secret = page.secret
  BY <1>1, SetLayout
<1>3. IsOpen(page', t) <=> IsOpen(page, t)
  BY <1>2 DEF IsOpen
<1>4. TabOk(t)'
  BY <1>1, <1>2, <1>3 DEF TabOk
<1>5. \A p \in ToSet(page'.prompts) : p.tab = t => PromptOk(p)'
  BY <1>1, <1>2, <1>3 DEF PromptOk
<1> QED
  BY <1>1, <1>2, <1>3, <1>4, <1>5, OneTab

LEMMA SelectKeeps ==
  ASSUME WorkbenchInv, NEW t \in Tabs, Select(t), urgent'
  PROVE  WorkbenchInv'
<1>1. PICK v \in Layouts : v = page.layout /\ Sane(v) /\ t \in TabsOf(v)
  BY TabFacts, PageFacts DEF Select, IsOpen
<1>2. PICK w : w = SelectTab(v, t)
  OBVIOUS
<1>3. w \in Layouts /\ Sane(w) /\ TabsOf(w) = TabsOf(v)
  BY <1>1, <1>2, SaneIs, SelectOk
<1>4. page' = [page EXCEPT !.layout = w] /\ UNCHANGED <<pane, remote, timers, logout>>
  BY <1>1, <1>2 DEF Select
<1> QED
  BY <1>1, <1>3, <1>4, LayoutChanges DEF IsOpen

LEMMA SplitKeeps ==
  ASSUME WorkbenchInv, Split, urgent'
  PROVE  WorkbenchInv'
<1>1. PICK v \in Layouts : v = page.layout /\ Sane(v) /\ TabsOf(v) \subseteq Tabs
  BY PageFacts DEF WorkbenchInv, Types
<1>2. PICK t \in Tabs : t \in TabsOf(v)
  <2>1. v.order \in Seq(Tabs) /\ Len(v.order) > 1
    BY <1>1 DEF Layouts, Split
  <2>2. 1 \in DOMAIN v.order /\ v.order[1] \in Tabs
    BY <2>1
  <2> QED
    BY <2>2 DEF TabsOf
<1>3. PICK w : w = ToggleSplit(v)
  OBVIOUS
<1>4. w \in Layouts /\ Sane(w) /\ TabsOf(w) = TabsOf(v)
  BY <1>1, <1>3, ToggleOk
<1>5. page' = [page EXCEPT !.layout = w] /\ UNCHANGED <<pane, remote, timers, logout>>
  BY <1>1, <1>3 DEF Split
<1> QED
  BY <1>1, <1>2, <1>4, <1>5, LayoutChanges DEF IsOpen

\* The active tab is open.
LEMMA ActiveIsOpen ==
  ASSUME PageOk(page), NEW t \in Tabs, page.layout.active = t
  PROVE  IsOpen(page, t)
<1>1. PICK v \in Layouts : v = page.layout /\ Sane(v) /\ v.active = t
  BY PageFacts
<1>2. v.active = v.panes[v.focused] /\ PanesOk(v) /\ v.focused \in Pane /\ t # NoTab
  BY <1>1, SaneIs, NoTabAssumption DEF Layouts
<1> QED
  BY <1>1, <1>2 DEF PanesOk, Pane, IsOpen

\* After clearSessionResources an open tab has neither prompt nor credential.
LEMMA ClearedIsBare ==
  ASSUME WorkbenchInv, NEW t \in Tabs, NEW q, q = Cleared(page, t)
  PROVE  /\ Same(page, q, t) /\ PageOk(q) /\ q.secret[t] = 0
         /\ \A p \in ToSet(q.prompts) : p.tab # t
         /\ q.layout = page.layout /\ q.session = page.session
         /\ IsOpen(q, t) <=> IsOpen(page, t)
<1>1. PageOk(page) /\ \A p \in ToSet(page.prompts) : p \in Prompt /\ p.attempt # 0
  BY TabFacts
<1>2. /\ Same(page, q, t) /\ q.secret[t] = 0
      /\ ToSet(q.prompts) = {p \in ToSet(page.prompts) : p.tab # t \/ p.attempt = 0}
      /\ q.layout = page.layout /\ q.session = page.session
  BY <1>1, ClearedOk
<1> QED
  BY <1>1, <1>2 DEF Same, IsOpen

LEMMA ReconnectKeeps ==
  ASSUME WorkbenchInv, NEW t \in Tabs, Reconnect(t), urgent'
  PROVE  WorkbenchInv'
<1>1. PageOk(page) /\ IsOpen(page, t) /\ page.session[t].attempt \in Nat
  BY TabFacts, ActiveIsOpen DEF Reconnect
<1>2. PICK a \in Nat : a = page.session[t].attempt + 1 /\ a > page.session[t].attempt
  BY <1>1
<1>3. PICK start \in BOOLEAN : start <=> t \notin Prompting
  OBVIOUS
<1>4. PICK c : c = Cleared(page, t)
  OBVIOUS
<1>5. /\ Same(page, c, t) /\ PageOk(c) /\ c.secret[t] = 0 /\ \A p \in ToSet(c.prompts) : p.tab # t
      /\ c.layout = page.layout /\ c.session = page.session /\ IsOpen(c, t)
  BY <1>1, <1>4, ClearedIsBare
<1>6. PICK q : q = Reconnected(c, t, a, start)
  OBVIOUS
<1>7. /\ Same(c, q, t) /\ q.session[t] = NewSession(a, start)
      /\ q.layout = c.layout /\ q.prompts = c.prompts /\ q.secret = c.secret
  BY <1>5, <1>6, ReconnectedOk
<1>8. PageOk(q) /\ Same(page, q, t) /\ IsOpen(q, t)
  BY <1>5, <1>7, SameTwice DEF Same, IsOpen
<1>9. UNCHANGED <<pane, remote, timers, logout>>
  BY DEF Reconnect
<1>10. /\ Same(page, page', t) /\ IsOpen(page', t) /\ page'.session[t] = NewSession(a, start)
       /\ page'.secret[t] = 0
       /\ \A p \in ToSet(page'.prompts) : p.tab = t =>
            ~start /\ p = [kind |-> "credential", tab |-> t, attempt |-> a]
  <2>1. CASE start
    <3>1. page' = q
      BY <1>2, <1>3, <1>4, <1>6, <2>1 DEF Reconnect
    <3> QED
      BY <1>5, <1>7, <1>8, <3>1
  <2>2. CASE ~start
    <3>1. PICK p \in Prompt : p = [kind |-> "credential", tab |-> t, attempt |-> a]
      BY AskedFor
    <3>2. p = [Credential(t) EXCEPT !.attempt = a] /\ p.tab = t
      BY <3>1, AskedFor
    <3>3. page' = Enqueued(q, p)
      BY <1>2, <1>3, <1>4, <1>6, <2>2, <3>2 DEF Reconnect
    <3>4. p \in Prompt /\ p.tab = t
      BY <3>2
    <3>5. /\ Same(q, page', t) /\ ToSet(page'.prompts) = ToSet(q.prompts) \cup {p}
          /\ page'.layout = q.layout /\ page'.session = q.session /\ page'.secret = q.secret
      BY <1>8, <3>3, <3>4, EnqueuedOk
    <3> QED
      BY <1>5, <1>7, <1>8, <2>2, <3>1, <3>5, SameTwice DEF IsOpen
  <2> QED
    BY <2>1, <2>2
<1> QED
  BY <1>1, <1>2, <1>9, <1>10, FreshRun

\* A tab whose session has ended or has been told to end keeps no prompt, no
\* credential and no wish to connect.
LEMMA EndedTab ==
  ASSUME WorkbenchInv, NEW t \in Tabs, Same(page, page', t),
         pane' \in [Tabs -> Terminals], remote' \in [Tabs -> Remotes],
         \A u \in Tabs \ {t} : pane'[u] = pane[u] /\ remote'[u] = remote[u],
         timers' \subseteq Tabs \X Attempt, logout' = logout,
         IsOpen(page', t) => IsOpen(page, t),
         page'.session[t].attempt = page.session[t].attempt,
         ~page'.session[t].wanted, page'.secret[t] = 0,
         \A p \in ToSet(page'.prompts) : p.tab # t,
         pane'[t].effect = pane[t].effect,
         pane'[t].socket # "none" => pane[t].socket # "none",
         ~IsOpen(page', t) => page'.session[t].channel = 0,
         page'.session[t].channel # 0 =>
           page'.session[t].channel = page.session[t].channel
           /\ pane'[t].socket \in {"open", "closing"},
         IsOpen(page', t) /\ pane'[t].effect = page.session[t].attempt
           /\ pane'[t].socket = "open" => page'.session[t].channel = page.session[t].attempt,
         urgent' \in BOOLEAN, urgent' \/ ((\A u \in Tabs : Heeded(u)) /\ ~Going(t)')
  PROVE  WorkbenchInv'
<1>1. TabOk(t) /\ page.session[t].attempt \in Nat /\ pane[t].effect \in Nat
  BY TabFacts
<1>2. TabOk(t)'
  BY <1>1 DEF TabOk
<1>3. ~Going(t)' => Heeded(t)'
  BY DEF Heeded
<1> QED
  BY <1>2, <1>3, OneTab

LEMMA DisconnectKeeps ==
  ASSUME WorkbenchInv, NEW t \in Tabs, Disconnect(t), urgent'
  PROVE  WorkbenchInv'
<1>1. /\ PageOk(page) /\ TabOk(t) /\ pane \in [Tabs -> Terminals] /\ remote \in [Tabs -> Remotes]
      /\ timers \subseteq Tabs \X Attempt /\ page.session[t].attempt \in Nat
      /\ \A p \in ToSet(page.prompts) : p \in Prompt /\ p.attempt # 0
      /\ \A p \in ToSet(page.prompts) : p.tab = t => PromptOk(p)
      /\ IsOpen(page, t) =>
           \A p, r \in ToSet(page.prompts) : p.tab = t /\ r.tab = t => p = r
  BY TabFacts
<1>2. /\ IsOpen(page, t) /\ Running(page.session[t]) /\ UNCHANGED <<remote, timers, logout>>
  BY <1>1, ActiveIsOpen DEF Disconnect
<1>3. PICK a : a = page.session[t].attempt /\ Current(page, t, a)
  BY <1>2 DEF Current
<1>4. PICK l : l = StateSet(page, t, a, "disconnecting")
  OBVIOUS
<1>5. /\ Same(page, l, t) /\ Told(page.session[t], l.session[t], "disconnecting")
      /\ l.layout = page.layout /\ l.prompts = page.prompts /\ l.secret = page.secret
  BY <1>1, <1>3, <1>4, StateSetOk DEF SessionState
<1>6. PageOk(l) /\ IsOpen(l, t) /\ Current(l, t, a)
  BY <1>2, <1>3, <1>5 DEF Same, IsOpen, Told, Current
<1>7. CASE CanSend(t)
  <2>1. page' = l /\ pane' = pane
    BY <1>3, <1>4, <1>7 DEF Disconnect
  <2>2. TabOk(t)'
    BY <1>1, <1>2, <1>5, <1>6, <2>1 DEF TabOk, Told, Ended
  <2>3. \A p \in ToSet(page'.prompts) : p.tab = t => PromptOk(p)'
    BY <1>1, <1>2, <1>5, <1>6, <2>1 DEF PromptOk, Told, Running, Ended
  <2> QED
    BY <1>1, <1>2, <1>5, <2>1, <2>2, <2>3, OneTab
<1>8. CASE ~CanSend(t)
  <2>1. page' = HandleState(l, t, a, "closed") /\ pane' = ClosedBy(t)
    BY <1>3, <1>4, <1>8 DEF Disconnect
  <2>2. PICK q : q = page'
    OBVIOUS
  <2>3. /\ Same(l, q, t) /\ q.session[t].attempt = l.session[t].attempt
        /\ q.secret[t] = 0 /\ ~q.session[t].wanted
        /\ ToSet(q.prompts) = {p \in ToSet(l.prompts) : p.tab # t \/ p.attempt = 0}
        /\ IsOpen(q, t) => Told(l.session[t], q.session[t], "closed")
        /\ ~IsOpen(q, t) => q.session[t].channel = 0
    BY <1>6, <2>1, <2>2, HandleStateOk DEF SessionState
  <2>4. Same(page, q, t)
    BY <1>5, <2>3, SameTwice
  <2>5. /\ pane' \in [Tabs -> Terminals] /\ \A u \in Tabs \ {t} : pane'[u] = pane[u]
        /\ pane'[t].effect = pane[t].effect
        /\ \/ pane'[t].socket = pane[t].socket
           \/ pane'[t].socket = "closing" /\ pane[t].socket \in {"connecting", "open"}
    BY <1>1, <2>1, ClosedByOk
  <2>6. /\ q.session[t].attempt = page.session[t].attempt
        /\ IsOpen(q, t) => q.session[t].channel = page.session[t].channel
        /\ \A p \in ToSet(q.prompts) : p.tab # t
    BY <1>1, <1>5, <2>3 DEF Told
  <2> QED
    BY <1>1, <1>2, <2>2, <2>3, <2>4, <2>5, <2>6, EndedTab DEF TabOk
<1> QED
  BY <1>7, <1>8

\* A session marked as closing is otherwise as it was.
MarkedClosing(pg, t) == [pg EXCEPT !.session[t].closing = TRUE]

LEMMA ClosingOk ==
  ASSUME NEW pg, PageOk(pg), NEW t \in Tabs, NEW q, q = MarkedClosing(pg, t)
  PROVE  /\ Same(pg, q, t) /\ Others(pg.session[t], q.session[t])
         /\ q.session[t].channel = pg.session[t].channel
         /\ q.layout = pg.layout /\ q.prompts = pg.prompts /\ q.secret = pg.secret
<1>1. PICK s : s = [pg.session[t] EXCEPT !.closing = TRUE]
  OBVIOUS
<1>2. pg.session[t] \in Session
  BY PageFacts
<1>3. s \in Session
  BY <1>1, <1>2 DEF Session
<1>4. q = [pg EXCEPT !.session[t] = s]
  BY <1>1, <1>2, PageFacts DEF MarkedClosing
<1>5. /\ Same(pg, q, t) /\ q.session[t] = s
      /\ q.layout = pg.layout /\ q.prompts = pg.prompts /\ q.secret = pg.secret
  BY <1>3, <1>4, PageFacts, SetSession
<1>6. s.channel = pg.session[t].channel /\ Others(pg.session[t], s)
  BY <1>1, <1>2 DEF Session, Others
<1> QED
  BY <1>5, <1>6

LEMMA CloseKeeps ==
  ASSUME WorkbenchInv, NEW t \in Tabs, Close(t), urgent'
  PROVE  WorkbenchInv'
<1>1. /\ PageOk(page) /\ TabOk(t) /\ pane \in [Tabs -> Terminals] /\ remote \in [Tabs -> Remotes]
      /\ timers \subseteq Tabs \X Attempt /\ page.session[t].attempt \in Nat
      /\ page.session[t] \in Session
  BY TabFacts
<1>2. IsOpen(page, t) /\ UNCHANGED <<pane, remote, logout>>
  BY DEF Close
<1>3. PICK c : c = Cleared(page, t)
  OBVIOUS
<1>4. /\ Same(page, c, t) /\ PageOk(c) /\ c.secret[t] = 0 /\ \A p \in ToSet(c.prompts) : p.tab # t
      /\ c.layout = page.layout /\ c.session = page.session /\ IsOpen(c, t)
  BY <1>2, <1>3, ClearedIsBare
<1>5. CASE page.session[t].channel = 0
  <2>1. page' = Removed(c, t) /\ timers' = timers
    BY <1>3, <1>5 DEF Close
  <2>2. /\ Same(c, page', t) /\ ~IsOpen(page', t)
        /\ page'.prompts = c.prompts /\ page'.secret = c.secret
        /\ page'.session[t].attempt = c.session[t].attempt
        /\ page'.session[t].channel = 0 /\ ~page'.session[t].wanted
    BY <1>4, <2>1, RemovedOk
  <2>3. Same(page, page', t)
    BY <1>4, <2>2, SameTwice
  <2> QED
    BY <1>1, <1>2, <1>4, <2>1, <2>2, <2>3, EndedTab
<1>6. CASE page.session[t].channel # 0
  <2>1. /\ page' = MarkedClosing(c, t)
        /\ timers' = timers \cup {<<t, page.session[t].attempt>>}
    BY <1>3, <1>6 DEF Close, MarkedClosing
  <2>2. /\ Same(c, page', t) /\ Others(c.session[t], page'.session[t])
        /\ page'.session[t].channel = c.session[t].channel
        /\ page'.layout = c.layout /\ page'.prompts = c.prompts /\ page'.secret = c.secret
    BY <1>4, <2>1, ClosingOk
  <2>3. Same(page, page', t) /\ IsOpen(page', t)
    BY <1>4, <2>2, SameTwice DEF IsOpen
  <2>4. TabOk(t)'
    BY <1>1, <1>2, <1>4, <2>2, <2>3 DEF TabOk, Others
  <2>5. timers' \subseteq Tabs \X Attempt
    BY <1>1, <2>1 DEF Attempt
  <2> QED
    BY <1>1, <1>2, <1>4, <2>2, <2>3, <2>4, <2>5, OneTab
<1> QED
  BY <1>5, <1>6

LEMMA CloseTimeoutKeeps ==
  ASSUME WorkbenchInv, NEW t \in Tabs, CloseTimeout(t), ~Flushing, ~urgent', urgent' \in BOOLEAN
  PROVE  WorkbenchInv'
<1>1. /\ PageOk(page) /\ TabOk(t) /\ pane \in [Tabs -> Terminals] /\ remote \in [Tabs -> Remotes]
      /\ timers \subseteq Tabs \X Attempt
      /\ \A p \in ToSet(page.prompts) : p.tab = t => PromptOk(p)
      /\ IsOpen(page, t) =>
           \A p, r \in ToSet(page.prompts) : p.tab = t /\ r.tab = t => p = r
  BY TabFacts
<1>2. UNCHANGED <<page, remote, logout>> /\ timers' \subseteq timers
  BY DEF CloseTimeout
<1>3. pane' = pane \/ pane' = ClosedBy(t)
  BY DEF CloseTimeout
<1>4. /\ pane' \in [Tabs -> Terminals] /\ \A u \in Tabs \ {t} : pane'[u] = pane[u]
      /\ pane'[t].effect = pane[t].effect
      /\ \/ pane'[t].socket = pane[t].socket
         \/ pane'[t].socket = "closing" /\ pane[t].socket \in {"connecting", "open"}
  BY <1>1, <1>3, ClosedByOk
<1>5. TabOk(t)'
  BY <1>1, <1>2, <1>4 DEF TabOk
<1>6. \A p \in ToSet(page'.prompts) : p.tab = t => PromptOk(p)'
  BY <1>1, <1>2, <1>4 DEF PromptOk
<1>7. (\A u \in Tabs : Heeded(u)) /\ Heeded(t)'
  BY <1>2, <1>4, SettledIsHeeded DEF Heeded, Going
<1> QED
  BY <1>1, <1>2, <1>4, <1>5, <1>6, <1>7, SameNot, OneTab

-----------------------------------------------------------------------------
(* Prompts.                                                                  *)

\* The prompt the user sees.
LEMMA FirstPrompt ==
  ASSUME WorkbenchInv, page.prompts # <<>>, NEW p, p = Head(page.prompts)
  PROVE  /\ p \in ToSet(page.prompts) /\ p \in Prompt /\ p.tab \in Tabs /\ p.attempt \in Nat
         /\ PromptOk(p) /\ PageOk(page)
<1>1. PageOk(page)
  BY DEF WorkbenchInv, Types
<1>2. PICK o \in Seq(Prompt) : o = page.prompts /\ o # <<>>
  BY <1>1, PageFacts
<1>3. Head(o) = o[1] /\ 1 \in DOMAIN o
  BY <1>2, HeadAndTail
<1>4. p \in ToSet(page.prompts)
  BY <1>2, <1>3 DEF ToSet
<1>5. p \in Prompt
  BY <1>1, <1>4, PageFacts
<1> QED
  BY <1>1, <1>4, <1>5 DEF Prompt, Attempt, WorkbenchInv, PromptsOk

\* A prompt dropped, and nothing else of the page touched.
LEMMA DequeueKeeps ==
  ASSUME WorkbenchInv, page.prompts # <<>>, page' = Dequeued(page),
         UNCHANGED <<pane, timers, logout>>, remote' \in [Tabs -> Remotes],
         NEW t \in Tabs, \A u \in Tabs \ {t} : remote'[u] = remote[u], urgent'
  PROVE  WorkbenchInv'
<1>1. /\ PageOk(page) /\ TabOk(t) /\ pane \in [Tabs -> Terminals]
      /\ timers \subseteq Tabs \X Attempt
      /\ \A p \in ToSet(page.prompts) : p.tab = t => PromptOk(p)
      /\ IsOpen(page, t) =>
           \A p, r \in ToSet(page.prompts) : p.tab = t /\ r.tab = t => p = r
  BY TabFacts
<1>2. PICK q : q = page'
  OBVIOUS
<1>3. /\ Same(page, q, t) /\ ToSet(q.prompts) \subseteq ToSet(page.prompts)
      /\ q.layout = page.layout /\ q.session = page.session /\ q.secret = page.secret
  BY <1>1, <1>2, DequeuedOk
<1>4. IsOpen(page', t) <=> IsOpen(page, t)
  BY <1>2, <1>3 DEF IsOpen
<1>5. TabOk(t)'
  BY <1>1, <1>2, <1>3, <1>4 DEF TabOk
<1>6. \A p \in ToSet(page'.prompts) : p.tab = t => PromptOk(p)'
  BY <1>1, <1>2, <1>3, <1>4 DEF PromptOk
<1> QED
  BY <1>1, <1>2, <1>3, <1>4, <1>5, <1>6, OneTab

LEMMA SubmitKeeps ==
  ASSUME WorkbenchInv, SubmitCredential, urgent'
  PROVE  WorkbenchInv'
<1>1. PICK p \in Prompt : /\ p = Head(page.prompts) /\ p.tab \in Tabs /\ PageOk(page)
                          /\ page.prompts # <<>> /\ UNCHANGED <<pane, remote, timers, logout>>
  BY FirstPrompt DEF SubmitCredential
<1>2. PICK t \in Tabs : t = p.tab
  BY <1>1
<1>3. /\ page.session[t].attempt \in Nat /\ remote \in [Tabs -> Remotes]
      /\ \A r \in ToSet(page.prompts) : r \in Prompt /\ (r.tab = t => PromptOk(r))
  BY TabFacts
<1>4. PICK a \in Nat : a = page.session[t].attempt + 1 /\ a > page.session[t].attempt
  <2>1. PICK n \in Nat : n = page.session[t].attempt
    BY <1>3
  <2>2. n + 1 \in Nat /\ n + 1 > n
    BY <2>1
  <2> QED
    BY <2>1, <2>2
<1>5. CASE Current(page, t, p.attempt)
  <2>1. PICK r : r = [page EXCEPT !.secret[t] = a]
    OBVIOUS
  <2>2. /\ Same(page, r, t) /\ r.secret[t] = a
        /\ r.layout = page.layout /\ r.prompts = page.prompts /\ r.session = page.session
    BY <1>1, <2>1, SetSecret, PageFacts DEF Attempt
  <2>3. PICK c : c = WithoutPromptsOf(r, t, a)
    OBVIOUS
  <2>4. /\ Same(r, c, t)
        /\ ToSet(c.prompts) = {x \in ToSet(r.prompts) : x.tab # t \/ x.attempt = a}
        /\ c.layout = r.layout /\ c.session = r.session /\ c.secret = r.secret
    BY <2>2, <2>3, WithoutPromptsOk DEF Same
  <2>0. PICK start \in BOOLEAN : start = TRUE
    OBVIOUS
  <2>5. page' = Reconnected(c, t, a, start)
    BY <1>1, <1>2, <1>4, <1>5, <2>0, <2>1, <2>3 DEF SubmitCredential
  <2>6. PageOk(c) /\ IsOpen(c, t) /\ Same(page, c, t)
    BY <1>5, <2>2, <2>4, SameTwice DEF Same, Current, IsOpen
  <2>7. /\ Same(c, page', t) /\ page'.session[t] = NewSession(a, start)
        /\ page'.layout = c.layout /\ page'.prompts = c.prompts /\ page'.secret = c.secret
    BY <2>5, <2>6, ReconnectedOk
  <2>8. Same(page, page', t) /\ IsOpen(page', t) /\ page'.secret[t] = a
    BY <2>2, <2>4, <2>6, <2>7, SameTwice DEF IsOpen
  <2>9. \A x \in ToSet(page'.prompts) : x.tab # t
    <3> SUFFICES ASSUME NEW x \in ToSet(page'.prompts), x.tab = t PROVE FALSE
      OBVIOUS
    <3>1. x \in ToSet(page.prompts) /\ x.attempt = a
      BY <2>2, <2>4, <2>7
    <3>2. x.attempt =< page.session[t].attempt
      BY <1>3, <3>1 DEF PromptOk
    <3> QED
      BY <1>3, <1>4, <3>1, <3>2
  <2>10. IsOpen(page, t)
    BY <1>5 DEF Current
  <2> QED
    BY <1>1, <1>4, <2>0, <2>7, <2>8, <2>9, <2>10, FreshRun
<1>6. CASE ~Current(page, t, p.attempt)
  <2>1. page' = Dequeued(page)
    BY <1>1, <1>2, <1>6 DEF SubmitCredential
  <2> QED
    BY <1>1, <1>3, <2>1, DequeueKeeps
<1> QED
  BY <1>5, <1>6

LEMMA CancelKeeps ==
  ASSUME WorkbenchInv, CancelCredential, urgent'
  PROVE  WorkbenchInv'
<1>1. /\ Head(page.prompts).tab \in Tabs /\ PageOk(page)
      /\ page.prompts # <<>> /\ UNCHANGED <<pane, remote, timers, logout>>
  BY FirstPrompt DEF CancelCredential
<1>2. PICK t \in Tabs : t = Head(page.prompts).tab
  BY <1>1
<1>3. /\ TabOk(t) /\ pane \in [Tabs -> Terminals] /\ remote \in [Tabs -> Remotes]
      /\ timers \subseteq Tabs \X Attempt /\ page.session[t].attempt \in Nat
      /\ \A p \in ToSet(page.prompts) : p \in Prompt /\ p.attempt # 0
      /\ \A p \in ToSet(page.prompts) : p.tab = t => PromptOk(p)
  BY TabFacts
<1>4. PICK d : d = Dequeued(page)
  OBVIOUS
<1>5. /\ Same(page, d, t) /\ ToSet(d.prompts) \subseteq ToSet(page.prompts) /\ PageOk(d)
      /\ d.layout = page.layout /\ d.session = page.session /\ d.secret = page.secret
  BY <1>1, <1>4, DequeuedOk DEF Same
<1>6. PICK c : c = Cleared(d, t)
  OBVIOUS
<1>7. /\ Same(d, c, t) /\ c.secret[t] = 0
      /\ ToSet(c.prompts) = {p \in ToSet(d.prompts) : p.tab # t \/ p.attempt = 0}
      /\ c.layout = d.layout /\ c.session = d.session
  BY <1>5, <1>6, ClearedOk
<1>8. PageOk(c) /\ page' = Removed(c, t)
  BY <1>2, <1>4, <1>6, <1>7 DEF CancelCredential, Same
<1>9. /\ Same(c, page', t) /\ ~IsOpen(page', t)
      /\ page'.prompts = c.prompts /\ page'.secret = c.secret
      /\ page'.session[t].attempt = c.session[t].attempt
      /\ ~IsOpen(c, t) => page' = c
      /\ IsOpen(c, t) => page'.session[t].channel = 0 /\ ~page'.session[t].wanted
  BY <1>8, RemovedOk
<1>10. Same(page, page', t) /\ \A p \in ToSet(page'.prompts) : p.tab # t
  BY <1>3, <1>5, <1>7, <1>9, SameTwice
<1>11. IsOpen(c, t) <=> IsOpen(page, t)
  BY <1>5, <1>7 DEF IsOpen
<1>12. TabOk(t)'
  <2>1. CASE IsOpen(c, t)
    BY <1>1, <1>3, <1>5, <1>7, <1>9, <2>1 DEF TabOk
  <2>2. CASE ~IsOpen(c, t)
    BY <1>1, <1>3, <1>5, <1>7, <1>9, <1>11, <2>2 DEF TabOk
  <2> QED
    BY <2>1, <2>2
<1> QED
  BY <1>1, <1>3, <1>9, <1>10, <1>12, OneTab

LEMMA AnswerKeeps ==
  ASSUME WorkbenchInv, NEW trusted \in BOOLEAN, AnswerHostKey(trusted), urgent'
  PROVE  WorkbenchInv'
<1>1. PICK t \in Tabs : t = Head(page.prompts).tab
  BY FirstPrompt DEF AnswerHostKey
<1>2. remote \in [Tabs -> Remotes]
  BY TabFacts
<1>3. /\ page.prompts # <<>> /\ page' = Dequeued(page) /\ UNCHANGED <<pane, timers, logout>>
      /\ \/ remote' = remote
         \/ remote' = [remote EXCEPT ![t] = IF trusted THEN "starting" ELSE "ending"]
  BY <1>1 DEF AnswerHostKey
<1>4. remote' \in [Tabs -> Remotes] /\ \A u \in Tabs \ {t} : remote'[u] = remote[u]
  BY <1>2, <1>3 DEF Remotes
<1> QED
  BY <1>3, <1>4, DequeueKeeps

-----------------------------------------------------------------------------
(* The terminal component.                                                   *)

LEMMA RunEffectKeeps ==
  ASSUME WorkbenchInv, NEW t \in Tabs, RunEffect(t), urgent' = urgent
  PROVE  WorkbenchInv'
<1>1. /\ PageOk(page) /\ TabOk(t) /\ pane \in [Tabs -> Terminals] /\ remote \in [Tabs -> Remotes]
      /\ timers \subseteq Tabs \X Attempt /\ (logout = "out" => ~IsOpen(page, t))
      /\ page.session[t].attempt \in Nat /\ pane[t].effect \in Nat /\ page.secret[t] \in Nat
      /\ \A p \in ToSet(page.prompts) : p \in Prompt /\ p.attempt # 0
      /\ \A p \in ToSet(page.prompts) : p.tab = t => PromptOk(p)
      /\ IsOpen(page, t) =>
           \A p, r \in ToSet(page.prompts) : p.tab = t /\ r.tab = t => p = r
  BY TabFacts
<1>2. PICK a : a = Due(t) /\ a # pane[t].effect
  BY DEF RunEffect
<1>3. /\ a # 0 => /\ SignedIn /\ IsOpen(page, t) /\ page.session[t].wanted
                  /\ a = page.session[t].attempt
      /\ a = 0 => ~SignedIn \/ ~IsOpen(page, t) \/ ~page.session[t].wanted
      /\ a \in Nat
  BY <1>1, <1>2 DEF Due, TabOk
<1>4. PICK d : d = IF pane[t].effect = 0 THEN page ELSE ChannelSet(page, t, pane[t].effect, 0)
  OBVIOUS
<1>5. /\ Same(page, d, t) /\ Others(page.session[t], d.session[t]) /\ d.session[t].channel = 0
      /\ d.layout = page.layout /\ d.prompts = page.prompts /\ d.secret = page.secret
  <2>1. CASE pane[t].effect = 0
    <3>1. page.session[t].channel = 0
      BY <1>1, <2>1 DEF TabOk
    <3> QED
      BY <1>1, <1>4, <2>1, <3>1, SameNot DEF Others
  <2>2. CASE pane[t].effect # 0
    <3>1. d = ChannelSet(page, t, pane[t].effect, 0)
      BY <1>4, <2>2
    <3>2. /\ Same(page, d, t) /\ Others(page.session[t], d.session[t])
          /\ Current(page, t, pane[t].effect) => d.session[t].channel = 0
          /\ ~Current(page, t, pane[t].effect) => d = page
          /\ d.layout = page.layout /\ d.prompts = page.prompts /\ d.secret = page.secret
      BY <1>1, <3>1, ChannelSetOk
    <3>3. ~Current(page, t, pane[t].effect) => page.session[t].channel = 0
      BY <1>1 DEF TabOk, Current
    <3> QED
      BY <3>2, <3>3
  <2> QED
    BY <2>1, <2>2
<1>6. PICK q : q = page'
  OBVIOUS
<1>7. /\ Same(page, q, t)
      /\ IsOpen(q, t) <=> IsOpen(page, t)
      /\ q.prompts = page.prompts /\ q.secret = page.secret
      /\ q.session[t].attempt = page.session[t].attempt
      /\ q.session[t].wanted <=> page.session[t].wanted
      /\ q.session[t].channel = 0
      /\ q.session[t].state = IF a = 0 THEN page.session[t].state ELSE "authorizing"
  <2>1. CASE a = 0
    <3>1. q = d
      BY <1>2, <1>4, <1>6, <2>1 DEF RunEffect
    <3> QED
      BY <1>5, <2>1, <3>1 DEF IsOpen, Others
  <2>2. CASE a # 0
    <3>1. q = HandleState(d, t, a, "authorizing")
      BY <1>2, <1>4, <1>6, <2>2 DEF RunEffect
    <3>2. PageOk(d) /\ Current(d, t, a)
      BY <1>3, <1>5, <2>2 DEF Same, Current, IsOpen, Others
    <3>3. /\ Same(d, q, t) /\ Told(d.session[t], q.session[t], "authorizing")
          /\ q.layout = d.layout /\ q.prompts = d.prompts /\ q.secret = d.secret
      BY <3>1, <3>2, HandleStateOk DEF SessionState
    <3>4. Same(page, q, t)
      BY <1>5, <3>3, SameTwice
    <3> QED
      BY <1>5, <2>2, <3>3, <3>4 DEF IsOpen, Others, Told, Ended
  <2> QED
    BY <2>1, <2>2
<1>8. PICK socket \in Socket : socket = IF a = 0 THEN "none" ELSE "asking"
  BY DEF Socket
<1>9. /\ pane' = [pane EXCEPT ![t] = [effect |-> a, socket |-> socket]]
      /\ remote' = [remote EXCEPT ![t] = "none"] /\ UNCHANGED <<timers, logout>>
  BY <1>2, <1>8 DEF RunEffect
<1>10. /\ pane' \in [Tabs -> Terminals] /\ \A u \in Tabs \ {t} : pane'[u] = pane[u]
       /\ pane'[t].effect = a /\ pane'[t].socket = socket
  BY <1>1, <1>3, <1>9, TerminalOf, ZenonT(40)
<1>11. remote' \in [Tabs -> Remotes] /\ \A u \in Tabs \ {t} : remote'[u] = remote[u]
  BY <1>1, <1>9 DEF Remotes
<1>12. TabOk(t)'
  <2>1. /\ page'.session[t].wanted => page'.session[t].state \notin Ended
        /\ a =< page.session[t].attempt /\ page.secret[t] =< page.session[t].attempt
        /\ IsOpen(page, t) => page.session[t].attempt # 0
    BY <1>1, <1>3, <1>6, <1>7 DEF TabOk, Ended
  <2>2. IsOpen(page, t) /\ page.secret[t] # 0 =>
           page.secret[t] = page.session[t].attempt /\ page.session[t].wanted
    BY <1>1 DEF TabOk
  <2> QED
    BY <1>6, <1>7, <1>8, <1>10, <2>1, <2>2 DEF TabOk
<1>13. Heeded(t)'
  BY <1>3, <1>6, <1>7, <1>8, <1>10 DEF Heeded, Going
<1>14. \A p \in ToSet(page'.prompts) : p.tab = t => PromptOk(p)'
  <2> SUFFICES ASSUME NEW p \in ToSet(page.prompts), p.tab = t PROVE PromptOk(p)'
    BY <1>6, <1>7
  <2>1. PromptOk(p) /\ p.kind \in {"credential", "host-key"} /\ p.attempt # 0
    BY <1>1 DEF Prompt
  <2>2. CASE ~IsOpen(page, t)
    BY <1>6, <1>7, <2>1, <2>2 DEF PromptOk
  <2>3. CASE IsOpen(page, t)
    <3>1. SignedIn /\ p.attempt = page.session[t].attempt
      BY <1>1, <2>1, <2>3 DEF SignedIn, PromptOk
    <3>2. p.kind = "credential"
      BY <1>2, <2>1, <2>3, <3>1 DEF PromptOk, Due
    <3>3. a = 0 /\ ~page.session[t].wanted /\ ~Running(page.session[t])
      BY <1>3, <2>1, <2>3, <3>2 DEF PromptOk
    <3> QED
      BY <1>6, <1>7, <1>8, <1>10, <2>1, <2>3, <3>1, <3>2, <3>3 DEF PromptOk, Running
  <2> QED
    BY <2>2, <2>3
<1>15. urgent' \in BOOLEAN /\ (urgent' \/ ((\A u \in Tabs : Heeded(u)) /\ Heeded(t)'))
  BY <1>13 DEF WorkbenchInv, Types
<1> QED
  BY <1>1, <1>6, <1>7, <1>9, <1>10, <1>11, <1>12, <1>14, <1>15, OneTab

\* The terminal of a tab that is not, or no longer, on this attempt: the page hears
\* nothing of it.
LEMMA UnheardKeeps ==
  ASSUME WorkbenchInv, NEW t \in Tabs, page' = page,
         ~Current(page, t, pane[t].effect),
         NEW s \in Socket, pane' = WithSocket(pane, t, s), s # "none" => pane[t].socket # "none",
         remote' \in [Tabs -> Remotes], \A u \in Tabs \ {t} : remote'[u] = remote[u],
         UNCHANGED <<timers, logout>>, ~Flushing, ~urgent', urgent' \in BOOLEAN
  PROVE  WorkbenchInv'
<1>1. /\ PageOk(page) /\ TabOk(t) /\ pane \in [Tabs -> Terminals]
      /\ timers \subseteq Tabs \X Attempt
      /\ \A p \in ToSet(page.prompts) : p.tab = t => PromptOk(p)
      /\ IsOpen(page, t) =>
           \A p, r \in ToSet(page.prompts) : p.tab = t /\ r.tab = t => p = r
  BY TabFacts
<1>2. /\ pane' \in [Tabs -> Terminals] /\ \A u \in Tabs \ {t} : pane'[u] = pane[u]
      /\ pane'[t].effect = pane[t].effect /\ pane'[t].socket = s
  BY <1>1, SocketOf
<1>3. IsOpen(page, t) => pane[t].effect # page.session[t].attempt
  BY DEF Current
<1>4. TabOk(t)'
  BY <1>1, <1>2, <1>3 DEF TabOk
<1>5. \A p \in ToSet(page'.prompts) : p.tab = t => PromptOk(p)'
  BY <1>1, <1>2, <1>3 DEF PromptOk
<1>6. (\A u \in Tabs : Heeded(u)) /\ Heeded(t)'
  BY <1>2, <1>3, SettledIsHeeded DEF Heeded
<1> QED
  BY <1>1, <1>2, <1>4, <1>5, <1>6, SameNot, OneTab

\* The prompts of a tab whose terminal has a socket of the current attempt: host-key
\* questions only, and these only when the socket has opened.
LEMMA RunLeavesNoPrompt ==
  ASSUME WorkbenchInv, NEW t \in Tabs, Current(page, t, pane[t].effect),
         pane[t].socket # "none"
  PROVE  \A p \in ToSet(page.prompts) : p.tab = t =>
           /\ p = [kind |-> "host-key", tab |-> t, attempt |-> pane[t].effect]
           /\ pane[t].socket \in {"open", "closing"} /\ page.session[t].wanted
<1>1. SUFFICES ASSUME NEW p \in ToSet(page.prompts), p.tab = t
               PROVE  /\ p = [kind |-> "host-key", tab |-> t, attempt |-> pane[t].effect]
                      /\ pane[t].socket \in {"open", "closing"} /\ page.session[t].wanted
  OBVIOUS
<1>2. p \in Prompt /\ PromptOk(p)
  BY <1>1, TabFacts
<1>3. p.kind \in {"host-key", "credential"} /\ p.attempt = pane[t].effect
  BY <1>1, <1>2 DEF Prompt, PromptOk, Current
<1>4. p.kind = "host-key" /\ pane[t].socket \in {"open", "closing"} /\ page.session[t].wanted
  BY <1>1, <1>2, <1>3 DEF PromptOk, Current
<1>5. p = [kind |-> p.kind, tab |-> p.tab, attempt |-> p.attempt]
  BY <1>2 DEF Prompt
<1> QED
  BY <1>1, <1>3, <1>4, <1>5

\* handleState of an ending, for the attempt the page is on.
LEMMA EndingTold ==
  ASSUME WorkbenchInv, NEW t \in Tabs, Current(page, t, pane[t].effect),
         NEW s \in {"closed", "error"}, NEW q, q = HandleState(page, t, pane[t].effect, s)
  PROVE  /\ Same(page, q, t) /\ PageOk(q) /\ (IsOpen(q, t) => IsOpen(page, t))
         /\ q.session[t].attempt = page.session[t].attempt
         /\ ~q.session[t].wanted /\ q.secret[t] = 0 /\ \A p \in ToSet(q.prompts) : p.tab # t
         /\ q.session[t].channel = IF IsOpen(q, t) THEN page.session[t].channel ELSE 0
<1>1. PageOk(page) /\ \A p \in ToSet(page.prompts) : p \in Prompt /\ p.attempt # 0
  BY TabFacts
<1>2. /\ Same(page, q, t) /\ (IsOpen(q, t) => IsOpen(page, t))
      /\ q.session[t].attempt = page.session[t].attempt
      /\ q.secret[t] = 0 /\ ~q.session[t].wanted
      /\ ToSet(q.prompts) = {p \in ToSet(page.prompts) : p.tab # t \/ p.attempt = 0}
      /\ IsOpen(q, t) => Told(page.session[t], q.session[t], s)
      /\ ~IsOpen(q, t) => q.session[t].channel = 0
  BY <1>1, HandleStateOk, SMTT(30) DEF SessionState
<1> QED
  BY <1>1, <1>2 DEF Same, Told

LEMMA TicketIssuedKeeps ==
  ASSUME WorkbenchInv, NEW t \in Tabs, TicketIssued(t), ~Flushing, ~urgent', urgent' \in BOOLEAN
  PROVE  WorkbenchInv'
<1>1. /\ PageOk(page) /\ TabOk(t) /\ pane \in [Tabs -> Terminals] /\ remote \in [Tabs -> Remotes]
      /\ timers \subseteq Tabs \X Attempt /\ page.session[t].attempt \in Nat
      /\ \A p \in ToSet(page.prompts) : p.tab = t => PromptOk(p)
      /\ IsOpen(page, t) =>
           \A p, r \in ToSet(page.prompts) : p.tab = t /\ r.tab = t => p = r
  BY TabFacts
<1>2. /\ pane[t].socket = "asking" /\ UNCHANGED <<remote, timers, logout>>
      /\ page' = ForgetSecret(page, t, pane[t].effect)
      /\ pane' = WithSocket(pane, t, "connecting")
  BY DEF TicketIssued, WithSocket
<1>3. /\ pane' \in [Tabs -> Terminals] /\ \A u \in Tabs \ {t} : pane'[u] = pane[u]
      /\ pane'[t].effect = pane[t].effect /\ pane'[t].socket = "connecting"
  BY <1>1, <1>2, Sockets, SocketOf
<1>4. /\ Same(page, page', t) /\ page'.layout = page.layout /\ page'.session = page.session
      /\ page'.secret[t] = (IF page.secret[t] = pane[t].effect THEN 0 ELSE page.secret[t])
      /\ page'.prompts = page.prompts
  BY <1>1, <1>2, ForgetSecretOk
<1>5. IsOpen(page', t) <=> IsOpen(page, t)
  BY <1>4 DEF IsOpen
<1>6. TabOk(t)'
  BY <1>1, <1>2, <1>3, <1>4, <1>5 DEF TabOk
<1>7. \A p \in ToSet(page'.prompts) : p.tab = t => PromptOk(p)'
  BY <1>1, <1>2, <1>3, <1>4, <1>5 DEF PromptOk
<1>8. (\A u \in Tabs : Heeded(u)) /\ Heeded(t)'
  BY <1>2, <1>3, <1>4, <1>5, SettledIsHeeded DEF Heeded, Going
<1> QED
  BY <1>1, <1>2, <1>3, <1>4, <1>5, <1>6, <1>7, <1>8, OneTab

LEMMA CredentialRequiredKeeps ==
  ASSUME WorkbenchInv, NEW t \in Tabs, CredentialRequired(t), ~Flushing, ~urgent', urgent' \in BOOLEAN
  PROVE  WorkbenchInv'
<1>1. /\ PageOk(page) /\ TabOk(t) /\ pane \in [Tabs -> Terminals] /\ remote \in [Tabs -> Remotes]
      /\ timers \subseteq Tabs \X Attempt /\ page.session[t].attempt \in Nat
      /\ pane[t].effect \in Nat
  BY TabFacts
<1>2. PICK a \in Nat : a = pane[t].effect
  BY <1>1
<1>3. PICK i : i = HandleState(page, t, a, "idle")
  OBVIOUS
<1>4. /\ pane[t].socket = "asking" /\ page.secret[t] # a /\ UNCHANGED <<remote, timers, logout>>
      /\ pane' = WithSocket(pane, t, "none")
  BY <1>2 DEF CredentialRequired, WithSocket
<1>5. CASE ~Current(page, t, a)
  <2>1. i = page
    BY <1>1, <1>3, <1>5 DEF HandleState
  <2>2. page' = page
    BY <1>2, <1>3, <1>5, <2>1 DEF CredentialRequired
  <2> QED
    BY <1>1, <1>2, <1>4, <1>5, <2>2, Sockets, UnheardKeeps
<1>6. CASE Current(page, t, a)
  <2>1. /\ Same(page, i, t) /\ Told(page.session[t], i.session[t], "idle")
        /\ i.layout = page.layout /\ i.prompts = page.prompts /\ i.secret = page.secret
    BY <1>1, <1>3, <1>6, HandleStateOk DEF SessionState
  <2>2. PageOk(i) /\ Current(i, t, a)
    BY <1>6, <2>1 DEF Same, Current, IsOpen, Told
  <2>3. PICK q : q = Paused(i, t, a)
    OBVIOUS
  <2>4. /\ Same(i, q, t)
        /\ q.session[t].attempt = i.session[t].attempt /\ ~q.session[t].wanted
        /\ q.session[t].state = "idle" /\ q.session[t].channel = 0
        /\ q.layout = i.layout /\ q.prompts = i.prompts /\ q.secret = i.secret
    BY <2>2, <2>3, PausedOk
  <2>5. PICK p : p = [kind |-> "credential", tab |-> t, attempt |-> a]
    OBVIOUS
  <2>6. p \in Prompt /\ p.tab = t /\ p.kind = "credential" /\ p.attempt = a
    BY <2>5 DEF Prompt, Attempt
  <2>7. page' = Enqueued(q, p)
    BY <1>2, <1>3, <2>2, <2>3, <2>5 DEF CredentialRequired
  <2>8. PageOk(q)
    BY <2>4 DEF Same
  <2>9. /\ Same(q, page', t) /\ ToSet(page'.prompts) = ToSet(q.prompts) \cup {p}
        /\ page'.layout = q.layout /\ page'.session = q.session /\ page'.secret = q.secret
    BY <2>6, <2>7, <2>8, EnqueuedOk
  <2>10. Same(page, page', t) /\ IsOpen(page', t) /\ IsOpen(page, t)
    BY <1>6, <2>1, <2>4, <2>9, SameTwice DEF IsOpen, Current
  <2>11. /\ pane' \in [Tabs -> Terminals] /\ \A u \in Tabs \ {t} : pane'[u] = pane[u]
         /\ pane'[t].effect = a /\ pane'[t].socket = "none"
    BY <1>1, <1>2, <1>4, Sockets, SocketOf
  <2>12. page.session[t].attempt = a /\ a # 0
    BY <1>1, <1>6, <2>10 DEF Current, TabOk
  <2>13. /\ page'.session[t].attempt = a /\ ~page'.session[t].wanted
         /\ page'.session[t].state = "idle" /\ page'.session[t].channel = 0
         /\ page'.secret[t] = page.secret[t]
    BY <2>1, <2>4, <2>9, <2>12 DEF Told
  <2>14. page.secret[t] = 0
    BY <1>1, <1>4, <2>10, <2>12 DEF TabOk
  <2>15. TabOk(t)'
    BY <1>1, <2>10, <2>11, <2>12, <2>13, <2>14 DEF TabOk
  <2>16. \A r \in ToSet(page'.prompts) : r.tab = t => r = p
    BY <1>2, <1>4, <1>6, <2>1, <2>4, <2>9, RunLeavesNoPrompt
  <2>17. PromptOk(p)'
    BY <2>6, <2>11, <2>12, <2>13 DEF PromptOk, Running
  <2>18. (\A u \in Tabs : Heeded(u)) /\ Heeded(t)'
    BY <2>11, SettledIsHeeded DEF Heeded, Going
  <2> QED
    BY <1>1, <1>4, <2>10, <2>11, <2>15, <2>16, <2>17, <2>18, OneTab
<1> QED
  BY <1>5, <1>6

LEMMA TicketFailedKeeps ==
  ASSUME WorkbenchInv, NEW t \in Tabs, TicketFailed(t), ~Flushing, ~urgent', urgent' \in BOOLEAN
  PROVE  WorkbenchInv'
<1>1. /\ PageOk(page) /\ TabOk(t) /\ pane \in [Tabs -> Terminals] /\ remote \in [Tabs -> Remotes]
      /\ timers \subseteq Tabs \X Attempt
  BY TabFacts
<1>2. PICK a : a = pane[t].effect
  OBVIOUS
<1>3. PICK q : q = HandleState(page, t, a, "error")
  OBVIOUS
<1>4. /\ pane[t].socket = "asking" /\ UNCHANGED <<remote, timers, logout>>
      /\ pane' = WithSocket(pane, t, "none")
      /\ page' = IF Current(q, t, a) THEN ForgetSecret(q, t, a) ELSE q
  BY <1>2, <1>3 DEF TicketFailed, WithSocket
<1>5. CASE ~Current(page, t, a)
  <2>1. q = page
    BY <1>3, <1>5 DEF HandleState
  <2> QED
    BY <1>1, <1>2, <1>4, <1>5, <2>1, Sockets, UnheardKeeps
<1>6. CASE Current(page, t, a)
  <2>1. /\ Same(page, q, t) /\ PageOk(q) /\ (IsOpen(q, t) => IsOpen(page, t))
        /\ q.session[t].attempt = page.session[t].attempt
        /\ ~q.session[t].wanted /\ q.secret[t] = 0 /\ \A p \in ToSet(q.prompts) : p.tab # t
        /\ q.session[t].channel = IF IsOpen(q, t) THEN page.session[t].channel ELSE 0
    BY <1>2, <1>3, <1>6, EndingTold
  <2>2. PICK r : r = ForgetSecret(q, t, a)
    OBVIOUS
  <2>3. /\ Same(q, r, t) /\ r.secret[t] = 0
        /\ r.layout = q.layout /\ r.prompts = q.prompts /\ r.session = q.session
    BY <2>1, <2>2, ForgetSecretOk
  <2>4. /\ Same(page, page', t) /\ (IsOpen(page', t) <=> IsOpen(q, t)) /\ page'.secret[t] = 0
        /\ page'.session = q.session /\ page'.prompts = q.prompts
    BY <1>4, <2>1, <2>2, <2>3, SameTwice DEF IsOpen
  <2>5. page.session[t].channel = 0
    BY <1>1, <1>4 DEF TabOk
  <2>6. /\ pane' \in [Tabs -> Terminals] /\ \A u \in Tabs \ {t} : pane'[u] = pane[u]
        /\ pane'[t].effect = pane[t].effect /\ pane'[t].socket = "none"
    BY <1>1, <1>4, Sockets, SocketOf
  <2>7. ~Going(t)'
    BY <2>6 DEF Going
  <2> QED
    BY <1>1, <1>4, <2>1, <2>4, <2>5, <2>6, <2>7, SettledIsHeeded, EndedTab
<1> QED
  BY <1>5, <1>6

LEMMA SocketOpenedKeeps ==
  ASSUME WorkbenchInv, NEW t \in Tabs, SocketOpened(t), ~Flushing, ~urgent', urgent' \in BOOLEAN
  PROVE  WorkbenchInv'
<1>1. /\ PageOk(page) /\ TabOk(t) /\ pane \in [Tabs -> Terminals] /\ remote \in [Tabs -> Remotes]
      /\ timers \subseteq Tabs \X Attempt /\ page.session[t].attempt \in Nat
      /\ page.secret[t] \in Nat /\ pane[t].effect \in Nat
  BY TabFacts
<1>2. PICK a \in Nat : a = pane[t].effect
  BY <1>1
<1>3. PICK i : i = HandleState(page, t, a, "starting")
  OBVIOUS
<1>4. /\ pane[t].socket = "connecting" /\ UNCHANGED <<timers, logout>>
      /\ page' = ChannelSet(i, t, a, a) /\ pane' = WithSocket(pane, t, "open")
      /\ remote' = [remote EXCEPT ![t] = "starting"]
  BY <1>2, <1>3 DEF SocketOpened, WithSocket
<1>5. remote' \in [Tabs -> Remotes] /\ \A u \in Tabs \ {t} : remote'[u] = remote[u]
  BY <1>1, <1>4 DEF Remotes
<1>6. CASE ~Current(page, t, a)
  <2>1. page' = page
    BY <1>3, <1>4, <1>6 DEF HandleState, ChannelSet
  <2> QED
    BY <1>1, <1>2, <1>4, <1>5, <1>6, <2>1, Sockets, UnheardKeeps
<1>7. CASE Current(page, t, a)
  <2>1. /\ Same(page, i, t) /\ Told(page.session[t], i.session[t], "starting")
        /\ i.layout = page.layout /\ i.prompts = page.prompts /\ i.secret = page.secret
    BY <1>1, <1>3, <1>7, HandleStateOk DEF SessionState
  <2>2. PageOk(i) /\ Current(i, t, a)
    BY <1>7, <2>1 DEF Same, Current, IsOpen, Told
  <2>3. /\ Same(i, page', t) /\ page'.session[t].channel = a
        /\ Others(i.session[t], page'.session[t])
        /\ page'.layout = i.layout /\ page'.prompts = i.prompts /\ page'.secret = i.secret
    BY <1>4, <2>2, ChannelSetOk
  <2>4. Same(page, page', t) /\ IsOpen(page', t) /\ IsOpen(page, t) /\ page.session[t].attempt = a
    BY <1>7, <2>1, <2>3, SameTwice DEF IsOpen, Current
  <2>5. /\ pane' \in [Tabs -> Terminals] /\ \A u \in Tabs \ {t} : pane'[u] = pane[u]
        /\ pane'[t].effect = a /\ pane'[t].socket = "open"
    BY <1>1, <1>2, <1>4, Sockets, SocketOf
  <2>6. page.secret[t] = 0 /\ a # 0
    BY <1>1, <1>2, <1>4, <2>4 DEF TabOk
  <2>7. page.session[t].wanted
    BY <1>2, <1>4, <2>4, SettledIsHeeded DEF Heeded, Going
  <2>8. /\ page'.session[t].attempt = a /\ page'.session[t].wanted
        /\ page'.session[t].state = "starting" /\ page'.session[t].channel = a
        /\ page'.secret[t] = 0
    BY <2>1, <2>3, <2>4, <2>6, <2>7 DEF Told, Others, Ended
  <2>9. TabOk(t)'
    BY <1>2, <2>4, <2>5, <2>6, <2>8 DEF TabOk, Ended
  <2>10. \A p \in ToSet(page'.prompts) : p.tab # t
    BY <1>2, <1>4, <1>7, <2>1, <2>3, RunLeavesNoPrompt
  <2>11. (\A u \in Tabs : Heeded(u)) /\ Heeded(t)'
    BY <2>8, SettledIsHeeded DEF Heeded
  <2> QED
    BY <1>1, <1>4, <1>5, <2>4, <2>5, <2>9, <2>10, <2>11, OneTab
<1> QED
  BY <1>6, <1>7

\* A message that leaves the session going, with or without a question.
LEMMA MessageKeeps ==
  ASSUME WorkbenchInv, NEW t \in Tabs, Hears(t, "starting"), Current(page, t, pane[t].effect),
         NEW i, NEW s \in {"starting", "connected"}, i = HandleState(page, t, pane[t].effect, s),
         \/ page' = i
         \/ page' = Enqueued(i, [kind |-> "host-key", tab |-> t, attempt |-> pane[t].effect]),
         remote' \in [Tabs -> Remotes], \A u \in Tabs \ {t} : remote'[u] = remote[u],
         UNCHANGED <<pane, timers, logout>>, ~Flushing, ~urgent', urgent' \in BOOLEAN
  PROVE  WorkbenchInv'
<1>1. /\ PageOk(page) /\ TabOk(t) /\ pane \in [Tabs -> Terminals]
      /\ timers \subseteq Tabs \X Attempt /\ page.session[t].attempt \in Nat
  BY TabFacts
<1>2. PICK a \in Nat : a = pane[t].effect /\ Current(page, t, a)
  BY TabFacts
<1>3. /\ pane[t].socket = "open" /\ IsOpen(page, t) /\ page.session[t].attempt = a
      /\ page.session[t].wanted /\ a # 0
  BY <1>1, <1>2, SettledIsHeeded DEF Hears, Heeded, Going, Current, TabOk
<1>4. /\ Same(page, i, t) /\ PageOk(i) /\ Told(page.session[t], i.session[t], s)
      /\ i.layout = page.layout /\ i.prompts = page.prompts /\ i.secret = page.secret
  BY <1>1, <1>2, HandleStateOk DEF SessionState, Same
<1>5. PICK p : p = [kind |-> "host-key", tab |-> t, attempt |-> a]
  OBVIOUS
<1>6. p \in Prompt /\ p.tab = t /\ p.kind = "host-key" /\ p.attempt = a
  BY <1>5 DEF Prompt, Attempt
<1>7. /\ Same(page, page', t) /\ page'.layout = page.layout /\ page'.session = i.session
      /\ page'.secret = page.secret /\ ToSet(page'.prompts) \subseteq ToSet(page.prompts) \cup {p}
  <2>1. CASE page' = i
    BY <1>4, <2>1
  <2>2. CASE page' = Enqueued(i, p)
    <3>0. PageOk(i) /\ p \in Prompt /\ p.tab = t
      BY <1>4, <1>6
    <3>1. /\ Same(i, page', t) /\ ToSet(page'.prompts) = ToSet(i.prompts) \cup {p}
          /\ page'.layout = i.layout /\ page'.session = i.session /\ page'.secret = i.secret
      BY <2>2, <3>0, EnqueuedOk
    <3>2. Same(page, i, t) /\ PageOk(page) /\ Same(i, page', t)
      BY <1>1, <1>4, <3>1
    <3>3. Same(page, page', t)
      BY <3>2, SameTwice
    <3> QED
      BY <1>4, <3>1, <3>3
  <2> QED
    BY <1>2, <1>5, <2>1, <2>2
<1>8. /\ page'.session[t].attempt = a /\ page'.session[t].wanted
      /\ page'.session[t].state \notin Ended
      /\ page'.session[t].channel = page.session[t].channel /\ IsOpen(page', t)
  BY <1>3, <1>4, <1>7 DEF Told, Ended, IsOpen
<1>9. TabOk(t)'
  BY <1>1, <1>2, <1>3, <1>7, <1>8 DEF TabOk
<1>10. \A r \in ToSet(page'.prompts) : r.tab = t => r = p
  BY <1>2, <1>3, <1>5, <1>7, RunLeavesNoPrompt
<1>11. PromptOk(p)'
  BY <1>2, <1>3, <1>6, <1>8 DEF PromptOk
<1>12. (\A u \in Tabs : Heeded(u)) /\ Heeded(t)'
  BY <1>8, SettledIsHeeded DEF Heeded
<1> QED
  BY <1>1, <1>3, <1>7, <1>9, <1>10, <1>11, <1>12, OneTab

\* The same, unheard.
LEMMA MessageUnheard ==
  ASSUME WorkbenchInv, NEW t \in Tabs, pane[t].socket = "open",
         ~Current(page, t, pane[t].effect), page' = page,
         remote' \in [Tabs -> Remotes], \A u \in Tabs \ {t} : remote'[u] = remote[u],
         UNCHANGED <<pane, timers, logout>>, ~Flushing, ~urgent', urgent' \in BOOLEAN
  PROVE  WorkbenchInv'
<1>1. pane' = WithSocket(pane, t, "open")
  <2>1. pane \in [Tabs -> Terminals]
    BY TabFacts
  <2>2. PICK x : x = pane[t] /\ x \in Terminals
    BY <2>1
  <2>3. PICK y : y = [x EXCEPT !.socket = "open"]
    OBVIOUS
  <2>4. y = x
    BY <2>2, <2>3 DEF Terminals
  <2>5. [pane EXCEPT ![t].socket = "open"] = [pane EXCEPT ![t] = y]
    BY <2>2, <2>3
  <2> QED
    BY <2>1, <2>2, <2>4, <2>5 DEF WithSocket
<1> QED
  BY <1>1, Sockets, UnheardKeeps

LEMMA HostKeyAskedKeeps ==
  ASSUME WorkbenchInv, NEW t \in Tabs, HostKeyAsked(t), ~Flushing, ~urgent', urgent' \in BOOLEAN
  PROVE  WorkbenchInv'
<1>1. PICK i : i = HandleState(page, t, pane[t].effect, "starting")
  OBVIOUS
<1>2. /\ Hears(t, "starting") /\ remote' = [remote EXCEPT ![t] = "asked"]
      /\ UNCHANGED <<pane, timers, logout>> /\ remote \in [Tabs -> Remotes]
  BY TabFacts DEF HostKeyAsked
<1>3. remote' \in [Tabs -> Remotes] /\ \A u \in Tabs \ {t} : remote'[u] = remote[u]
  BY <1>2 DEF Remotes
<1>4. CASE Current(page, t, pane[t].effect)
  <2>1. page' = Enqueued(i, [kind |-> "host-key", tab |-> t, attempt |-> pane[t].effect])
    BY <1>1, <1>4 DEF HostKeyAsked
  <2>2. PICK s \in {"starting", "connected"} : s = "starting"
    OBVIOUS
  <2> QED
    BY <1>1, <1>2, <1>3, <1>4, <2>1, <2>2, MessageKeeps
<1>5. CASE ~Current(page, t, pane[t].effect)
  <2>1. page' = page
    BY <1>5 DEF HostKeyAsked, HandleState
  <2> QED
    BY <1>2, <1>3, <1>5, <2>1, MessageUnheard DEF Hears
<1> QED
  BY <1>4, <1>5

LEMMA ConnectedKeeps ==
  ASSUME WorkbenchInv, NEW t \in Tabs, Connected(t), ~Flushing, ~urgent', urgent' \in BOOLEAN
  PROVE  WorkbenchInv'
<1>1. PICK i : i = HandleState(page, t, pane[t].effect, "connected")
  OBVIOUS
<1>2. /\ Hears(t, "starting") /\ remote' = [remote EXCEPT ![t] = "ready"] /\ page' = i
      /\ UNCHANGED <<pane, timers, logout>> /\ remote \in [Tabs -> Remotes]
  BY <1>1, TabFacts DEF Connected
<1>3. remote' \in [Tabs -> Remotes] /\ \A u \in Tabs \ {t} : remote'[u] = remote[u]
  BY <1>2 DEF Remotes
<1>4. CASE Current(page, t, pane[t].effect)
  <2>1. PICK s \in {"starting", "connected"} : s = "connected"
    OBVIOUS
  <2> QED
    BY <1>1, <1>2, <1>3, <1>4, <2>1, MessageKeeps
<1>5. CASE ~Current(page, t, pane[t].effect)
  <2>1. page' = page
    BY <1>1, <1>2, <1>5 DEF HandleState
  <2> QED
    BY <1>2, <1>3, <1>5, <2>1, MessageUnheard DEF Hears
<1> QED
  BY <1>4, <1>5

LEMMA SessionEndedKeeps ==
  ASSUME WorkbenchInv, NEW t \in Tabs, SessionEnded(t), ~Flushing, ~urgent', urgent' \in BOOLEAN
  PROVE  WorkbenchInv'
<1>1. /\ TabOk(t) /\ pane \in [Tabs -> Terminals] /\ remote \in [Tabs -> Remotes]
      /\ timers \subseteq Tabs \X Attempt
  BY TabFacts
<1>2. PICK s \in {"closed", "error"} : page' = HandleState(page, t, pane[t].effect, s)
  BY DEF SessionEnded
<1>3. /\ pane[t].socket = "open" /\ remote' = [remote EXCEPT ![t] = "over"]
      /\ UNCHANGED <<pane, timers, logout>>
  BY DEF SessionEnded, Hears
<1>4. /\ remote' \in [Tabs -> Remotes] /\ \A u \in Tabs \ {t} : remote'[u] = remote[u]
      /\ remote'[t] = "over"
  BY <1>1, <1>3 DEF Remotes
<1>5. CASE Current(page, t, pane[t].effect)
  <2>1. PICK q : q = page'
    OBVIOUS
  <2>2. /\ Same(page, q, t) /\ PageOk(q) /\ (IsOpen(q, t) => IsOpen(page, t))
        /\ q.session[t].attempt = page.session[t].attempt
        /\ ~q.session[t].wanted /\ q.secret[t] = 0 /\ \A p \in ToSet(q.prompts) : p.tab # t
        /\ q.session[t].channel = IF IsOpen(q, t) THEN page.session[t].channel ELSE 0
    BY <1>2, <1>5, <2>1, EndingTold
  <2>3. ~Going(t)'
    BY <1>3, <1>4 DEF Going
  <2> QED
    BY <1>1, <1>3, <1>4, <2>1, <2>2, <2>3, SettledIsHeeded, EndedTab DEF TabOk
<1>6. CASE ~Current(page, t, pane[t].effect)
  <2>1. page' = page
    BY <1>2, <1>6 DEF HandleState
  <2> QED
    BY <1>3, <1>4, <1>6, <2>1, MessageUnheard
<1> QED
  BY <1>5, <1>6

LEMMA SocketClosedKeeps ==
  ASSUME WorkbenchInv, NEW t \in Tabs, SocketClosed(t), ~Flushing, ~urgent', urgent' \in BOOLEAN
  PROVE  WorkbenchInv'
<1>1. /\ PageOk(page) /\ TabOk(t) /\ pane \in [Tabs -> Terminals] /\ remote \in [Tabs -> Remotes]
      /\ timers \subseteq Tabs \X Attempt /\ page.session[t].attempt \in Nat
      /\ page.secret[t] \in Nat /\ pane[t].effect \in Nat
  BY TabFacts
<1>2. PICK a \in Nat : a = pane[t].effect
  BY <1>1
<1>3. PICK s \in {"closed", "error"} :
        page' = ChannelSet(IF page.session[t].state = "error" THEN page
                           ELSE HandleState(page, t, a, s), t, a, 0)
  BY <1>2 DEF SocketClosed
<1>4. /\ pane[t].socket \in {"connecting", "open", "closing"} /\ UNCHANGED <<timers, logout>>
      /\ pane' = WithSocket(pane, t, "none") /\ remote' = [remote EXCEPT ![t] = "none"]
  BY DEF SocketClosed, WithSocket
<1>5. PICK i : i = IF page.session[t].state = "error" THEN page ELSE HandleState(page, t, a, s)
  OBVIOUS
<1>6. /\ remote' \in [Tabs -> Remotes] /\ \A u \in Tabs \ {t} : remote'[u] = remote[u]
      /\ page' = ChannelSet(i, t, a, 0)
  BY <1>1, <1>3, <1>4, <1>5 DEF Remotes
<1>7. CASE ~Current(page, t, a)
  <2>1. page' = page
    BY <1>5, <1>6, <1>7 DEF HandleState, ChannelSet
  <2> QED
    BY <1>2, <1>4, <1>6, <1>7, <2>1, Sockets, UnheardKeeps
<1>8. CASE Current(page, t, a)
  <2>1. IsOpen(page, t) /\ page.session[t].attempt = a
    BY <1>8 DEF Current
  <2>2. /\ Same(page, i, t) /\ PageOk(i) /\ i.session[t].attempt = page.session[t].attempt
        /\ ~i.session[t].wanted /\ i.secret[t] = 0 /\ \A p \in ToSet(i.prompts) : p.tab # t
        /\ ~IsOpen(i, t) => i.session[t].channel = 0
    <3>1. CASE page.session[t].state = "error"
      <4>1. ~page.session[t].wanted
        BY <1>1, <3>1 DEF TabOk, Ended
      <4>2. page.secret[t] = 0
        BY <1>1, <2>1, <4>1 DEF TabOk
      <4>3. \A p \in ToSet(page.prompts) : p.tab # t
        BY <1>2, <1>4, <1>8, <4>1, RunLeavesNoPrompt
      <4> QED
        BY <1>1, <1>5, <2>1, <3>1, <4>1, <4>2, <4>3, SameNot
    <3>2. CASE page.session[t].state # "error"
      <4>1. i = HandleState(page, t, a, s)
        BY <1>5, <3>2
      <4> QED
        BY <1>2, <1>8, <4>1, EndingTold
    <3> QED
      BY <3>1, <3>2
  <2>3. /\ Same(i, page', t) /\ Others(i.session[t], page'.session[t])
        /\ Current(i, t, a) => page'.session[t].channel = 0
        /\ ~Current(i, t, a) => page' = i
        /\ page'.layout = i.layout /\ page'.prompts = i.prompts /\ page'.secret = i.secret
    BY <1>6, <2>2, ChannelSetOk
  <2>4. page'.session[t].channel = 0
    BY <2>1, <2>2, <2>3 DEF Current
  <2>5. Same(page, page', t)
    BY <2>2, <2>3, SameTwice
  <2>6. /\ pane' \in [Tabs -> Terminals] /\ \A u \in Tabs \ {t} : pane'[u] = pane[u]
        /\ pane'[t].effect = pane[t].effect /\ pane'[t].socket = "none"
    BY <1>1, <1>4, Sockets, SocketOf
  <2>7. ~Going(t)'
    BY <2>6 DEF Going
  <2>8. /\ page'.session[t].attempt = page.session[t].attempt
        /\ ~page'.session[t].wanted /\ page'.secret[t] = 0
        /\ \A p \in ToSet(page'.prompts) : p.tab # t
    BY <2>2, <2>3 DEF Others
  <2> QED
    BY <1>1, <1>4, <1>6, <2>1, <2>4, <2>5, <2>6, <2>7, <2>8, SettledIsHeeded, EndedTab
<1> QED
  BY <1>7, <1>8

-----------------------------------------------------------------------------
(* Logging out changes all tabs at once.                                     *)

LEMMA LogoutKeeps ==
  ASSUME WorkbenchInv, Logout, urgent'
  PROVE  WorkbenchInv'
<1>1. PICK z : z = [t \in Tabs |-> 0]
  OBVIOUS
<1>2. z \in [Tabs -> Attempt] /\ \A t \in Tabs : z[t] = 0
  BY <1>1 DEF Attempt
<1>3. PICK q : q = page' /\ page \in Pages /\ Sane(page.layout)
  BY DEF WorkbenchInv, Types, PageOk
<1>4. /\ q = [page EXCEPT !.prompts = <<>>, !.secret = z] /\ logout' = "draining"
      /\ UNCHANGED <<pane, remote, timers>>
  BY <1>1, <1>3 DEF Logout
<1>5. PICK e : e = <<>> /\ e \in Seq(Prompt)
  BY EmptySeq
<1>6. /\ q \in Pages /\ q.prompts = e /\ q.secret = z /\ q.layout = page.layout
      /\ q.session = page.session
  BY <1>2, <1>3, <1>4, <1>5 DEF Pages
<1>7. Once(e) /\ \A p : p \notin ToSet(e)
  BY <1>5 DEF Once, ToSet
<1>8. PageOk(page')
  BY <1>3, <1>6, <1>7 DEF PageOk
<1>9. Types'
  BY <1>4, <1>8 DEF Types, WorkbenchInv
<1>10. ASSUME NEW t \in Tabs PROVE TabOk(t)'
  <2>1. TabOk(t) /\ page.session[t].attempt \in Nat
    BY TabFacts
  <2>2. IsOpen(page', t) <=> IsOpen(page, t)
    BY <1>3, <1>6 DEF IsOpen
  <2> QED
    BY <1>2, <1>3, <1>4, <1>6, <2>1, <2>2 DEF TabOk
<1> QED
  BY <1>3, <1>6, <1>7, <1>9, <1>10 DEF WorkbenchInv, PromptsOk

LEMMA DrainEndsKeeps ==
  ASSUME WorkbenchInv, DrainEnds, ~Flushing, ~urgent', urgent' \in BOOLEAN
  PROVE  WorkbenchInv'
<1>1. /\ pane \in [Tabs -> Terminals] /\ pane' = [t \in Tabs |-> ClosedBy(t)[t]]
      /\ UNCHANGED <<page, remote, timers>> /\ logout' = "revoking"
  BY DEF DrainEnds, WorkbenchInv, Types
<1>2. ASSUME NEW t \in Tabs
      PROVE  /\ pane'[t] \in Terminals /\ pane'[t].effect = pane[t].effect
             /\ \/ pane'[t].socket = pane[t].socket
                \/ pane'[t].socket = "closing" /\ pane[t].socket \in {"connecting", "open"}
  <2>1. PICK q : q = ClosedBy(t)
    OBVIOUS
  <2>2. pane'[t] = q[t]
    BY <1>1, <2>1
  <2> QED
    BY <1>1, <2>1, <2>2, ClosedByOk
<1>3. Types'
  <2>1. pane' \in [Tabs -> Terminals]
    BY <1>1, <1>2
  <2> QED
    BY <1>1, <2>1 DEF Types, WorkbenchInv
<1>4. ASSUME NEW t \in Tabs PROVE TabOk(t)' /\ Heeded(t)'
  <2>1. TabOk(t) /\ Heeded(t)
    BY SettledIsHeeded, TabFacts
  <2> QED
    BY <1>1, <1>2, <2>1 DEF TabOk, Heeded, Going
<1>5. ASSUME NEW p \in ToSet(page'.prompts) PROVE PromptOk(p)'
  <2>1. p \in ToSet(page.prompts) /\ PageOk(page)
    BY <1>1 DEF WorkbenchInv, Types
  <2>2. PromptOk(p) /\ p.tab \in Tabs
    BY <2>1, PageFacts DEF WorkbenchInv, PromptsOk, Prompt
  <2>3. PICK t \in Tabs : t = p.tab
    BY <2>2
  <2> QED
    BY <1>1, <1>2, <2>2, <2>3 DEF PromptOk
<1> QED
  BY <1>1, <1>3, <1>4, <1>5 DEF WorkbenchInv, PromptsOk

LEMMA EmptyIsSane == EmptyLayout \in Layouts /\ Sane(EmptyLayout) /\ TabsOf(EmptyLayout) = {}
<1>1. PICK e : e = <<>> /\ e \in Seq(Tabs)
  BY EmptySeq
<1>2. PICK v : v = EmptyLayout
  OBVIOUS
<1>3. PICK n : n = [p \in Pane |-> NoTab]
  OBVIOUS
<1>4. n \in [Pane -> Tabs \cup {NoTab}] /\ n[0] = NoTab /\ n[1] = NoTab
  BY <1>3 DEF Pane
<1>5. v = [order |-> e, active |-> NoTab, split |-> FALSE, panes |-> n, focused |-> 0]
  BY <1>1, <1>2, <1>3 DEF EmptyLayout
<1>6. v \in Layouts
  <2>1. e \in Seq(Tabs)
    BY <1>1
  <2> QED
    BY <1>4, <1>5, <2>1 DEF Layouts, Pane
<1>7. /\ v.order = e /\ v.active = NoTab /\ v.panes = n /\ v.focused = 0 /\ ~v.split
  BY <1>5
<1>8. \A i : i \notin DOMAIN e
  BY <1>1
<1>9. TabsOf(v) = {} /\ Once(v.order)
  BY <1>7, <1>8 DEF TabsOf, Once
<1>10. PanesOk(v)
  BY <1>4, <1>7 DEF PanesOk, Pane
<1> QED
  BY <1>1, <1>2, <1>4, <1>6, <1>7, <1>9, <1>10, SaneIs

\* The session of a tab that is gone.
LEMMA NoSessions ==
  ASSUME NEW attempts \in [Tabs -> Nat],
         NEW f, f = [t \in Tabs |-> [NoSession EXCEPT !.attempt = attempts[t]]]
  PROVE  f \in [Tabs -> Session]
         /\ \A t \in Tabs : /\ f[t].attempt = attempts[t] /\ ~f[t].wanted
                            /\ f[t].channel = 0 /\ f[t].state = "idle"
<1>1. ASSUME NEW t \in Tabs
      PROVE  /\ f[t] \in Session /\ f[t].attempt = attempts[t] /\ ~f[t].wanted
             /\ f[t].channel = 0 /\ f[t].state = "idle"
  <2>1. PICK a \in Nat : a = attempts[t]
    OBVIOUS
  <2>2. PICK s : s = [NoSession EXCEPT !.attempt = a]
    OBVIOUS
  <2>3. s \in Session /\ s.attempt = a /\ ~s.wanted /\ s.channel = 0 /\ s.state = "idle"
    BY <2>2, NewSessionOk
  <2>4. f[t] = s
    BY <2>1, <2>2
  <2> QED
    BY <2>1, <2>3, <2>4
<1> QED
  BY <1>1

LEMMA RevokedKeeps ==
  ASSUME WorkbenchInv, Revoked, ~Flushing, ~urgent', urgent' \in BOOLEAN
  PROVE  WorkbenchInv'
<1>1. UNCHANGED <<pane, remote, timers>>
  BY DEF Revoked
<1>2. CASE logout' = "no" /\ page' = page
  BY <1>1, <1>2, SettledIsHeeded
     DEF WorkbenchInv, Types, TabOk, Heeded, Going, PromptsOk, PromptOk
<1>3. CASE /\ logout' = "out"
           /\ page' = [page EXCEPT !.layout = EmptyLayout,
                !.session = [t \in Tabs |-> [NoSession EXCEPT !.attempt = page.session[t].attempt]]]
  <2>1. PICK attempts \in [Tabs -> Nat] : \A t \in Tabs : attempts[t] = page.session[t].attempt
    <3>1. PICK attempts : attempts = [t \in Tabs |-> page.session[t].attempt]
      OBVIOUS
    <3>2. \A t \in Tabs : page.session[t].attempt \in Nat
      BY TabFacts
    <3> QED
      BY <3>1, <3>2
  <2>2. PICK f : f = [t \in Tabs |-> [NoSession EXCEPT !.attempt = attempts[t]]]
    OBVIOUS
  <2>3. f = [t \in Tabs |-> [NoSession EXCEPT !.attempt = page.session[t].attempt]]
    BY <2>1, <2>2
  <2>4. /\ f \in [Tabs -> Session]
        /\ \A t \in Tabs : /\ f[t].attempt = attempts[t] /\ ~f[t].wanted
                           /\ f[t].channel = 0 /\ f[t].state = "idle"
    BY <2>2, NoSessions
  <2>5. PICK v \in Layouts : v = EmptyLayout /\ Sane(v) /\ TabsOf(v) = {}
    BY EmptyIsSane
  <2>6. PICK q : q = page' /\ page \in Pages /\ Once(page.prompts)
    BY DEF WorkbenchInv, Types, PageOk
  <2>7. q = [page EXCEPT !.layout = v, !.session = f]
    BY <1>3, <2>3, <2>5, <2>6
  <2>8. /\ q \in Pages /\ q.layout = v /\ q.session = f
        /\ q.prompts = page.prompts /\ q.secret = page.secret
    BY <2>4, <2>6, <2>7 DEF Pages
  <2>9. PageOk(page') /\ \A t \in Tabs : ~IsOpen(page', t)
    BY <2>5, <2>6, <2>8 DEF PageOk, IsOpen
  <2>10. Types'
    BY <1>1, <1>3, <2>9 DEF WorkbenchInv, Types
  <2>11. ASSUME NEW t \in Tabs PROVE TabOk(t)' /\ Heeded(t)'
    <3>1. TabOk(t)
      BY TabFacts
    <3> QED
      BY <1>1, <2>1, <2>4, <2>6, <2>8, <2>9, <3>1 DEF TabOk, Heeded
  <2>12. ASSUME NEW p \in ToSet(page'.prompts) PROVE PromptOk(p)' /\ p.tab \in Tabs
    <3>1. p \in ToSet(page.prompts) /\ PageOk(page)
      BY <2>6, <2>8 DEF WorkbenchInv, Types
    <3>2. PromptOk(p) /\ p.tab \in Tabs
      BY <3>1, PageFacts DEF WorkbenchInv, PromptsOk, Prompt
    <3> QED
      BY <2>1, <2>4, <2>6, <2>8, <2>9, <3>2 DEF PromptOk
  <2> QED
    BY <2>9, <2>10, <2>11, <2>12 DEF WorkbenchInv, PromptsOk
<1> QED
  BY <1>2, <1>3 DEF Revoked

LEMMA SignInKeeps ==
  ASSUME WorkbenchInv, SignIn, ~Flushing, ~urgent', urgent' \in BOOLEAN
  PROVE  WorkbenchInv'
BY SettledIsHeeded DEF SignIn, WorkbenchInv, Types, TabOk, Heeded, Going, PromptsOk, PromptOk

-----------------------------------------------------------------------------
(* The invariant holds.                                                      *)

LEMMA InitHolds == Init => WorkbenchInv
<1> SUFFICES ASSUME Init PROVE WorkbenchInv
  OBVIOUS
<1>1. PICK f : f = [t \in Tabs |-> NoSession]
  OBVIOUS
<1>2. \A t \in Tabs : f[t] = NoSession
  BY <1>1
<1>3. NoSession = [attempt |-> 0, wanted |-> FALSE, state |-> "idle", channel |-> 0,
                   closing |-> FALSE]
  BY DEF NoSession
<1>4. NoSession \in Session
  BY <1>3 DEF Session, SessionState, Attempt
<1>5. PICK v \in Layouts : v = EmptyLayout /\ Sane(v) /\ TabsOf(v) = {}
  BY EmptyIsSane
<1>6. PICK z : z = [t \in Tabs |-> 0]
  OBVIOUS
<1>7. PICK e : e = <<>> /\ e \in Seq(Prompt)
  BY EmptySeq
<1>8. page = [layout |-> v, session |-> f, prompts |-> e, secret |-> z]
  BY <1>1, <1>5, <1>6, <1>7 DEF Init, EmptyPage
<1>9. f \in [Tabs -> Session] /\ z \in [Tabs -> Attempt]
  BY <1>1, <1>4, <1>6 DEF Attempt
<1>10. page \in Pages /\ page.layout = v /\ page.session = f /\ page.prompts = e /\ page.secret = z
  <2>1. e \in Seq(Prompt)
    BY <1>7
  <2> QED
    BY <1>8, <1>9, <2>1 DEF Pages
<1>11. Once(e) /\ \A p : p \notin ToSet(e)
  BY <1>7 DEF Once, ToSet
<1>12. PageOk(page) /\ \A t \in Tabs : ~IsOpen(page, t)
  BY <1>5, <1>10, <1>11 DEF PageOk, IsOpen
<1>13. /\ pane = [t \in Tabs |-> [effect |-> 0, socket |-> "none"]]
       /\ remote = [t \in Tabs |-> "none"] /\ timers = {} /\ logout = "no" /\ urgent = FALSE
  BY DEF Init
<1>14. [effect |-> 0, socket |-> "none"] \in Terminals
  BY DEF Terminals, Attempt, Socket
<1>15. pane \in [Tabs -> Terminals] /\ remote \in [Tabs -> Remotes]
  BY <1>13, <1>14 DEF Remotes
<1>16. Types
  BY <1>12, <1>13, <1>15 DEF Types
<1>17. ASSUME NEW t \in Tabs PROVE TabOk(t) /\ Heeded(t)
  <2>1. /\ page.session[t].attempt = 0 /\ ~page.session[t].wanted /\ page.session[t].channel = 0
        /\ page.secret[t] = 0 /\ pane[t].effect = 0 /\ pane[t].socket = "none"
    BY <1>2, <1>3, <1>6, <1>10, <1>13
  <2> QED
    BY <1>12, <2>1 DEF TabOk, Heeded
<1> QED
  BY <1>10, <1>11, <1>16, <1>17 DEF WorkbenchInv, PromptsOk

LEMMA NextKeeps == WorkbenchInv /\ [Next]_vars => WorkbenchInv'
<1> SUFFICES ASSUME WorkbenchInv, [Next]_vars PROVE WorkbenchInv'
  OBVIOUS
<1>1. CASE UNCHANGED vars
  BY <1>1 DEF vars, WorkbenchInv, Types, TabOk, Heeded, Going, PromptsOk, PromptOk
<1>2. ASSUME NEW t \in Tabs, Effect(t) PROVE WorkbenchInv'
  BY <1>2, RunEffectKeeps DEF Effect
<1>3. ASSUME NEW t \in Tabs, Discrete(User(t)) PROVE WorkbenchInv'
  BY <1>3, OpenKeeps, SelectKeeps, ReconnectKeeps, DisconnectKeeps, CloseKeeps
     DEF Discrete, User
<1>4. ASSUME NEW t \in Tabs,
             Deferred(Ticket(t) \/ SocketOpened(t) \/ Message(t) \/ SocketClosed(t)
                        \/ CloseTimeout(t))
      PROVE  WorkbenchInv'
  <2>1. /\ Ticket(t) \/ SocketOpened(t) \/ Message(t) \/ SocketClosed(t) \/ CloseTimeout(t)
        /\ ~Flushing /\ urgent' \in BOOLEAN /\ ~urgent'
    BY <1>4 DEF Deferred
  <2> QED
    BY <2>1, TicketIssuedKeeps, CredentialRequiredKeeps, TicketFailedKeeps, SocketOpenedKeeps,
       HostKeyAskedKeeps, ConnectedKeeps, SessionEndedKeeps, SocketClosedKeeps, CloseTimeoutKeeps
       DEF Ticket, Message
<1>5. ASSUME Discrete(Split \/ SubmitCredential \/ CancelCredential \/ Logout) PROVE WorkbenchInv'
  BY <1>5, SplitKeeps, SubmitKeeps, CancelKeeps, LogoutKeeps DEF Discrete
<1>6. ASSUME NEW trusted \in BOOLEAN, Discrete(AnswerHostKey(trusted)) PROVE WorkbenchInv'
  BY <1>6, AnswerKeeps DEF Discrete
<1>7. ASSUME Deferred(DrainEnds \/ Revoked \/ SignIn) PROVE WorkbenchInv'
  BY <1>7, DrainEndsKeeps, RevokedKeeps, SignInKeeps DEF Deferred
<1> QED
  BY <1>1, <1>2, <1>3, <1>4, <1>5, <1>6, <1>7 DEF Next

LEMMA InvariantHolds == Spec => []WorkbenchInv
BY InitHolds, NextKeeps, PTL DEF Spec

\* Every variable of the workbench stays within its type.
THEOREM WorkbenchTypes == Spec => []TypeOK
<1>1. WorkbenchInv => TypeOK
  <2> SUFFICES ASSUME WorkbenchInv PROVE TypeOK
    OBVIOUS
  <2>1. Types
    BY DEF WorkbenchInv
  <2>2. /\ page.session \in [Tabs -> Session] /\ ToSet(page.prompts) \subseteq Prompt
        /\ page.secret \in [Tabs -> Attempt]
    BY <2>1, PageFacts DEF Types
  <2> QED
    BY <2>1, <2>2 DEF Types, TypeOK, Terminals, Remotes
<1> QED
  BY <1>1, InvariantHolds, PTL

\* Whatever is opened, selected, split, closed by its user or by the end of its
\* session: the active tab is the one the focused pane shows, and a split shows two
\* different open tabs.
THEOREM LayoutStaysSane == Spec => []LayoutSane
<1>1. WorkbenchInv => LayoutSane
  BY DEF WorkbenchInv, Types, PageOk, LayoutSane
<1> QED
  BY <1>1, InvariantHolds, PTL

\* A channel is the current attempt's and its terminal's, and a typed credential
\* waits for the ticket of the current attempt only, however attempts, late
\* answers and closing sockets overlap.
THEOREM AttemptsStayCurrent == Spec => []AttemptsAreCurrent
<1>1. WorkbenchInv => AttemptsAreCurrent
  BY TabFacts DEF TabOk, AttemptsAreCurrent
<1> QED
  BY <1>1, InvariantHolds, PTL

\* An open tab has at most one prompt, about its current attempt, and the answer
\* still has somewhere to go.
THEOREM PromptsStayAnswerable == Spec => []PromptsAreAnswerable
<1>1. WorkbenchInv => PromptsAreAnswerable
  <2> SUFFICES ASSUME WorkbenchInv, NEW i \in DOMAIN page.prompts,
                      IsOpen(page, page.prompts[i].tab)
               PROVE  LET p == page.prompts[i]
                      IN  /\ p.attempt = page.session[p.tab].attempt
                          /\ \A j \in DOMAIN page.prompts : page.prompts[j].tab = p.tab => j = i
                          /\ IF p.kind = "host-key"
                               THEN pane[p.tab].effect = p.attempt
                                    /\ pane[p.tab].socket \in {"open", "closing"}
                               ELSE ~Running(page.session[p.tab])
    BY DEF PromptsAreAnswerable
  <2>1. PageOk(page)
    BY DEF WorkbenchInv, Types
  <2>2. PICK p \in Prompt : p = page.prompts[i] /\ p \in ToSet(page.prompts) /\ PromptOk(p)
    BY <2>1, PageFacts DEF ToSet, WorkbenchInv, PromptsOk
  <2>3. \A j \in DOMAIN page.prompts : page.prompts[j].tab = p.tab => j = i
    <3> SUFFICES ASSUME NEW j \in DOMAIN page.prompts, page.prompts[j].tab = p.tab PROVE j = i
      OBVIOUS
    <3>1. page.prompts[j] = p
      BY <2>2 DEF ToSet, WorkbenchInv, PromptsOk
    <3> QED
      BY <2>1, <2>2, <3>1 DEF PageOk, Once
  <2>4. p.kind \in {"host-key", "credential"}
    BY DEF Prompt
  <2> QED
    BY <2>2, <2>3, <2>4 DEF PromptOk
<1> QED
  BY <1>1, InvariantHolds, PTL
=============================================================================
