-------------------------- MODULE FileTransferProofs --------------------------
(***************************************************************************)
(* Proofs about file transfers, for any sessions, transfers and file size: *)
(* nobody who waits for the gate is forgotten, nobody's lease is released  *)
(* by another transfer, and a write that is reported as done is whole.     *)
(***************************************************************************)
EXTENDS FileTransfer, WellFoundedInduction, TLAPS

-----------------------------------------------------------------------------
(* The invariant.                                                          *)

Elements(q) == {q[i] : i \in DOMAIN q}
Once(q) == \A i, j \in DOMAIN q : q[i] = q[j] => i = j

Gates ==
  [active : Transfers \cup {None}, queue : Seq(Transfers),
   resolved : SUBSET Transfers, released : SUBSET Transfers, aborted : SUBSET Transfers]

\* A gate between two operations, and in the middle of one, before drain().
Loose(g) ==
  /\ g \in Gates
  /\ Once(g.queue)
  /\ g.active \in g.resolved \cup {None}
  /\ g.released \subseteq g.resolved
GateOk(g) == Loose(g) /\ (g.queue # <<>> => g.active # None)

Known(g) == Queued(g) \cup g.resolved \cup g.aborted

Wants == {"none", "read", "write", "empty", "settled"}

\* A transfer is known to the gate from the moment it is asked for.
GateInv ==
  /\ GateOk(gate)
  /\ want \in [Transfers -> Wants]
  /\ \A t \in Transfers :
       /\ want[t] = "none" => t \notin Known(gate)
       /\ want[t] \in {"read", "write", "empty"} => t \in Known(gate)

Mine(s) == OfSession(s) \cup {None}
Panes(s) == [lease : Mine(s), reading : Mine(s), writing : Mine(s), download : Mine(s),
             received : Nat]
Loops == [next : 0..Chunks, lease : Transfers \cup {None}]

\* A pane gives back only what it was given.
PanesOk ==
  /\ DOMAIN pane = Sessions
  /\ \A s \in Sessions : pane[s] \in Panes(s) /\ pane[s].lease \in gate.resolved \cup {None}
LoopsOk ==
  /\ loop \in [Transfers -> Loops]
  /\ \A t \in Transfers : Sending(t) => loop[t].next < Chunks

Requests(s) == [type : {"read", "write", "empty", "chunk"}, id : OfSession(s), n : Nat]

\* A request that starts a write.
Starting(m) == m.type \in {"write", "empty"}

\* The write of t is asked for and has not reached the session object.
Starts(t) ==
  \E i \in DOMAIN toServer[Owner(t)] :
    Starting(toServer[Owner(t)][i]) /\ toServer[Owner(t)][i].id = t

Whole(f, k) == f \in Seq(Nat) /\ Len(f) = k /\ \A i \in DOMAIN f : f[i] = i - 1

\* A write is asked for once, so its upload is started once, and what its stream
\* has written, while it is the upload's own, are the chunks before the offset.
WriteOk(t) ==
  /\ want[t] # "settled" => ~Starts(t) /\ uploads[t] = Unknown /\ t \notin saved
  /\ Starts(t) => uploads[t] = Unknown /\ t \notin saved
  /\ t \in saved => uploads[t] = Unknown /\ Whole(file[t], Chunks)
  /\ uploads[t] \notin {0, Unknown} /\ stream[t] = uploads[t] => Whole(file[t], uploads[t])

WiresOk ==
  /\ DOMAIN toServer = Sessions
  /\ \A s \in Sessions : toServer[s] \in Seq(Requests(s))
  /\ \A s \in Sessions : \A i, j \in DOMAIN toServer[s] :
       Starting(toServer[s][i]) /\ Starting(toServer[s][j])
         /\ toServer[s][i].id = toServer[s][j].id => i = j
UploadTypes ==
  /\ uploads \in [Transfers -> (0..Chunks - 1) \cup {Unknown}]
  /\ stream \in [Transfers -> 0..Unknown]
  /\ file \in [Transfers -> Seq(Nat)]
  /\ saved \subseteq Transfers /\ cut \subseteq Transfers
ServerInv == WiresOk /\ UploadTypes /\ \A t \in Transfers : WriteOk(t)

TransferInv == GateInv /\ PanesOk /\ LoopsOk /\ ServerInv

-----------------------------------------------------------------------------
(* Sequences.                                                               *)

\* Every non-empty set of natural numbers has a least element.
LEMMA Least ==
  ASSUME NEW X, X \subseteq Nat, X # {}
  PROVE  \E k \in X : \A j \in X : k =< j
<1>1. IsWellFoundedOn(OpToRel(<, Nat), Nat)
  BY NatLessThanWellFounded
<1>2. PICK k \in X : \A j \in X : ~(<<j, k>> \in OpToRel(<, Nat))
  BY <1>1, WFMin
<1>3. \A j \in X : ~(j < k)
  BY <1>2 DEF OpToRel
<1> QED
  BY <1>3

LEMMA Appended ==
  ASSUME NEW S, NEW q \in Seq(S), NEW e \in S
  PROVE  /\ Append(q, e) \in Seq(S) /\ Len(Append(q, e)) = Len(q) + 1
         /\ DOMAIN q = 1 .. Len(q) /\ Len(q) \in Nat
         /\ DOMAIN Append(q, e) = 1 .. Len(q) + 1
         /\ \A i \in DOMAIN q : i \in DOMAIN Append(q, e) /\ Append(q, e)[i] = q[i]
         /\ Append(q, e)[Len(q) + 1] = e
         /\ \A i \in DOMAIN Append(q, e) : i \in DOMAIN q \/ i = Len(q) + 1
OBVIOUS

LEMMA HeadAndTail ==
  ASSUME NEW S, NEW q \in Seq(S), q # <<>>
  PROVE  /\ Tail(q) \in Seq(S) /\ Len(Tail(q)) = Len(q) - 1 /\ Len(q) \in Nat
         /\ DOMAIN Tail(q) = 1 .. Len(q) - 1 /\ DOMAIN q = 1 .. Len(q)
         /\ \A i \in DOMAIN Tail(q) : /\ i \in Nat /\ i + 1 \in DOMAIN q /\ i + 1 # 1
                                      /\ Tail(q)[i] = q[i + 1]
         /\ \A i \in DOMAIN q : i # 1 => i \in Nat /\ i - 1 \in DOMAIN Tail(q) /\ Tail(q)[i - 1] = q[i]
         /\ Head(q) = q[1] /\ 1 \in DOMAIN q /\ Head(q) \in S
OBVIOUS

\* The recursion of Without, up to place m, and that it has a solution.
Keeps(f, q, ts, m) ==
  f = [n \in 0..m |-> IF n = 0 THEN <<>>
                      ELSE IF q[n] \in ts THEN f[n - 1] ELSE Append(f[n - 1], q[n])]

LEMMA KeptExists ==
  ASSUME NEW q, NEW ts, NEW m \in Nat
  PROVE  \E f : Keeps(f, q, ts, m)
<1> DEFINE Kept(f, k) == f = [n \in 0..k |-> IF n = 0 THEN <<>>
                              ELSE IF q[n] \in ts THEN f[n - 1] ELSE Append(f[n - 1], q[n])]
           Bad == {k \in Nat : ~ \E f : Kept(f, k)}
<1>1. SUFFICES Bad = {}
  BY DEF Keeps
<1>2. SUFFICES ASSUME Bad # {} PROVE FALSE
  OBVIOUS
<1>3. PICK k \in Bad : \A j \in Bad : k =< j
  <2>1. Bad \subseteq Nat
    OBVIOUS
  <2> HIDE DEF Bad
  <2> QED
    BY <1>2, <2>1, Least
<1>4. k \in Nat /\ ~ \E f : Kept(f, k)
  OBVIOUS
<1>5. CASE k = 0
  <2>1. Kept([n \in 0..0 |-> <<>>], 0)
    OBVIOUS
  <2> QED
    BY <1>4, <1>5, <2>1
<1>6. CASE k # 0
  <2>1. k - 1 \in Nat /\ k - 1 \notin Bad
    <3>1. k - 1 \in Nat /\ ~(k =< k - 1)
      BY <1>4, <1>6
    <3> HIDE DEF Bad
    <3> QED
      BY <1>3, <3>1
  <2>2. PICK f : Kept(f, k - 1)
    BY <2>1
  <2>3. PICK h : h = [n \in 0..k |->
               IF n < k THEN f[n] ELSE IF q[k] \in ts THEN f[k - 1] ELSE Append(f[k - 1], q[k])]
    OBVIOUS
  <2>4. \A n \in 0..k - 1 : f[n] = IF n = 0 THEN <<>>
                              ELSE IF q[n] \in ts THEN f[n - 1] ELSE Append(f[n - 1], q[n])
    BY <2>2
  <2>5. \A n \in 0..k - 1 : h[n] = f[n]
    BY <1>4, <2>3
  <2>6. \A n \in 0..k : h[n] = IF n = 0 THEN <<>>
                              ELSE IF q[n] \in ts THEN h[n - 1] ELSE Append(h[n - 1], q[n])
    <3> SUFFICES ASSUME NEW n \in 0..k
                 PROVE  h[n] = IF n = 0 THEN <<>>
                              ELSE IF q[n] \in ts THEN h[n - 1] ELSE Append(h[n - 1], q[n])
      OBVIOUS
    <3>1. CASE n = 0
      <4>1. 0 \in 0..k - 1
        BY <1>4, <1>6
      <4> QED
        BY <2>4, <2>5, <3>1, <4>1
    <3>2. CASE n # 0 /\ n < k
      <4>1. n \in 0..k - 1 /\ n - 1 \in 0..k - 1
        BY <1>4, <3>2
      <4> QED
        BY <2>4, <2>5, <3>2, <4>1
    <3>3. CASE n = k
      <4>1. k - 1 \in 0..k - 1
        BY <1>4, <1>6
      <4> QED
        BY <1>4, <1>6, <2>3, <2>5, <3>3, <4>1
    <3> QED
      BY <1>4, <3>1, <3>2, <3>3
  <2>7. Kept(h, k)
    BY <2>3, <2>6
  <2> QED
    BY <1>4, <2>7
<1> QED
  BY <1>4, <1>5, <1>6

\* What is left of a queue is what is not removed, once if it was there once.
LEMMA WithoutOk ==
  ASSUME NEW S, NEW q \in Seq(S), NEW ts, Once(q)
  PROVE  /\ Without(q, ts) \in Seq(S)
         /\ Elements(Without(q, ts)) = Elements(q) \ ts
         /\ Once(Without(q, ts))
<1>1. Len(q) \in Nat /\ DOMAIN q = 1..Len(q) /\ \A i \in 1..Len(q) : q[i] \in S
  OBVIOUS
<1> DEFINE Kept(f) == f = [n \in 0..Len(q) |-> IF n = 0 THEN <<>>
                           ELSE IF q[n] \in ts THEN f[n - 1] ELSE Append(f[n - 1], q[n])]
<1>2. PICK f : f = CHOOSE g : Kept(g)
  OBVIOUS
<1>8. Kept(f)
  <2>1. \E g : Kept(g)
    <3>1. PICK m \in Nat : m = Len(q)
      BY <1>1
    <3>2. \E g : Keeps(g, q, ts, m)
      BY KeptExists
    <3>3. \A g : Keeps(g, q, ts, m) => Kept(g)
      BY <3>1 DEF Keeps
    <3> QED
      BY <3>2, <3>3
  <2> QED
    BY <1>2, <2>1
<1>9. Without(q, ts) = f[Len(q)]
  BY <1>2 DEF Without
<1>3. /\ f[0] = <<>>
      /\ \A n \in 1..Len(q) : f[n] = IF q[n] \in ts THEN f[n - 1] ELSE Append(f[n - 1], q[n])
  <2>1. 0 \in 0..Len(q) /\ \A n \in 1..Len(q) : n \in 0..Len(q) /\ n # 0
    BY <1>1
  <2>2. \A n \in 0..Len(q) : f[n] = IF n = 0 THEN <<>>
          ELSE IF q[n] \in ts THEN f[n - 1] ELSE Append(f[n - 1], q[n])
    BY <1>8
  <2> QED
    BY <2>1, <2>2
<1> HIDE DEF Kept
<1> DEFINE Good(n) == /\ f[n] \in Seq(S) /\ Once(f[n])
                      /\ \A e : e \in Elements(f[n]) <=> e \notin ts /\ \E i \in 1..n : q[i] = e
           Bad == {n \in 0..Len(q) : ~Good(n)}
<1>4. Good(0)
  BY <1>3 DEF Once, Elements
<1>5. ASSUME NEW n \in 1..Len(q), Good(n - 1) PROVE Good(n)
  <2>1. \A i \in 1..n : i \in 1..n - 1 \/ i = n
    BY <1>1
  <2>2. \A i \in 1..n - 1 : i \in 1..n /\ i \in DOMAIN q /\ i # n
    BY <1>1
  <2>3. n \in DOMAIN q /\ n \in 1..n
    BY <1>1
  <2>4. PICK p \in Seq(S) : p = f[n - 1] /\ Once(p)
    BY <1>5
  <2>5. \A e : e \in Elements(p) <=> e \notin ts /\ \E i \in 1..n - 1 : q[i] = e
    BY <1>5, <2>4
  <2>6. CASE q[n] \in ts
    <3>1. f[n] = p
      BY <1>3, <2>4, <2>6
    <3>2. \A e : e \in Elements(p) <=> e \notin ts /\ \E i \in 1..n : q[i] = e
      BY <2>1, <2>2, <2>5, <2>6
    <3> QED
      BY <2>4, <3>1, <3>2
  <2>7. CASE q[n] \notin ts
    <3>1. PICK x \in S : x = q[n]
      BY <1>1
    <3>2. PICK r : r = Append(p, x) /\ f[n] = r
      BY <1>3, <2>4, <2>7, <3>1
    <3>3. x \notin Elements(p)
      <4>1. \A i \in 1..n - 1 : q[i] # x
        BY <2>2, <2>3, <3>1 DEF Once
      <4> QED
        BY <2>5, <4>1
    <3>4. /\ r \in Seq(S) /\ DOMAIN p = 1 .. Len(p) /\ DOMAIN r = 1 .. Len(p) + 1
          /\ \A i \in DOMAIN p : i \in DOMAIN r /\ r[i] = p[i]
          /\ r[Len(p) + 1] = x /\ Len(p) + 1 \in DOMAIN r
          /\ \A i \in DOMAIN r : i \in DOMAIN p \/ i = Len(p) + 1
      BY <2>4, <3>1, <3>2, Appended
    <3>5. Elements(r) = Elements(p) \cup {x}
      BY <3>4 DEF Elements
    <3>6. Once(r)
      BY <2>4, <3>3, <3>4 DEF Once, Elements
    <3>7. \A e : e \in Elements(r) <=> e \notin ts /\ \E i \in 1..n : q[i] = e
      BY <2>1, <2>2, <2>3, <2>5, <2>7, <3>1, <3>5
    <3> QED
      BY <3>2, <3>4, <3>6, <3>7
  <2> QED
    BY <2>6, <2>7
<1>6. Bad = {}
  <2> SUFFICES ASSUME Bad # {} PROVE FALSE
    OBVIOUS
  <2>1. PICK k \in Bad : \A j \in Bad : k =< j
    <3>1. Bad \subseteq Nat
      BY <1>1
    <3> HIDE DEF Bad
    <3> QED
      BY <3>1, Least
  <2>2. k \in 0..Len(q) /\ ~Good(k)
    BY <2>1
  <2> HIDE DEF Good
  <2>3. k # 0 /\ k \in 1..Len(q) /\ k - 1 \in 0..Len(q) /\ ~(k =< k - 1)
    BY <1>1, <1>4, <2>2
  <2>4. Good(k - 1)
    BY <2>1, <2>3
  <2>5. Good(k)
    BY <1>5, <2>3, <2>4
  <2> QED
    BY <2>2, <2>5
<1>7. Good(Len(q))
  <2>1. Len(q) \in 0..Len(q)
    BY <1>1
  <2> QED
    BY <1>6, <2>1
<1> QED
  BY <1>1, <1>9, <1>7 DEF Elements

-----------------------------------------------------------------------------
(* The gate.                                                               *)

LEMMA OwnerOf ==
  ASSUME NEW t \in Transfers
  PROVE  Owner(t) \in Sessions /\ t # None /\ t \in OfSession(Owner(t))
<1>1. t \in Sessions \X Nat
  BY TransferAssumption
<1>2. t = <<t[1], t[2]>> /\ t[1] \in Sessions
  BY <1>1
<1>3. t # <<>>
  BY <1>2
<1> QED
  BY <1>2, <1>3 DEF Owner, None, OfSession

\* What an operation makes of a gate: nobody drops out of it but by his own
\* release or abort, and what has happened to a transfer is not taken back.
Moves(g, h, asked) ==
  /\ GateOk(h)
  /\ g.resolved \subseteq h.resolved
  /\ g.released \subseteq h.released
  /\ g.aborted \subseteq h.aborted
  /\ Known(h) = Known(g) \cup asked
  /\ \A t \in Transfers : g.active = t /\ h.active # t
       => t \in (h.released \ g.released) \cup h.aborted

LEMMA MovesNot ==
  ASSUME NEW g, GateOk(g)
  PROVE  Moves(g, g, {})
BY DEF Moves

LEMMA MovesTwice ==
  ASSUME NEW g, NEW h, NEW k, Moves(g, h, {}), Moves(h, k, {})
  PROVE  Moves(g, k, {})
BY DEF Moves

\* drain() completes an operation.
LEMMA DrainOk ==
  ASSUME NEW g, Loose(g)
  PROVE  /\ GateOk(Drain(g))
         /\ g.resolved \subseteq Drain(g).resolved
         /\ Drain(g).released = g.released
         /\ Drain(g).aborted = g.aborted
         /\ Known(Drain(g)) = Known(g)
         /\ g.active # None => Drain(g).active = g.active
<1>1. CASE g.active # None \/ g.queue = <<>>
  BY <1>1 DEF Drain, GateOk
<1>2. CASE g.active = None /\ g.queue # <<>>
  <2>1. PICK q \in Seq(Transfers) : q = g.queue /\ q # <<>> /\ Once(q)
    BY <1>2 DEF Loose, Gates
  <2>2. PICK h : h = Drain(g)
    OBVIOUS
  <2>3. PICK e \in Transfers : e = Head(q) /\ e = q[1]
    BY <2>1, HeadAndTail
  <2>4. PICK r \in Seq(Transfers) : r = Tail(q)
    BY <2>1, HeadAndTail
  <2>5. /\ h = [g EXCEPT !.active = e, !.queue = r, !.resolved = @ \cup {e}]
        /\ g \in Gates
    BY <1>2, <2>1, <2>2, <2>3, <2>4 DEF Drain, Loose
  <2>6. /\ h \in Gates /\ h.active = e /\ h.queue = r /\ h.resolved = g.resolved \cup {e}
        /\ h.released = g.released /\ h.aborted = g.aborted
    BY <2>5 DEF Gates
  <2>7. /\ \A i \in DOMAIN r : i \in Nat /\ i + 1 \in DOMAIN q /\ i + 1 # 1 /\ r[i] = q[i + 1]
        /\ \A i \in DOMAIN q : i # 1 => i - 1 \in DOMAIN r /\ r[i - 1] = q[i]
        /\ 1 \in DOMAIN q
    BY <2>1, <2>4, HeadAndTail
  <2>8. Once(r)
    <3> SUFFICES ASSUME NEW i \in DOMAIN r, NEW j \in DOMAIN r, r[i] = r[j] PROVE i = j
      BY DEF Once
    <3>1. i + 1 \in DOMAIN q /\ j + 1 \in DOMAIN q /\ q[i + 1] = q[j + 1] /\ i \in Nat /\ j \in Nat
      BY <2>7
    <3>2. i + 1 = j + 1
      BY <2>1, <3>1 DEF Once
    <3> QED
      BY <3>1, <3>2
  <2>9. Elements(q) = Elements(r) \cup {e}
    <3>1. ASSUME NEW x \in Elements(q) PROVE x \in Elements(r) \cup {e}
      <4>1. PICK i \in DOMAIN q : q[i] = x
        BY DEF Elements
      <4>2. CASE i = 1
        BY <2>3, <4>1, <4>2
      <4>3. CASE i # 1
        BY <2>7, <4>1, <4>3 DEF Elements
      <4> QED
        BY <4>2, <4>3
    <3>2. ASSUME NEW x \in Elements(r) \cup {e} PROVE x \in Elements(q)
      <4>1. CASE x = e
        BY <2>3, <2>7, <4>1 DEF Elements
      <4>2. CASE x \in Elements(r)
        BY <2>7, <4>2 DEF Elements
      <4> QED
        BY <4>1, <4>2
    <3> QED
      BY <3>1, <3>2
  <2>10. Queued(g) = Elements(q) /\ Queued(h) = Elements(r)
    BY <2>1, <2>6 DEF Queued, Elements
  <2>11. e # None
    BY OwnerOf
  <2>12. GateOk(h)
    BY <2>6, <2>8, <2>11 DEF GateOk, Loose
  <2>13. Known(h) = Known(g)
    BY <2>6, <2>9, <2>10 DEF Known
  <2> QED
    BY <1>2, <2>2, <2>6, <2>12, <2>13
<1> QED
  BY <1>1, <1>2

LEMMA AcquireMoves ==
  ASSUME NEW g, GateOk(g), NEW t \in Transfers, t \notin Known(g)
  PROVE  Moves(g, Acquire(g, t), {t})
<1>0. PICK q \in Seq(Transfers) : q = g.queue /\ Once(q)
  BY DEF GateOk, Loose, Gates
<1>1. PICK r : r = Append(q, t)
  OBVIOUS
<1>2. /\ r \in Seq(Transfers)
      /\ \A i \in DOMAIN q : i \in DOMAIN r /\ r[i] = q[i]
      /\ \A i \in DOMAIN r : i \in DOMAIN q \/ i = Len(q) + 1
      /\ Len(q) + 1 \in DOMAIN r /\ r[Len(q) + 1] = t
  BY <1>1, Appended
<1>3. PICK h : h = [g EXCEPT !.queue = r]
  OBVIOUS
<1>4. Acquire(g, t) = Drain(h)
  BY <1>0, <1>1, <1>3 DEF Acquire
<1>5. /\ g \in Gates /\ h \in Gates /\ h.queue = r /\ h.active = g.active
      /\ h.resolved = g.resolved /\ h.released = g.released /\ h.aborted = g.aborted
  <2>1. g \in Gates
    BY DEF GateOk, Loose
  <2> QED
    BY <1>2, <1>3, <2>1 DEF Gates
<1>6. Elements(r) = Elements(q) \cup {t}
  BY <1>2 DEF Elements
<1>7. Queued(g) = Elements(q) /\ Queued(h) = Elements(r)
  BY <1>0, <1>5 DEF Queued, Elements
<1>8. t \notin Elements(q)
  BY <1>7 DEF Known
<1>9. Once(r)
  BY <1>0, <1>2, <1>8 DEF Once, Elements
<1>10. Loose(h)
  BY <1>5, <1>9 DEF GateOk, Loose
<1>11. Known(h) = Known(g) \cup {t}
  BY <1>5, <1>6, <1>7 DEF Known
<1>12. PICK k : k = Drain(h)
  OBVIOUS
<1>13. /\ GateOk(k) /\ h.resolved \subseteq k.resolved /\ k.released = h.released
       /\ k.aborted = h.aborted /\ Known(k) = Known(h)
       /\ h.active # None => k.active = h.active
  BY <1>10, <1>12, DrainOk
<1>14. \A u \in Transfers : g.active = u => k.active = u
  BY <1>5, <1>13, OwnerOf
<1> QED
  BY <1>4, <1>5, <1>11, <1>12, <1>13, <1>14 DEF Moves

LEMMA ReleaseMoves ==
  ASSUME NEW g, GateOk(g), NEW t \in g.resolved
  PROVE  Moves(g, Release(g, t), {})
<1>1. CASE t \in g.released
  BY <1>1, MovesNot DEF Release
<1>2. CASE t \notin g.released
  <2>0. g \in Gates /\ t \in Transfers
    BY DEF GateOk, Loose, Gates
  <2>1. PICK h : h = [g EXCEPT !.released = @ \cup {t}, !.active = IF @ = t THEN None ELSE @]
    OBVIOUS
  <2>2. Release(g, t) = Drain(h)
    BY <1>2, <2>1 DEF Release
  <2>3. /\ h \in Gates /\ h.queue = g.queue
        /\ h.resolved = g.resolved /\ h.released = g.released \cup {t} /\ h.aborted = g.aborted
        /\ h.active = IF g.active = t THEN None ELSE g.active
    BY <2>0, <2>1 DEF Gates
  <2>4. Loose(h)
    BY <2>3 DEF GateOk, Loose
  <2>5. Known(h) = Known(g)
    BY <2>3 DEF Known, Queued
  <2>6. PICK k : k = Drain(h)
    OBVIOUS
  <2>7. /\ GateOk(k) /\ h.resolved \subseteq k.resolved /\ k.released = h.released
        /\ k.aborted = h.aborted /\ Known(k) = Known(h)
        /\ h.active # None => k.active = h.active
    BY <2>4, <2>6, DrainOk
  <2>8. \A u \in Transfers : g.active = u /\ k.active # u => u = t
    BY <2>3, <2>7, OwnerOf
  <2> QED
    BY <1>2, <2>2, <2>3, <2>5, <2>6, <2>7, <2>8 DEF Moves
<1> QED
  BY <1>1, <1>2

LEMMA CancelMoves ==
  ASSUME NEW g, GateOk(g), NEW ts \in SUBSET Transfers
  PROVE  Moves(g, Cancel(g, ts), {})
<1>1. PICK q \in Seq(Transfers) : q = g.queue /\ Once(q)
  BY DEF GateOk, Loose, Gates
<1>2. PICK r \in Seq(Transfers) : /\ r = Without(q, ts) /\ Once(r)
                                  /\ Elements(r) = Elements(q) \ ts
  BY <1>1, WithoutOk
<1>3. PICK gone : gone = ts \cap (Queued(g) \cup {g.active})
  OBVIOUS
<1>4. PICK h : h = [g EXCEPT !.active = IF @ \in ts THEN None ELSE @,
                             !.queue = r, !.aborted = @ \cup gone]
  OBVIOUS
<1>5. Cancel(g, ts) = Drain(h)
  BY <1>1, <1>2, <1>3, <1>4 DEF Cancel
<1>6. /\ g \in Gates /\ h \in Gates /\ h.queue = r
      /\ h.resolved = g.resolved /\ h.released = g.released /\ h.aborted = g.aborted \cup gone
      /\ h.active = IF g.active \in ts THEN None ELSE g.active
  <2>1. g \in Gates /\ gone \subseteq Transfers
    BY <1>3 DEF GateOk, Loose
  <2> QED
    BY <1>4, <2>1 DEF Gates
<1>7. Loose(h)
  BY <1>2, <1>6 DEF GateOk, Loose
<1>8. Queued(g) = Elements(q) /\ Queued(h) = Elements(r)
  BY <1>1, <1>6 DEF Queued, Elements
<1>9. Known(h) = Known(g)
  <2>1. g.active \in g.resolved \cup {None} /\ None \notin ts
    BY OwnerOf DEF GateOk, Loose
  <2> QED
    BY <1>2, <1>3, <1>6, <1>8, <2>1 DEF Known
<1>10. PICK k : k = Drain(h)
  OBVIOUS
<1>11. /\ GateOk(k) /\ h.resolved \subseteq k.resolved /\ k.released = h.released
       /\ k.aborted = h.aborted /\ Known(k) = Known(h)
       /\ h.active # None => k.active = h.active
  BY <1>7, <1>10, DrainOk
<1>12. \A u \in Transfers : g.active = u /\ k.active # u => u \in k.aborted
  BY <1>3, <1>6, <1>11, OwnerOf
<1> QED
  BY <1>5, <1>6, <1>9, <1>10, <1>11, <1>12 DEF Moves

-----------------------------------------------------------------------------
(* The panes.                                                              *)

LEMMA ChunkFacts == Chunks \in Nat /\ Chunks # 0 /\ 0 \in 0..Chunks - 1 /\ Chunks \in 0..Chunks
BY ChunkAssumption

LEMMA EmptyPaneOk == \A s \in Sessions : EmptyPane \in Panes(s) /\ EmptyPane.lease = None
BY DEF EmptyPane, Panes, Mine

\* Who waits goes on waiting, whatever happens to others.
LEMMA GateFollows ==
  ASSUME GateInv, Moves(gate, gate', {}), want' = want
  PROVE  GateInv'
<1>1. GateOk(gate') /\ Known(gate') = Known(gate)
  BY DEF Moves
<1> QED
  BY <1>1 DEF GateInv

\* A promise settles: its transfer is known to the gate.
LEMMA GateSettles ==
  ASSUME GateInv, Moves(gate, gate', {}), NEW t \in Transfers, Continues(t),
         want' = [want EXCEPT ![t] = "settled"]
  PROVE  GateInv'
<1>1. GateOk(gate') /\ Known(gate') = Known(gate)
  BY DEF Moves
<1>2. want' \in [Transfers -> Wants]
  BY DEF GateInv, Wants
<1>3. ASSUME NEW u \in Transfers
      PROVE  /\ want'[u] = "none" => u \notin Known(gate')
             /\ want'[u] \in {"read", "write", "empty"} => u \in Known(gate')
  <2>1. CASE u = t
    <3>1. want'[u] = "settled"
      BY <2>1 DEF GateInv
    <3> QED
      BY <3>1
  <2>2. CASE u # t
    <3>1. want'[u] = want[u]
      BY <2>2 DEF GateInv
    <3> QED
      BY <1>1, <3>1 DEF GateInv
  <2> QED
    BY <2>1, <2>2
<1> QED
  BY <1>1, <1>2, <1>3 DEF GateInv

LEMMA PanesFollow ==
  ASSUME PanesOk, NEW asked, Moves(gate, gate', asked), pane' = pane
  PROVE  PanesOk'
BY DEF PanesOk, Moves

\* One pane changes: a lease that it has was given to it.
LEMMA PaneChanges ==
  ASSUME PanesOk, Moves(gate, gate', {}), NEW s \in Sessions, NEW p \in Panes(s),
         p.lease \in gate'.resolved \cup {None}, pane' = [pane EXCEPT ![s] = p]
  PROVE  PanesOk'
<1>1. DOMAIN pane' = Sessions
  BY DEF PanesOk
<1>2. ASSUME NEW u \in Sessions
      PROVE  pane'[u] \in Panes(u) /\ pane'[u].lease \in gate'.resolved \cup {None}
  <2>1. CASE u = s
    BY <2>1 DEF PanesOk
  <2>2. CASE u # s
    BY <2>2 DEF PanesOk, Moves
  <2> QED
    BY <2>1, <2>2
<1> QED
  BY <1>1, <1>2 DEF PanesOk

LEMMA GiveBackOk ==
  ASSUME GateInv, PanesOk, NEW s \in Sessions, NEW c \in Panes(s), GiveBack(s, c)
  PROVE  Moves(gate, gate', {}) /\ PanesOk'
<1>1. Moves(gate, gate', {})
  <2>1. CASE pane[s].lease = None
    BY <2>1, MovesNot DEF GiveBack, GateInv
  <2>2. CASE pane[s].lease # None
    <3>1. PICK t \in gate.resolved : t = pane[s].lease
      BY <2>2 DEF PanesOk
    <3>2. gate' = Release(gate, t)
      BY <2>2, <3>1 DEF GiveBack
    <3> QED
      BY <3>2, ReleaseMoves DEF GateInv
  <2> QED
    BY <2>1, <2>2
<1>2. PICK p : p = [c EXCEPT !.lease = None]
  OBVIOUS
<1>3. p \in Panes(s) /\ p.lease = None
  BY <1>2 DEF Panes, Mine
<1> QED
  BY <1>1, <1>2, <1>3, PaneChanges DEF GiveBack

\* What a step does to the gate and the panes.
Handled(asked) == Moves(gate, gate', asked) /\ GateInv' /\ PanesOk' /\ LoopsOk'

LEMMA GaveBack ==
  ASSUME GateInv, PanesOk, LoopsOk, NEW s \in Sessions, NEW c \in Panes(s), GiveBack(s, c),
         want' = want, loop' = loop
  PROVE  Handled({})
<1>1. Moves(gate, gate', {}) /\ PanesOk'
  BY GiveBackOk
<1> QED
  BY <1>1, GateFollows DEF Handled, LoopsOk, Sending

LEMMA PaneLeft ==
  ASSUME GateInv, PanesOk, LoopsOk, UNCHANGED <<gate, want, pane, loop>>
  PROVE  Handled({})
<1>1. Moves(gate, gate', {})
  BY MovesNot DEF GateInv
<1> QED
  BY <1>1, GateFollows, PanesFollow DEF Handled, LoopsOk, Sending

LEMMA LoopChanges ==
  ASSUME LoopsOk, NEW t, NEW l \in Loops, l # NotSending => l.next < Chunks,
         loop' = [loop EXCEPT ![t] = l]
  PROVE  LoopsOk'
<1>1. loop' \in [Transfers -> Loops]
  BY DEF LoopsOk
<1>2. ASSUME NEW u \in Transfers, loop'[u] # NotSending PROVE loop'[u].next < Chunks
  BY <1>2 DEF LoopsOk, Sending
<1> QED
  BY <1>1, <1>2 DEF LoopsOk, Sending

LEMMA NotSendingOk == NotSending \in Loops
BY ChunkFacts DEF NotSending, Loops

LEMMA AskHandled ==
  ASSUME GateInv, PanesOk, LoopsOk, NEW t \in Transfers, Ask(t)
  PROVE  Handled({t})
<1>1. t \notin Known(gate) /\ GateOk(gate)
  BY DEF Ask, GateInv
<1>2. Moves(gate, gate', {t})
  BY <1>1, AcquireMoves DEF Ask
<1>3. PICK kind \in {"read", "write", "empty"} : want' = [want EXCEPT ![t] = kind]
  BY DEF Ask
<1>4. GateInv'
  <2>1. GateOk(gate') /\ Known(gate') = Known(gate) \cup {t}
    BY <1>2 DEF Moves
  <2>2. want' \in [Transfers -> Wants]
    BY <1>3 DEF GateInv, Wants
  <2>3. ASSUME NEW u \in Transfers
        PROVE  /\ want'[u] = "none" => u \notin Known(gate')
               /\ want'[u] \in {"read", "write", "empty"} => u \in Known(gate')
    <3>1. CASE u = t
      <4>1. want'[u] = kind
        BY <1>3, <3>1 DEF GateInv
      <4> QED
        BY <2>1, <3>1, <4>1
    <3>2. CASE u # t
      <4>1. want'[u] = want[u]
        BY <1>3, <3>2 DEF GateInv
      <4> QED
        BY <2>1, <3>2, <4>1 DEF GateInv
    <3> QED
      BY <3>1, <3>2
  <2> QED
    BY <2>1, <2>2, <2>3 DEF GateInv
<1>5. PanesOk'
  BY <1>2, PanesFollow DEF Ask
<1> QED
  BY <1>2, <1>4, <1>5 DEF Handled, Ask, LoopsOk, Sending

LEMMA BeginHandled ==
  ASSUME GateInv, PanesOk, LoopsOk, NEW t \in Transfers, Begin(t)
  PROVE  Handled({})
<1>1. Moves(gate, gate', {})
  BY MovesNot DEF Begin, GateInv
<1>2. GateInv'
  BY <1>1, GateSettles DEF Begin
<1>3. PICK s \in Sessions : s = Owner(t) /\ t \in OfSession(s)
  BY OwnerOf
<1>4. pane[s] \in Panes(s)
  BY DEF PanesOk
<1>5. PICK p : p = [pane[s] EXCEPT !.lease = t,
                      !.reading = IF want[t] = "read" THEN t ELSE @,
                      !.writing = IF want[t] = "read" THEN @ ELSE t]
  OBVIOUS
<1>6. p \in Panes(s) /\ p.lease = t
  BY <1>3, <1>4, <1>5 DEF Panes, Mine
<1>7. pane' = [pane EXCEPT ![s] = p]
  BY <1>3, <1>5 DEF Begin, PanesOk
<1>8. t \in gate'.resolved
  BY DEF Begin
<1>9. PanesOk'
  BY <1>1, <1>6, <1>7, <1>8, PaneChanges
<1> QED
  BY <1>1, <1>2, <1>9 DEF Handled, Begin, LoopsOk, Sending

LEMMA FailHandled ==
  ASSUME GateInv, PanesOk, LoopsOk, NEW t \in Transfers, Fail(t)
  PROVE  Handled({})
<1>1. PICK s \in Sessions : s = Owner(t)
  BY OwnerOf
<1>2. PICK own : own = IF t \in gate.resolved THEN Release(gate, t) ELSE gate
  OBVIOUS
<1>3. Moves(gate, own, {})
  BY <1>2, MovesNot, ReleaseMoves DEF GateInv
<1>4. Moves(own, gate', {})
  <2>1. CASE pane[s].lease = None
    <3>1. gate' = own
      BY <1>1, <1>2, <2>1 DEF Fail
    <3> QED
      BY <1>3, <3>1, MovesNot DEF Moves
  <2>2. CASE pane[s].lease # None
    <3>1. PICK u \in gate.resolved : u = pane[s].lease
      BY <2>2 DEF PanesOk
    <3>2. u \in own.resolved /\ GateOk(own)
      BY <1>3 DEF Moves
    <3>3. gate' = Release(own, u)
      BY <1>1, <1>2, <2>2, <3>1 DEF Fail
    <3> QED
      BY <3>2, <3>3, ReleaseMoves
  <2> QED
    BY <2>1, <2>2
<1>5. Moves(gate, gate', {})
  BY <1>3, <1>4, MovesTwice
<1>6. GateInv'
  BY <1>5, GateSettles DEF Fail
<1>7. PICK p : p = [pane[s] EXCEPT !.lease = None]
  OBVIOUS
<1>8. p \in Panes(s) /\ p.lease = None
  BY <1>7 DEF PanesOk, Panes, Mine
<1>9. pane' = [pane EXCEPT ![s] = p]
  BY <1>1, <1>7 DEF Fail, PanesOk
<1>10. PanesOk'
  BY <1>5, <1>8, <1>9, PaneChanges
<1> QED
  BY <1>5, <1>6, <1>10 DEF Handled, Fail, LoopsOk, Sending

LEMMA SendHandled ==
  ASSUME GateInv, PanesOk, LoopsOk, NEW t \in Transfers, SendChunk(t) \/ SendFails(t)
  PROVE  Handled({})
<1>1. loop[t] \in Loops /\ (Sending(t) => loop[t].next < Chunks)
  BY DEF LoopsOk
<1>2. CASE SendChunk(t)
  <2>1. PICK n \in 0..Chunks : n = loop[t].next /\ n < Chunks
    BY <1>1, <1>2 DEF SendChunk, Loops
  <2>2. PICK l : l = IF n + 1 = Chunks THEN NotSending ELSE [loop[t] EXCEPT !.next = n + 1]
    OBVIOUS
  <2>3. n + 1 \in 0..Chunks /\ (n + 1 # Chunks => n + 1 < Chunks)
    BY <2>1, ChunkFacts
  <2>4. l \in Loops /\ (l # NotSending => l.next < Chunks)
    BY <1>1, <2>2, <2>3, NotSendingOk DEF Loops
  <2>5. loop' = [loop EXCEPT ![t] = l]
    BY <1>2, <2>1, <2>2 DEF SendChunk, LoopsOk
  <2>6. LoopsOk'
    BY <2>4, <2>5, LoopChanges
  <2>7. Moves(gate, gate', {})
    BY <1>2, MovesNot DEF GateInv, SendChunk
  <2> QED
    BY <1>2, <2>6, <2>7, GateFollows, PanesFollow DEF Handled, SendChunk
<1>3. CASE SendFails(t)
  <2>1. PICK s \in Sessions : s = Owner(t)
    BY OwnerOf
  <2>2. PICK c : c = [pane[s] EXCEPT !.writing = None]
    OBVIOUS
  <2>3. c \in Panes(s) /\ GiveBack(s, c)
    BY <1>3, <2>1, <2>2 DEF SendFails, PanesOk, Panes, Mine
  <2>4. Moves(gate, gate', {}) /\ PanesOk'
    BY <2>3, GiveBackOk
  <2>5. LoopsOk'
    BY <1>3, LoopChanges, NotSendingOk DEF SendFails
  <2> QED
    BY <1>3, <2>4, <2>5, GateFollows DEF Handled, SendFails
<1> QED
  BY <1>2, <1>3

LEMMA MessageHandled ==
  ASSUME GateInv, PanesOk, LoopsOk, NEW s \in Sessions, OnMessage(s)
  PROVE  Handled({})
<1>1. pane[s] \in Panes(s) /\ pane[s].lease \in gate.resolved \cup {None}
  BY DEF PanesOk
<1>2. want' = want
  BY DEF OnMessage, OnError, OnUploaded, OnWritten, OnReadyToRead, OnChunk, OnReadyToWrite, Arrives
<1>3. PICK w : w = [pane[s] EXCEPT !.writing = None]
  OBVIOUS
<1>4. PICK r : r = [pane[s] EXCEPT !.reading = None, !.download = None, !.received = 0]
  OBVIOUS
<1>5. w \in Panes(s) /\ r \in Panes(s)
  BY <1>1, <1>3, <1>4 DEF Panes, Mine
<1>6. ASSUME NEW c \in Panes(s), GiveBack(s, c), UNCHANGED loop PROVE Handled({})
  BY <1>2, <1>6, GaveBack
<1>7. ASSUME UNCHANGED <<gate, pane, loop>> PROVE Handled({})
  BY <1>2, <1>7, PaneLeft
\* A download starts or goes on.
<1>8. ASSUME NEW p \in Panes(s), p.lease = pane[s].lease, pane' = [pane EXCEPT ![s] = p],
             UNCHANGED <<gate, loop>>
      PROVE  Handled({})
  <2>1. Moves(gate, gate', {})
    BY <1>8, MovesNot DEF GateInv
  <2>2. PanesOk'
    BY <1>1, <1>8, <2>1, PaneChanges
  <2> QED
    BY <1>2, <1>8, <2>1, <2>2, GateFollows DEF Handled, LoopsOk, Sending
<1>9. CASE OnError(s)
  BY <1>6, <1>7, <1>9, EmptyPaneOk DEF OnError
<1>10. CASE OnUploaded(s)
  BY <1>3, <1>5, <1>6, <1>10 DEF OnUploaded
<1>11. CASE OnWritten(s)
  BY <1>3, <1>5, <1>6, <1>7, <1>11 DEF OnWritten
<1>12. CASE OnReadyToRead(s)
  <2>1. PICK m : m = Head(toBrowser[s])
    OBVIOUS
  <2>2. CASE pane[s].reading = m.id /\ m.n > 0 /\ UNCHANGED gate
             /\ pane' = [pane EXCEPT ![s].download = m.id, ![s].received = 0]
    <3>1. PICK p : p = [pane[s] EXCEPT !.download = m.id, !.received = 0]
      OBVIOUS
    <3>2. p \in Panes(s) /\ p.lease = pane[s].lease
      BY <1>1, <2>2, <3>1 DEF Panes
    <3>3. pane' = [pane EXCEPT ![s] = p]
      BY <2>2, <3>1 DEF PanesOk
    <3> QED
      BY <1>8, <1>12, <2>2, <3>2, <3>3 DEF OnReadyToRead
  <2> QED
    BY <1>4, <1>5, <1>6, <1>7, <1>12, <2>1, <2>2 DEF OnReadyToRead
<1>13. CASE OnChunk(s)
  <2>1. CASE UNCHANGED gate /\ pane' = [pane EXCEPT ![s].received = @ + 1]
    <3>1. PICK p : p = [pane[s] EXCEPT !.received = @ + 1]
      OBVIOUS
    <3>2. p \in Panes(s) /\ p.lease = pane[s].lease
      BY <1>1, <3>1 DEF Panes
    <3>3. pane' = [pane EXCEPT ![s] = p]
      BY <2>1, <3>1 DEF PanesOk
    <3> QED
      BY <1>8, <1>13, <2>1, <3>2, <3>3 DEF OnChunk
  <2> QED
    BY <1>4, <1>5, <1>6, <1>7, <1>13, <2>1 DEF OnChunk
<1>14. CASE OnReadyToWrite(s)
  <2>1. PICK m : m = Head(toBrowser[s])
    OBVIOUS
  <2>2. CASE UNCHANGED <<gate, pane>> /\ pane[s].lease # None
             /\ loop' = [loop EXCEPT ![m.id] = [next |-> 0, lease |-> pane[s].lease]]
    <3>1. PICK l : l = [next |-> 0, lease |-> pane[s].lease]
      OBVIOUS
    <3>2. l \in Loops /\ (l # NotSending => l.next < Chunks)
      <4>1. pane[s].lease \in Transfers \cup {None}
        BY <1>1 DEF Panes, Mine, OfSession
      <4>2. 0 \in 0..Chunks /\ 0 < Chunks
        BY ChunkFacts
      <4> QED
        BY <3>1, <4>1, <4>2 DEF Loops
    <3>3. LoopsOk'
      BY <2>2, <3>1, <3>2, LoopChanges
    <3>4. Moves(gate, gate', {})
      BY <2>2, MovesNot DEF GateInv
    <3> QED
      BY <1>2, <2>2, <3>3, <3>4, GateFollows, PanesFollow DEF Handled
  <2>3. \/ UNCHANGED <<gate, pane, loop>>
        \/ GiveBack(s, w) /\ UNCHANGED loop
        \/ UNCHANGED <<gate, pane>> /\ pane[s].lease # None
             /\ loop' = [loop EXCEPT ![m.id] = [next |-> 0, lease |-> pane[s].lease]]
    BY <1>3, <1>14, <2>1 DEF OnReadyToWrite
  <2> QED
    BY <1>5, <1>6, <1>7, <2>2, <2>3
<1> QED
  BY <1>9, <1>10, <1>11, <1>12, <1>13, <1>14 DEF OnMessage

LEMMA LostHandled ==
  ASSUME GateInv, PanesOk, LoopsOk, NEW s \in Sessions, ChannelLost(s)
  PROVE  Handled({})
<1>1. OfSession(s) \in SUBSET Transfers
  BY DEF OfSession
<1>2. Moves(gate, gate', {})
  BY <1>1, CancelMoves DEF ChannelLost, GateInv
<1>3. PanesOk'
  BY <1>2, PaneChanges, EmptyPaneOk DEF ChannelLost
<1> QED
  BY <1>2, <1>3, GateFollows DEF Handled, ChannelLost, LoopsOk, Sending

LEMMA CloseHandled ==
  ASSUME GateInv, PanesOk, LoopsOk, CloseSessions
  PROVE  Handled({})
<1>1. PICK ts \in SUBSET Transfers : gate' = Cancel(gate, ts)
  BY DEF CloseSessions, OfSession
<1>2. Moves(gate, gate', {})
  BY <1>1, CancelMoves DEF GateInv
<1> QED
  BY <1>2, GateFollows, PanesFollow DEF Handled, CloseSessions, LoopsOk, Sending

LEMMA ServeHandled ==
  ASSUME GateInv, PanesOk, LoopsOk,
         \/ \E t \in Transfers : StreamFails(t)
         \/ \E s \in Sessions : Serve(s) \/ SessionEnds(s)
         \/ UNCHANGED vars
  PROVE  Handled({})
<1>1. UNCHANGED <<gate, want, pane, loop>>
  BY DEF StreamFails, Serve, ServeRead, ServeWrite, ServeEmptyWrite, ServeChunk, Handles,
         SessionEnds, browserVars, vars
<1> QED
  BY <1>1, PaneLeft

\* Every step moves the gate by its own operations.
LEMMA NextHandled ==
  ASSUME GateInv, PanesOk, LoopsOk, [Next]_vars
  PROVE  \E asked : Handled(asked)
<1>1. CASE \E t \in Transfers : Ask(t)
  BY <1>1, AskHandled
<1>2. CASE \E t \in Transfers : Begin(t) \/ Fail(t)
  BY <1>2, BeginHandled, FailHandled
<1>3. CASE \E t \in Transfers : SendChunk(t) \/ SendFails(t)
  BY <1>3, SendHandled
<1>4. CASE \E s \in Sessions : OnMessage(s)
  BY <1>4, MessageHandled
<1>5. CASE \E s \in Sessions : ChannelLost(s)
  BY <1>5, LostHandled
<1>6. CASE CloseSessions
  BY <1>6, CloseHandled
<1>7. CASE \/ \E t \in Transfers : StreamFails(t)
           \/ \E s \in Sessions : Serve(s) \/ SessionEnds(s)
           \/ UNCHANGED vars
  BY <1>7, ServeHandled
<1> QED
  BY <1>1, <1>2, <1>3, <1>4, <1>5, <1>6, <1>7 DEF Next

-----------------------------------------------------------------------------
(* The session objects.                                                    *)

\* A message is taken from a wire.
LEMMA WireTaken ==
  ASSUME WiresOk, NEW s \in Sessions, toServer[s] # <<>>,
         toServer' = [toServer EXCEPT ![s] = Tail(@)]
  PROVE  /\ WiresOk'
         /\ Head(toServer[s]) \in Requests(s)
         /\ \A t \in Transfers : Starts(t)' => Starts(t)
         /\ \A t \in Transfers : Starting(Head(toServer[s])) /\ Head(toServer[s]).id = t
              => Starts(t) /\ ~Starts(t)'
<1>1. PICK q \in Seq(Requests(s)) : q = toServer[s] /\ q # <<>>
  BY DEF WiresOk
<1>2. PICK r \in Seq(Requests(s)) : r = Tail(q)
  BY <1>1, HeadAndTail
<1>3. /\ \A i \in DOMAIN r : i \in Nat /\ i + 1 \in DOMAIN q /\ i + 1 # 1 /\ r[i] = q[i + 1]
      /\ Head(q) = q[1] /\ 1 \in DOMAIN q /\ Head(q) \in Requests(s)
  BY <1>1, <1>2, HeadAndTail
<1>4. \A i, j \in DOMAIN q : Starting(q[i]) /\ Starting(q[j]) /\ q[i].id = q[j].id => i = j
  BY <1>1 DEF WiresOk
<1>5. /\ DOMAIN toServer' = Sessions /\ toServer'[s] = r
      /\ \A u \in Sessions : u # s => toServer'[u] = toServer[u]
  BY <1>1, <1>2 DEF WiresOk
<1>6. WiresOk'
  <2>1. \A u \in Sessions : toServer'[u] \in Seq(Requests(u))
    BY <1>5 DEF WiresOk
  <2>2. ASSUME NEW u \in Sessions, NEW i \in DOMAIN toServer'[u], NEW j \in DOMAIN toServer'[u],
               Starting(toServer'[u][i]), Starting(toServer'[u][j]),
               toServer'[u][i].id = toServer'[u][j].id
        PROVE  i = j
    <3>1. CASE u = s
      <4>1. i \in DOMAIN r /\ j \in DOMAIN r /\ Starting(r[i]) /\ Starting(r[j]) /\ r[i].id = r[j].id
        BY <1>5, <2>2, <3>1
      <4>2. i \in Nat /\ j \in Nat /\ i + 1 = j + 1
        BY <1>3, <1>4, <4>1
      <4> QED
        BY <4>2
    <3>2. CASE u # s
      BY <1>5, <2>2, <3>2 DEF WiresOk
    <3> QED
      BY <3>1, <3>2
  <2> QED
    BY <1>5, <2>1, <2>2 DEF WiresOk
<1>7. ASSUME NEW t \in Transfers, Starts(t)' PROVE Starts(t)
  <2>1. PICK i \in DOMAIN toServer'[Owner(t)] :
          Starting(toServer'[Owner(t)][i]) /\ toServer'[Owner(t)][i].id = t
    BY <1>7 DEF Starts
  <2>2. CASE Owner(t) = s
    <3>1. i \in DOMAIN r /\ Starting(r[i]) /\ r[i].id = t
      BY <1>5, <2>1, <2>2
    <3>2. i + 1 \in DOMAIN q /\ Starting(q[i + 1]) /\ q[i + 1].id = t
      BY <1>3, <3>1
    <3> QED
      BY <1>1, <2>2, <3>2 DEF Starts
  <2>3. CASE Owner(t) # s
    BY <1>5, <2>1, <2>3, OwnerOf DEF Starts
  <2> QED
    BY <2>2, <2>3
<1>8. ASSUME NEW t \in Transfers, Starting(Head(q)), Head(q).id = t
      PROVE  Starts(t) /\ ~Starts(t)'
  <2>1. Owner(t) = s
    BY <1>3, <1>8 DEF Requests, OfSession
  <2>2. Starts(t)
    BY <1>1, <1>3, <1>8, <2>1 DEF Starts
  <2>3. ASSUME Starts(t)' PROVE FALSE
    <3>1. PICK i \in DOMAIN r : Starting(r[i]) /\ r[i].id = t
      BY <1>5, <2>1, <2>3 DEF Starts
    <3> QED
      BY <1>3, <1>4, <1>8, <3>1
  <2> QED
    BY <2>2, <2>3
<1> QED
  BY <1>1, <1>3, <1>6, <1>7, <1>8

\* A message is put on a wire; one that starts a write is the first of its write.
LEMMA WireGiven ==
  ASSUME WiresOk, NEW s \in Sessions, NEW m \in Requests(s),
         toServer' = [toServer EXCEPT ![s] = Append(@, m)],
         Starting(m) => ~Starts(m.id)
  PROVE  /\ WiresOk'
         /\ \A t \in Transfers : Starts(t)' => Starts(t) \/ (Starting(m) /\ m.id = t)
<1>1. PICK q \in Seq(Requests(s)) : q = toServer[s]
  BY DEF WiresOk
<1>2. PICK r : r = Append(q, m)
  OBVIOUS
<1>3. /\ r \in Seq(Requests(s))
      /\ \A i \in DOMAIN q : r[i] = q[i]
      /\ r[Len(q) + 1] = m
      /\ \A i \in DOMAIN r : i \in DOMAIN q \/ i = Len(q) + 1
  BY <1>2, Appended
<1>4. \A i, j \in DOMAIN q : Starting(q[i]) /\ Starting(q[j]) /\ q[i].id = q[j].id => i = j
  BY <1>1 DEF WiresOk
<1>5. /\ DOMAIN toServer' = Sessions /\ toServer'[s] = r
      /\ \A u \in Sessions : u # s => toServer'[u] = toServer[u]
  BY <1>1, <1>2 DEF WiresOk
<1>6. Owner(m.id) = s /\ m.id \in Transfers
  BY DEF Requests, OfSession
<1>7. Starting(m) => \A i \in DOMAIN q : ~(Starting(q[i]) /\ q[i].id = m.id)
  BY <1>1, <1>6 DEF Starts
<1>8. WiresOk'
  <2>1. \A u \in Sessions : toServer'[u] \in Seq(Requests(u))
    BY <1>3, <1>5 DEF WiresOk
  <2>2. ASSUME NEW u \in Sessions, NEW i \in DOMAIN toServer'[u], NEW j \in DOMAIN toServer'[u],
               Starting(toServer'[u][i]), Starting(toServer'[u][j]),
               toServer'[u][i].id = toServer'[u][j].id
        PROVE  i = j
    <3>1. CASE u = s
      <4>1. i \in DOMAIN r /\ j \in DOMAIN r /\ Starting(r[i]) /\ Starting(r[j]) /\ r[i].id = r[j].id
        BY <1>5, <2>2, <3>1
      <4> QED
        BY <1>3, <1>4, <1>7, <4>1
    <3>2. CASE u # s
      BY <1>5, <2>2, <3>2 DEF WiresOk
    <3> QED
      BY <3>1, <3>2
  <2>3. \A u \in Sessions : \A i, j \in DOMAIN toServer'[u] :
          Starting(toServer'[u][i]) /\ Starting(toServer'[u][j])
            /\ toServer'[u][i].id = toServer'[u][j].id => i = j
    BY <2>2
  <2>4. DOMAIN toServer' = Sessions
    BY <1>5
  <2> QED
    BY <2>1, <2>3, <2>4, Zenon DEF WiresOk
<1>9. ASSUME NEW t \in Transfers, Starts(t)' PROVE Starts(t) \/ (Starting(m) /\ m.id = t)
  <2>1. PICK i \in DOMAIN toServer'[Owner(t)] :
          Starting(toServer'[Owner(t)][i]) /\ toServer'[Owner(t)][i].id = t
    BY <1>9 DEF Starts
  <2>2. CASE Owner(t) = s
    <3>1. i \in DOMAIN r /\ Starting(r[i]) /\ r[i].id = t
      BY <1>5, <2>1, <2>2
    <3> QED
      BY <1>1, <1>3, <2>2, <3>1 DEF Starts
  <2>3. CASE Owner(t) # s
    BY <1>5, <2>1, <2>3, OwnerOf DEF Starts
  <2> QED
    BY <2>2, <2>3
<1> QED
  BY <1>8, <1>9

-----------------------------------------------------------------------------
(* Uploads.                                                                *)

\* A write stays as it is, or its upload or stream is forgotten.
LEMMA WriteKept ==
  ASSUME NEW t \in Transfers, WriteOk(t),
         want'[t] # "settled" => want[t] # "settled", Starts(t)' => Starts(t),
         uploads'[t] \in {uploads[t], Unknown}, stream'[t] \in {stream[t], Unknown},
         file'[t] = file[t], t \in saved' <=> t \in saved
  PROVE  WriteOk(t)'
<1>1. Unknown' = Unknown
  BY DEF Unknown
<1>2. want'[t] # "settled" => ~Starts(t)' /\ uploads'[t] = Unknown /\ t \notin saved'
  BY DEF WriteOk
<1>3. Starts(t)' => uploads'[t] = Unknown /\ t \notin saved'
  BY DEF WriteOk
<1>4. t \in saved' => uploads'[t] = Unknown /\ Whole(file'[t], Chunks)
  BY DEF WriteOk
<1>5. uploads'[t] \notin {0, Unknown} /\ stream'[t] = uploads'[t] => Whole(file'[t], uploads'[t])
  BY DEF WriteOk
<1> QED
  BY <1>1, <1>2, <1>3, <1>4, <1>5 DEF WriteOk, Whole

LEMMA UploadsKept ==
  ASSUME ServerInv, WiresOk', \A t \in Transfers : Starts(t)' => Starts(t),
         \A t \in Transfers : want'[t] # "settled" => want[t] # "settled",
         UNCHANGED <<uploads, stream, file, saved>>, cut' \subseteq Transfers
  PROVE  ServerInv'
<1>1. \A t \in Transfers : WriteOk(t)'
  BY WriteKept DEF ServerInv
<1>2. UploadTypes'
  BY DEF ServerInv, UploadTypes, Unknown
<1> QED
  BY <1>1, <1>2 DEF ServerInv

LEMMA UploadsLeft ==
  ASSUME ServerInv, UNCHANGED <<toServer, serverVars>>,
         \A t \in Transfers : want'[t] # "settled" => want[t] # "settled"
  PROVE  ServerInv'
<1>1. WiresOk' /\ \A t \in Transfers : Starts(t)' => Starts(t)
  BY DEF ServerInv, WiresOk, Starts
<1>2. UNCHANGED <<uploads, stream, file, saved>> /\ cut' \subseteq Transfers
  BY DEF ServerInv, UploadTypes, serverVars
<1> QED
  BY <1>1, <1>2, UploadsKept

LEMMA BeginServed ==
  ASSUME GateInv, ServerInv, NEW t \in Transfers, Begin(t)
  PROVE  ServerInv'
<1>1. PICK s \in Sessions : s = Owner(t) /\ t \in OfSession(s)
  BY OwnerOf
<1>2. PICK k \in {"read", "write", "empty"} : k = want[t]
  BY DEF Begin, Continues
<1>3. PICK m : m = Message(k, t, 0)
  OBVIOUS
<1>4. m \in Requests(s) /\ m.id = t
  BY <1>1, <1>2, <1>3 DEF Message, Requests
<1>5. WriteOk(t) /\ ~Starts(t) /\ uploads[t] = Unknown /\ t \notin saved
  BY <1>2 DEF ServerInv, WriteOk
<1>6. toServer' = [toServer EXCEPT ![s] = Append(@, m)]
  BY <1>1, <1>2, <1>3 DEF Begin
<1>7. WiresOk' /\ \A u \in Transfers : Starts(u)' => Starts(u) \/ m.id = u
  BY <1>4, <1>5, <1>6, WireGiven DEF ServerInv
<1>8. UNCHANGED <<uploads, stream, file, saved, cut>>
  BY DEF Begin, serverVars
<1>9. want' = [want EXCEPT ![t] = "settled"] /\ want \in [Transfers -> Wants]
  BY DEF Begin, GateInv
<1>10. ASSUME NEW u \in Transfers PROVE WriteOk(u)'
  <2>1. CASE u = t
    <3>1. want'[u] = "settled"
      BY <1>9, <2>1
    <3>2. uploads'[u] = Unknown /\ u \notin saved' /\ Unknown' = Unknown
      BY <1>5, <1>8, <2>1 DEF Unknown
    <3> QED
      BY <3>1, <3>2 DEF WriteOk
  <2>2. CASE u # t
    <3>1. want'[u] = want[u]
      BY <1>9, <2>2
    <3>2. Starts(u)' => Starts(u)
      BY <1>4, <1>7, <2>2
    <3> QED
      BY <1>8, <3>1, <3>2, WriteKept DEF ServerInv
  <2> QED
    BY <2>1, <2>2
<1>11. UploadTypes'
  BY <1>8 DEF ServerInv, UploadTypes, Unknown
<1> QED
  BY <1>7, <1>10, <1>11 DEF ServerInv

LEMMA SendServed ==
  ASSUME LoopsOk, ServerInv, NEW t \in Transfers, SendChunk(t)
  PROVE  ServerInv'
<1>1. PICK s \in Sessions : s = Owner(t) /\ t \in OfSession(s)
  BY OwnerOf
<1>2. PICK n \in Nat : n = loop[t].next
  BY ChunkFacts DEF LoopsOk, Loops
<1>3. PICK m : m = Message("chunk", t, n)
  OBVIOUS
<1>4. m \in Requests(s) /\ ~Starting(m)
  BY <1>1, <1>3 DEF Message, Requests, Starting
<1>5. toServer' = [toServer EXCEPT ![s] = Append(@, m)]
  BY <1>1, <1>2, <1>3 DEF SendChunk
<1>6. WiresOk' /\ \A u \in Transfers : Starts(u)' => Starts(u)
  BY <1>4, <1>5, WireGiven DEF ServerInv
<1>7. UNCHANGED <<uploads, stream, file, saved, cut, want>>
  BY DEF SendChunk, serverVars
<1> QED
  BY <1>6, <1>7, UploadsKept DEF ServerInv, UploadTypes

\* The browser's steps that put nothing on a wire.
LEMMA BrowserServed ==
  ASSUME GateInv, ServerInv,
         \/ \E t \in Transfers : Ask(t) \/ Fail(t) \/ SendFails(t)
         \/ \E s \in Sessions : OnMessage(s) \/ ChannelLost(s)
         \/ CloseSessions
  PROVE  ServerInv'
<1>1. UNCHANGED <<toServer, serverVars>>
  BY DEF Ask, Fail, SendFails, OnMessage, OnError, OnUploaded, OnWritten, OnReadyToRead, OnChunk,
         OnReadyToWrite, Arrives, ChannelLost, CloseSessions, wires
<1>2. \/ UNCHANGED want
      \/ \E t \in Transfers : want[t] # "settled" /\ \E w : want' = [want EXCEPT ![t] = w]
  BY DEF Ask, Fail, Continues, SendFails, OnMessage, OnError, OnUploaded, OnWritten, OnReadyToRead,
         OnChunk, OnReadyToWrite, Arrives, ChannelLost, CloseSessions
<1>3. \A t \in Transfers : want'[t] # "settled" => want[t] # "settled"
  BY <1>2 DEF GateInv
<1> QED
  BY <1>1, <1>3, UploadsLeft

\* A chunk extends what is written.
LEMMA ChunkWritten ==
  ASSUME NEW f \in Seq(Nat), NEW n \in Nat, n = 0 \/ Whole(f, n)
  PROVE  LET g == IF n = 0 THEN <<n>> ELSE Append(f, n)
         IN  g \in Seq(Nat) /\ Whole(g, n + 1)
<1>1. CASE n = 0
  <2>1. PICK g : g = <<n>>
    OBVIOUS
  <2>2. g \in Seq(Nat) /\ Len(g) = n + 1 /\ \A i \in DOMAIN g : g[i] = i - 1
    BY <1>1, <2>1
  <2> QED
    BY <1>1, <2>1, <2>2 DEF Whole
<1>2. CASE n # 0
  <2>1. Len(f) = n /\ \A i \in DOMAIN f : f[i] = i - 1
    BY <1>2 DEF Whole
  <2>2. PICK g : g = Append(f, n)
    OBVIOUS
  <2>3. /\ g \in Seq(Nat) /\ Len(g) = Len(f) + 1
        /\ \A i \in DOMAIN f : i \in DOMAIN g /\ g[i] = f[i]
        /\ g[Len(f) + 1] = n
        /\ \A i \in DOMAIN g : i \in DOMAIN f \/ i = Len(f) + 1
    BY <2>2, Appended
  <2>4. ASSUME NEW i \in DOMAIN g PROVE g[i] = i - 1
    <3>1. CASE i \in DOMAIN f
      BY <2>1, <2>3, <3>1
    <3>2. CASE i = n + 1
      BY <2>1, <2>3, <3>2
    <3> QED
      BY <2>1, <2>3, <3>1, <3>2
  <2> QED
    BY <1>2, <2>1, <2>2, <2>3, <2>4 DEF Whole
<1> QED
  BY <1>1, <1>2

LEMMA ReadServed ==
  ASSUME GateInv, ServerInv, NEW s \in Sessions, ServeRead(s)
  PROVE  ServerInv'
<1>1. toServer[s] # <<>> /\ toServer' = [toServer EXCEPT ![s] = Tail(@)]
  BY DEF ServeRead, Handles, Answer
<1>2. PICK t \in Transfers : t = Head(toServer[s]).id
  BY <1>1, WireTaken DEF ServerInv, Requests, OfSession
<1>3. WiresOk' /\ \A u \in Transfers : Starts(u)' => Starts(u)
  BY <1>1, WireTaken DEF ServerInv
<1>4. cut' \subseteq cut \cup {t}
  BY <1>2 DEF ServeRead
<1>5. UNCHANGED <<uploads, stream, file, saved, want>>
  BY DEF ServeRead, Handles, browserVars
<1> QED
  BY <1>3, <1>4, <1>5, UploadsKept DEF ServerInv, UploadTypes

\* The start of a write leaves the wire, and its upload begins or it is over.
LEMMA StartServed ==
  ASSUME GateInv, ServerInv, NEW s \in Sessions, toServer[s] # <<>>,
         Starting(Head(toServer[s])), toServer' = [toServer EXCEPT ![s] = Tail(@)],
         \/ uploads' = uploads
         \/ uploads' = [uploads EXCEPT ![Head(toServer[s]).id] = 0],
         UNCHANGED <<want, stream, file, saved, cut>>
  PROVE  ServerInv'
<1>1. PICK t \in Transfers : t = Head(toServer[s]).id
  BY WireTaken DEF ServerInv, Requests, OfSession
<1>2. WiresOk' /\ \A u \in Transfers : Starts(u)' => Starts(u)
  BY WireTaken DEF ServerInv
<1>3. Starts(t) /\ ~Starts(t)'
  BY <1>1, WireTaken DEF ServerInv
<1>4. WriteOk(t) /\ want[t] = "settled" /\ uploads[t] = Unknown /\ t \notin saved
  BY <1>3 DEF ServerInv, WriteOk
<1>5. uploads \in [Transfers -> (0..Chunks - 1) \cup {Unknown}]
  BY DEF ServerInv, UploadTypes
<1>6. UploadTypes'
  <2>1. uploads' \in [Transfers -> (0..Chunks - 1) \cup {Unknown}]
    BY <1>1, <1>5, ChunkFacts
  <2> QED
    BY <2>1 DEF ServerInv, UploadTypes, Unknown
<1>7. ASSUME NEW u \in Transfers PROVE WriteOk(u)'
  <2>1. CASE u = t
    <3>1. uploads'[u] \in {0, Unknown}
      BY <1>1, <1>4, <1>5, <2>1
    <3>2. want'[u] = "settled" /\ ~Starts(u)' /\ u \notin saved' /\ Unknown' = Unknown
      BY <1>3, <1>4, <2>1 DEF Unknown
    <3> QED
      BY <3>1, <3>2 DEF WriteOk
  <2>2. CASE u # t
    <3>1. uploads'[u] = uploads[u]
      BY <1>1, <1>5, <2>2
    <3> QED
      BY <1>2, <3>1, WriteKept DEF ServerInv
  <2> QED
    BY <2>1, <2>2
<1> QED
  BY <1>2, <1>6, <1>7 DEF ServerInv

LEMMA WriteServed ==
  ASSUME GateInv, ServerInv, NEW s \in Sessions, ServeWrite(s) \/ ServeEmptyWrite(s)
  PROVE  ServerInv'
<1>1. CASE ServeWrite(s)
  BY <1>1, StartServed DEF ServeWrite, Handles, Answer, Starting, browserVars
<1>2. CASE ServeEmptyWrite(s)
  BY <1>2, StartServed DEF ServeEmptyWrite, Handles, Answer, Starting, browserVars
<1> QED
  BY <1>1, <1>2

LEMMA ChunkServed ==
  ASSUME GateInv, ServerInv, NEW s \in Sessions, ServeChunk(s)
  PROVE  ServerInv'
<1>1. toServer[s] # <<>> /\ toServer' = [toServer EXCEPT ![s] = Tail(@)]
  BY DEF ServeChunk, Handles, Answer
<1>2. PICK t \in Transfers : t = Head(toServer[s]).id
  BY <1>1, WireTaken DEF ServerInv, Requests, OfSession
<1>3. PICK n \in Nat : n = Head(toServer[s]).n
  BY <1>1, WireTaken DEF ServerInv, Requests
<1>4. WiresOk' /\ \A u \in Transfers : Starts(u)' => Starts(u)
  BY <1>1, WireTaken DEF ServerInv
<1>5. want' = want /\ cut' = cut
  BY DEF ServeChunk, Handles, browserVars
<1>6. UploadTypes
  BY DEF ServerInv
<1>7. CASE Accepts(t, n) /\ Writes(t, n, uploads[t] + 1 = Chunks)
           /\ uploads' = [uploads EXCEPT ![t] = IF uploads[t] + 1 = Chunks THEN Unknown ELSE @ + 1]
           /\ saved' = IF uploads[t] + 1 = Chunks THEN saved \cup {t} ELSE saved
  <2>1. uploads[t] = n /\ n # Unknown /\ n \in 0..Chunks - 1 /\ n \in Nat
    BY <1>6, <1>7, ChunkFacts DEF Accepts, UploadTypes
  <2>2. WriteOk(t) /\ ~Starts(t) /\ t \notin saved /\ want[t] = "settled"
    BY <2>1 DEF ServerInv, WriteOk
  <2>3. n = 0 \/ Whole(file[t], n)
    <3>1. n # 0 => stream[t] = n
      BY <1>7, <2>1 DEF Writes
    <3> QED
      BY <2>1, <2>2, <3>1 DEF WriteOk
  <2>4. PICK f \in Seq(Nat) : f = file[t]
    BY <1>6 DEF UploadTypes
  <2>5. PICK g : g = IF n = 0 THEN <<n>> ELSE Append(f, n)
    OBVIOUS
  <2>6. g \in Seq(Nat) /\ Whole(g, n + 1)
    BY <2>3, <2>4, <2>5, ChunkWritten
  <2>7. file' = [file EXCEPT ![t] = g]
    BY <1>6, <1>7, <2>1, <2>4, <2>5 DEF Writes, UploadTypes
  <2>8. stream' = [stream EXCEPT ![t] = IF n + 1 = Chunks THEN Unknown ELSE n + 1]
    BY <1>7, <2>1 DEF Writes
  <2>9. /\ uploads' = [uploads EXCEPT ![t] = IF n + 1 = Chunks THEN Unknown ELSE n + 1]
        /\ saved' = IF n + 1 = Chunks THEN saved \cup {t} ELSE saved
    BY <1>6, <1>7, <2>1 DEF UploadTypes
  <2>10. UploadTypes'
    <3>1. n + 1 # Chunks => n + 1 \in 0..Chunks - 1 /\ n + 1 \in 0..Unknown
      BY <2>1, ChunkFacts DEF Unknown
    <3>2. Unknown \in 0..Unknown
      BY ChunkFacts DEF Unknown
    <3>3. uploads' \in [Transfers -> (0..Chunks - 1) \cup {Unknown}]
      BY <1>6, <2>9, <3>1 DEF UploadTypes
    <3>4. stream' \in [Transfers -> 0..Unknown]
      BY <1>6, <2>8, <3>1, <3>2 DEF UploadTypes
    <3>5. file' \in [Transfers -> Seq(Nat)]
      BY <1>6, <2>6, <2>7 DEF UploadTypes
    <3>6. saved' \subseteq Transfers /\ cut' \subseteq Transfers
      BY <1>5, <1>6, <2>9 DEF UploadTypes
    <3> QED
      BY <3>3, <3>4, <3>5, <3>6 DEF UploadTypes, Unknown
  <2>11. ASSUME NEW u \in Transfers PROVE WriteOk(u)'
    <3>1. CASE u = t
      <4>1. file'[u] = g /\ want'[u] = "settled" /\ ~Starts(u)' /\ Unknown' = Unknown
        BY <1>4, <1>5, <1>6, <2>2, <2>7, <3>1 DEF UploadTypes, Unknown
      <4>2. CASE n + 1 = Chunks
        <5>1. uploads'[u] = Unknown
          BY <1>6, <2>9, <3>1, <4>2 DEF UploadTypes
        <5>2. Whole(file'[u], Chunks)
          BY <2>6, <4>1, <4>2
        <5> QED
          BY <4>1, <5>1, <5>2 DEF WriteOk
      <4>3. CASE n + 1 # Chunks
        <5>1. uploads'[u] = n + 1 /\ u \notin saved'
          BY <1>6, <2>2, <2>9, <3>1, <4>3 DEF UploadTypes
        <5>2. Whole(file'[u], uploads'[u])
          BY <2>6, <4>1, <5>1
        <5> QED
          BY <4>1, <5>1, <5>2 DEF WriteOk
      <4> QED
        BY <4>2, <4>3
    <3>2. CASE u # t
      <4>1. /\ uploads'[u] = uploads[u] /\ stream'[u] = stream[u] /\ file'[u] = file[u]
            /\ u \in saved' <=> u \in saved
        BY <1>6, <2>7, <2>8, <2>9, <3>2 DEF UploadTypes
      <4> QED
        BY <1>4, <1>5, <4>1, WriteKept DEF ServerInv
    <3> QED
      BY <3>1, <3>2
  <2> QED
    BY <1>4, <2>10, <2>11 DEF ServerInv
<1>8. CASE /\ stream' = stream \/ stream' = [stream EXCEPT ![t] = Unknown]
           /\ UNCHANGED <<uploads, file, saved>>
  <2>1. Unknown \in 0..Unknown
    BY ChunkFacts DEF Unknown
  <2>2. UploadTypes'
    <3>1. stream' \in [Transfers -> 0..Unknown]
      BY <1>6, <1>8, <2>1 DEF UploadTypes
    <3> QED
      BY <1>5, <1>6, <1>8, <3>1 DEF UploadTypes, Unknown
  <2>3. \A u \in Transfers : stream'[u] \in {stream[u], Unknown}
    BY <1>6, <1>8 DEF UploadTypes
  <2>4. \A u \in Transfers : WriteOk(u)'
    BY <1>4, <1>5, <1>8, <2>3, WriteKept DEF ServerInv
  <2> QED
    BY <1>4, <2>2, <2>4 DEF ServerInv
<1> QED
  BY <1>2, <1>3, <1>7, <1>8 DEF ServeChunk

LEMMA StreamServed ==
  ASSUME GateInv, ServerInv, NEW t \in Transfers, StreamFails(t)
  PROVE  ServerInv'
<1>1. stream' = [stream EXCEPT ![t] = Unknown]
      /\ UNCHANGED <<want, toServer, uploads, file, saved, cut>>
  BY DEF StreamFails, browserVars, wires
<1>2. UploadTypes
  BY DEF ServerInv
<1>3. UploadTypes'
  <2>1. Unknown \in 0..Unknown
    BY ChunkFacts DEF Unknown
  <2>2. stream' \in [Transfers -> 0..Unknown]
    BY <1>1, <1>2, <2>1 DEF UploadTypes
  <2> QED
    BY <1>1, <1>2, <2>2 DEF UploadTypes, Unknown
<1>4. WiresOk' /\ \A u \in Transfers : Starts(u)' => Starts(u)
  BY <1>1 DEF ServerInv, WiresOk, Starts
<1>5. \A u \in Transfers : stream'[u] \in {stream[u], Unknown}
  BY <1>1, <1>2 DEF UploadTypes
<1>6. \A u \in Transfers : WriteOk(u)'
  BY <1>1, <1>4, <1>5, WriteKept DEF ServerInv
<1> QED
  BY <1>3, <1>4, <1>6 DEF ServerInv

LEMMA EndServed ==
  ASSUME GateInv, ServerInv, NEW s \in Sessions, SessionEnds(s)
  PROVE  ServerInv'
<1>1. /\ uploads' = [t \in Transfers |-> IF Owner(t) = s THEN Unknown ELSE uploads[t]]
      /\ stream' = [t \in Transfers |-> IF Owner(t) = s THEN Unknown ELSE stream[t]]
      /\ toServer' = [toServer EXCEPT ![s] = <<>>]
      /\ UNCHANGED <<want, file, saved, cut>>
  BY DEF SessionEnds, browserVars
<1>2. UploadTypes /\ WiresOk
  BY DEF ServerInv
<1>3. UploadTypes'
  <2>1. Unknown \in 0..Unknown
    BY ChunkFacts DEF Unknown
  <2>2. stream' \in [Transfers -> 0..Unknown]
    BY <1>1, <1>2, <2>1 DEF UploadTypes
  <2>3. uploads' \in [Transfers -> (0..Chunks - 1) \cup {Unknown}]
    BY <1>1, <1>2 DEF UploadTypes
  <2> QED
    BY <1>1, <1>2, <2>2, <2>3 DEF UploadTypes, Unknown
<1>4. WiresOk' /\ \A u \in Transfers : Starts(u)' => Starts(u)
  <2>1. /\ DOMAIN toServer' = Sessions /\ toServer'[s] = <<>>
        /\ \A u \in Sessions : u # s => toServer'[u] = toServer[u]
    BY <1>1, <1>2 DEF WiresOk
  <2>2. <<>> \in Seq(Requests(s)) /\ DOMAIN <<>> = {}
    OBVIOUS
  <2>3. WiresOk'
    BY <1>2, <2>1, <2>2 DEF WiresOk
  <2>4. \A u \in Transfers : Starts(u)' => Starts(u)
    BY <2>1, <2>2, OwnerOf DEF Starts
  <2> QED
    BY <2>3, <2>4
<1>5. \A u \in Transfers : stream'[u] \in {stream[u], Unknown} /\ uploads'[u] \in {uploads[u], Unknown}
  BY <1>1
<1>6. \A u \in Transfers : WriteOk(u)'
  BY <1>1, <1>4, <1>5, WriteKept DEF ServerInv
<1> QED
  BY <1>3, <1>4, <1>6 DEF ServerInv

LEMMA NextServed ==
  ASSUME GateInv, LoopsOk, ServerInv, [Next]_vars
  PROVE  ServerInv'
<1>1. CASE \E t \in Transfers : Begin(t)
  BY <1>1, BeginServed
<1>2. CASE \E t \in Transfers : SendChunk(t)
  BY <1>2, SendServed
<1>3. CASE \/ \E t \in Transfers : Ask(t) \/ Fail(t) \/ SendFails(t)
           \/ \E s \in Sessions : OnMessage(s) \/ ChannelLost(s)
           \/ CloseSessions
  BY <1>3, BrowserServed
<1>4. CASE \E t \in Transfers : StreamFails(t)
  BY <1>4, StreamServed
<1>5. CASE \E s \in Sessions : ServeRead(s)
  BY <1>5, ReadServed
<1>6. CASE \E s \in Sessions : ServeWrite(s) \/ ServeEmptyWrite(s)
  BY <1>6, WriteServed
<1>7. CASE \E s \in Sessions : ServeChunk(s)
  BY <1>7, ChunkServed
<1>8. CASE \E s \in Sessions : SessionEnds(s)
  BY <1>8, EndServed
<1>9. CASE UNCHANGED vars
  BY <1>9, UploadsLeft DEF vars, serverVars
<1> QED
  BY <1>1, <1>2, <1>3, <1>4, <1>5, <1>6, <1>7, <1>8, <1>9 DEF Next, Serve

-----------------------------------------------------------------------------
(* The theorems.                                                           *)

LEMMA TransferInitially == Init => TransferInv
<1> SUFFICES ASSUME Init PROVE TransferInv
  OBVIOUS
<1>1. <<>> \in Seq(Transfers) /\ DOMAIN <<>> = {} /\ <<>> \in Seq(Nat)
  OBVIOUS
<1>2. \A s \in Sessions : <<>> \in Seq(Requests(s))
  OBVIOUS
<1>3. GateOk(gate) /\ Known(gate) = {}
  <2>1. gate \in Gates /\ gate.queue = <<>> /\ Once(gate.queue)
    BY <1>1 DEF Init, EmptyGate, Gates, Once
  <2> QED
    BY <1>1, <2>1 DEF Init, EmptyGate, GateOk, Loose, Known, Queued
<1>4. GateInv
  BY <1>3 DEF Init, GateInv, Wants
<1>5. PanesOk
  BY EmptyPaneOk DEF Init, PanesOk
<1>6. LoopsOk
  BY NotSendingOk DEF Init, LoopsOk, Sending
<1>7. WiresOk
  BY <1>1, <1>2 DEF Init, WiresOk
<1>8. \A t \in Transfers : ~Starts(t)
  BY <1>1, OwnerOf DEF Init, Starts
<1>9. UploadTypes
  BY <1>1, ChunkFacts DEF Init, UploadTypes, Unknown
<1>10. \A t \in Transfers : WriteOk(t)
  BY <1>8 DEF Init, WriteOk
<1> QED
  BY <1>4, <1>5, <1>6, <1>7, <1>9, <1>10 DEF TransferInv, ServerInv

LEMMA TransferInvKept == TransferInv /\ [Next]_vars => TransferInv'
<1> SUFFICES ASSUME TransferInv, [Next]_vars PROVE TransferInv'
  OBVIOUS
<1>1. GateInv' /\ PanesOk' /\ LoopsOk'
  BY NextHandled DEF TransferInv, Handled
<1>2. ServerInv'
  BY NextServed DEF TransferInv
<1> QED
  BY <1>1, <1>2 DEF TransferInv

LEMMA TransferInvHolds == Spec => []TransferInv
BY TransferInitially, TransferInvKept, PTL DEF Spec

\* The state has its shape: whoever holds the gate was given a lease, a lease is
\* released only after it was given, an upload's offset is one of its file
\* (transfer-gate.ts; FileWorkspace.tsx; ssh-session.ts, live.uploads).
THEOREM TransferTypes == Spec => []TypeOK
<1>1. TransferInv => TypeOK
  <2> SUFFICES ASSUME TransferInv PROVE TypeOK
    OBVIOUS
  <2>1. /\ gate.active \in gate.resolved \cup {None}
        /\ gate.released \subseteq gate.resolved
        /\ gate \in Gates
    BY DEF TransferInv, GateInv, GateOk, Loose
  <2>2. Queued(gate) \subseteq Transfers
    <3>1. PICK q \in Seq(Transfers) : q = gate.queue
      BY <2>1 DEF Gates
    <3>2. \A i \in DOMAIN q : q[i] \in Transfers
      OBVIOUS
    <3> QED
      BY <3>1, <3>2 DEF Queued
  <2>3. gate.resolved \cup gate.aborted \cup Queued(gate) \subseteq Transfers
    BY <2>1, <2>2 DEF Gates
  <2>4. want \in [Transfers -> {"none", "read", "write", "empty", "settled"}]
    BY DEF TransferInv, GateInv, Wants
  <2>5. \A s \in Sessions :
          {pane[s].lease, pane[s].reading, pane[s].writing, pane[s].download}
            \subseteq OfSession(s) \cup {None}
    BY DEF TransferInv, PanesOk, Panes, Mine
  <2>6. \A t \in Transfers : Sending(t) => loop[t].next < Chunks
    BY DEF TransferInv, LoopsOk
  <2>7. /\ stream \in [Transfers -> 0..Unknown]
        /\ saved \cup cut \subseteq Transfers
        /\ uploads \in [Transfers -> (0..Chunks - 1) \cup {Unknown}]
    BY DEF TransferInv, ServerInv, UploadTypes
  <2>8. (0..Chunks - 1) \cup {Unknown} \subseteq 0..Unknown
    BY ChunkFacts DEF Unknown
  <2> QED
    BY <2>1, <2>3, <2>4, <2>5, <2>6, <2>7, <2>8 DEF TypeOK
<1> QED
  BY <1>1, TransferInvHolds, PTL

\* Nobody who waits for the gate is forgotten, whoever cancels, releases or
\* closes meanwhile (transfer-gate.ts, acquire, cancelSession and drain).
THEOREM WaitingIsNotForgotten == Spec => []NobodyIsForgotten
<1>1. TransferInv => NobodyIsForgotten
  <2> SUFFICES ASSUME TransferInv PROVE NobodyIsForgotten
    OBVIOUS
  <2>1. GateOk(gate) /\ Once(gate.queue)
    BY DEF TransferInv, GateInv, GateOk, Loose
  <2>2. ASSUME NEW t \in Transfers, want[t] \in {"read", "write", "empty"},
               t \notin gate.resolved \cup gate.aborted
        PROVE  \E i \in DOMAIN gate.queue :
                 gate.queue[i] = t /\ \A j \in DOMAIN gate.queue : gate.queue[j] = t => i = j
    <3>1. t \in Queued(gate)
      BY <2>2 DEF TransferInv, GateInv, Known
    <3>2. PICK i \in DOMAIN gate.queue : gate.queue[i] = t
      BY <3>1 DEF Queued
    <3> QED
      BY <2>1, <3>2 DEF Once
  <2> QED
    BY <2>1, <2>2 DEF NobodyIsForgotten, GateOk
<1> QED
  BY <1>1, TransferInvHolds, PTL

\* A transfer loses the gate only by its own lease's release or by the end of
\* its session (transfer-gate.ts, release).
THEOREM ReleasesAreOwn == Spec => ReleaseIsOwn
<1>1. TransferInv /\ [Next]_vars
        => [\A t \in Transfers :
              gate.active = t /\ gate'.active # t
                => t \in (gate'.released \ gate.released) \cup gate'.aborted]_vars
  <2> SUFFICES ASSUME TransferInv, [Next]_vars
               PROVE  \A t \in Transfers :
                        gate.active = t /\ gate'.active # t
                          => t \in (gate'.released \ gate.released) \cup gate'.aborted
    OBVIOUS
  <2> QED
    BY NextHandled DEF TransferInv, Handled, Moves
<1> QED
  BY <1>1, TransferInvHolds, PTL DEF Spec, ReleaseIsOwn

\* A write that the session object reports as done has every chunk of the file
\* once and in order, whatever failed or was given up before (ssh-session.ts,
\* handleBinaryFrame; ssh2-engine.ts, upload).
THEOREM ReportedWriteIsWhole == Spec => []WriteIsWhole
<1>1. TransferInv => WriteIsWhole
  <2> SUFFICES ASSUME TransferInv, NEW t \in saved PROVE file[t] = [i \in 1..Chunks |-> i - 1]
    BY DEF WriteIsWhole
  <2>1. t \in Transfers /\ WriteOk(t)
    BY DEF TransferInv, ServerInv, UploadTypes
  <2>2. PICK f \in Seq(Nat) : f = file[t]
    BY <2>1 DEF TransferInv, ServerInv, UploadTypes
  <2>3. Len(f) = Chunks /\ \A i \in DOMAIN f : f[i] = i - 1
    BY <2>1, <2>2 DEF WriteOk, Whole
  <2>4. f = [i \in 1..Len(f) |-> f[i]] /\ DOMAIN f = 1..Len(f)
    OBVIOUS
  <2> QED
    BY <2>2, <2>3, <2>4
<1> QED
  BY <1>1, TransferInvHolds, PTL
=============================================================================
