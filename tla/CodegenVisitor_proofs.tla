------------------------ MODULE CodegenVisitor_proofs ------------------------
(***************************************************************************)
(* Proofs about CodegenVisitor, for every set of modules.                  *)
(*                                                                         *)
(* What the visitor has found is what it says it is (Found), and a module  *)
(* it has transformed is the source with the commands taken out and the    *)
(* generated statements put in (Transformed); Places says where every item *)
(* of such a module comes from.                                            *)
(***************************************************************************)
EXTENDS CodegenVisitor, FiniteSetTheorems, SequenceTheorems, TLAPS

(* An item that the scan is at is an item of the source, and its index one *)
(* of the source's.                                                        *)
LEMMA ScannedItem ==
  ASSUME TypeOK, pc = "scan", idx <= Len(body)
  PROVE  /\ idx \in Indices(source)
         /\ idx + 1 \in 1..(Len(source) + 1)
         /\ Item \in Items
<1>1. source \in Seq(Items)
  BY SourcesAssumption DEF TypeOK
<1>2. body = source /\ idx \in 1..(Len(source) + 1)
  BY DEF TypeOK
<1>3. Len(source) \in Nat
  BY <1>1
<1>4. idx \in Indices(source) /\ idx + 1 \in 1..(Len(source) + 1)
  BY <1>2, <1>3 DEF Indices
<1> QED
  BY <1>1, <1>2, <1>4 DEF Item, Indices

(* A commands call has a type argument that names an interface, or none.   *)
LEMMA CommandsType ==
  ASSUME NEW item \in Items, item.kind = "var"
  PROVE  item.type \in Types \cup {None}
  BY DEF Items

-----------------------------------------------------------------------------
(* Every variable keeps its type; the body is the source's until the pass  *)
(* has ended without an error, and the view config is generated only when  *)
(* there is a component.                                                   *)
LEMMA InitType == Init => TypeOK
<1> SUFFICES ASSUME Init PROVE TypeOK
  OBVIOUS
<1>1. source \in Seq(Items)
  BY SourcesAssumption DEF Init
<1>2. idx \in 1..(Len(source) + 1)
  BY <1>1 DEF Init
<1> QED
  BY <1>2 DEF Init, TypeOK

(* Every step keeps the types.                                             *)
LEMMA StepType == TypeOK /\ [Next]_vars => TypeOK'
<1> SUFFICES ASSUME TypeOK, [Next]_vars PROVE TypeOK'
  OBVIOUS
<1>1. CASE FindComponent
  BY <1>1, ScannedItem DEF FindComponent, AtItem, TypeOK, Indices
<1>2. CASE FindCommands
  <2>1. Item \in Items /\ Item.kind = "var"
    BY <1>2, ScannedItem DEF FindCommands, AtItem
  <2>2. Item.type \in Types \cup {None}
    BY <2>1, CommandsType
  <2> QED
    BY <1>2, <2>2, ScannedItem DEF FindCommands, AtItem, TypeOK, Indices
<1>3. CASE RefuseOtherName
  BY <1>3 DEF RefuseOtherName, Refuse, AtItem, found, TypeOK, Indices
<1>4. CASE RefuseReserved
  BY <1>4 DEF RefuseReserved, Refuse, AtItem, found, TypeOK, Indices
<1>5. CASE Pass
  BY <1>5, ScannedItem DEF Pass, AtItem, found, TypeOK, Indices
<1>6. CASE EndScan
  BY <1>6 DEF EndScan, found, TypeOK, Indices
<1>7. CASE GenerationFails
  BY <1>7 DEF GenerationFails, Abandon, found, TypeOK, Indices
<1>8. CASE Replace
  BY <1>8 DEF Replace, ReplaceBy, found, TypeOK, Indices
<1>9. CASE UNCHANGED vars
  BY <1>9 DEF vars, TypeOK, Indices
<1> QED
  BY <1>1, <1>2, <1>3, <1>4, <1>5, <1>6, <1>7, <1>8, <1>9 DEF Next

(* The indices that visit_mut_module keeps are of items of the module, and *)
(* the module is as it was given until the visitor is done.                *)
THEOREM VisitorTypeCorrect == Spec => []TypeOK
  BY InitType, StepType, PTL DEF Spec

-----------------------------------------------------------------------------
(* The pass never changes a module that it refuses: whichever item or step *)
(* makes visit_mut_module set its error, the body is the one it was given. *)
THEOREM RefusedUnchanged == Spec => []ErrorLeavesModule
<1>1. Init => ErrorLeavesModule
  BY DEF Init, ErrorLeavesModule
<1>2. ErrorLeavesModule /\ TypeOK /\ [Next]_vars => ErrorLeavesModule'
  <2> SUFFICES ASSUME ErrorLeavesModule, TypeOK, [Next]_vars
               PROVE  ErrorLeavesModule'
    OBVIOUS
  <2>1. CASE Replace
    <3>1. error = None /\ error' = error
      BY <2>1 DEF Replace, ReplaceBy, TypeOK
    <3> QED
      BY <3>1 DEF ErrorLeavesModule
  <2>2. CASE RefuseOtherName \/ RefuseReserved
    <3>1. pc = "scan" /\ UNCHANGED <<source, body>>
      BY <2>2 DEF RefuseOtherName, RefuseReserved, Refuse, AtItem
    <3> QED
      BY <3>1 DEF ErrorLeavesModule, TypeOK
  <2>3. CASE GenerationFails
    BY <2>3 DEF GenerationFails, Abandon, ErrorLeavesModule, TypeOK
  <2>4. CASE FindComponent \/ FindCommands \/ Pass \/ EndScan \/ UNCHANGED vars
    <3>1. UNCHANGED <<source, error, body>>
      BY <2>4 DEF FindComponent, FindCommands, Pass, EndScan, vars
    <3> QED
      BY <3>1 DEF ErrorLeavesModule
  <2> QED
    BY <2>1, <2>2, <2>3, <2>4 DEF Next
<1> QED
  BY <1>1, <1>2, VisitorTypeCorrect, PTL DEF Spec
-----------------------------------------------------------------------------
(* Sequences with elements removed and put in their place.                 *)

(* The part of a sequence before an element, and the part after it.        *)
LEMMA Sides ==
  ASSUME NEW X, NEW s \in Seq(X), NEW i \in Indices(s)
  PROVE  /\ SubSeq(s, 1, i - 1) \in Seq(X) /\ Len(SubSeq(s, 1, i - 1)) = i - 1
         /\ \A p \in 1..(i - 1) : SubSeq(s, 1, i - 1)[p] = s[p]
         /\ SubSeq(s, i + 1, Len(s)) \in Seq(X) /\ Len(SubSeq(s, i + 1, Len(s))) = Len(s) - i
         /\ \A p \in 1..(Len(s) - i) : SubSeq(s, i + 1, Len(s))[p] = s[i + p]
<1> DEFINE n == Len(s)
           a == SubSeq(s, 1, i - 1)
           b == SubSeq(s, i + 1, n)
<1>1. n \in Nat /\ i \in 1..n /\ \A p \in 1..n : s[p] \in X
  BY DEF Indices
<1>2. (\A p \in 1..(i - 1) : s[p] \in X) /\ (\A p \in (i + 1)..n : s[p] \in X)
  BY <1>1
<1>3. i - 1 \in Int /\ i + 1 \in Int /\ n \in Int /\ 1 \in Int
  BY <1>1
<1>4. /\ a \in Seq(X) /\ Len(a) = IF 1 <= i - 1 THEN i - 1 - 1 + 1 ELSE 0
      /\ \A p \in 1..(i - 1 - 1 + 1) : a[p] = s[1 + p - 1]
  BY <1>2, <1>3, SubSeqProperties
<1>5. /\ b \in Seq(X) /\ Len(b) = IF i + 1 <= n THEN n - (i + 1) + 1 ELSE 0
      /\ \A p \in 1..(n - (i + 1) + 1) : b[p] = s[i + 1 + p - 1]
  BY <1>2, <1>3, SubSeqProperties
<1>6. i - 1 - 1 + 1 = i - 1 /\ n - (i + 1) + 1 = n - i
  BY <1>1
<1>7. Len(a) = i - 1 /\ Len(b) = n - i
  <2>1. (IF 1 <= i - 1 THEN i - 1 - 1 + 1 ELSE 0) = i - 1
    BY <1>1
  <2>2. (IF i + 1 <= n THEN n - (i + 1) + 1 ELSE 0) = n - i
    BY <1>1
  <2> HIDE DEF a, b, n
  <2>3. QED
    BY <1>4, <1>5, <2>1, <2>2
<1>8. ASSUME NEW p \in 1..(i - 1) PROVE a[p] = s[p]
  <2>1. p \in 1..(i - 1 - 1 + 1) /\ 1 + p - 1 = p
    BY <1>1, <1>6
  <2>2. QED
    BY <1>4, <2>1
<1>9. ASSUME NEW p \in 1..(n - i) PROVE b[p] = s[i + p]
  <2>1. p \in 1..(n - (i + 1) + 1) /\ i + 1 + p - 1 = i + p
    BY <1>1, <1>6
  <2>2. QED
    BY <1>5, <2>1
<1>10. QED
  BY <1>4, <1>5, <1>7, <1>8, <1>9

(* An element removed.                                                     *)
LEMMA WithoutIs ==
  ASSUME NEW X, NEW s \in Seq(X), NEW i \in Indices(s), i # None
  PROVE  /\ Without(s, i) \in Seq(X) /\ Len(Without(s, i)) = Len(s) - 1
         /\ \A p \in 1..(Len(s) - 1) : Without(s, i)[p] = IF p < i THEN s[p] ELSE s[p + 1]
<1> DEFINE n == Len(s)
           a == SubSeq(s, 1, i - 1)
           b == SubSeq(s, i + 1, n)
           t == Without(s, i)
<1>1. /\ a \in Seq(X) /\ Len(a) = i - 1 /\ \A p \in 1..(i - 1) : a[p] = s[p]
      /\ b \in Seq(X) /\ Len(b) = n - i /\ \A p \in 1..(n - i) : b[p] = s[i + p]
      /\ n \in Nat /\ i \in 1..n
  BY Sides DEF Indices
<1>2. t = a \o b
  BY DEF Without
<1> HIDE DEF a, b, t
<1>3. /\ t \in Seq(X) /\ Len(t) = Len(a) + Len(b)
      /\ \A p \in 1..(Len(a) + Len(b)) : t[p] = IF p <= Len(a) THEN a[p] ELSE b[p - Len(a)]
  BY <1>1, <1>2, ConcatProperties
<1>4. Len(a) + Len(b) = n - 1
  BY <1>1
<1>5. ASSUME NEW p \in 1..(n - 1) PROVE t[p] = IF p < i THEN s[p] ELSE s[p + 1]
  <2>1. t[p] = IF p <= i - 1 THEN a[p] ELSE b[p - (i - 1)]
    BY <1>1, <1>3, <1>4
  <2>2. CASE p < i
    <3>1. p <= i - 1 /\ p \in 1..(i - 1)
      BY <1>1, <2>2
    <3>2. QED
      BY <1>1, <2>1, <2>2, <3>1
  <2>3. CASE ~(p < i)
    <3>1. ~(p <= i - 1) /\ p - (i - 1) \in 1..(n - i) /\ i + (p - (i - 1)) = p + 1
      BY <1>1, <2>3
    <3>2. QED
      BY <1>1, <2>1, <2>3, <3>1
  <2>4. QED
    BY <2>2, <2>3
<1>6. QED
  BY <1>3, <1>4, <1>5 DEF t

(* An element replaced by others.                                          *)
LEMMA SpliceIs ==
  ASSUME NEW X, NEW s \in Seq(X), NEW i \in Indices(s), NEW g \in Seq(X)
  PROVE  LET t == Splice(s, i, g) IN
         /\ t \in Seq(X) /\ Len(t) = Len(s) - 1 + Len(g)
         /\ \A p \in 1..(i - 1) : t[p] = s[p]
         /\ \A p \in 1..Len(g) : t[i - 1 + p] = g[p]
         /\ \A p \in (i + 1)..Len(s) : t[p - 1 + Len(g)] = s[p]
<1> DEFINE n == Len(s)
           m == Len(g)
           a == SubSeq(s, 1, i - 1)
           b == SubSeq(s, i + 1, n)
           f == a \o g
           t == Splice(s, i, g)
<1>1. /\ a \in Seq(X) /\ Len(a) = i - 1 /\ \A p \in 1..(i - 1) : a[p] = s[p]
      /\ b \in Seq(X) /\ Len(b) = n - i /\ \A p \in 1..(n - i) : b[p] = s[i + p]
      /\ n \in Nat /\ i \in 1..n /\ m \in Nat
  BY Sides DEF Indices
<1>2. t = f \o b
  BY DEF Splice
<1> HIDE DEF a, b
<1>3. /\ f \in Seq(X) /\ Len(f) = Len(a) + Len(g)
      /\ \A p \in 1..(Len(a) + Len(g)) : f[p] = IF p <= Len(a) THEN a[p] ELSE g[p - Len(a)]
  BY <1>1, ConcatProperties
<1> HIDE DEF f, t
<1>4. /\ t \in Seq(X) /\ Len(t) = Len(f) + Len(b)
      /\ \A p \in 1..(Len(f) + Len(b)) : t[p] = IF p <= Len(f) THEN f[p] ELSE b[p - Len(f)]
  <2>1. f \in Seq(X) /\ b \in Seq(X)
    BY <1>1, <1>3
  <2>2. /\ f \o b \in Seq(X) /\ Len(f \o b) = Len(f) + Len(b)
        /\ \A p \in 1..(Len(f) + Len(b)) : (f \o b)[p] = IF p <= Len(f) THEN f[p] ELSE b[p - Len(f)]
    BY <2>1, ConcatProperties
  <2>3. QED
    BY <1>2, <2>2
<1> HIDE DEF n, m
<1>5. Len(f) = i - 1 + m /\ Len(f) + Len(b) = n - 1 + m
  BY <1>1, <1>3, <1>4 DEF m
<1>6. ASSUME NEW p \in 1..(i - 1) PROVE t[p] = s[p]
  <2>1. /\ p \in 1..(n - 1 + m) /\ p \in 1..(i - 1 + m) /\ p <= i - 1 /\ p <= i - 1 + m
    BY <1>1
  <2>2. t[p] = f[p] /\ f[p] = a[p]
    BY <1>1, <1>3, <1>4, <1>5, <2>1 DEF m
  <2>3. QED
    BY <1>1, <2>2
<1>7. ASSUME NEW p \in 1..m PROVE t[i - 1 + p] = g[p]
  <2> DEFINE q == i - 1 + p
  <2>1. q \in 1..(n - 1 + m) /\ q \in 1..(i - 1 + m) /\ ~(q <= i - 1) /\ q <= i - 1 + m
        /\ q - (i - 1) = p
    BY <1>1
  <2> HIDE DEF q
  <2>2. t[q] = f[q] /\ f[q] = g[p]
    BY <1>1, <1>3, <1>4, <1>5, <2>1 DEF m
  <2>3. QED
    BY <2>2 DEF q
<1>8. ASSUME NEW p \in (i + 1)..n PROVE t[p - 1 + m] = s[p]
  <2> DEFINE q == p - 1 + m
  <2>1. q \in 1..(n - 1 + m) /\ ~(q <= i - 1 + m) /\ q - (i - 1 + m) = p - i
        /\ p - i \in 1..(n - i) /\ i + (p - i) = p
    BY <1>1
  <2> HIDE DEF q
  <2>2. t[q] = b[p - i]
    BY <1>4, <1>5, <2>1
  <2>3. b[p - i] = s[p]
    BY <1>1, <2>1
  <2>4. QED
    BY <2>2, <2>3 DEF q
<1>9. QED
  BY <1>4, <1>5, <1>6, <1>7, <1>8 DEF n, m, t

(* Where the elements of s that stay are once the one at c is removed: the *)
(* same correction puts each of them, and the default export, in place.    *)
LEMMA WithoutAt ==
  ASSUME NEW X, NEW s \in Seq(X), NEW c \in Indices(s) \cup {None}
  PROVE  LET t == Without(s, c) IN
         /\ t \in Seq(X) /\ Len(t) = Len(s) - IF c = None THEN 0 ELSE 1
         /\ \A i \in Indices(s) \ {c} : AdjustedIndex(i, c) \in Indices(t)
                                        /\ t[AdjustedIndex(i, c)] = s[i]
         /\ \A q \in Indices(t) : \E i \in Indices(s) \ {c} : q = AdjustedIndex(i, c)
<1> DEFINE n == Len(s)
           t == Without(s, c)
<1>1. n \in Nat /\ Indices(s) = 1..n /\ None \notin Nat
  BY NoneAssumption DEF Indices
<1>2. CASE c = None
  <2>1. t = s
    BY <1>2 DEF Without
  <2>2. \A i : AdjustedIndex(i, c) = i
    BY <1>2 DEF AdjustedIndex
  <2>3. None \notin Indices(s)
    BY <1>1
  <2>4. QED
    BY <1>1, <1>2, <2>1, <2>2, <2>3
<1>3. CASE c # None
  <2>1. c \in 1..n
    BY <1>1, <1>3
  <2>2. /\ t \in Seq(X) /\ Len(t) = n - 1
        /\ \A p \in 1..(n - 1) : t[p] = IF p < c THEN s[p] ELSE s[p + 1]
    BY <1>1, <1>3, <2>1, WithoutIs
  <2> HIDE DEF t, n
  <2>3. Indices(t) = 1..(n - 1)
    BY <2>2 DEF Indices
  <2>4. ASSUME NEW i \in 1..n, i # c
        PROVE  AdjustedIndex(i, c) \in 1..(n - 1) /\ t[AdjustedIndex(i, c)] = s[i]
    <3>1. CASE c < i
      <4>1. AdjustedIndex(i, c) = i - 1
        BY <1>3, <3>1 DEF AdjustedIndex
      <4>2. i - 1 \in 1..(n - 1) /\ ~(i - 1 < c) /\ i - 1 + 1 = i
        BY <1>1, <2>1, <3>1
      <4>3. QED
        BY <2>2, <4>1, <4>2
    <3>2. CASE ~(c < i)
      <4>1. AdjustedIndex(i, c) = i
        BY <3>2 DEF AdjustedIndex
      <4>2. i \in 1..(n - 1) /\ i < c
        BY <1>1, <2>1, <2>4, <3>2
      <4>3. QED
        BY <2>2, <4>1, <4>2
    <3>3. QED
      BY <3>1, <3>2
  <2>5. ASSUME NEW q \in 1..(n - 1)
        PROVE  \E i \in (1..n) \ {c} : q = AdjustedIndex(i, c)
    <3>1. CASE q < c
      <4>1. q \in (1..n) \ {c} /\ ~(c < q)
        BY <1>1, <2>1, <3>1
      <4>2. QED
        BY <4>1 DEF AdjustedIndex
    <3>2. CASE ~(q < c)
      <4>1. q + 1 \in (1..n) \ {c} /\ c < q + 1 /\ q + 1 - 1 = q
        BY <1>1, <2>1, <3>2
      <4>2. QED
        BY <1>3, <4>1 DEF AdjustedIndex
    <3>3. QED
      BY <3>1, <3>2
  <2>6. QED
    BY <1>1, <1>3, <2>2, <2>3, <2>4, <2>5 DEF t, n
<1>4. QED
  BY <1>2, <1>3

(* The correction keeps the order of the elements that stay.               *)
LEMMA AdjustedOrder ==
  ASSUME NEW i \in Nat, NEW d \in Nat, NEW c \in Nat \cup {None}, i # c, d # c
  PROVE  /\ i < d <=> AdjustedIndex(i, c) < AdjustedIndex(d, c)
         /\ i = d <=> AdjustedIndex(i, c) = AdjustedIndex(d, c)
  BY DEF AdjustedIndex

(* Where the elements of t are once g has replaced the one at a.           *)
Moved(q, a, g) == IF q < a THEN q ELSE q - 1 + Len(g)

(* A splice puts g where the item at a was; every other item is where      *)
(* Moved says, and there is nothing else.                                  *)
LEMMA SplicedAt ==
  ASSUME NEW X, NEW t \in Seq(X), NEW a \in Indices(t), NEW g \in Seq(X)
  PROVE  LET b == Splice(t, a, g) IN
         /\ b \in Seq(X) /\ Len(b) = Len(t) - 1 + Len(g)
         /\ \A q \in Indices(t) \ {a} : Moved(q, a, g) \in Indices(b) /\ b[Moved(q, a, g)] = t[q]
         /\ \A k \in Indices(g) : a - 1 + k \in Indices(b) /\ b[a - 1 + k] = g[k]
         /\ \A p \in Indices(b) : \/ \E q \in Indices(t) \ {a} : p = Moved(q, a, g)
                                  \/ \E k \in Indices(g) : p = a - 1 + k
<1> DEFINE n == Len(t)
           m == Len(g)
           b == Splice(t, a, g)
<1>1. /\ b \in Seq(X) /\ Len(b) = n - 1 + m
      /\ \A p \in 1..(a - 1) : b[p] = t[p]
      /\ \A p \in 1..m : b[a - 1 + p] = g[p]
      /\ \A p \in (a + 1)..n : b[p - 1 + m] = t[p]
  BY SpliceIs
<1>2. n \in Nat /\ m \in Nat /\ a \in 1..n /\ Indices(t) = 1..n /\ Indices(g) = 1..m
  BY DEF Indices
<1> HIDE DEF b, n, m
<1>3. Indices(b) = 1..(n - 1 + m)
  BY <1>1 DEF Indices
<1>4. ASSUME NEW q \in (1..n) \ {a}
      PROVE  Moved(q, a, g) \in 1..(n - 1 + m) /\ b[Moved(q, a, g)] = t[q]
  <2>1. CASE q < a
    <3>1. q \in 1..(a - 1) /\ q \in 1..(n - 1 + m)
      BY <1>2, <2>1
    <3>2. QED
      BY <1>1, <2>1, <3>1 DEF Moved
  <2>2. CASE ~(q < a)
    <3>1. q \in (a + 1)..n /\ q - 1 + m \in 1..(n - 1 + m)
      BY <1>2, <2>2
    <3>2. QED
      BY <1>1, <2>2, <3>1 DEF Moved, m
  <2>3. QED
    BY <2>1, <2>2
<1>5. ASSUME NEW k \in 1..m PROVE a - 1 + k \in 1..(n - 1 + m)
  BY <1>2
<1>6. ASSUME NEW p \in 1..(n - 1 + m)
      PROVE  \/ \E q \in (1..n) \ {a} : p = Moved(q, a, g)
             \/ \E k \in 1..m : p = a - 1 + k
  <2>1. CASE p < a
    <3>1. p \in (1..n) \ {a}
      BY <1>2, <2>1
    <3>2. QED
      BY <2>1, <3>1 DEF Moved
  <2>2. CASE ~(p < a) /\ p < a + m
    <3>1. p - a + 1 \in 1..m /\ p = a - 1 + (p - a + 1)
      BY <1>2, <2>2
    <3>2. QED
      BY <3>1
  <2>3. CASE ~(p < a + m)
    <3>1. p - m + 1 \in (1..n) \ {a} /\ ~(p - m + 1 < a) /\ p = p - m + 1 - 1 + m
      BY <1>2, <2>3
    <3>2. QED
      BY <3>1 DEF Moved, m
  <2>4. QED
    BY <2>1, <2>2, <2>3
<1>7. QED
  BY <1>1, <1>2, <1>3, <1>4, <1>5, <1>6 DEF b, n, m

(* How many of the first m numbers are left without two of them.           *)
LEMMA CountRest ==
  ASSUME NEW m \in Nat, NEW d \in Nat, NEW c \in Nat \cup {None}, c # d
  PROVE  Cardinality(((1..m) \ {d}) \ {c})
           = m - (IF d \in 1..m THEN 1 ELSE 0) - (IF c \in 1..m THEN 1 ELSE 0)
<1>1. IsFiniteSet(1..m) /\ Cardinality(1..m) = m
  BY FS_Interval
<1>2. /\ IsFiniteSet((1..m) \ {d})
      /\ Cardinality((1..m) \ {d}) = IF d \in 1..m THEN m - 1 ELSE m
  BY <1>1, FS_RemoveElement
<1> DEFINE S == (1..m) \ {d}
<1>3. c \in S <=> c \in 1..m
  OBVIOUS
<1> HIDE DEF S
<1>4. Cardinality(S \ {c}) = IF c \in S THEN Cardinality(S) - 1 ELSE Cardinality(S)
  BY <1>2, FS_RemoveElement DEF S
<1>5. Cardinality(S) \in Nat
  BY <1>2, FS_CardinalityType DEF S
<1>6. QED
  BY <1>2, <1>3, <1>4, <1>5 DEF S

-----------------------------------------------------------------------------
(* What a transformed module consists of.                                  *)

(* The scan has found what it says: a component, and a commands export.    *)
Found ==
  /\ default_export_idx # None => source[default_export_idx].kind = "component"
  /\ commands_export_idx # None => /\ source[commands_export_idx].kind = "var"
                                   /\ source[commands_export_idx].name = "Commands"
  /\ command_type_name # None => commands_export_idx # None

(* A transformed module is the source with the commands removed and the    *)
(* generated statements in the place of the component.                     *)
Outcome ==
  Splice(Without(source, commands_export_idx),
         AdjustedIndex(default_export_idx, commands_export_idx), Generated)

Transformed == Succeeded /\ default_export_idx # None => body = Outcome

(* Before it is done the pass has no outcome.                              *)
LEMMA VisitorInit == Init => Found /\ Transformed
  BY DEF Init, Found, Transformed, Succeeded

(* The scan finds a component or commands only where there are some, and   *)
(* the pass succeeds only by way of Replace.                               *)
LEMMA VisitorNext == TypeOK /\ Found /\ Transformed /\ [Next]_vars => Found' /\ Transformed'
<1> SUFFICES ASSUME TypeOK, Found, Transformed, [Next]_vars PROVE Found' /\ Transformed'
  OBVIOUS
<1>1. pc # "done" => body = source /\ error = None
  BY DEF TypeOK
<1>2. CASE FindComponent
  <2>1. /\ default_export_idx' = idx /\ source[idx].kind = "component" /\ pc' = "scan"
        /\ UNCHANGED <<source, commands_export_idx, command_type_name>>
    BY <1>1, <1>2 DEF FindComponent, AtItem, Item
  <2>2. Found'
    BY <2>1 DEF Found
  <2>3. QED
    BY <2>1, <2>2 DEF Transformed, Succeeded
<1>3. CASE FindCommands
  <2>1. /\ commands_export_idx' = idx /\ source[idx].kind = "var" /\ source[idx].name = "Commands"
        /\ pc' = "scan" /\ UNCHANGED <<source, default_export_idx>>
    BY <1>1, <1>3 DEF FindCommands, AtItem, Item
  <2>0. idx # None
    <3>1. idx \in Indices(source) /\ Len(source) \in Nat
      BY <1>3, ScannedItem, SourcesAssumption DEF FindCommands, AtItem, TypeOK
    <3>2. QED
      BY <3>1, NoneAssumption DEF Indices
  <2>2. Found'
    BY <2>0, <2>1 DEF Found
  <2>3. QED
    BY <2>1, <2>2 DEF Transformed, Succeeded
<1>4. CASE RefuseOtherName \/ RefuseReserved \/ GenerationFails
  <2>1. error' # None /\ UNCHANGED <<source, found>>
    BY <1>4, ErrorAssumption DEF RefuseOtherName, RefuseReserved, GenerationFails, Refuse, Abandon
  <2>2. Found'
    BY <2>1 DEF Found, found
  <2>3. QED
    BY <2>1, <2>2 DEF Transformed, Succeeded
<1>5. CASE Pass
  <2>1. pc' = "scan" /\ UNCHANGED <<source, found>>
    BY <1>5 DEF Pass, AtItem
  <2>2. QED
    BY <2>1 DEF Found, Transformed, Succeeded, found
<1>6. CASE EndScan
  <2>1. /\ UNCHANGED <<source, found>>
        /\ default_export_idx # None => pc' = "generate"
    BY <1>6 DEF EndScan
  <2>2. QED
    BY <2>1 DEF Found, Transformed, Succeeded, found
<1>7. CASE Replace
  <2>1. body' = Splice(Without(source, commands_export_idx),
                       AdjustedIndex(default_export_idx, commands_export_idx), Generated)
        /\ UNCHANGED <<source, interfaces, found>>
    BY <1>1, <1>7 DEF Replace, ReplaceBy
  <2>2. Outcome' = Outcome
    BY <2>1 DEF Outcome, Generated, HasCommands, found
  <2>3. QED
    BY <2>1, <2>2 DEF Found, Transformed, Outcome, found
<1>8. CASE UNCHANGED vars
  <2>1. UNCHANGED <<source, interfaces, found, pc, error, body>>
    BY <1>8 DEF vars, found
  <2>2. Outcome' = Outcome
    BY <2>1 DEF Outcome, Generated, HasCommands, found
  <2>3. QED
    BY <2>1, <2>2 DEF Found, Transformed, Succeeded, found
<1>9. QED
  BY <1>2, <1>3, <1>4, <1>5, <1>6, <1>7, <1>8 DEF Next

(* Items, and the statements that take the place of the component.         *)
Parts == Items \cup {[kind |-> "config"], [kind |-> "registered"], [kind |-> "dispatch"]}

(* What is generated: the config, the registered component and, for a      *)
(* module with commands, the dispatch.                                     *)
LEMMA GeneratedParts ==
  /\ Generated \in Seq(Parts) /\ Len(Generated) = IF HasCommands THEN 3 ELSE 2
  /\ Generated[1] = [kind |-> "config"] /\ Generated[2] = [kind |-> "registered"]
  /\ HasCommands => Generated[3] = [kind |-> "dispatch"]
<1> DEFINE x == [kind |-> "config"]
           y == [kind |-> "registered"]
           z == [kind |-> "dispatch"]
<1>1. x \in Parts /\ y \in Parts /\ z \in Parts
  BY DEF Parts
<1>2. Generated = <<x, y>> \o IF HasCommands THEN <<z>> ELSE << >>
  BY DEF Generated, Statements
<1> HIDE DEF x, y, z
<1>3. CASE HasCommands
  <2>1. /\ <<x, y>> \in Seq(Parts) /\ <<z>> \in Seq(Parts) /\ Len(<<x, y>>) = 2 /\ Len(<<z>>) = 1
        /\ <<x, y>>[1] = x /\ <<x, y>>[2] = y /\ <<z>>[1] = z
    BY <1>1
  <2>2. Generated = <<x, y>> \o <<z>>
    BY <1>2, <1>3
  <2> DEFINE f == <<x, y>>
             h == <<z>>
  <2> HIDE DEF f, h
  <2>3. /\ f \o h \in Seq(Parts) /\ Len(f \o h) = Len(f) + Len(h)
        /\ \A i \in 1..(Len(f) + Len(h)) : (f \o h)[i] = IF i <= Len(f) THEN f[i] ELSE h[i - Len(f)]
    BY <2>1, ConcatProperties DEF f, h
  <2>4. /\ f \o h \in Seq(Parts) /\ Len(f \o h) = 3
        /\ (f \o h)[1] = x /\ (f \o h)[2] = y /\ (f \o h)[3] = z
    BY <2>1, <2>3 DEF f, h
  <2>5. Generated = f \o h
    BY <2>2 DEF f, h
  <2>6. QED
    BY <1>3, <2>4, <2>5 DEF x, y, z
<1>4. CASE ~HasCommands
  <2>1. Generated = <<x, y>>
    BY <1>2, <1>4
  <2>2. QED
    BY <1>1, <1>4, <2>1 DEF x, y, z
<1>5. QED
  BY <1>3, <1>4

(* The place of every item and every statement in a transformed module,    *)
(* and that it has nothing else.                                           *)
LEMMA Places ==
  ASSUME TypeOK, Found, Transformed, Succeeded, default_export_idx # None
  PROVE  LET d == default_export_idx
             c == commands_export_idx
             a == AdjustedIndex(d, c)
             kept == {i \in Indices(source) : i \notin {d, c}}
             At(i) == Moved(AdjustedIndex(i, c), a, Generated)
         IN /\ source \in Seq(Parts) /\ body \in Seq(Parts) /\ d \in Indices(source) /\ d # c
            /\ c \in Indices(source) \cup {None} /\ a \in Indices(Without(source, c))
            /\ Len(body) = Len(source) - (IF c = None THEN 1 ELSE 2) + Len(Generated)
            /\ \A i \in kept : At(i) \in Indices(body) /\ body[At(i)] = source[i]
            /\ \A k \in Indices(Generated) : a - 1 + k \in Indices(body) /\ body[a - 1 + k] = Generated[k]
            /\ \A p \in Indices(body) : \/ \E i \in kept : p = At(i)
                                        \/ \E k \in Indices(Generated) : p = a - 1 + k
<1> DEFINE s == source
           d == default_export_idx
           c == commands_export_idx
           a == AdjustedIndex(d, c)
           g == Generated
           t == Without(s, c)
           b == Splice(t, a, g)
<1>1. s \in Seq(Parts)
  <2>1. s \in Seq(Items)
    BY SourcesAssumption DEF TypeOK
  <2>2. Items \subseteq Parts
    BY DEF Parts
  <2>3. QED
    BY <2>1, <2>2
<1>2. /\ d \in Indices(s) /\ c \in Indices(s) \cup {None} /\ d # c /\ g \in Seq(Parts)
      /\ Indices(s) \subseteq Nat
  <2>1. d \in Indices(s) /\ c \in Indices(s) \cup {None}
    BY DEF TypeOK
  <2>2. d # c
    BY DEF Found
  <2>3. Indices(s) \subseteq Nat
    BY <1>1 DEF Indices
  <2>4. QED
    BY <2>1, <2>2, <2>3, GeneratedParts
<1>3. body = b
  BY DEF Transformed, Outcome
<1> HIDE DEF s, d, c, g
<1>4. /\ t \in Seq(Parts) /\ Len(t) = Len(s) - IF c = None THEN 0 ELSE 1
      /\ \A i \in Indices(s) \ {c} : AdjustedIndex(i, c) \in Indices(t)
                                     /\ t[AdjustedIndex(i, c)] = s[i]
      /\ \A q \in Indices(t) : \E i \in Indices(s) \ {c} : q = AdjustedIndex(i, c)
  BY <1>1, <1>2, WithoutAt
<1>5. a \in Indices(t) /\ t \in Seq(Parts) /\ g \in Seq(Parts)
  BY <1>2, <1>4
<1> HIDE DEF t, a
<1>6. /\ b \in Seq(Parts) /\ Len(b) = Len(t) - 1 + Len(g)
      /\ \A q \in Indices(t) \ {a} : Moved(q, a, g) \in Indices(b) /\ b[Moved(q, a, g)] = t[q]
      /\ \A k \in Indices(g) : a - 1 + k \in Indices(b) /\ b[a - 1 + k] = g[k]
      /\ \A p \in Indices(b) : \/ \E q \in Indices(t) \ {a} : p = Moved(q, a, g)
                               \/ \E k \in Indices(g) : p = a - 1 + k
  BY <1>5, SplicedAt
<1> HIDE DEF b
<1>7. \A i \in Indices(s) \ {c} : AdjustedIndex(i, c) = a <=> i = d
  BY <1>2, AdjustedOrder DEF a
<1>8. ASSUME NEW i \in Indices(s), i \notin {d, c}
      PROVE  /\ Moved(AdjustedIndex(i, c), a, g) \in Indices(b)
             /\ b[Moved(AdjustedIndex(i, c), a, g)] = s[i]
  BY <1>4, <1>6, <1>7, <1>8
<1>9. ASSUME NEW p \in Indices(b)
      PROVE  \/ \E i \in Indices(s) : i \notin {d, c} /\ p = Moved(AdjustedIndex(i, c), a, g)
             \/ \E k \in Indices(g) : p = a - 1 + k
  <2>1. CASE \E k \in Indices(g) : p = a - 1 + k
    BY <2>1
  <2>2. CASE \E q \in Indices(t) \ {a} : p = Moved(q, a, g)
    <3>1. PICK q \in Indices(t) \ {a} : p = Moved(q, a, g)
      BY <2>2
    <3>2. PICK i \in Indices(s) \ {c} : q = AdjustedIndex(i, c)
      BY <1>4, <3>1
    <3>3. i \notin {d, c}
      BY <1>7, <3>1, <3>2
    <3>4. QED
      BY <3>1, <3>2, <3>3
  <2>3. QED
    BY <1>6, <2>1, <2>2
<1>10. Len(b) = Len(s) - (IF c = None THEN 1 ELSE 2) + Len(g)
  <2>1. Len(s) \in Nat /\ Len(g) \in Nat
    BY <1>1, <1>2
  <2>2. QED
    BY <1>4, <1>6, <2>1
<1>11. QED
  BY <1>1, <1>2, <1>3, <1>5, <1>6, <1>8, <1>9, <1>10 DEF s, d, c, a, g, t

-----------------------------------------------------------------------------
(* A module that is transformed keeps all its other items in their order   *)
(* and has the generated statements where the component was, for every     *)
(* arrangement of the component and the commands among any other items.    *)
THEOREM OthersAlwaysKept == Spec => []OtherItemsKept
<1>1. ASSUME TypeOK, Found, Transformed PROVE OtherItemsKept
  <2> SUFFICES ASSUME Succeeded, default_export_idx # None PROVE OtherItemsKept
    BY DEF OtherItemsKept
  <2> DEFINE s == source
             d == default_export_idx
             c == commands_export_idx
             a == AdjustedIndex(d, c)
             g == Generated
             m == Len(g)
             kept == {i \in Indices(s) : i \notin {d, c}}
             NewIndex(i) == Cardinality({j \in kept : j < i}) + (IF d < i THEN m ELSE 0) + 1
  <2>1. /\ s \in Seq(Parts) /\ d \in Indices(s) /\ d # c
        /\ c \in Indices(s) \cup {None} /\ a \in Indices(Without(s, c))
        /\ Len(body) = Len(s) - (IF c = None THEN 1 ELSE 2) + m
        /\ \A i \in kept : Moved(AdjustedIndex(i, c), a, g) \in Indices(body)
                           /\ body[Moved(AdjustedIndex(i, c), a, g)] = s[i]
        /\ \A k \in Indices(g) : a - 1 + k \in Indices(body) /\ body[a - 1 + k] = g[k]
        /\ body \in Seq(Parts)
    BY <1>1, Places
  <2>2. g \in Seq(Parts) /\ m \in Nat /\ Indices(g) = 1..m
    BY GeneratedParts DEF Indices
  <2>3. /\ Len(s) \in Nat /\ Indices(s) = 1..Len(s) /\ d \in Nat /\ c \in Nat \cup {None}
        /\ None \notin Nat /\ a \in Nat
    BY <2>1, NoneAssumption DEF Indices, AdjustedIndex
  <2> HIDE DEF s, d, c, g, m
  <2>4. ASSUME NEW i \in 1..Len(s)
        PROVE  Cardinality({j \in kept : j < i})
                 = i - 1 - (IF d < i THEN 1 ELSE 0) - (IF c # None /\ c < i THEN 1 ELSE 0)
    <3>1. {j \in kept : j < i} = ((1..(i - 1)) \ {d}) \ {c}
      BY <2>3
    <3>2. i - 1 \in Nat /\ (d \in 1..(i - 1) <=> d < i)
      BY <2>1, <2>3
    <3>3. c \in 1..(i - 1) <=> c # None /\ c < i
      <4>1. CASE c = None
        BY <2>3, <4>1
      <4>2. CASE c # None
        BY <2>1, <2>3, <4>2
      <4>3. QED
        BY <4>1, <4>2
    <3>4. Cardinality(((1..(i - 1)) \ {d}) \ {c})
            = i - 1 - (IF d \in 1..(i - 1) THEN 1 ELSE 0) - (IF c \in 1..(i - 1) THEN 1 ELSE 0)
      BY <2>1, <2>3, <3>2, CountRest
    <3>5. QED
      BY <3>1, <3>2, <3>3, <3>4
  <2>5. ASSUME NEW i \in kept PROVE NewIndex(i) = Moved(AdjustedIndex(i, c), a, g)
    <3>1. i \in 1..Len(s) /\ i \in Nat /\ i # d /\ i # c
      BY <2>3
    <3>2. AdjustedIndex(i, c) < a <=> i < d
      BY <2>1, <2>3, <3>1, AdjustedOrder
    <3>3. Moved(AdjustedIndex(i, c), a, g)
            = IF i < d THEN AdjustedIndex(i, c) ELSE AdjustedIndex(i, c) - 1 + m
      BY <3>2 DEF Moved, m
    <3>4. AdjustedIndex(i, c) = i - IF c # None /\ c < i THEN 1 ELSE 0
      BY <3>1 DEF AdjustedIndex
    <3>5. d < i <=> ~(i < d)
      BY <2>3, <3>1
    <3>6. NewIndex(i) = i - 1 - (IF d < i THEN 1 ELSE 0) - (IF c # None /\ c < i THEN 1 ELSE 0)
                          + (IF d < i THEN m ELSE 0) + 1
      BY <2>4, <3>1
    <3> HIDE DEF NewIndex
    <3>7. QED
      BY <2>2, <3>1, <3>3, <3>4, <3>5, <3>6
  <2>6. NewIndex(d) = a
    <3>1. d \in 1..Len(s) /\ ~(d < d)
      BY <2>1, <2>3
    <3>2. NewIndex(d) = d - 1 - 0 - (IF c # None /\ c < d THEN 1 ELSE 0) + 0 + 1
      BY <2>4, <3>1
    <3>3. a = d - IF c # None /\ c < d THEN 1 ELSE 0
      BY <2>3 DEF AdjustedIndex
    <3> HIDE DEF NewIndex, a
    <3>4. QED
      BY <2>3, <3>2, <3>3
  <2>7. SubSeq(body, a, a + m - 1) = g
    <3> DEFINE u == SubSeq(body, a, a + m - 1)
    <3>1. \A k \in 1..m : a - 1 + k \in Indices(body) /\ body[a - 1 + k] = g[k]
      BY <2>1, <2>2
    <3>2. \A q \in a..(a + m - 1) : body[q] \in Parts
      <4>1. ASSUME NEW q \in a..(a + m - 1) PROVE body[q] \in Parts
        <5>1. q - a + 1 \in 1..m /\ a - 1 + (q - a + 1) = q
          BY <2>2, <2>3
        <5>2. q \in Indices(body)
          BY <3>1, <5>1
        <5>3. QED
          BY <2>1, <5>2 DEF Indices
      <4>2. QED
        BY <4>1
    <3> DEFINE z == a + m - 1
    <3>3. a \in Int /\ z \in Int
      BY <2>2, <2>3
    <3>4. /\ z = a + m - 1
          /\ (IF a <= z THEN z - a + 1 ELSE 0) = m
          /\ 1..(z - a + 1) = 1..m
      BY <2>2, <2>3
    <3> HIDE DEF z, a
    <3>5. /\ SubSeq(body, a, z) \in Seq(Parts)
          /\ Len(SubSeq(body, a, z)) = IF a <= z THEN z - a + 1 ELSE 0
          /\ \A i \in 1..(z - a + 1) : SubSeq(body, a, z)[i] = body[a + i - 1]
      BY <3>2, <3>3, SubSeqProperties DEF z
    <3>6. u = SubSeq(body, a, z)
      BY DEF z
    <3> HIDE DEF u
    <3>7. \A i \in 1..m : a + i - 1 = a - 1 + i
      BY <2>2, <2>3
    <3>8. u \in Seq(Parts) /\ Len(u) = m /\ \A i \in 1..m : u[i] = body[a + i - 1]
      BY <3>4, <3>5, <3>6
    <3>9. \A i \in 1..m : u[i] = g[i]
      BY <3>1, <3>7, <3>8
    <3>10. u = g
      BY <2>2, <3>8, <3>9 DEF m
    <3>11. QED
      BY <3>10 DEF u, a
  <2>8. Len(body) = Cardinality(kept) + m
    <3>1. kept = ((1..Len(s)) \ {d}) \ {c}
      BY <2>3
    <3>2. Cardinality(((1..Len(s)) \ {d}) \ {c})
            = Len(s) - (IF d \in 1..Len(s) THEN 1 ELSE 0) - (IF c \in 1..Len(s) THEN 1 ELSE 0)
      BY <2>1, <2>3, CountRest
    <3>3. d \in 1..Len(s) /\ (c \in 1..Len(s) <=> c # None)
      BY <2>1, <2>3
    <3>4. Cardinality(kept) = Len(s) - 1 - IF c = None THEN 0 ELSE 1
      BY <3>1, <3>2, <3>3
    <3>5. Len(body) = Len(s) - (IF c = None THEN 1 ELSE 2) + m
      BY <2>1
    <3> HIDE DEF kept
    <3>6. QED
      BY <2>2, <2>3, <3>4, <3>5
  <2>9. \A i \in kept : NewIndex(i) \in Indices(body) /\ body[NewIndex(i)] = s[i]
    BY <2>1, <2>5
  <2>10. QED
    BY <2>6, <2>7, <2>8, <2>9 DEF OtherItemsKept, s, d, c, g, m
<1>2. QED
  BY <1>1, VisitorInit, VisitorNext, InitType, StepType, PTL DEF Spec

(* The exports of a transformed module are those it had and the view       *)
(* config, each once, but for what is lost with the commands.              *)
THEOREM ExportsAlwaysPreserved == Spec => []ExportsPreserved
<1>1. ASSUME TypeOK, Found, Transformed PROVE ExportsPreserved
  <2> SUFFICES ASSUME Succeeded, default_export_idx # None PROVE ExportsPreserved
    BY DEF ExportsPreserved
  <2> DEFINE s == source
             d == default_export_idx
             c == commands_export_idx
             a == AdjustedIndex(d, c)
             g == Generated
             view == "__INTERNAL_VIEW_CONFIG"
             kept == {i \in Indices(s) : i \notin {d, c}}
             lost == IF c = None THEN {} ELSE s[c].rest \cup IF HasCommands THEN {} ELSE {"Commands"}
             new == {"default", view} \cup IF HasCommands THEN {"Commands"} ELSE {}
  <2>1. /\ d \in Indices(s) /\ d # c /\ c \in Indices(s) \cup {None}
        /\ \A i \in kept : \E p \in Indices(body) : body[p] = s[i]
        /\ \A k \in Indices(g) : \E p \in Indices(body) : body[p] = g[k]
        /\ \A p \in Indices(body) :
             \/ \E i \in kept : p = Moved(AdjustedIndex(i, c), a, g) /\ body[p] = s[i]
             \/ \E k \in Indices(g) : p = a - 1 + k /\ body[p] = g[k]
    BY <1>1, Places
  <2>2. /\ \A i, j \in Indices(s) : i # j => Exports(s[i]) \cap Exports(s[j]) = {}
        /\ \A i \in Indices(s) : s[i].kind = "var" => s[i].name \notin s[i].rest
        /\ view \notin AllExports(s)
    BY <1>1, ExportsAssumption DEF TypeOK, ExportsOnce
  <2>3. Exports(s[d]) = {"default"}
    BY <1>1 DEF Found, Exports
  <2>4. c # None => Exports(s[c]) = {"Commands"} \cup s[c].rest /\ "Commands" \notin s[c].rest
    BY <1>1, <2>1, <2>2 DEF Found, Exports
  <2>5. HasCommands => c # None
    BY <1>1 DEF Found, HasCommands
  <2>6. /\ Indices(g) = IF HasCommands THEN {1, 2, 3} ELSE {1, 2}
        /\ Exports(g[1]) = {view} /\ Exports(g[2]) = {"default"}
        /\ HasCommands => Exports(g[3]) = {"Commands"}
    <3>1. Indices(g) = IF HasCommands THEN {1, 2, 3} ELSE {1, 2}
      <4>1. 1..3 = {1, 2, 3} /\ 1..2 = {1, 2}
        OBVIOUS
      <4>2. QED
        BY <4>1, GeneratedParts DEF Indices
    <3>2. QED
      BY <3>1, GeneratedParts DEF Exports
  <2>7. /\ \A k \in Indices(g) : Exports(g[k]) \subseteq new
        /\ \A x \in new : \E k \in Indices(g) : x \in Exports(g[k])
        /\ \A k, l \in Indices(g) : k # l => Exports(g[k]) \cap Exports(g[l]) = {}
    BY <2>6
  <2>8. ASSUME NEW i \in kept PROVE Exports(s[i]) \cap new = {}
    <3>1. i \in Indices(s) /\ i # d /\ i # c
      OBVIOUS
    <3>2. "default" \notin Exports(s[i])
      BY <2>1, <2>2, <2>3, <3>1
    <3>3. view \notin Exports(s[i])
      BY <2>2, <3>1 DEF AllExports
    <3>4. HasCommands => "Commands" \notin Exports(s[i])
      BY <2>1, <2>2, <2>4, <2>5, <3>1
    <3>5. QED
      BY <3>2, <3>3, <3>4
  <2> DEFINE K == UNION {Exports(s[i]) : i \in kept}
  <2> HIDE DEF s, d, c, g, a, view
  <2>9. AllExports(body) = K \cup new
    <3> HIDE DEF new
    <3>1. ASSUME NEW x \in AllExports(body) PROVE x \in K \cup new
      <4>1. PICK p \in Indices(body) : x \in Exports(body[p])
        BY <3>1 DEF AllExports
      <4>2. CASE \E i \in kept : body[p] = s[i]
        BY <4>1, <4>2
      <4>3. CASE \E k \in Indices(g) : body[p] = g[k]
        <5>1. PICK k \in Indices(g) : body[p] = g[k]
          BY <4>3
        <5>2. x \in Exports(g[k]) /\ Exports(g[k]) \subseteq new
          BY <2>7, <4>1, <5>1
        <5>3. QED
          BY <5>2
      <4>4. QED
        BY <2>1, <4>2, <4>3
    <3>2. ASSUME NEW i \in kept PROVE Exports(s[i]) \subseteq AllExports(body)
      BY <2>1 DEF AllExports
    <3>3. ASSUME NEW x \in new PROVE x \in AllExports(body)
      <4>1. PICK k \in Indices(g) : x \in Exports(g[k])
        BY <2>7
      <4>2. PICK p \in Indices(body) : body[p] = g[k]
        BY <2>1
      <4>3. QED
        BY <4>1, <4>2 DEF AllExports
    <3>4. K \subseteq AllExports(body)
      BY <3>2
    <3>5. new \subseteq AllExports(body)
      BY <3>3
    <3>6. AllExports(body) \subseteq K \cup new
      BY <3>1
    <3> HIDE DEF K
    <3>7. QED
      BY <3>4, <3>5, <3>6
  <2>10. AllExports(s) = K \cup {"default"} \cup IF c = None THEN {} ELSE Exports(s[c])
    <3>1. None \notin Indices(s)
      BY NoneAssumption DEF Indices
    <3>2. Indices(s) = kept \cup {d} \cup IF c = None THEN {} ELSE {c}
      BY <2>1, <3>1
    <3>3. \A i \in Indices(s) : i \in kept \/ i = d \/ (c # None /\ i = c)
      BY <3>2
    <3>4. ASSUME NEW x \in AllExports(s)
          PROVE  x \in K \/ x = "default" \/ (c # None /\ x \in Exports(s[c]))
      <4>1. PICK i \in Indices(s) : x \in Exports(s[i])
        BY <3>4 DEF AllExports
      <4>2. CASE i \in kept
        BY <4>1, <4>2
      <4>3. CASE i = d
        BY <2>3, <4>1, <4>3
      <4>4. CASE c # None /\ i = c
        BY <4>1, <4>4
      <4>5. QED
        BY <3>3, <4>2, <4>3, <4>4
    <3>5. \A i \in Indices(s) : Exports(s[i]) \subseteq AllExports(s)
      BY DEF AllExports
    <3>6. K \subseteq AllExports(s)
      <4>1. ASSUME NEW x \in K PROVE x \in AllExports(s)
        <5>1. PICK i \in kept : x \in Exports(s[i])
          BY <4>1
        <5>2. QED
          BY <3>5, <5>1
      <4>2. QED
        BY <4>1
    <3>7. {"default"} \subseteq AllExports(s)
      BY <2>1, <2>3, <3>5
    <3>8. c # None => Exports(s[c]) \subseteq AllExports(s)
      BY <2>1, <3>5
    <3> HIDE DEF K
    <3>9. QED
      BY <3>4, <3>6, <3>7, <3>8
  <2>11. AllExports(body) = (AllExports(s) \ lost) \cup {view}
    <3>1. K \cap lost = {} /\ "default" \notin lost
      <4>1. CASE c = None
        BY <4>1
      <4>2. CASE c # None
        <5>1. lost \subseteq Exports(s[c]) /\ c \in Indices(s)
          BY <2>1, <2>4, <4>2
        <5>2. \A i \in kept : Exports(s[i]) \cap Exports(s[c]) = {}
          BY <2>2, <5>1
        <5>3. "default" \notin Exports(s[c])
          BY <2>1, <2>2, <2>3, <5>1
        <5>4. QED
          BY <5>1, <5>2, <5>3
      <4>3. QED
        BY <4>1, <4>2
    <3> HIDE DEF K
    <3>2. QED
      BY <2>4, <2>5, <2>9, <2>10, <3>1
  <2>12. ASSUME NEW p \in Indices(body), NEW q \in Indices(body), p # q
         PROVE  Exports(body[p]) \cap Exports(body[q]) = {}
    <3>1. CASE \E k \in Indices(g), l \in Indices(g) :
                 p = a - 1 + k /\ q = a - 1 + l /\ body[p] = g[k] /\ body[q] = g[l]
      BY <2>7, <2>12, <3>1
    <3>2. CASE \E i \in kept, j \in kept : /\ p = Moved(AdjustedIndex(i, c), a, g) /\ body[p] = s[i]
                                           /\ q = Moved(AdjustedIndex(j, c), a, g) /\ body[q] = s[j]
      BY <2>2, <2>12, <3>2
    <3>3. CASE \E i \in kept, k \in Indices(g) : \/ body[p] = s[i] /\ body[q] = g[k]
                                                 \/ body[q] = s[i] /\ body[p] = g[k]
      BY <2>7, <2>8, <3>3
    <3>4. QED
      BY <2>1, <3>1, <3>2, <3>3
  <2>13. QED
    BY <2>11, <2>12 DEF ExportsPreserved, s, d, c, view
<1>2. QED
  BY <1>1, VisitorInit, VisitorNext, InitType, StepType, PTL DEF Spec
=============================================================================
