-------------------------- MODULE HermesPasses_proofs --------------------------
(***************************************************************************)
(* Proofs about HermesHooks and HermesPasses, for any families of programs *)
(* and any depth.                                                          *)
(*                                                                         *)
(* The combined hook: each of its stacks has one entry for each open node  *)
(* of some kinds, and an entry says something of the program up to its     *)
(* node: how many finalizers of the scope were open before a scope was     *)
(* entered, which accessor super belonged to.  The inductive invariant     *)
(* states this of every entry, not only of the last, so that leaving a     *)
(* node uncovers a true one.                                               *)
(*                                                                         *)
(* The hook and the separate pass on one program: the visitor stays away   *)
(* from a class it has wrapped; its depth and the depths it has saved are  *)
(* then those the hook had at that class.                                  *)
(***************************************************************************)
EXTENDS HermesPasses, FiniteSetTheorems, FunctionTheorems, SequenceTheorems, TLAPS

(* The entries of s are the values v of the members of S, in increasing    *)
(* order.                                                                  *)
Stacked(s, S, v) ==
  \E b \in [1..Len(s) -> S] :
    /\ \A k, l \in 1..Len(s) : k < l => b[k] < b[l]
    /\ \A i \in S : \E k \in 1..Len(s) : b[k] = i
    /\ s = [k \in 1..Len(s) |-> v[b[k]]]

-----------------------------------------------------------------------------
(* Lemmas on stacks.                                                       *)

(* The positions of the entries, given one by one.                         *)
LEMMA StackedBy ==
  ASSUME NEW T, NEW s \in Seq(T), NEW S, NEW v, NEW n \in Nat, Len(s) = n, NEW c \in [1..n -> S],
         \A k, l \in 1..n : k < l => c[k] < c[l],
         \A i \in S : \E k \in 1..n : c[k] = i,
         \A k \in 1..n : s[k] = v[c[k]]
  PROVE  Stacked(s, S, v)
<1>1. s = [k \in 1..n |-> v[c[k]]]
  OBVIOUS
<1> QED
  BY <1>1 DEF Stacked

(* A stack for no position is empty.                                       *)
LEMMA StackedEmpty == ASSUME NEW v PROVE Stacked(<< >>, {}, v)
<1> DEFINE b == [k \in 1..Len(<< >>) |-> 0]
<1>1. Len(<< >>) = 0 /\ 1..0 = {}
  OBVIOUS
<1>2. b \in [1..Len(<< >>) -> {}] /\ << >> = [k \in 1..Len(<< >>) |-> v[b[k]]]
  BY <1>1
<1> QED
  BY <1>1, <1>2 DEF Stacked

(* Only the values of the members matter.                                  *)
LEMMA StackedSame ==
  ASSUME NEW T, NEW s \in Seq(T), NEW S, NEW v, NEW w, Stacked(s, S, v), \A i \in S : w[i] = v[i]
  PROVE  Stacked(s, S, w)
<1>1. PICK b \in [1..Len(s) -> S] :
        /\ \A k, l \in 1..Len(s) : k < l => b[k] < b[l]
        /\ \A i \in S : \E k \in 1..Len(s) : b[k] = i
        /\ s = [k \in 1..Len(s) |-> v[b[k]]]
  BY DEF Stacked
<1>2. s = [k \in 1..Len(s) |-> w[b[k]]]
  BY <1>1
<1> QED
  BY <1>1, <1>2 DEF Stacked

(* A new entry for a position after all others.                            *)
LEMMA StackedPush ==
  ASSUME NEW T, NEW s \in Seq(T), NEW x \in T, NEW d \in Nat,
         NEW S \in SUBSET (1..(d - 1)), NEW v, NEW w,
         Stacked(s, S, v), \A i \in S : w[i] = v[i], w[d] = x
  PROVE  Stacked(Append(s, x), S \cup {d}, w)
<1>1. PICK b \in [1..Len(s) -> S] :
        /\ \A k, l \in 1..Len(s) : k < l => b[k] < b[l]
        /\ \A i \in S : \E k \in 1..Len(s) : b[k] = i
        /\ s = [k \in 1..Len(s) |-> v[b[k]]]
  BY DEF Stacked
<1> DEFINE n == Len(s)
           c == [k \in 1..(n + 1) |-> IF k = n + 1 THEN d ELSE b[k]]
<1>2. n \in Nat /\ Len(Append(s, x)) = n + 1 /\ n + 1 \in 1..(n + 1)
  OBVIOUS
<1>3. c \in [1..(n + 1) -> S \cup {d}]
  BY <1>1, <1>2
<1>4. ASSUME NEW k \in 1..(n + 1), NEW l \in 1..(n + 1), k < l PROVE c[k] < c[l]
  <2>1. k \in 1..n /\ k # n + 1
    BY <1>2, <1>4
  <2>a. b[k] \in S /\ b[k] \in 1..(d - 1)
    BY <2>1
  <2>2. b[k] \in S /\ b[k] < d /\ c[k] = b[k]
    BY <2>1, <2>a
  <2>3. l = n + 1 \/ l \in 1..n
    BY <1>2
  <2> QED
    BY <1>1, <1>4, <2>1, <2>2, <2>3
<1>5. ASSUME NEW i \in S \cup {d} PROVE \E k \in 1..(n + 1) : c[k] = i
  <2>1. CASE i = d
    BY <1>2, <2>1
  <2>2. CASE i \in S
    <3>1. PICK k \in 1..n : b[k] = i
      BY <1>1, <2>2
    <3>2. k \in 1..(n + 1) /\ k # n + 1
      BY <1>2
    <3> QED
      BY <3>1, <3>2
  <2> QED
    BY <1>5, <2>1, <2>2
<1>6. ASSUME NEW k \in 1..(n + 1) PROVE Append(s, x)[k] = w[c[k]]
  <2>1. CASE k = n + 1
    BY <1>2, <2>1
  <2>2. CASE k # n + 1
    <3>1. k \in 1..n /\ c[k] = b[k] /\ b[k] \in S
      BY <1>1, <1>2, <2>2
    <3>2. Append(s, x)[k] = s[k] /\ s[k] = v[b[k]]
      BY <1>1, <3>1
    <3> QED
      BY <3>1, <3>2
  <2> QED
    BY <2>1, <2>2
<1>7. Append(s, x) \in Seq(T) /\ n + 1 \in Nat
  BY <1>2
<1> HIDE DEF c, n
<1> QED
  BY <1>2, <1>3, <1>4, <1>5, <1>6, <1>7, StackedBy

(* The last entry is that of the greatest position; without it the stack   *)
(* is for the others.                                                      *)
LEMMA StackedPop ==
  ASSUME NEW T, NEW s \in Seq(T), NEW d \in Nat, NEW S \in SUBSET (1..d), d \in S, NEW v,
         Stacked(s, S, v)
  PROVE  /\ s # << >> /\ Len(s) \in 1..Len(s) /\ Last(s) = v[d]
         /\ Front(s) \in Seq(T) /\ Len(Front(s)) = Len(s) - 1
         /\ Stacked(Front(s), S \ {d}, v)
<1>1. PICK b \in [1..Len(s) -> S] :
        /\ \A k, l \in 1..Len(s) : k < l => b[k] < b[l]
        /\ \A i \in S : \E k \in 1..Len(s) : b[k] = i
        /\ s = [k \in 1..Len(s) |-> v[b[k]]]
  BY DEF Stacked
<1> DEFINE n == Len(s)
           c == [k \in 1..(n - 1) |-> b[k]]
<1>2. n \in Nat /\ \E k \in 1..n : b[k] = d
  BY <1>1
<1>3. n \in Nat \ {0} /\ n \in 1..n /\ n - 1 \in Nat
  BY <1>2
<1>4. b[n] = d
  <2>1. PICK k \in 1..n : b[k] = d
    BY <1>2
  <2>2. k < n => b[n] > d
    BY <1>1, <1>3, <2>1
  <2>3. b[n] \in 1..d
    BY <1>1, <1>3
  <2> QED
    BY <1>3, <2>1, <2>2, <2>3
<1>5. s # << >> /\ Last(s) = v[d]
  BY <1>1, <1>3, <1>4 DEF Last
<1>6. /\ Front(s) \in Seq(T) /\ Len(Front(s)) = n - 1
      /\ \A k \in 1..(n - 1) : Front(s)[k] = s[k]
  <2>1. Front(s) = [k \in 1..(n - 1) |-> s[k]]
    BY <1>3 DEF Front
  <2>2. \A k \in 1..(n - 1) : s[k] \in T
    BY <1>3
  <2> QED
    BY <1>3, <2>1, <2>2
<1>7. \A k \in 1..(n - 1) : k \in 1..n /\ k < n /\ b[k] \in S \ {d}
  BY <1>1, <1>3, <1>4
<1>8. c \in [1..(n - 1) -> S \ {d}]
  BY <1>7
<1>9. \A k, l \in 1..(n - 1) : k < l => c[k] < c[l]
  BY <1>1, <1>7
<1>10. ASSUME NEW i \in S \ {d} PROVE \E k \in 1..(n - 1) : c[k] = i
  <2>1. PICK k \in 1..n : b[k] = i
    BY <1>1
  <2>2. k \in 1..(n - 1)
    BY <1>3, <1>4, <2>1
  <2> QED
    BY <2>1, <2>2
<1>11. \A k \in 1..(n - 1) : Front(s)[k] = v[c[k]]
  BY <1>1, <1>6, <1>7
<1>12. Stacked(Front(s), S \ {d}, v)
  <2> HIDE DEF c
  <2> QED
    BY <1>3, <1>6, <1>8, <1>9, <1>10, <1>11, StackedBy
<1> QED
  BY <1>3, <1>5, <1>6, <1>12

(* The entry of the greatest position, alone.                              *)
LEMMA StackedLast ==
  ASSUME NEW T, NEW s \in Seq(T), NEW d \in Nat, NEW S \in SUBSET (1..d), d \in S, NEW v,
         Stacked(s, S, v)
  PROVE  s # << >> /\ Last(s) = v[d]
BY StackedPop

(* An entry of another value for the greatest position.                    *)
LEMMA StackedTop ==
  ASSUME NEW T, NEW s \in Seq(T), NEW x \in T, NEW d \in Nat, NEW S \in SUBSET (1..d), d \in S,
         NEW v, NEW w, Stacked(s, S, v), \A i \in S \ {d} : w[i] = v[i], w[d] = x
  PROVE  Stacked([s EXCEPT ![Len(s)] = x], S, w)
<1> DEFINE t == [s EXCEPT ![Len(s)] = x]
<1>1. /\ s # << >> /\ Len(s) \in 1..Len(s) /\ Front(s) \in Seq(T) /\ Len(Front(s)) = Len(s) - 1
      /\ Stacked(Front(s), S \ {d}, v)
  BY StackedPop
<1>2. Stacked(Append(Front(s), x), (S \ {d}) \cup {d}, w)
  <2>1. S \ {d} \in SUBSET (1..(d - 1))
    <3> SUFFICES ASSUME NEW i \in S, i # d PROVE i \in 1..(d - 1)
      OBVIOUS
    <3>1. i \in Nat /\ 1 <= i /\ i <= d
      OBVIOUS
    <3> QED
      BY <3>1
  <2> QED
    BY <1>1, <2>1, StackedPush
<1>3. t = Append(Front(s), x)
  <2>1. t \in Seq(T) /\ Len(t) = Len(s) /\ t[Len(s)] = x
        /\ \A k \in 1..(Len(s) - 1) : t[k] = s[k]
    BY <1>1
  <2>2. \A k \in 1..(Len(s) - 1) : Front(s)[k] = s[k]
    BY <1>1 DEF Front
  <2>3. Append(Front(s), x) \in Seq(T) /\ Len(Append(Front(s), x)) = Len(s)
        /\ Append(Front(s), x)[Len(s)] = x
        /\ \A k \in 1..(Len(s) - 1) : Append(Front(s), x)[k] = s[k]
    BY <1>1, <2>2
  <2>4. \A k \in 1..Len(s) : t[k] = Append(Front(s), x)[k]
    BY <1>1, <2>1, <2>3
  <2> QED
    BY <2>1, <2>3, <2>4, SeqEqual
<1> QED
  BY <1>2, <1>3

(* The length of a stack is the number of positions.                       *)
LEMMA StackedLength ==
  ASSUME NEW T, NEW s \in Seq(T), NEW S \in SUBSET Nat, NEW v, Stacked(s, S, v)
  PROVE  Len(s) = Cardinality(S)
<1>1. PICK b \in [1..Len(s) -> S] :
        /\ \A k, l \in 1..Len(s) : k < l => b[k] < b[l]
        /\ \A i \in S : \E k \in 1..Len(s) : b[k] = i
  BY DEF Stacked
<1>2. \A k, l \in 1..Len(s) : b[k] = b[l] => k = l
  <2> SUFFICES ASSUME NEW k \in 1..Len(s), NEW l \in 1..Len(s), k # l PROVE b[k] # b[l]
    OBVIOUS
  <2>1. b[k] \in Nat /\ b[l] \in Nat
    BY <1>1
  <2>2. k < l \/ l < k
    OBVIOUS
  <2> QED
    BY <1>1, <2>1, <2>2
<1>3. b \in Bijection(1..Len(s), S)
  BY <1>1, <1>2, Fun_IsBij
<1>4. ExistsBijection(1..Len(s), S)
  BY <1>3 DEF ExistsBijection
<1> QED
  BY <1>4, FS_CountingElements

(* The entries of a stack are values of its positions.                     *)
LEMMA StackedType ==
  ASSUME NEW T, NEW s \in Seq(T), NEW S, NEW v, Stacked(s, S, v), NEW U, \A i \in S : v[i] \in U
  PROVE  s \in Seq(U)
<1>1. PICK b \in [1..Len(s) -> S] : s = [k \in 1..Len(s) |-> v[b[k]]]
  BY DEF Stacked
<1> QED
  BY <1>1


-----------------------------------------------------------------------------
(* What the stacks mean, in terms of a path s and the wrapped positions w. *)

KindsAt(s, K) == {i \in 1..Len(s) : s[i].kind \in K}

Bounds(s, w, i) == s[i].kind \in HookScopes \/ i \in w
BoundsAt(s, w)  == {i \in 1..Len(s) : Bounds(s, w, i)}

(* The finalizers that position p stands in, in its own scope.             *)
FinalizersAt(s, w, p) ==
  {i \in 1..(p - 1) : s[i].kind = "finalizer" /\ \A j \in i..(p - 1) : ~Bounds(s, w, j)}

DepthsOf(s, w) == [i \in 1..Len(s) |-> Cardinality(FinalizersAt(s, w, i))]

(* The accessor whose body position p stands in, without a node between    *)
(* that hides its super.                                                   *)
OwnersAt(s, p) ==
  {i \in 1..(p - 3) : /\ s[i].kind \in Accessors /\ s[i + 2].kind = "accessorBody"
                      /\ \A j \in (i + 3)..(p - 1) : s[j].kind \notin Opaque}

SuperAt(s, p) == IF OwnersAt(s, p) = {} THEN "none"
                 ELSE IF \E i \in OwnersAt(s, p) : s[i].super THEN "true" ELSE "false"

SupersOf(s) == [i \in 1..Len(s) |-> SuperAt(s, i)]

BodyOpen(s, i) == i + 2 <= Len(s) /\ s[i + 2].kind = "accessorBody"

FinalizersOf(s) == [i \in 1..Len(s) |-> IF s[i].kind = "tryFinally" THEN i ELSE None]
AccessorsOf(s)  == [i \in 1..Len(s) |-> [body_address |-> i, found |-> s[i].super /\ ~BodyOpen(s, i)]]

Found == {"none", "false", "true"}

Types ==
  /\ program \in Programs
  /\ path \in Seq(Node) /\ Depth <= program.depth
  /\ wrapped \subseteq Positions
  /\ left \in [kind : AllKinds \cup {"none"}, rewritten : BOOLEAN]
  /\ scope_depths \in Seq(Nat)
  /\ finalizers \in Seq(Nat \cup {None})
  /\ scopes \in Seq(Found)
  /\ accessors \in Seq([body_address : Nat, found : BOOLEAN])

(* The nodes of s are nested as the grammar says.                          *)
Grammar(s) ==
  /\ \A i \in 1..Len(s) : i = 1 => s[i].kind \in Statements
  /\ \A i \in 1..Len(s) : i # 1 => /\ s[i].kind \in Below(s[i - 1].kind)
                                   /\ s[i].kind \in Parts => s[i - 1].complete

(* An accessor has a body with super only if its function and the body in  *)
(* it have been entered.                                                   *)
BodiesEntered(s) ==
  \A i \in 1..Len(s) : s[i].super =>
    /\ s[i].complete
    /\ i + 1 <= Len(s) /\ s[i + 1].kind = "accessorFunction" => s[i + 1].complete

WellFormed ==
  /\ Grammar(path) /\ BodiesEntered(path)
  /\ \A i \in wrapped : path[i].kind \in {"classDecl", "classExpr"}

ScopeInv ==
  /\ finalizer_depth = Cardinality(FinalizersAt(path, wrapped, Depth + 1))
  /\ Stacked(scope_depths, BoundsAt(path, wrapped), DepthsOf(path, wrapped))

TryInv == Stacked(finalizers, KindsAt(path, TryKinds), FinalizersOf(path))

SuperInv ==
  /\ direct_super = SuperAt(path, Depth + 1)
  /\ Stacked(scopes, KindsAt(path, Opaque), SupersOf(path))

AccessorInv == Stacked(accessors, KindsAt(path, Accessors), AccessorsOf(path))

HInv == Types /\ WellFormed /\ ScopeInv /\ TryInv /\ SuperInv /\ AccessorInv

-----------------------------------------------------------------------------
(* Lemmas on the path.                                                     *)

(* The parts of a try and of an accessor stand where they belong.          *)
LEMMA BelowFacts ==
  ASSUME NEW x \in AllKinds
  PROVE  /\ "finalizer" \in Below(x) => x = "tryFinally"
         /\ "accessorFunction" \in Below(x) => x \in Accessors
         /\ "accessorBody" \in Below(x) => x = "accessorFunction"
         /\ {"finalizer", "accessorFunction", "accessorBody"} \cap Statements = {}
         /\ Below(x) \subseteq AllKinds /\ Statements \subseteq AllKinds
BY DEF Below, AllKinds, Statements, Expressions, Accessors, Classes, Parts

(* Entering a node.                                                        *)
LEMMA EnterFacts ==
  ASSUME Types, NEW k, EnterNode(k)
  PROVE  /\ Depth \in Nat /\ path' \in Seq(Node) /\ Len(path') = Depth + 1 /\ Depth + 1 <= program.depth
         /\ k \in AllKinds /\ path'[Depth + 1] = [kind |-> k, complete |-> FALSE, super |-> FALSE]
         /\ \A i \in 1..Depth :
              /\ path'[i].kind = path[i].kind /\ path'[i].super = path[i].super
              /\ path[i].complete => path'[i].complete
              /\ i = Depth /\ k \in Parts => path'[i].complete
         /\ Depth = 0 => k \in Statements
         /\ Depth # 0 => /\ k \in Below(path[Depth].kind)
                         /\ path[Depth].complete => k \notin Parts \/ path[Depth].kind = "members"
         /\ program' = program
<1>1. path \in Seq(Node) /\ Depth \in Nat /\ \A i \in 1..Depth : path[i] \in Node
  BY DEF Types, Depth
<1>2. /\ path = << >> => k \in Statements
      /\ path # << >> => k \in Below(Inner.kind)
      /\ path # << >> /\ Inner.complete => (k \in Parts => Inner.kind = "members")
      /\ Depth + Levels(k) <= program.depth
  BY DEF EnterNode, MayEnter
<1>3. path # << >> => Depth \in 1..Depth /\ Inner \in Node /\ Inner = path[Depth]
  BY <1>1 DEF Depth, Inner
<1>4. k \in AllKinds
  BY <1>2, <1>3, BelowFacts DEF Node, AllKinds
<1>5. Levels(k) \in Nat \ {0}
  BY DEF Levels
<1>6. program.depth \in Nat
  BY ProgramAssumption DEF Types, Family
<1> DEFINE above == IF path # << >> /\ k \in Parts THEN [path EXCEPT ![Depth].complete = TRUE] ELSE path
           n == [kind |-> k, complete |-> FALSE, super |-> FALSE]
<1>7. /\ above \in Seq(Node) /\ Len(above) = Depth
      /\ \A i \in 1..Depth : /\ above[i].kind = path[i].kind /\ above[i].super = path[i].super
                             /\ path[i].complete => above[i].complete
                             /\ i = Depth /\ k \in Parts => above[i].complete
  <2>1. CASE path # << >> /\ k \in Parts
    <3>1. above = [path EXCEPT ![Depth] = [path[Depth] EXCEPT !.complete = TRUE]]
      BY <2>1
    <3>2. [path[Depth] EXCEPT !.complete = TRUE] \in Node
      BY <1>3, <2>1 DEF Node
    <3>3. above \in Seq(Node) /\ Len(above) = Depth
      BY <1>1, <1>3, <2>1, <3>1, <3>2 DEF Depth
    <3>4. ASSUME NEW i \in 1..Depth
          PROVE /\ above[i].kind = path[i].kind /\ above[i].super = path[i].super
                /\ path[i].complete => above[i].complete
                /\ i = Depth => above[i].complete
      BY <1>1, <2>1, <3>1 DEF Depth, Node
    <3> QED
      BY <3>3, <3>4
  <2>2. CASE ~(path # << >> /\ k \in Parts)
    <3>1. above = path
      BY <2>2
    <3>2. path = << >> => 1..Depth = {}
      BY DEF Depth
    <3> QED
      BY <1>1, <2>2, <3>1, <3>2 DEF Depth
  <2> QED
    BY <2>1, <2>2
<1>8. path' = Append(above, n) /\ n \in Node /\ program' = program
  BY <1>4 DEF EnterNode, Node
<1>9. /\ path' \in Seq(Node) /\ Len(path') = Depth + 1 /\ path'[Depth + 1] = n
      /\ \A i \in 1..Depth : path'[i] = above[i]
  <2> HIDE DEF above, n
  <2> QED
    BY <1>1, <1>7, <1>8
<1>10. (Depth = 0) <=> (path = << >>)
  BY <1>1 DEF Depth
<1> HIDE DEF above
<1>11. Depth + 1 <= program.depth
  BY <1>1, <1>2, <1>5, <1>6
<1>12. \A i \in 1..Depth : /\ path'[i].kind = path[i].kind /\ path'[i].super = path[i].super
                           /\ path[i].complete => path'[i].complete
                           /\ i = Depth /\ k \in Parts => path'[i].complete
  BY <1>7, <1>9
<1>13. /\ Depth = 0 => k \in Statements
       /\ Depth # 0 => /\ k \in Below(path[Depth].kind)
                       /\ path[Depth].complete => k \notin Parts \/ path[Depth].kind = "members"
  BY <1>2, <1>3, <1>10
<1>14. /\ path' \in Seq(Node) /\ Len(path') = Depth + 1
       /\ path'[Depth + 1] = [kind |-> k, complete |-> FALSE, super |-> FALSE]
  BY <1>9
<1>15. Depth \in Nat /\ program' = program
  BY <1>1, <1>8
<1> HIDE DEF n
<1> QED
  BY <1>4, <1>11, <1>12, <1>13, <1>14, <1>15

(* Leaving a node.                                                         *)
LEMMA LeaveFacts ==
  ASSUME Types, LeaveNode
  PROVE  /\ Depth \in Nat \ {0} /\ path' \in Seq(Node) /\ Len(path') = Depth - 1
         /\ \A i \in 1..(Depth - 1) : path'[i] = path[i]
         /\ Inner = path[Depth] /\ Inner \in Node
         /\ program' = program
<1>1. path \in Seq(Node) /\ path # << >> /\ path' = Front(path) /\ program' = program
  BY DEF Types, LeaveNode
<1>2. Depth \in Nat \ {0} /\ Depth \in 1..Depth /\ \A i \in 1..Depth : path[i] \in Node
  BY <1>1 DEF Depth
<1>3. path' = [i \in 1..(Depth - 1) |-> path[i]]
  BY <1>1, <1>2 DEF Front, Depth
<1>4. path' \in Seq(Node) /\ Len(path') = Depth - 1
  BY <1>2, <1>3
<1> QED
  BY <1>1, <1>2, <1>3, <1>4 DEF Inner

(* Two paths with nodes of the same kinds in the first n positions.        *)
SameKinds(s, t, n) == \A i \in 1..n : t[i].kind = s[i].kind

(* ... and with the same scopes.                                           *)
SameScopes(s, w, t, y, n) == SameKinds(s, t, n) /\ \A i \in 1..n : Bounds(t, y, i) <=> Bounds(s, w, i)

(* The positions of the nodes of some kinds after a node is entered or     *)
(* left.                                                                   *)
LEMMA KindsEnter ==
  ASSUME NEW s \in Seq(Node), NEW t \in Seq(Node), Len(t) = Len(s) + 1, SameKinds(s, t, Len(s)), NEW K
  PROVE  /\ KindsAt(t, K) = KindsAt(s, K) \cup IF t[Len(s) + 1].kind \in K THEN {Len(s) + 1} ELSE {}
         /\ KindsAt(s, K) \in SUBSET (1..Len(s))
<1>1. Len(s) \in Nat /\ 1..Len(t) = 1..Len(s) \cup {Len(s) + 1} /\ Len(s) + 1 \notin 1..Len(s)
  OBVIOUS
<1> QED
  BY <1>1 DEF KindsAt, SameKinds

(* Leaving a node takes its position, and no other, from those of a set of *)
(* kinds.                                                                  *)
LEMMA KindsLeave ==
  ASSUME NEW s \in Seq(Node), NEW t \in Seq(Node), s # << >>, Len(t) = Len(s) - 1,
         SameKinds(s, t, Len(t)), NEW K
  PROVE  /\ KindsAt(t, K) = KindsAt(s, K) \ {Len(s)}
         /\ Len(s) \in KindsAt(s, K) <=> s[Len(s)].kind \in K
         /\ KindsAt(s, K) \in SUBSET (1..Len(s))
<1>1. Len(s) \in Nat \ {0} /\ 1..Len(t) = 1..Len(s) \ {Len(s)}
  OBVIOUS
<1> QED
  BY <1>1 DEF KindsAt, SameKinds

(* Entering a node adds its position to the bounds of scopes if it is one. *)
LEMMA BoundsEnter ==
  ASSUME NEW s \in Seq(Node), NEW t \in Seq(Node), Len(t) = Len(s) + 1, SameKinds(s, t, Len(s)),
         NEW w \in SUBSET (1..Len(s)), NEW y, w \subseteq y, y \subseteq w \cup {Len(s) + 1}
  PROVE  /\ SameScopes(s, w, t, y, Len(s))
         /\ Bounds(t, y, Len(s) + 1) <=> t[Len(s) + 1].kind \in HookScopes \/ Len(s) + 1 \in y
         /\ BoundsAt(t, y) = BoundsAt(s, w) \cup IF Bounds(t, y, Len(s) + 1) THEN {Len(s) + 1} ELSE {}
<1>1. Len(s) \in Nat /\ 1..Len(t) = 1..Len(s) \cup {Len(s) + 1} /\ Len(s) + 1 \notin 1..Len(s)
  OBVIOUS
<1>2. \A i \in 1..Len(s) : Bounds(t, y, i) <=> Bounds(s, w, i)
  BY <1>1 DEF Bounds, SameKinds
<1>3. Bounds(t, y, Len(s) + 1) <=> t[Len(s) + 1].kind \in HookScopes \/ Len(s) + 1 \in y
  BY <1>1 DEF Bounds
<1>4. BoundsAt(t, y) = BoundsAt(s, w) \cup IF Bounds(t, y, Len(s) + 1) THEN {Len(s) + 1} ELSE {}
  BY <1>1, <1>2 DEF BoundsAt
<1> QED
  BY <1>2, <1>3, <1>4 DEF SameScopes

(* Leaving a node takes its position from the bounds of scopes.            *)
LEMMA BoundsLeave ==
  ASSUME NEW s \in Seq(Node), NEW t \in Seq(Node), s # << >>, Len(t) = Len(s) - 1,
         SameKinds(s, t, Len(t)), NEW w, NEW y, y = w \ {Len(s)}
  PROVE  /\ SameScopes(s, w, t, y, Len(t))
         /\ BoundsAt(t, y) = BoundsAt(s, w) \ {Len(s)}
         /\ Len(s) \in BoundsAt(s, w) <=> Bounds(s, w, Len(s))
<1>1. Len(s) \in Nat \ {0} /\ 1..Len(t) = 1..Len(s) \ {Len(s)}
  OBVIOUS
<1>2. \A i \in 1..Len(t) : Bounds(t, y, i) <=> Bounds(s, w, i)
  BY <1>1 DEF Bounds, SameKinds
<1>3. BoundsAt(t, y) = BoundsAt(s, w) \ {Len(s)}
  BY <1>1, <1>2 DEF BoundsAt
<1>4. Len(s) \in BoundsAt(s, w) <=> Bounds(s, w, Len(s))
  BY <1>1 DEF BoundsAt
<1> QED
  BY <1>2, <1>3, <1>4 DEF SameScopes

(* The finalizers around a position: finitely many, told by the nodes      *)
(* before it, and known from those around the position before.             *)
LEMMA FinalizersFinite ==
  ASSUME NEW s, NEW w, NEW p \in Nat
  PROVE  IsFiniteSet(FinalizersAt(s, w, p)) /\ Cardinality(FinalizersAt(s, w, p)) \in Nat
<1>1. IsFiniteSet(1..(p - 1)) /\ FinalizersAt(s, w, p) \in SUBSET (1..(p - 1))
  BY FS_Interval DEF FinalizersAt
<1> QED
  BY <1>1, FS_Subset, FS_CardinalityType

(* The finalizers counted at a position depend on what is before it only.  *)
LEMMA FinalizersSame ==
  ASSUME NEW s, NEW w, NEW t, NEW y, NEW n \in Nat, SameScopes(s, w, t, y, n), NEW p \in 1..(n + 1)
  PROVE  FinalizersAt(t, y, p) = FinalizersAt(s, w, p)
<1>1. 1..(p - 1) \subseteq 1..n /\ \A i \in 1..(p - 1) : i..(p - 1) \subseteq 1..n
  OBVIOUS
<1> QED
  BY <1>1 DEF FinalizersAt, SameScopes, SameKinds

(* One position further: a scope starts a new count, a finalizer is one    *)
(* more.                                                                   *)
LEMMA FinalizersNext ==
  ASSUME NEW s, NEW w, NEW p \in Nat \ {0}
  PROVE  /\ Bounds(s, w, p) => FinalizersAt(s, w, p + 1) = {}
         /\ ~Bounds(s, w, p) /\ s[p].kind = "finalizer" =>
              FinalizersAt(s, w, p + 1) = FinalizersAt(s, w, p) \cup {p}
         /\ ~Bounds(s, w, p) /\ s[p].kind # "finalizer" =>
              FinalizersAt(s, w, p + 1) = FinalizersAt(s, w, p)
         /\ p \notin FinalizersAt(s, w, p)
<1>1. p + 1 - 1 = p /\ 1..p = 1..(p - 1) \cup {p} /\ p \notin 1..(p - 1)
      /\ \A i \in 1..(p - 1) : i..p = i..(p - 1) \cup {p}
      /\ p..p = {p}
  OBVIOUS
<1>2. Bounds(s, w, p) => FinalizersAt(s, w, p + 1) = {}
  BY <1>1 DEF FinalizersAt
<1>3. ASSUME ~Bounds(s, w, p), NEW i \in 1..(p - 1)
      PROVE  i \in FinalizersAt(s, w, p + 1) <=> i \in FinalizersAt(s, w, p)
  BY <1>1, <1>3 DEF FinalizersAt
<1>4. ~Bounds(s, w, p) => (p \in FinalizersAt(s, w, p + 1) <=> s[p].kind = "finalizer")
  BY <1>1 DEF FinalizersAt
<1>5. FinalizersAt(s, w, p + 1) \subseteq 1..p /\ FinalizersAt(s, w, p) \subseteq 1..(p - 1)
  BY <1>1 DEF FinalizersAt
<1> QED
  BY <1>1, <1>2, <1>3, <1>4, <1>5

(* So is their number.                                                     *)
LEMMA DepthNext ==
  ASSUME NEW s, NEW w, NEW p \in Nat \ {0}
  PROVE  Cardinality(FinalizersAt(s, w, p + 1)) =
           IF Bounds(s, w, p) THEN 0
           ELSE Cardinality(FinalizersAt(s, w, p)) + IF s[p].kind = "finalizer" THEN 1 ELSE 0
<1>1. /\ IsFiniteSet(FinalizersAt(s, w, p)) /\ Cardinality(FinalizersAt(s, w, p)) \in Nat
      /\ p \notin FinalizersAt(s, w, p)
  BY FinalizersFinite, FinalizersNext
<1>2. Cardinality(FinalizersAt(s, w, p) \cup {p}) = Cardinality(FinalizersAt(s, w, p)) + 1
  BY <1>1, FS_AddElement
<1>3. CASE Bounds(s, w, p)
  <2>1. FinalizersAt(s, w, p + 1) = {}
    BY <1>3, FinalizersNext
  <2> QED
    BY <1>3, <2>1, FS_EmptySet
<1>4. CASE ~Bounds(s, w, p) /\ s[p].kind = "finalizer"
  <2>1. FinalizersAt(s, w, p + 1) = FinalizersAt(s, w, p) \cup {p}
    BY <1>4, FinalizersNext
  <2> QED
    BY <1>2, <1>4, <2>1
<1>5. CASE ~Bounds(s, w, p) /\ s[p].kind # "finalizer"
  <2>1. FinalizersAt(s, w, p + 1) = FinalizersAt(s, w, p)
    BY <1>5, FinalizersNext
  <2> QED
    BY <1>1, <1>5, <2>1
<1> QED
  BY <1>3, <1>4, <1>5

-----------------------------------------------------------------------------
(* ClassInFinallyHook.                                                     *)

(* A block is recognised as a finalizer if and only if it is one.          *)
LEMMA FinalizerRecognised ==
  ASSUME Types, TryInv, NEW k \in BlockKinds, NEW i \in Nat, KindsAt(path, TryKinds) \subseteq 1..(i - 1),
         k = "finalizer" => i - 1 \in KindsAt(path, TryKinds) /\ path[i - 1].kind = "tryFinally"
  PROVE  IsFinalizer(k, i) <=> k = "finalizer"
<1> DEFINE S == KindsAt(path, TryKinds)
<1>1. finalizers \in Seq(Nat \cup {None}) /\ Stacked(finalizers, S, FinalizersOf(path))
  BY DEF Types, TryInv
<1>2. S \subseteq 1..Len(path)
  BY DEF KindsAt
<1>3. CASE k = "finalizer"
  <2>1. i - 1 \in S /\ i - 1 \in Nat /\ S \in SUBSET (1..(i - 1))
    BY <1>2, <1>3
  <2>2. finalizers # << >> /\ Last(finalizers) = FinalizersOf(path)[i - 1]
    <3> DEFINE v == FinalizersOf(path)
               d == i - 1
               T == Nat \cup {None}
    <3>1. /\ finalizers \in Seq(T) /\ d \in Nat /\ S \in SUBSET (1..d) /\ d \in S
          /\ Stacked(finalizers, S, v)
      BY <1>1, <2>1
    <3> HIDE DEF S, v, d, T
    <3>3. finalizers # << >> /\ Last(finalizers) = v[d]
      BY ONLY <3>1, StackedLast
    <3> QED
      BY <3>3 DEF v, d
  <2>3. FinalizersOf(path)[i - 1] = i - 1
    BY <1>2, <1>3, <2>1 DEF FinalizersOf
  <2> QED
    BY <1>3, <2>2, <2>3 DEF IsFinalizer, Address
<1>4. CASE k # "finalizer"
  <2>1. \A j \in S : FinalizersOf(path)[j] \in 1..(i - 1) \cup {None}
    BY <1>2 DEF FinalizersOf
  <2>2. finalizers \in Seq(1..(i - 1) \cup {None})
    <3> HIDE DEF S
    <3> QED
      BY <1>1, <2>1, StackedType
  <2>3. finalizers # << >> => Last(finalizers) \in 1..(i - 1) \cup {None}
    BY <2>2 DEF Last
  <2>4. Address(k, i) = i
    BY <1>4 DEF Address, BlockKinds
  <2> QED
    BY <1>4, <2>3, <2>4, NoneAssumption DEF IsFinalizer
<1> QED
  BY <1>3, <1>4

(* The kinds that the hook tells apart.                                    *)
LEMMA HookKinds ==
  /\ TryKinds \cap (BlockKinds \cup HookScopes \cup {"classDecl", "classExpr", "finalizer"}) = {}
  /\ BlockKinds \cap (HookScopes \cup {"classDecl", "classExpr"}) = {}
  /\ "finalizer" \in BlockKinds /\ "finalizer" \notin HookScopes
  /\ HookScopes \cap {"classDecl", "classExpr"} = {}
  /\ HookScopes = Fixes!ScopeKinds
BY DEF TryKinds, BlockKinds, HookScopes, Fixes!ScopeKinds, Fixes!Accessors

(* The saved depths are told by the nodes and scopes before them.          *)
LEMMA DepthsSame ==
  ASSUME NEW s \in Seq(Node), NEW t \in Seq(Node), NEW w, NEW y, NEW n \in Nat,
         SameScopes(s, w, t, y, n), n <= Len(s), n <= Len(t)
  PROVE  /\ \A i \in 1..n : DepthsOf(t, y)[i] = DepthsOf(s, w)[i]
         /\ Cardinality(FinalizersAt(t, y, n + 1)) = Cardinality(FinalizersAt(s, w, n + 1))
<1>1. 1..n \subseteq 1..Len(s) /\ 1..n \subseteq 1..Len(t) /\ 1..n \subseteq 1..(n + 1) /\ n + 1 \in 1..(n + 1)
  OBVIOUS
<1>2. \A p \in 1..(n + 1) : FinalizersAt(t, y, p) = FinalizersAt(s, w, p)
  BY FinalizersSame
<1>3. \A i \in 1..n : DepthsOf(t, y)[i] = DepthsOf(s, w)[i]
  BY <1>1, <1>2 DEF DepthsOf
<1> QED
  BY <1>1, <1>2, <1>3

(* A step relates paths that agree on the nodes open before and after it.  *)
LEMMA StepPaths ==
  ASSUME HInv
  PROVE  /\ path \in Seq(Node) /\ Depth \in Nat /\ Len(path) = Depth /\ wrapped \in SUBSET (1..Len(path))
         /\ \A k : HookEnter(k) =>
              /\ path' \in Seq(Node) /\ Len(path') = Len(path) + 1 /\ SameKinds(path, path', Len(path))
              /\ path'[Len(path) + 1].kind = k /\ k \in AllKinds
              /\ wrapped \subseteq wrapped' /\ wrapped' \subseteq wrapped \cup {Len(path) + 1}
              /\ Len(path) + 1 \in wrapped' <=> Wraps(k)
         /\ HookLeave =>
              /\ path' \in Seq(Node) /\ Len(path') = Len(path) - 1 /\ SameKinds(path, path', Len(path'))
              /\ path # << >> /\ Inner = path[Len(path)] /\ Inner \in Node
              /\ wrapped' = wrapped \ {Len(path)}
<1>1. Types /\ path \in Seq(Node) /\ Depth \in Nat /\ Len(path) = Depth /\ wrapped \in SUBSET (1..Len(path))
  BY DEF HInv, Types, Positions, Depth
<1>2. ASSUME NEW k, HookEnter(k)
      PROVE  /\ path' \in Seq(Node) /\ Len(path') = Len(path) + 1 /\ SameKinds(path, path', Len(path))
             /\ path'[Len(path) + 1].kind = k /\ k \in AllKinds
             /\ wrapped \subseteq wrapped' /\ wrapped' \subseteq wrapped \cup {Len(path) + 1}
             /\ Len(path) + 1 \in wrapped' <=> Wraps(k)
  <2>1. EnterNode(k)
    BY <1>2 DEF HookEnter
  <2>2. path' \in Seq(Node) /\ Len(path') = Depth + 1 /\ k \in AllKinds
    BY <1>1, <2>1, EnterFacts
  <2>3. \A i \in 1..Depth : path'[i].kind = path[i].kind
    BY <1>1, <2>1, EnterFacts
  <2>4. path'[Depth + 1] = [kind |-> k, complete |-> FALSE, super |-> FALSE]
    BY <1>1, <2>1, EnterFacts
  <2>5. path'[Depth + 1].kind = k
    BY <2>4
  <2>6. Depth + 1 \notin wrapped
    BY <1>1
  <2>7. wrapped' = IF Wraps(k) THEN wrapped \cup {Depth + 1} ELSE wrapped
    BY <1>2 DEF HookEnter
  <2> QED
    BY <1>1, <2>2, <2>3, <2>5, <2>6, <2>7 DEF SameKinds
<1>3. ASSUME HookLeave
      PROVE  /\ path' \in Seq(Node) /\ Len(path') = Len(path) - 1 /\ SameKinds(path, path', Len(path'))
             /\ path # << >> /\ Inner = path[Len(path)] /\ Inner \in Node
             /\ wrapped' = wrapped \ {Len(path)}
  <2>1. LeaveNode /\ wrapped' = wrapped \ {Depth}
    BY <1>3 DEF HookLeave
  <2>2. path' \in Seq(Node) /\ Len(path') = Depth - 1 /\ Inner = path[Depth] /\ Inner \in Node
    BY <1>1, <2>1, LeaveFacts
  <2>3. \A i \in 1..(Depth - 1) : path'[i] = path[i]
    BY <1>1, <2>1, LeaveFacts
  <2>4. path # << >>
    BY <2>1 DEF LeaveNode
  <2> QED
    BY <1>1, <2>1, <2>2, <2>3, <2>4 DEF SameKinds
<1> QED
  BY <1>1, <1>2, <1>3

(* What a step does to the open scopes and to the depth in them.           *)
LEMMA ScopesEntered ==
  ASSUME HInv, NEW k, HookEnter(k)
  PROVE  /\ finalizer_depth \in Nat /\ BoundsAt(path, wrapped) \subseteq 1..Depth
         /\ \A i \in 1..Depth : DepthsOf(path', wrapped')[i] = DepthsOf(path, wrapped)[i]
         /\ DepthsOf(path', wrapped')[Depth + 1] = finalizer_depth
         /\ BoundsAt(path', wrapped') = BoundsAt(path, wrapped)
                                          \cup IF k \in HookScopes \/ Wraps(k) THEN {Depth + 1} ELSE {}
         /\ Cardinality(FinalizersAt(path', wrapped', Len(path') + 1)) =
              IF k \in HookScopes \/ Wraps(k) THEN 0
              ELSE finalizer_depth + IF k = "finalizer" THEN 1 ELSE 0
<1> DEFINE d == Depth + 1
<1>1. /\ path \in Seq(Node) /\ Depth \in Nat /\ Len(path) = Depth /\ wrapped \in SUBSET (1..Len(path))
      /\ path' \in Seq(Node) /\ Len(path') = Len(path) + 1 /\ SameKinds(path, path', Len(path))
      /\ path'[Len(path) + 1].kind = k
      /\ wrapped \subseteq wrapped' /\ wrapped' \subseteq wrapped \cup {Len(path) + 1}
      /\ Len(path) + 1 \in wrapped' <=> Wraps(k)
  BY StepPaths
<1>2. SameScopes(path, wrapped, path', wrapped', Len(path))
  BY <1>1, BoundsEnter
<1>3. Bounds(path', wrapped', d) <=> k \in HookScopes \/ Wraps(k)
  BY <1>1, BoundsEnter
<1>4. BoundsAt(path', wrapped') = BoundsAt(path, wrapped) \cup IF Bounds(path', wrapped', d) THEN {d} ELSE {}
  <2>1. BoundsAt(path', wrapped') = BoundsAt(path, wrapped)
           \cup IF Bounds(path', wrapped', Len(path) + 1) THEN {Len(path) + 1} ELSE {}
    BY ONLY <1>1, BoundsEnter, Zenon
  <2> QED
    BY <1>1, <2>1
<1>5. Len(path) \in Nat /\ Len(path) <= Len(path) /\ Len(path) <= Len(path') /\ d \in Nat \ {0}
      /\ d = Len(path) + 1 /\ d = Len(path')
  BY <1>1
<1>6. finalizer_depth = Cardinality(FinalizersAt(path, wrapped, d)) /\ finalizer_depth \in Nat
  BY <1>5, FinalizersFinite DEF HInv, ScopeInv
<1>7. /\ \A i \in 1..Depth : DepthsOf(path', wrapped')[i] = DepthsOf(path, wrapped)[i]
      /\ Cardinality(FinalizersAt(path', wrapped', d)) = finalizer_depth
  BY <1>1, <1>2, <1>5, <1>6, DepthsSame
<1>8. DepthsOf(path', wrapped')[d] = finalizer_depth
  <2>1. d \in 1..Len(path')
    BY <1>5
  <2> QED
    BY <1>7, <2>1 DEF DepthsOf
<1>9. Cardinality(FinalizersAt(path', wrapped', d + 1)) =
        IF Bounds(path', wrapped', d) THEN 0
        ELSE Cardinality(FinalizersAt(path', wrapped', d)) + IF path'[d].kind = "finalizer" THEN 1 ELSE 0
  BY <1>5, DepthNext
<1>10. BoundsAt(path, wrapped) \subseteq 1..Depth
  BY <1>1 DEF BoundsAt
<1>11. Cardinality(FinalizersAt(path', wrapped', d + 1)) =
        IF k \in HookScopes \/ Wraps(k) THEN 0 ELSE finalizer_depth + IF k = "finalizer" THEN 1 ELSE 0
  BY <1>1, <1>3, <1>5, <1>7, <1>9
<1>12. BoundsAt(path', wrapped') = BoundsAt(path, wrapped)
                                     \cup IF k \in HookScopes \/ Wraps(k) THEN {d} ELSE {}
  BY <1>3, <1>4
<1>13. Len(path') + 1 = d + 1
  BY <1>5
<1> HIDE DEF d
<1> QED
  BY <1>6, <1>7, <1>8, <1>10, <1>11, <1>12, <1>13 DEF d

(* What the positions and the two counters are after a node was left, for  *)
(* scope_depths and finalizer_depth.                                       *)
LEMMA ScopesLeft ==
  ASSUME HInv, HookLeave
  PROVE  /\ finalizer_depth \in Nat /\ BoundsAt(path, wrapped) \subseteq 1..Depth
         /\ \A i \in 1..(Depth - 1) : DepthsOf(path', wrapped')[i] = DepthsOf(path, wrapped)[i]
         /\ BoundsAt(path', wrapped') = BoundsAt(path, wrapped) \ {Depth}
         /\ Depth \in BoundsAt(path, wrapped) <=> LeavesScope(Inner.kind)
         /\ DepthsOf(path, wrapped)[Depth] = Cardinality(FinalizersAt(path', wrapped', Len(path') + 1))
         /\ ~LeavesScope(Inner.kind) =>
              finalizer_depth = Cardinality(FinalizersAt(path', wrapped', Len(path') + 1))
                                  + IF Inner.kind = "finalizer" THEN 1 ELSE 0
<1> DEFINE c == Cardinality(FinalizersAt(path', wrapped', Len(path') + 1))
           n == Len(path')
<1>1. /\ path \in Seq(Node) /\ Depth \in Nat /\ Len(path) = Depth /\ wrapped \in SUBSET (1..Len(path))
      /\ path' \in Seq(Node) /\ Len(path') = Len(path) - 1 /\ SameKinds(path, path', Len(path'))
      /\ path # << >> /\ Inner = path[Len(path)]
      /\ wrapped' = wrapped \ {Len(path)}
  BY StepPaths
<1>2. SameScopes(path, wrapped, path', wrapped', Len(path'))
  BY <1>1, BoundsLeave
<1>3. BoundsAt(path', wrapped') = BoundsAt(path, wrapped) \ {Len(path)}
  <2>1. 1..Len(path') = 1..Len(path) \ {Len(path)}
    BY <1>1
  <2> QED
    BY <1>2, <2>1 DEF BoundsAt, SameScopes
<1>4. Len(path) \in BoundsAt(path, wrapped) <=> Bounds(path, wrapped, Len(path))
  BY <1>1, BoundsLeave
<1>5. n \in Nat /\ n <= Len(path) /\ n <= Len(path') /\ n + 1 = Depth /\ n = Depth - 1
      /\ Depth \in Nat \ {0} /\ Depth \in 1..Len(path) /\ Depth + 1 \in Nat
  BY <1>1
<1>6. finalizer_depth = Cardinality(FinalizersAt(path, wrapped, Depth + 1)) /\ finalizer_depth \in Nat
  BY <1>5, FinalizersFinite DEF HInv, ScopeInv
<1>7. /\ \A i \in 1..n : DepthsOf(path', wrapped')[i] = DepthsOf(path, wrapped)[i]
      /\ c = Cardinality(FinalizersAt(path, wrapped, n + 1))
  <2> HIDE DEF n
  <2> QED
    BY <1>1, <1>2, <1>5, DepthsSame DEF n
<1>8. DepthsOf(path, wrapped)[Depth] = Cardinality(FinalizersAt(path, wrapped, Depth))
  BY <1>5 DEF DepthsOf
<1>9. Cardinality(FinalizersAt(path, wrapped, Depth + 1)) =
        IF Bounds(path, wrapped, Depth) THEN 0
        ELSE Cardinality(FinalizersAt(path, wrapped, Depth)) + IF path[Depth].kind = "finalizer" THEN 1 ELSE 0
  BY <1>5, DepthNext
<1>10. Bounds(path, wrapped, Depth) <=> LeavesScope(Inner.kind)
  BY <1>1 DEF Bounds, LeavesScope
<1>11. BoundsAt(path, wrapped) \subseteq 1..Depth
  BY <1>1 DEF BoundsAt
<1>12. FinalizersAt(path, wrapped, n + 1) = FinalizersAt(path, wrapped, Depth)
  BY <1>5
<1>13. ~LeavesScope(Inner.kind) => finalizer_depth = c + IF Inner.kind = "finalizer" THEN 1 ELSE 0
  BY <1>1, <1>6, <1>7, <1>9, <1>10, <1>12
<1> HIDE DEF c
<1>14. DepthsOf(path, wrapped)[Depth] = c
  BY <1>7, <1>8, <1>12
<1> QED
  BY <1>1, <1>3, <1>4, <1>5, <1>6, <1>7, <1>10, <1>11, <1>13, <1>14 DEF c

(* The depth and the saved depths stay true when a node is entered.        *)
LEMMA ScopeEnter ==
  ASSUME HInv, NEW k, HookEnter(k)
  PROVE  ScopeInv' /\ scope_depths' \in Seq(Nat)
<1> DEFINE d == Depth + 1
           S == BoundsAt(path, wrapped)
           v == DepthsOf(path, wrapped)
           u == DepthsOf(path', wrapped')
           c == Cardinality(FinalizersAt(path', wrapped', Len(path') + 1))
           opens == k \in HookScopes \/ Wraps(k)
<1>1. /\ Types /\ TryInv /\ Depth \in Nat /\ k \in AllKinds /\ d \in Nat
      /\ Depth = 0 => k \in Statements
      /\ Depth # 0 => k \in Below(path[Depth].kind)
  <2>1. Types /\ TryInv /\ EnterNode(k)
    BY DEF HInv, HookEnter
  <2>2. Depth \in Nat /\ k \in AllKinds
    BY <2>1, EnterFacts
  <2>3. /\ Depth = 0 => k \in Statements
        /\ Depth # 0 => k \in Below(path[Depth].kind)
    BY <2>1, EnterFacts
  <2> QED
    BY <2>1, <2>2, <2>3
<1>2. /\ finalizer_depth \in Nat /\ S \in SUBSET (1..(d - 1))
      /\ \A i \in S : u[i] = v[i]
      /\ u[d] = finalizer_depth
      /\ BoundsAt(path', wrapped') = S \cup IF opens THEN {d} ELSE {}
      /\ c = IF opens THEN 0 ELSE finalizer_depth + IF k = "finalizer" THEN 1 ELSE 0
  BY <1>1, ScopesEntered
<1>3. scope_depths \in Seq(Nat) /\ Stacked(scope_depths, S, v)
  BY DEF HInv, Types, ScopeInv
<1>4. k \in BlockKinds => (IsFinalizer(k, d) <=> k = "finalizer")
  <2> SUFFICES ASSUME k \in BlockKinds PROVE IsFinalizer(k, d) <=> k = "finalizer"
    OBVIOUS
  <2>1. KindsAt(path, TryKinds) \subseteq 1..(d - 1)
    BY <1>1 DEF KindsAt, Depth
  <2>2. k = "finalizer" => d - 1 \in KindsAt(path, TryKinds) /\ path[d - 1].kind = "tryFinally"
    <3> SUFFICES ASSUME k = "finalizer"
                 PROVE  d - 1 \in KindsAt(path, TryKinds) /\ path[d - 1].kind = "tryFinally"
      OBVIOUS
    <3>1. Depth # 0
      BY <1>1, BelowFacts
    <3>2. Depth \in 1..Len(path) /\ path[Depth] \in Node /\ d - 1 = Depth
      BY <1>1, <3>1 DEF Depth, Types
    <3>3. path[Depth].kind = "tryFinally"
      BY <1>1, <3>1, <3>2, BelowFacts DEF Node
    <3> QED
      BY <3>2, <3>3 DEF KindsAt, TryKinds
  <2>3. d \in Nat
    BY <1>1
  <2> HIDE DEF d
  <2> QED
    BY <1>1, <2>1, <2>2, <2>3, FinalizerRecognised
<1> HIDE DEF S, v, u, c
<1>5. CASE opens
  <2>1. scope_depths' = Append(scope_depths, finalizer_depth) /\ finalizer_depth' = 0
    BY <1>5, HookKinds DEF HookEnter, ClassEnter, EnterScope, Wraps
  <2>2. d \in Nat
    BY <1>1
  <2> HIDE DEF d
  <2>3. Stacked(Append(scope_depths, finalizer_depth), S \cup {d}, u)
    BY <1>2, <1>3, <2>2, StackedPush
  <2>4. Append(scope_depths, finalizer_depth) \in Seq(Nat)
    BY <1>2, <1>3
  <2>5. BoundsAt(path', wrapped') = S \cup {d} /\ c = 0
    BY <1>2, <1>5
  <2> QED
    BY <2>1, <2>3, <2>4, <2>5 DEF ScopeInv, Depth, u, c
<1>6. CASE ~opens
  <2>1. scope_depths' = scope_depths
    BY <1>6 DEF HookEnter, ClassEnter, classVars
  <2>2. finalizer_depth' = finalizer_depth + IF k = "finalizer" THEN 1 ELSE 0
    BY <1>2, <1>4, <1>6, HookKinds DEF HookEnter, ClassEnter, classVars
  <2>3. Stacked(scope_depths, S, u)
    BY <1>2, <1>3, StackedSame
  <2>4. BoundsAt(path', wrapped') = S /\ c = finalizer_depth'
    BY <1>2, <1>6, <2>2
  <2> QED
    BY <1>3, <2>1, <2>3, <2>4 DEF ScopeInv, Depth, u, c
<1> QED
  BY <1>5, <1>6

(* ... and when one is left.                                               *)
LEMMA ScopeLeave ==
  ASSUME HInv, HookLeave
  PROVE  ScopeInv' /\ scope_depths' \in Seq(Nat)
<1> DEFINE d == Depth
           S == BoundsAt(path, wrapped)
           v == DepthsOf(path, wrapped)
           u == DepthsOf(path', wrapped')
           c == Cardinality(FinalizersAt(path', wrapped', Len(path') + 1))
           closes == LeavesScope(Inner.kind)
           k == Inner.kind
<1>1. /\ Types /\ TryInv /\ WellFormed /\ d \in Nat \ {0} /\ Inner = path[d] /\ Inner \in Node
      /\ d \in 1..Len(path)
  BY LeaveFacts DEF HInv, HookLeave, Depth
<1>2. /\ finalizer_depth \in Nat /\ S \in SUBSET (1..d)
      /\ \A i \in 1..(d - 1) : u[i] = v[i]
      /\ BoundsAt(path', wrapped') = S \ {d}
      /\ d \in S <=> closes
      /\ v[d] = c
      /\ ~closes => finalizer_depth = c + IF k = "finalizer" THEN 1 ELSE 0
  BY ScopesLeft
<1>3. c \in Nat
  BY <1>1, LeaveFacts, FinalizersFinite DEF HookLeave
<1>4. scope_depths \in Seq(Nat) /\ Stacked(scope_depths, S, v)
  BY DEF HInv, Types, ScopeInv
<1>5. closes => k \in HookScopes \cup {"classDecl", "classExpr"}
  BY <1>1 DEF LeavesScope, WellFormed
<1>6. k \in BlockKinds => (IsFinalizer(k, d) <=> k = "finalizer")
  <2> SUFFICES ASSUME k \in BlockKinds PROVE IsFinalizer(k, d) <=> k = "finalizer"
    OBVIOUS
  <2>1. KindsAt(path, TryKinds) \subseteq 1..(d - 1)
    BY <1>1, HookKinds DEF KindsAt, Depth
  <2>2. k = "finalizer" => d - 1 \in KindsAt(path, TryKinds) /\ path[d - 1].kind = "tryFinally"
    <3> SUFFICES ASSUME k = "finalizer"
                 PROVE  d - 1 \in KindsAt(path, TryKinds) /\ path[d - 1].kind = "tryFinally"
      OBVIOUS
    <3>0. "finalizer" \notin Statements
      BY DEF Statements, Expressions, Accessors
    <3>1. d # 1
      BY <1>1, <3>0 DEF WellFormed, Grammar
    <3>2. d - 1 \in 1..Len(path) /\ path[d - 1] \in Node
      <4> HIDE DEF d
      <4>1. d - 1 \in 1..Len(path)
        BY <1>1, <3>1
      <4> QED
        BY <1>1, <4>1 DEF Types
    <3>3. k \in Below(path[d - 1].kind)
      BY <1>1, <3>0, <3>1 DEF WellFormed, Grammar
    <3>4. path[d - 1].kind = "tryFinally"
      BY <3>2, <3>3, BelowFacts DEF Node
    <3> QED
      BY <3>2, <3>4 DEF KindsAt, TryKinds
  <2>3. d \in Nat
    BY <1>1
  <2> HIDE DEF d, k
  <2> QED
    BY <1>1, <2>1, <2>2, <2>3, FinalizerRecognised
<1>7. S \ {d} \subseteq 1..(d - 1)
  BY <1>1, <1>2
<1> HIDE DEF S, v, u, c, d, k
<1>8. CASE closes
  <2>1. scope_depths' = Front(scope_depths) /\ finalizer_depth' = Last(scope_depths)
    BY <1>5, <1>8, HookKinds DEF HookLeave, ClassExit, ExitScope, k
  <2>2. d \in Nat /\ d \in S /\ S \in SUBSET (1..d)
    BY <1>1, <1>2, <1>8
  <2>3. Last(scope_depths) = v[d]
    BY <1>4, <2>2, StackedLast
  <2>4. Front(scope_depths) \in Seq(Nat) /\ Stacked(Front(scope_depths), S \ {d}, v)
    BY <1>4, <2>2, StackedPop
  <2>5. Stacked(Front(scope_depths), S \ {d}, u)
    <3>1. \A i \in S \ {d} : u[i] = v[i]
      BY <1>2, <1>7
    <3> DEFINE R == S \ {d}
               f == Front(scope_depths)
    <3>2. Stacked(f, R, v) /\ f \in Seq(Nat) /\ \A i \in R : u[i] = v[i]
      BY <2>4, <3>1
    <3> HIDE DEF R, f
    <3>3. Stacked(f, R, u)
      BY <3>2, StackedSame
    <3> QED
      BY <3>3 DEF R, f
  <2> QED
    BY <1>2, <2>1, <2>3, <2>4, <2>5 DEF ScopeInv, Depth, u, c
<1>9. CASE ~closes
  <2>1. scope_depths' = scope_depths
    BY <1>9 DEF HookLeave, ClassExit, classVars
  <2>2. finalizer_depth' = finalizer_depth - IF k = "finalizer" THEN 1 ELSE 0
    BY <1>2, <1>6, <1>9, HookKinds DEF HookLeave, ClassExit, classVars, k, d
  <2>3. finalizer_depth' = c
    BY <1>2, <1>3, <1>9, <2>2
  <2>4. S \ {d} = S
    BY <1>2, <1>9
  <2>5. Stacked(scope_depths, S, u)
    BY <1>2, <1>4, <1>7, <2>4, StackedSame
  <2> QED
    BY <1>2, <1>4, <2>1, <2>3, <2>4, <2>5 DEF ScopeInv, Depth, u, c
<1> QED
  BY <1>8, <1>9
-----------------------------------------------------------------------------
(* The path.                                                               *)

(* The parts of an accessor stand in each other.                           *)
LEMMA AccessorParts ==
  ASSUME NEW s \in Seq(Node), Grammar(s), NEW i \in 1..Len(s), s[i].kind = "accessorBody"
  PROVE  /\ i - 1 \in 1..Len(s) /\ s[i - 1].kind = "accessorFunction" /\ s[i - 1].complete
         /\ i - 2 \in 1..Len(s) /\ s[i - 2].kind \in Accessors /\ s[i - 2].complete
<1>1. /\ {"accessorBody", "accessorFunction"} \cap Statements = {}
      /\ {"accessorBody", "accessorFunction"} \subseteq Parts
  BY DEF Statements, Expressions, Accessors, Parts
<1>2. i # 1 /\ i - 1 \in 1..Len(s)
  BY <1>1 DEF Grammar
<1>3. s[i - 1] \in Node
  BY <1>2
<1>4. s[i - 1].kind = "accessorFunction" /\ s[i - 1].complete
  BY <1>1, <1>2, <1>3, BelowFacts DEF Grammar, Node
<1>5. i - 1 # 1
  BY <1>1, <1>2, <1>4 DEF Grammar
<1>6. i - 2 \in 1..Len(s) /\ (i - 1) - 1 = i - 2
  BY <1>2, <1>5
<1>7. s[i - 2] \in Node
  BY <1>6
<1>8. s[i - 1].kind \in Below(s[i - 2].kind) /\ (s[i - 1].kind \in Parts => s[i - 2].complete)
  BY <1>2, <1>5, <1>6 DEF Grammar
<1>9. s[i - 2].kind \in Accessors /\ s[i - 2].complete
  BY <1>1, <1>4, <1>7, <1>8, BelowFacts DEF Node
<1> QED
  BY <1>2, <1>4, <1>6, <1>9

(* The kinds below the members of a class.                                 *)
LEMMA MembersBelow == Below("members") \cap {"accessorFunction", "accessorBody"} = {}
BY DEF Below, Expressions, Accessors, Classes

(* Every step keeps the path that of a program.                            *)
LEMMA WellFormedEnter ==
  ASSUME HInv, NEW k, HookEnter(k)
  PROVE  WellFormed'
<1>1. Types /\ WellFormed /\ EnterNode(k)
  BY DEF HInv, HookEnter
<1>2. /\ Depth \in Nat /\ path' \in Seq(Node) /\ Len(path') = Depth + 1 /\ Len(path) = Depth
      /\ k \in AllKinds
  BY <1>1, EnterFacts DEF Depth
<1>3. path'[Depth + 1] = [kind |-> k, complete |-> FALSE, super |-> FALSE]
  BY <1>1, EnterFacts
<1>4. \A i \in 1..Depth : path'[i].kind = path[i].kind /\ path'[i].super = path[i].super
  BY <1>1, EnterFacts
<1>5. \A i \in 1..Depth : path[i].complete => path'[i].complete
  BY <1>1, EnterFacts
<1>6. Depth # 0 /\ k \in Parts => path'[Depth].complete
  <2>1. \A i \in 1..Depth : i = Depth /\ k \in Parts => path'[i].complete
    BY <1>1, EnterFacts
  <2> QED
    BY <1>2, <2>1
<1>7. /\ Depth = 0 => k \in Statements
      /\ Depth # 0 => k \in Below(path[Depth].kind)
  BY <1>1, EnterFacts
<1>8. Depth # 0 /\ path[Depth].complete => k \notin Parts \/ path[Depth].kind = "members"
  BY <1>1, EnterFacts
<1>9. path'[Depth + 1].kind = k /\ path'[Depth + 1].super = FALSE
  BY <1>3
<1>10. Grammar(path')
  <2>1. ASSUME NEW i \in 1..Len(path'), i = 1 PROVE path'[i].kind \in Statements
    <3>1. CASE Depth = 0
      BY <1>2, <1>7, <1>9, <2>1, <3>1
    <3>2. CASE Depth # 0
      BY <1>1, <1>2, <1>4, <2>1, <3>2 DEF WellFormed, Grammar
    <3> QED
      BY <3>1, <3>2
  <2>2. ASSUME NEW i \in 1..Len(path'), i # 1
        PROVE  path'[i].kind \in Below(path'[i - 1].kind) /\ (path'[i].kind \in Parts => path'[i - 1].complete)
    <3>1. i - 1 \in 1..Depth
      BY <1>2, <2>2
    <3>2. CASE i = Depth + 1
      <4>1. i - 1 = Depth /\ Depth # 0
        BY <1>2, <3>1, <3>2
      <4> QED
        BY <1>4, <1>6, <1>7, <1>9, <3>1, <3>2, <4>1
    <3>3. CASE i # Depth + 1
      <4>1. i \in 1..Len(path)
        BY <1>2, <3>3
      <4> QED
        BY <1>1, <1>2, <1>4, <1>5, <2>2, <3>1, <4>1 DEF WellFormed, Grammar
    <3> QED
      BY <3>2, <3>3
  <2> QED
    BY <2>1, <2>2 DEF Grammar
<1>11. BodiesEntered(path')
  <2> SUFFICES ASSUME NEW i \in 1..Len(path'), path'[i].super
               PROVE  /\ path'[i].complete
                      /\ i + 1 <= Len(path') /\ path'[i + 1].kind = "accessorFunction" => path'[i + 1].complete
    BY DEF BodiesEntered
  <2>1. i \in 1..Depth /\ i \in 1..Len(path)
    BY <1>2, <1>9
  <2>2. path[i].super /\ path[i].complete /\ path'[i].complete
    BY <1>1, <1>4, <1>5, <2>1 DEF WellFormed, BodiesEntered
  <2>3. ASSUME i + 1 <= Len(path'), path'[i + 1].kind = "accessorFunction" PROVE path'[i + 1].complete
    <3>1. i + 1 # Depth + 1
      <4> SUFFICES ASSUME i + 1 = Depth + 1 PROVE FALSE
        OBVIOUS
      <4>1. i = Depth /\ Depth # 0 /\ k = "accessorFunction"
        BY <1>2, <1>9, <2>1, <2>3
      <4>2. k \in Parts /\ k \notin Below("members")
        BY <4>1, MembersBelow DEF Parts
      <4> QED
        BY <1>7, <1>8, <2>2, <4>1, <4>2
    <3>2. i + 1 \in 1..Depth
      BY <1>2, <2>1, <2>3, <3>1
    <3>3. path[i + 1].kind = "accessorFunction" /\ i + 1 <= Len(path)
      BY <1>2, <1>4, <2>3, <3>2
    <3>4. path[i + 1].complete
      BY <1>1, <2>1, <2>2, <3>3 DEF WellFormed, BodiesEntered
    <3> QED
      BY <1>5, <3>2, <3>4
  <2> QED
    BY <2>2, <2>3
<1>12. ASSUME NEW i \in wrapped' PROVE path'[i].kind \in {"classDecl", "classExpr"}
  <2>1. CASE i \in wrapped
    <3>1. i \in 1..Depth
      BY <1>1, <2>1 DEF Types, Positions
    <3> QED
      BY <1>1, <1>4, <2>1, <3>1 DEF WellFormed
  <2>2. CASE i \notin wrapped
    <3>1. i = Depth + 1 /\ Wraps(k)
      BY <1>12, <2>2 DEF HookEnter
    <3> QED
      BY <1>9, <3>1 DEF Wraps
  <2> QED
    BY <2>1, <2>2
<1> QED
  BY <1>10, <1>11, <1>12 DEF WellFormed

(* Leaving a node keeps the path well formed.                              *)
LEMMA WellFormedLeave ==
  ASSUME HInv, HookLeave
  PROVE  WellFormed'
<1>1. Types /\ WellFormed /\ LeaveNode /\ wrapped' = wrapped \ {Depth}
  BY DEF HInv, HookLeave
<1>2. Depth \in Nat \ {0} /\ path' \in Seq(Node) /\ Len(path') = Depth - 1 /\ Len(path) = Depth
  BY <1>1, LeaveFacts DEF Depth
<1>3. \A i \in 1..(Depth - 1) : path'[i] = path[i]
  BY <1>1, LeaveFacts
<1>4. Grammar(path')
  <2>1. ASSUME NEW i \in 1..Len(path'), i = 1 PROVE path'[i].kind \in Statements
    <3>1. i \in 1..Len(path) /\ path'[i] = path[i]
      BY <1>2, <1>3
    <3> QED
      BY <1>1, <2>1, <3>1 DEF WellFormed, Grammar
  <2>2. ASSUME NEW i \in 1..Len(path'), i # 1
        PROVE  path'[i].kind \in Below(path'[i - 1].kind) /\ (path'[i].kind \in Parts => path'[i - 1].complete)
    <3>1. i \in 1..Len(path) /\ path'[i] = path[i] /\ path'[i - 1] = path[i - 1]
      BY <1>2, <1>3, <2>2
    <3> QED
      BY <1>1, <2>2, <3>1 DEF WellFormed, Grammar
  <2> QED
    BY <2>1, <2>2 DEF Grammar
<1>5. BodiesEntered(path')
  <2> SUFFICES ASSUME NEW i \in 1..Len(path'), path'[i].super
               PROVE  /\ path'[i].complete
                      /\ i + 1 <= Len(path') /\ path'[i + 1].kind = "accessorFunction" => path'[i + 1].complete
    BY DEF BodiesEntered
  <2>1. i \in 1..Len(path) /\ path'[i] = path[i]
    BY <1>2, <1>3
  <2>2. i + 1 <= Len(path') => i + 1 <= Len(path) /\ path'[i + 1] = path[i + 1]
    BY <1>2, <1>3
  <2> QED
    BY <1>1, <2>1, <2>2 DEF WellFormed, BodiesEntered
<1>6. ASSUME NEW i \in wrapped' PROVE path'[i].kind \in {"classDecl", "classExpr"}
  <2>1. i \in wrapped /\ i \in 1..(Depth - 1)
    BY <1>1, <1>2 DEF Types, Positions
  <2> QED
    BY <1>1, <1>3, <2>1 DEF WellFormed
<1> QED
  BY <1>4, <1>5, <1>6 DEF WellFormed

(* A reference to super changes only what is known of its owners.          *)
LEMMA SuperFacts ==
  ASSUME Types, SuperProp
  PROVE  /\ path' \in Seq(Node) /\ Len(path') = Len(path) /\ program' = program
         /\ \A i \in 1..Len(path) : path'[i].kind = path[i].kind /\ path'[i].complete = path[i].complete
         /\ \A i \in 1..Len(path) : path'[i].super = (path[i].super \/ i \in Owners)
<1>1. path \in Seq(Node) /\ Depth = Len(path) /\ Len(path) \in Nat /\ \A i \in 1..Len(path) : path[i] \in Node
  BY DEF Types, Depth
<1>2. path' = [i \in 1..Depth |-> IF i \in Owners THEN [path[i] EXCEPT !.super = TRUE] ELSE path[i]]
      /\ program' = program
  BY DEF SuperProp
<1>3. \A i \in 1..Depth : (IF i \in Owners THEN [path[i] EXCEPT !.super = TRUE] ELSE path[i]) \in Node
  BY <1>1 DEF Node
<1>4. path' \in Seq(Node) /\ Len(path') = Len(path)
  <2> DEFINE e(i) == IF i \in Owners THEN [path[i] EXCEPT !.super = TRUE] ELSE path[i]
  <2>1. path' = [i \in 1..Depth |-> e(i)] /\ \A i \in 1..Depth : e(i) \in Node
    BY <1>2, <1>3
  <2> HIDE DEF e
  <2> QED
    BY <1>1, <2>1
<1>5. \A i \in 1..Len(path) : path'[i].kind = path[i].kind /\ path'[i].complete = path[i].complete
  BY <1>1, <1>2 DEF Node
<1>6. \A i \in 1..Len(path) : path'[i].super = (path[i].super \/ i \in Owners)
  BY <1>1, <1>2 DEF Node
<1> QED
  BY <1>2, <1>4, <1>5, <1>6

(* Meeting super keeps the path well formed.                               *)
LEMMA WellFormedSuper ==
  ASSUME HInv, HookSuper
  PROVE  WellFormed'
<1>1. Types /\ WellFormed /\ SuperProp /\ wrapped' = wrapped
  BY DEF HInv, HookSuper
<1>2. path \in Seq(Node) /\ path' \in Seq(Node) /\ Len(path') = Len(path) /\ Len(path) \in Nat /\ Depth = Len(path)
  BY <1>1, SuperFacts DEF Types, Depth
<1>3. \A i \in 1..Len(path) : path'[i].kind = path[i].kind /\ path'[i].complete = path[i].complete
  BY <1>1, SuperFacts
<1>4. \A i \in 1..Len(path) : path'[i].super = (path[i].super \/ i \in Owners)
  BY <1>1, SuperFacts
<1>5. Grammar(path')
  <2>1. \A i \in 1..Len(path) : i # 1 => i - 1 \in 1..Len(path)
    BY <1>2
  <2> QED
    BY <1>1, <1>2, <1>3, <2>1 DEF WellFormed, Grammar
<1>6. BodiesEntered(path')
  <2> SUFFICES ASSUME NEW i \in 1..Len(path'), path'[i].super
               PROVE  /\ path'[i].complete
                      /\ i + 1 <= Len(path') /\ path'[i + 1].kind = "accessorFunction" => path'[i + 1].complete
    BY DEF BodiesEntered
  <2>1. i \in 1..Len(path) /\ (i + 1 <= Len(path') => i + 1 \in 1..Len(path))
    BY <1>2
  <2>2. CASE i \in Owners
    <3>1. i + 2 \in 1..Len(path) /\ path[i + 2].kind = "accessorBody" /\ (i + 2) - 1 = i + 1 /\ (i + 2) - 2 = i
      BY <1>2, <2>1, <2>2 DEF Owners
    <3>2. path[(i + 2) - 1].complete /\ path[(i + 2) - 2].complete
      BY <1>1, <1>2, <3>1, AccessorParts DEF WellFormed
    <3> QED
      BY <1>3, <2>1, <3>1, <3>2
  <2>3. CASE path[i].super
    BY <1>1, <1>2, <1>3, <2>1, <2>3 DEF WellFormed, BodiesEntered
  <2> QED
    BY <1>4, <2>1, <2>2, <2>3
<1>7. \A i \in wrapped' : path'[i].kind \in {"classDecl", "classExpr"}
  BY <1>1, <1>2, <1>3 DEF WellFormed, Types, Positions
<1> QED
  BY <1>5, <1>6, <1>7 DEF WellFormed
-----------------------------------------------------------------------------
(* Stacks of the nodes of some kinds.                                      *)

(* The values of the positions in S are the same.                          *)
SameValues(S, v, u) == \A i \in S : u[i] = v[i]

(* Entering a node keeps a stack the stack of its kinds, with an entry for *)
(* the node if it is of them.                                              *)
LEMMA KindsEntered ==
  ASSUME HInv, NEW k, HookEnter(k), NEW K, NEW T, NEW s \in Seq(T), NEW x \in T, NEW v, NEW u,
         Stacked(s, KindsAt(path, K), v), SameValues(KindsAt(path, K), v, u), u[Depth + 1] = x
  PROVE  /\ k \in K => Stacked(Append(s, x), KindsAt(path', K), u)
         /\ k \notin K => Stacked(s, KindsAt(path', K), u)
<1> DEFINE d == Depth + 1
           S == KindsAt(path, K)
<1>1. /\ path \in Seq(Node) /\ path' \in Seq(Node) /\ Len(path') = Len(path) + 1
      /\ SameKinds(path, path', Len(path)) /\ path'[Len(path) + 1].kind = k
      /\ Len(path) = Depth /\ Depth \in Nat /\ d \in Nat
  BY StepPaths
<1>2. KindsAt(path', K) = S \cup IF path'[Len(path) + 1].kind \in K THEN {Len(path) + 1} ELSE {}
  BY ONLY <1>1, KindsEnter, Zenon
<1>3. S \in SUBSET (1..(d - 1))
  BY <1>1 DEF KindsAt
<1>4. \A i \in S : u[i] = v[i]
  BY DEF SameValues
<1>5. KindsAt(path', K) = IF k \in K THEN S \cup {d} ELSE S
  BY <1>1, <1>2
<1> HIDE DEF d, S
<1>6. Stacked(Append(s, x), S \cup {d}, u)
  BY <1>1, <1>3, <1>4, StackedPush DEF d, S
<1>7. Stacked(s, S, u)
  BY <1>4, StackedSame DEF S
<1> QED
  BY <1>5, <1>6, <1>7

(* Leaving a node keeps a stack the stack of its kinds; if the node is of  *)
(* them the last entry is its own.                                         *)
LEMMA KindsLeft ==
  ASSUME HInv, HookLeave, NEW K, NEW T, NEW s \in Seq(T), NEW v, NEW u,
         Stacked(s, KindsAt(path, K), v), SameValues(KindsAt(path, K) \ {Depth}, v, u)
  PROVE  /\ Inner.kind \in K => /\ s # << >> /\ Last(s) = v[Depth] /\ Front(s) \in Seq(T)
                                /\ Stacked(Front(s), KindsAt(path', K), u)
         /\ Inner.kind \notin K => Stacked(s, KindsAt(path', K), u)
<1> DEFINE d == Depth
           S == KindsAt(path, K)
           R == S \ {d}
<1>1. /\ path \in Seq(Node) /\ path' \in Seq(Node) /\ Len(path') = Len(path) - 1 /\ path # << >>
      /\ SameKinds(path, path', Len(path')) /\ Inner = path[Len(path)]
      /\ Len(path) = Depth /\ d \in Nat
  BY StepPaths
<1>2. KindsAt(path', K) = KindsAt(path, K) \ {Len(path)}
  BY ONLY <1>1, KindsLeave, Zenon
<1>3. d \in S <=> Inner.kind \in K
  BY <1>1 DEF KindsAt
<1>4. S \in SUBSET (1..d)
  BY <1>1 DEF KindsAt
<1>5. \A i \in R : u[i] = v[i]
  BY DEF SameValues
<1>6. KindsAt(path', K) = R
  BY <1>1, <1>2
<1>7. Stacked(s, S, v)
  OBVIOUS
<1> HIDE DEF d, S
<1>8. CASE Inner.kind \in K
  <2>1. s # << >> /\ Last(s) = v[d]
    BY <1>1, <1>3, <1>4, <1>7, <1>8, StackedLast
  <2> DEFINE f == Front(s)
  <2>2. f \in Seq(T) /\ Stacked(f, S \ {d}, v)
    BY <1>1, <1>3, <1>4, <1>7, <1>8, StackedPop
  <2> HIDE DEF f, R
  <2>3. Stacked(f, R, v)
    BY <2>2 DEF R
  <2>4. Stacked(f, R, u)
    BY <1>5, <2>2, <2>3, StackedSame
  <2> QED
    BY <1>6, <1>8, <2>1, <2>2, <2>4 DEF f, d
<1>9. CASE Inner.kind \notin K
  <2>1. R = S
    BY <1>3, <1>9
  <2> HIDE DEF R
  <2>2. Stacked(s, R, v)
    BY <1>7, <2>1
  <2>3. Stacked(s, R, u)
    BY <1>5, <2>2, StackedSame
  <2> QED
    BY <1>6, <1>9, <2>3
<1> QED
  BY <1>8, <1>9

(* The stack of finalizers stays true.                                     *)
LEMMA TryEnter ==
  ASSUME HInv, NEW k, HookEnter(k)
  PROVE  TryInv' /\ finalizers' \in Seq(Nat \cup {None})
<1> DEFINE T == Nat \cup {None}
           v == FinalizersOf(path)
           u == FinalizersOf(path')
           x == IF k = "tryFinally" THEN Depth + 1 ELSE None
<1>1. /\ path \in Seq(Node) /\ path' \in Seq(Node) /\ Len(path') = Len(path) + 1
      /\ SameKinds(path, path', Len(path)) /\ path'[Len(path) + 1].kind = k
      /\ Len(path) = Depth /\ Depth \in Nat
  BY StepPaths
<1>2. finalizers \in Seq(T) /\ x \in T /\ Stacked(finalizers, KindsAt(path, TryKinds), v)
  BY <1>1 DEF HInv, Types, TryInv
<1>3. SameValues(KindsAt(path, TryKinds), v, u)
  BY <1>1 DEF SameValues, SameKinds, KindsAt, FinalizersOf
<1>4. u[Depth + 1] = x
  BY <1>1 DEF FinalizersOf
<1>5. k \in TryKinds => finalizers' = Append(finalizers, x)
  BY <1>1, HookKinds DEF HookEnter, ClassEnter, Address, Wraps
<1>6. k \notin TryKinds => finalizers' = finalizers
  BY DEF HookEnter, ClassEnter, EnterScope, classVars
<1> HIDE DEF T, v, u, x
<1>7. /\ k \in TryKinds => Stacked(Append(finalizers, x), KindsAt(path', TryKinds), u)
      /\ k \notin TryKinds => Stacked(finalizers, KindsAt(path', TryKinds), u)
  BY <1>2, <1>3, <1>4, KindsEntered
<1>8. finalizers' \in Seq(T)
  BY <1>2, <1>5, <1>6
<1> QED
  BY <1>5, <1>6, <1>7, <1>8 DEF TryInv, u, T

(* Leaving a node keeps the stack of finalizers.                           *)
LEMMA TryLeave ==
  ASSUME HInv, HookLeave
  PROVE  TryInv' /\ finalizers' \in Seq(Nat \cup {None})
<1> DEFINE T == Nat \cup {None}
           v == FinalizersOf(path)
           u == FinalizersOf(path')
<1>1. /\ path \in Seq(Node) /\ path' \in Seq(Node) /\ Len(path') = Len(path) - 1 /\ path # << >>
      /\ SameKinds(path, path', Len(path')) /\ Inner = path[Len(path)]
      /\ Len(path) = Depth /\ Depth \in Nat
  BY StepPaths
<1>2. finalizers \in Seq(T) /\ Stacked(finalizers, KindsAt(path, TryKinds), v)
  BY <1>1 DEF HInv, Types, TryInv
<1>3. SameValues(KindsAt(path, TryKinds) \ {Depth}, v, u)
  <2>1. \A i \in KindsAt(path, TryKinds) \ {Depth} : i \in 1..Len(path) /\ i \in 1..Len(path')
    BY <1>1 DEF KindsAt
  <2> QED
    BY <2>1, <1>1 DEF SameValues, SameKinds, FinalizersOf
<1>4. Inner.kind \in TryKinds => ~LeavesScope(Inner.kind)
  BY <1>1, HookKinds DEF LeavesScope, HInv, WellFormed
<1>5. Inner.kind \in TryKinds => finalizers' = Front(finalizers)
  BY <1>4, HookKinds DEF HookLeave, ClassExit, TryLeft
<1>6. Inner.kind \notin TryKinds => finalizers' = finalizers
  BY DEF HookLeave, ClassExit, ExitScope, classVars
<1> HIDE DEF T, v, u
<1>7. /\ Inner.kind \in TryKinds => /\ finalizers # << >> /\ Last(finalizers) = v[Depth] /\ Front(finalizers) \in Seq(T)
                                    /\ Stacked(Front(finalizers), KindsAt(path', TryKinds), u)
      /\ Inner.kind \notin TryKinds => Stacked(finalizers, KindsAt(path', TryKinds), u)
  BY <1>2, <1>3, KindsLeft
<1> QED
  BY <1>2, <1>5, <1>6, <1>7 DEF TryInv, u, T
-----------------------------------------------------------------------------
(* SuperInObjectAccessorHook.                                              *)

(* Two paths that agree on the first n nodes, their super too.             *)
SameSupers(s, t, n) == SameKinds(s, t, n) /\ \A i \in 1..n : t[i].super = s[i].super

(* The kinds that the hook tells apart.                                    *)
LEMMA SuperKinds ==
  /\ Opaque = Accessors \cup SuperScopes
  /\ Accessors \cap (Bodies \cup SuperScopes) = {} /\ Bodies \cap (SuperScopes \cup Opaque) = {}
  /\ "accessorFunction" \in Opaque /\ "accessorFunction" \notin Accessors
  /\ "accessorBody" \in Bodies /\ "accessorBody" \in Parts
BY DEF Opaque, Accessors, SuperScopes, Bodies, Classes, Parts

(* The owners of a position are told by the nodes before it.               *)
LEMMA OwnersSame ==
  ASSUME NEW s, NEW t, NEW n \in Nat, SameKinds(s, t, n), NEW p \in 1..(n + 1)
  PROVE  OwnersAt(t, p) = OwnersAt(s, p)
<1>1. \A i \in 1..(p - 3) : i \in 1..n /\ i + 2 \in 1..n /\ (i + 3)..(p - 1) \subseteq 1..n
  OBVIOUS
<1> QED
  BY <1>1 DEF OwnersAt, SameKinds

(* The accessor that super belongs to at a position depends on what is     *)
(* before it only.                                                         *)
LEMMA SupersSame ==
  ASSUME NEW s, NEW t, NEW n \in Nat, SameSupers(s, t, n), NEW p \in 1..(n + 1)
  PROVE  SuperAt(t, p) = SuperAt(s, p)
<1>1. OwnersAt(t, p) = OwnersAt(s, p)
  BY OwnersSame DEF SameSupers
<1>2. \A i \in OwnersAt(s, p) : i \in 1..n
  BY DEF OwnersAt
<1> QED
  BY <1>1, <1>2 DEF SuperAt, SameSupers

(* What super belongs to after a node, from what it belonged to at it.     *)
LEMMA SuperNext ==
  ASSUME NEW s \in Seq(Node), Grammar(s), NEW p \in 1..Len(s)
  PROVE  /\ s[p].kind \in Opaque => SuperAt(s, p + 1) = "none"
         /\ s[p].kind = "accessorBody" =>
              /\ SuperAt(s, p) = "none"
              /\ SuperAt(s, p + 1) = IF s[p - 2].super THEN "true" ELSE "false"
         /\ s[p].kind \notin Opaque \cup {"accessorBody"} => SuperAt(s, p + 1) = SuperAt(s, p)
<1>1. p + 1 - 1 = p /\ (p + 1) - 3 = p - 2 /\ 1..(p - 2) \subseteq 1..(p - 3) \cup {p - 2} /\ p \in Nat
  OBVIOUS
<1>2. \A i \in 1..(p - 3) : p \in (i + 3)..p /\ (i + 3)..p = (i + 3)..(p - 1) \cup {p}
  OBVIOUS
<1>3. ASSUME NEW q \in Nat, s[q].kind \in Opaque PROVE OwnersAt(s, q + 1) = {}
  <2>1. "accessorBody" \notin Opaque
    BY SuperKinds
  <2> SUFFICES ASSUME NEW i \in OwnersAt(s, q + 1) PROVE FALSE
    OBVIOUS
  <2>2. i \in 1..(q - 2) /\ s[i + 2].kind = "accessorBody" /\ \A j \in (i + 3)..q : s[j].kind \notin Opaque
    BY DEF OwnersAt
  <2>3. i + 2 # q
    BY <1>3, <2>1, <2>2
  <2>4. q \in (i + 3)..q
    BY <2>2, <2>3
  <2> QED
    BY <1>3, <2>2, <2>4
<1>4. s[p].kind \in Opaque => SuperAt(s, p + 1) = "none"
  BY <1>1, <1>3 DEF SuperAt
<1>5. ASSUME s[p].kind = "accessorBody"
      PROVE  /\ SuperAt(s, p) = "none"
             /\ SuperAt(s, p + 1) = IF s[p - 2].super THEN "true" ELSE "false"
  <2>1. /\ p - 1 \in 1..Len(s) /\ s[p - 1].kind = "accessorFunction"
        /\ p - 2 \in 1..Len(s) /\ s[p - 2].kind \in Accessors
    BY <1>5, AccessorParts
  <2>2. p - 1 \in Nat /\ (p - 1) + 1 = p /\ s[p - 1].kind \in Opaque
    BY <2>1, SuperKinds
  <2>3. OwnersAt(s, p) = {}
    <3>1. OwnersAt(s, (p - 1) + 1) = {}
      BY <1>3, <2>2
    <3> QED
      BY <2>2, <3>1
  <2>4. p - 2 \in OwnersAt(s, p + 1)
    <3>1. p - 2 \in 1..((p + 1) - 3) /\ (p - 2) + 2 = p /\ ((p - 2) + 3)..((p + 1) - 1) = {}
      BY <2>1
    <3> QED
      BY <1>5, <2>1, <3>1 DEF OwnersAt
  <2>5. ASSUME NEW i \in OwnersAt(s, p + 1) PROVE i = p - 2
    <3>1. /\ i \in 1..((p + 1) - 3) /\ s[i + 2].kind = "accessorBody"
          /\ \A j \in (i + 3)..((p + 1) - 1) : s[j].kind \notin Opaque
      BY DEF OwnersAt
    <3>2. i + 2 # p - 1
      BY <2>1, <3>1
    <3>3. ~(i + 3 <= p - 1)
      <4> SUFFICES ASSUME i + 3 <= p - 1 PROVE FALSE
        OBVIOUS
      <4>1. p - 1 \in (i + 3)..((p + 1) - 1)
        BY <3>1
      <4> QED
        BY <2>2, <3>1, <4>1
    <3> QED
      BY <3>1, <3>2, <3>3
  <2>6. OwnersAt(s, p + 1) = {p - 2}
    BY <2>4, <2>5
  <2> QED
    BY <2>3, <2>6 DEF SuperAt
<1>6. ASSUME s[p].kind \notin Opaque \cup {"accessorBody"} PROVE SuperAt(s, p + 1) = SuperAt(s, p)
  <2>1. ASSUME NEW i \in OwnersAt(s, p + 1) PROVE i \in OwnersAt(s, p)
    <3>1. /\ i \in 1..(p - 2) /\ s[i].kind \in Accessors /\ s[i + 2].kind = "accessorBody"
          /\ \A j \in (i + 3)..p : s[j].kind \notin Opaque
      BY DEF OwnersAt
    <3>2. i + 2 # p
      BY <1>6, <3>1
    <3>3. i \in 1..(p - 3) /\ \A j \in (i + 3)..(p - 1) : j \in (i + 3)..p
      BY <3>1, <3>2
    <3> QED
      BY <3>1, <3>3 DEF OwnersAt
  <2>2. ASSUME NEW i \in OwnersAt(s, p) PROVE i \in OwnersAt(s, p + 1)
    <3>1. /\ i \in 1..(p - 3) /\ s[i].kind \in Accessors /\ s[i + 2].kind = "accessorBody"
          /\ \A j \in (i + 3)..(p - 1) : s[j].kind \notin Opaque
      BY DEF OwnersAt
    <3>2. \A j \in (i + 3)..p : s[j].kind \notin Opaque
      BY <1>2, <1>6, <3>1
    <3>3. i \in 1..((p + 1) - 3) /\ (i + 3)..((p + 1) - 1) = (i + 3)..p
      BY <3>1
    <3> QED
      BY <3>1, <3>2, <3>3 DEF OwnersAt
  <2>3. OwnersAt(s, p + 1) = OwnersAt(s, p)
    BY <2>1, <2>2
  <2> QED
    BY <2>3 DEF SuperAt
<1> QED
  BY <1>4, <1>5, <1>6

(* A body is recognised as an accessor's if and only if it is one.         *)
LEMMA BodyRecognised ==
  ASSUME Types, AccessorInv, NEW k \in Bodies, NEW i \in Nat, KindsAt(path, Accessors) \subseteq 1..(i - 1),
         k = "accessorBody" => /\ i - 2 \in KindsAt(path, Accessors)
                               /\ KindsAt(path, Accessors) \subseteq 1..(i - 2)
  PROVE  /\ IsAccessorBody(k, i) <=> k = "accessorBody"
         /\ k = "accessorBody" => accessors # << >> /\ Last(accessors) = AccessorsOf(path)[i - 2]
<1> DEFINE S == KindsAt(path, Accessors)
           T == [body_address : Nat, found : BOOLEAN]
           v == AccessorsOf(path)
<1>1. accessors \in Seq(T) /\ Stacked(accessors, S, v) /\ S \subseteq 1..Len(path)
  BY DEF Types, AccessorInv, KindsAt
<1>2. \A j \in S : v[j].body_address = j
  BY <1>1 DEF AccessorsOf
<1>3. CASE k = "accessorBody"
  <2> DEFINE d == i - 2
  <2>1. d \in S /\ d \in Nat /\ S \in SUBSET (1..d)
    BY <1>1, <1>3
  <2>2. v[d].body_address = d
    BY <1>2, <2>1
  <2> HIDE DEF S, T, v, d
  <2>3. accessors # << >> /\ Last(accessors) = v[d]
    BY <1>1, <2>1, StackedLast
  <2>4. Address(k, i) = d
    BY <1>3 DEF Address, d
  <2> QED
    BY <1>3, <2>2, <2>3, <2>4 DEF IsAccessorBody, d, v
<1>4. CASE k # "accessorBody"
  <2> DEFINE U == {a \in T : a.body_address \in 1..(i - 1)}
  <2>1. \A j \in S : v[j] \in U
    <3> SUFFICES ASSUME NEW j \in S PROVE v[j] \in U
      OBVIOUS
    <3>1. j \in 1..Len(path) /\ j \in 1..(i - 1) /\ j \in Nat
      BY <1>1
    <3>2. v[j] = [body_address |-> j, found |-> path[j].super /\ ~BodyOpen(path, j)]
      BY <3>1 DEF AccessorsOf
    <3>3. v[j] \in T
      BY <3>1, <3>2
    <3> QED
      BY <3>1, <3>2, <3>3
  <2>2. accessors \in Seq(U)
    <3> HIDE DEF S, T, v, U
    <3> QED
      BY <1>1, <2>1, StackedType
  <2>3. accessors # << >> => Last(accessors) \in U
    <3> HIDE DEF U
    <3> QED
      BY <2>2 DEF Last
  <2>4. accessors # << >> => Last(accessors).body_address \in 1..(i - 1)
    BY <2>3
  <2>5. Address(k, i) = i
    BY <1>4 DEF Address, Bodies
  <2> QED
    BY <1>4, <2>4, <2>5 DEF IsAccessorBody
<1> QED
  BY <1>3, <1>4

(* The body of an accessor that is entered, or open, last.                 *)
LEMMA BodyEntered ==
  ASSUME HInv, HookEnter("accessorBody")
  PROVE  /\ Depth - 1 \in KindsAt(path, Accessors) /\ KindsAt(path, Accessors) \subseteq 1..(Depth - 1)
         /\ Depth - 1 \in 1..Depth /\ ~path[Depth - 1].super /\ path'[Depth - 1].super = path[Depth - 1].super
<1> DEFINE k == "accessorBody"
           d == Depth + 1
<1>1. Types /\ WellFormed /\ EnterNode(k) /\ WellFormed'
  BY WellFormedEnter DEF HInv, HookEnter
<1>2. /\ path \in Seq(Node) /\ path' \in Seq(Node) /\ Len(path') = d /\ Len(path) = Depth /\ Depth \in Nat
      /\ d \in 1..Len(path') /\ path'[d].kind = k /\ SameKinds(path, path', Len(path))
  BY StepPaths
<1>3. Grammar(path')
  BY <1>1 DEF WellFormed
<1>4. /\ d - 1 \in 1..Len(path') /\ path'[d - 1].kind = "accessorFunction"
      /\ d - 2 \in 1..Len(path') /\ path'[d - 2].kind \in Accessors
  BY <1>2, <1>3, AccessorParts
<1>5. d - 1 = Depth /\ d - 2 = Depth - 1 /\ Depth \in 1..Len(path) /\ Depth - 1 \in 1..Len(path)
  BY <1>2, <1>4
<1>6. path[Depth].kind = "accessorFunction" /\ path[Depth - 1].kind \in Accessors
  BY <1>4, <1>5, <1>2 DEF SameKinds
<1>7. KindsAt(path, Accessors) \subseteq 1..(Depth - 1)
  <2>1. Depth \notin KindsAt(path, Accessors)
    BY <1>6, SuperKinds DEF KindsAt
  <2> QED
    BY <1>2, <2>1 DEF KindsAt
<1>8. ~path[Depth].complete
  <2>1. Depth # 0 /\ path[Depth].complete => k \notin Parts \/ path[Depth].kind = "members"
    BY <1>1, EnterFacts
  <2> QED
    BY <1>5, <1>6, <2>1, SuperKinds
<1>9. ~path[Depth - 1].super
  <2>1. (Depth - 1) + 1 <= Len(path) /\ path[(Depth - 1) + 1].kind = "accessorFunction"
        /\ path[(Depth - 1) + 1] = path[Depth]
    BY <1>5, <1>6
  <2> QED
    BY <1>1, <1>5, <1>8, <2>1 DEF WellFormed, BodiesEntered
<1>10. path'[Depth - 1].super = path[Depth - 1].super
  <2>1. \A i \in 1..Depth : path'[i].kind = path[i].kind /\ path'[i].super = path[i].super
    BY <1>1, EnterFacts
  <2> QED
    BY <1>2, <1>5, <2>1
<1> QED
  BY <1>2, <1>5, <1>6, <1>7, <1>9, <1>10 DEF KindsAt

(* When the body of an accessor is left, direct_super says whether super   *)
(* was found in it, and the accessor is the last on its stack.             *)
LEMMA BodyLeft ==
  ASSUME HInv, HookLeave, Inner.kind = "accessorBody"
  PROVE  /\ Depth - 2 \in KindsAt(path, Accessors) /\ KindsAt(path, Accessors) \in SUBSET (1..(Depth - 2))
         /\ Depth - 2 \in 1..Len(path) /\ Depth - 2 \in Nat
         /\ direct_super = IF path[Depth - 2].super THEN "true" ELSE "false"
         /\ SuperAt(path, Depth) = "none"
<1>1. /\ path \in Seq(Node) /\ Len(path) = Depth /\ Depth \in Nat /\ path # << >> /\ Inner = path[Depth]
      /\ Depth \in 1..Len(path)
  BY StepPaths
<1>2. Grammar(path) /\ direct_super = SuperAt(path, Depth + 1)
  BY DEF HInv, WellFormed, SuperInv
<1>3. /\ Depth - 1 \in 1..Len(path) /\ path[Depth - 1].kind = "accessorFunction"
      /\ Depth - 2 \in 1..Len(path) /\ path[Depth - 2].kind \in Accessors
  BY <1>1, <1>2, AccessorParts
<1>4. SuperAt(path, Depth) = "none" /\ direct_super = IF path[Depth - 2].super THEN "true" ELSE "false"
  BY <1>1, <1>2, SuperNext
<1>5. Depth \notin KindsAt(path, Accessors) /\ Depth - 1 \notin KindsAt(path, Accessors)
  BY <1>1, <1>3, SuperKinds DEF KindsAt
<1>6. KindsAt(path, Accessors) \in SUBSET (1..(Depth - 2))
  BY <1>1, <1>5 DEF KindsAt
<1> QED
  BY <1>3, <1>4, <1>6 DEF KindsAt

(* direct_super and the saved ones stay true when a node is entered.       *)
LEMMA SuperInvEnter ==
  ASSUME HInv, NEW k, HookEnter(k)
  PROVE  SuperInv' /\ scopes' \in Seq(Found) /\ direct_super \in Found
<1> DEFINE d == Depth + 1
           v == SupersOf(path)
           u == SupersOf(path')
<1>1. /\ path \in Seq(Node) /\ path' \in Seq(Node) /\ Len(path') = d /\ Len(path) = Depth /\ Depth \in Nat
      /\ SameKinds(path, path', Depth) /\ path'[d].kind = k /\ d \in 1..Len(path') /\ d \in 1..(Depth + 1)
      /\ Len(path') + 1 = d + 1
  BY StepPaths
<1>2. SameSupers(path, path', Depth)
  <2>1. Types /\ EnterNode(k)
    BY DEF HInv, HookEnter
  <2>2. \A i \in 1..Depth : path'[i].kind = path[i].kind /\ path'[i].super = path[i].super
    BY <2>1, EnterFacts
  <2> QED
    BY <1>1, <2>2 DEF SameSupers
<1>3. Grammar(path')
  BY WellFormedEnter DEF WellFormed
<1>4. \A p \in 1..(Depth + 1) : SuperAt(path', p) = SuperAt(path, p)
  BY <1>1, <1>2, SupersSame
<1>5. direct_super = SuperAt(path, d) /\ direct_super = SuperAt(path', d)
  BY <1>1, <1>4 DEF HInv, SuperInv
<1>6. direct_super \in Found
  BY <1>5 DEF SuperAt, Found
<1>7. scopes \in Seq(Found) /\ Stacked(scopes, KindsAt(path, Opaque), v)
  BY DEF HInv, Types, SuperInv
<1>8. SameValues(KindsAt(path, Opaque), v, u) /\ u[d] = direct_super
  <2>1. \A i \in 1..Len(path) : i \in 1..Len(path') /\ i \in 1..(Depth + 1)
    BY <1>1
  <2> QED
    BY <1>1, <1>4, <1>5, <2>1 DEF SameValues, KindsAt, SupersOf
<1>9. /\ k \in Opaque => SuperAt(path', d + 1) = "none"
      /\ k = "accessorBody" => SuperAt(path', d + 1) = IF path'[d - 2].super THEN "true" ELSE "false"
      /\ k \notin Opaque \cup {"accessorBody"} => SuperAt(path', d + 1) = direct_super
  <2> HIDE DEF d
  <2> QED
    BY <1>1, <1>3, <1>5, SuperNext
<1>10. /\ k \in Opaque => Stacked(Append(scopes, direct_super), KindsAt(path', Opaque), u)
       /\ k \notin Opaque => Stacked(scopes, KindsAt(path', Opaque), u)
  <2> HIDE DEF v, u
  <2> QED
    BY <1>6, <1>7, <1>8, KindsEntered
<1>11. CASE k \in Opaque
  <2>1. scopes' = Append(scopes, direct_super) /\ direct_super' = "none"
    BY <1>11, SuperKinds DEF HookEnter, SuperEnter, EnterSuperScope
  <2> QED
    BY <1>1, <1>6, <1>7, <1>9, <1>10, <1>11, <2>1 DEF SuperInv, Depth
<1>12. CASE k \notin Opaque
  <2>1. scopes' = scopes
    BY <1>12, SuperKinds DEF HookEnter, SuperEnter, EnterSuperScope, superVars
  <2>2. direct_super' = SuperAt(path', d + 1)
    <3>1. CASE k = "accessorBody"
      <4>1. /\ Depth - 1 \in KindsAt(path, Accessors) /\ KindsAt(path, Accessors) \subseteq 1..(Depth - 1)
            /\ ~path[Depth - 1].super /\ path'[Depth - 1].super = path[Depth - 1].super
        BY <3>1, BodyEntered
      <4>2. d - 2 = Depth - 1 /\ d \in Nat /\ KindsAt(path, Accessors) \subseteq 1..(d - 1)
        BY <1>1, <4>1
      <4>3. IsAccessorBody(k, d)
        <5> HIDE DEF d
        <5> QED
          BY <3>1, <4>1, <4>2, SuperKinds, BodyRecognised DEF HInv
      <4>4. direct_super' = "false"
        BY <3>1, <4>3, SuperKinds DEF HookEnter, SuperEnter
      <4> QED
        BY <1>9, <3>1, <4>1, <4>2, <4>4
    <3>2. CASE k = "body"
      <4>1. d \in Nat /\ KindsAt(path, Accessors) \subseteq 1..(d - 1) /\ k \in Bodies /\ k # "accessorBody"
        BY <1>1, <3>2 DEF KindsAt, Bodies
      <4>2. ~IsAccessorBody(k, d)
        <5> HIDE DEF d
        <5> QED
          BY <4>1, BodyRecognised DEF HInv
      <4>3. direct_super' = direct_super
        BY <4>1, <4>2, SuperKinds DEF HookEnter, SuperEnter
      <4> QED
        BY <1>9, <1>12, <4>1, <4>3
    <3>3. CASE k \notin {"body", "accessorBody"}
      <4>1. k \notin Bodies
        BY <3>3 DEF Bodies
      <4>2. direct_super' = direct_super
        BY <1>12, <4>1, SuperKinds DEF HookEnter, SuperEnter, superVars
      <4> QED
        BY <1>9, <1>12, <3>3, <4>2
    <3> QED
      BY <3>1, <3>2, <3>3
  <2> QED
    BY <1>1, <1>6, <1>7, <1>10, <1>12, <2>1, <2>2 DEF SuperInv, Depth
<1> QED
  BY <1>6, <1>11, <1>12

(* ... and when one is left.                                               *)
LEMMA SuperInvLeave ==
  ASSUME HInv, HookLeave
  PROVE  SuperInv' /\ scopes' \in Seq(Found)
<1> DEFINE d == Depth
           k == Inner.kind
           v == SupersOf(path)
           u == SupersOf(path')
<1>1. /\ path \in Seq(Node) /\ path' \in Seq(Node) /\ Len(path') = d - 1 /\ Len(path) = d /\ d \in Nat
      /\ SameKinds(path, path', d - 1) /\ path # << >> /\ path[d].kind = k /\ d \in 1..Len(path)
      /\ Len(path') + 1 = d /\ d - 1 \in Nat /\ (d - 1) + 1 = d
  BY StepPaths
<1>2. SameSupers(path, path', d - 1)
  <2>1. Types /\ LeaveNode
    BY DEF HInv, HookLeave
  <2>2. \A i \in 1..(Depth - 1) : path'[i] = path[i]
    BY <2>1, LeaveFacts
  <2> QED
    BY <1>1, <2>2 DEF SameSupers
<1>3. Grammar(path) /\ direct_super = SuperAt(path, d + 1)
  BY DEF HInv, WellFormed, SuperInv
<1>4. \A p \in 1..d : SuperAt(path', p) = SuperAt(path, p)
  <2> DEFINE n == d - 1
  <2>1. n \in Nat /\ SameSupers(path, path', n) /\ n + 1 = d
    BY <1>1, <1>2
  <2> HIDE DEF n, d
  <2> QED
    BY <2>1, SupersSame
<1>5. scopes \in Seq(Found) /\ Stacked(scopes, KindsAt(path, Opaque), v)
  BY DEF HInv, Types, SuperInv
<1>6. SameValues(KindsAt(path, Opaque) \ {Depth}, v, u) /\ v[d] = SuperAt(path, d)
  <2>1. \A i \in KindsAt(path, Opaque) \ {Depth} : i \in 1..Len(path) /\ i \in 1..Len(path') /\ i \in 1..d
    BY <1>1 DEF KindsAt
  <2> QED
    BY <1>1, <1>4, <2>1 DEF SameValues, SupersOf
<1>7. k \notin Opaque \cup {"accessorBody"} => direct_super = SuperAt(path, d)
  <2> HIDE DEF d, k
  <2> QED
    BY <1>1, <1>3, SuperNext
<1>8. /\ k \in Opaque => /\ scopes # << >> /\ Last(scopes) = v[Depth] /\ Front(scopes) \in Seq(Found)
                         /\ Stacked(Front(scopes), KindsAt(path', Opaque), u)
      /\ k \notin Opaque => Stacked(scopes, KindsAt(path', Opaque), u)
  <2> HIDE DEF v, u
  <2> QED
    BY <1>5, <1>6, KindsLeft
<1>9. SuperAt(path', Len(path') + 1) = SuperAt(path, d)
  BY <1>1, <1>4
<1>10. CASE k \in Opaque
  <2>1. scopes' = Front(scopes) /\ direct_super' = Last(scopes)
    BY <1>10, SuperKinds DEF HookLeave, SuperExit, ExitSuperScope
  <2> QED
    BY <1>6, <1>8, <1>9, <1>10, <2>1 DEF SuperInv, Depth
<1>11. CASE k \notin Opaque
  <2>1. scopes' = scopes
    BY <1>11, SuperKinds DEF HookLeave, SuperExit, ExitSuperScope, superVars
  <2>2. direct_super' = SuperAt(path, d)
    <3>1. CASE k = "accessorBody"
      <4>1. /\ Depth - 2 \in KindsAt(path, Accessors) /\ KindsAt(path, Accessors) \in SUBSET (1..(Depth - 2))
            /\ SuperAt(path, Depth) = "none"
        BY <3>1, BodyLeft
      <4>2. d \in Nat /\ KindsAt(path, Accessors) \subseteq 1..(d - 1)
        BY <1>1, <4>1
      <4>3. IsAccessorBody(k, d)
        <5>1. d - 2 \in KindsAt(path, Accessors) /\ KindsAt(path, Accessors) \subseteq 1..(d - 2)
          BY <4>1
        <5> HIDE DEF d
        <5> QED
          BY <3>1, <4>2, <5>1, SuperKinds, BodyRecognised DEF HInv
      <4>4. direct_super' = "none"
        BY <3>1, <4>3, SuperKinds DEF HookLeave, SuperExit
      <4> QED
        BY <4>1, <4>4
    <3>2. CASE k = "body"
      <4>1. d \in Nat /\ KindsAt(path, Accessors) \subseteq 1..(d - 1) /\ k \in Bodies /\ k # "accessorBody"
        <5>1. "body" \notin Accessors
          BY DEF Accessors
        <5> QED
          BY <1>1, <3>2, <5>1 DEF KindsAt, Bodies
      <4>2. ~IsAccessorBody(k, d)
        <5> HIDE DEF d, k
        <5> QED
          BY <4>1, BodyRecognised DEF HInv
      <4>3. direct_super' = direct_super
        BY <4>1, <4>2, SuperKinds DEF HookLeave, SuperExit
      <4> QED
        BY <1>7, <1>11, <4>1, <4>3
    <3>3. CASE k \notin {"body", "accessorBody"}
      <4>1. k \notin Bodies
        BY <3>3 DEF Bodies
      <4>2. direct_super' = direct_super
        BY <1>11, <4>1, SuperKinds DEF HookLeave, SuperExit, superVars
      <4> QED
        BY <1>7, <1>11, <3>3, <4>2
    <3> QED
      BY <3>1, <3>2, <3>3
  <2> QED
    BY <1>5, <1>8, <1>9, <1>11, <2>1, <2>2 DEF SuperInv, Depth
<1> QED
  BY <1>10, <1>11

(* What is known of the open accessors stays true when a node is entered.  *)
LEMMA AccessorInvEnter ==
  ASSUME HInv, NEW k, HookEnter(k)
  PROVE  AccessorInv' /\ accessors' \in Seq([body_address : Nat, found : BOOLEAN])
<1> DEFINE d == Depth + 1
           T == [body_address : Nat, found : BOOLEAN]
           S == KindsAt(path, Accessors)
           v == AccessorsOf(path)
           u == AccessorsOf(path')
           x == [body_address |-> d, found |-> FALSE]
<1>1. /\ path \in Seq(Node) /\ path' \in Seq(Node) /\ Len(path') = d /\ Len(path) = Depth /\ Depth \in Nat
      /\ SameKinds(path, path', Depth) /\ path'[d].kind = k /\ d \in 1..Len(path')
  BY StepPaths
<1>2. Types /\ EnterNode(k)
  BY DEF HInv, HookEnter
<1>3. \A i \in 1..Depth : path'[i].kind = path[i].kind /\ path'[i].super = path[i].super
  BY <1>2, EnterFacts
<1>4. path'[d].super = FALSE
  <2>1. path'[Depth + 1] = [kind |-> k, complete |-> FALSE, super |-> FALSE]
    BY <1>2, EnterFacts
  <2> QED
    BY <2>1
<1>5. accessors \in Seq(T) /\ Stacked(accessors, S, v)
  BY DEF HInv, Types, AccessorInv
<1>6. ASSUME NEW i \in S PROVE u[i] = v[i]
  <2>1. i \in 1..Len(path) /\ i \in 1..Len(path') /\ path'[i].super = path[i].super
    BY <1>1, <1>3 DEF KindsAt
  <2>2. CASE i + 2 <= Len(path)
    <3>1. i + 2 \in 1..Depth /\ i + 2 <= Len(path')
      BY <1>1, <2>1, <2>2
    <3>2. BodyOpen(path', i) <=> BodyOpen(path, i)
      BY <1>3, <2>2, <3>1 DEF BodyOpen
    <3> QED
      BY <2>1, <3>2 DEF AccessorsOf
  <2>3. CASE i + 2 > Len(path) /\ BodyOpen(path', i)
    <3>1. i + 2 = d /\ k = "accessorBody"
      BY <1>1, <2>1, <2>3 DEF BodyOpen
    <3>2. i = Depth - 1
      BY <1>1, <2>1, <3>1
    <3>3. ~path[i].super
      BY <3>1, <3>2, BodyEntered
    <3> QED
      BY <2>1, <3>3 DEF AccessorsOf
  <2>4. CASE i + 2 > Len(path) /\ ~BodyOpen(path', i)
    <3>1. ~BodyOpen(path, i)
      BY <1>1, <2>1, <2>4 DEF BodyOpen
    <3> QED
      BY <2>1, <2>4, <3>1 DEF AccessorsOf
  <2> QED
    BY <1>1, <2>1, <2>2, <2>3, <2>4
<1>7. SameValues(S, v, u)
  BY <1>6 DEF SameValues
<1>8. u[d] = x /\ x \in T
  <2>1. x \in T
    BY <1>1
  <2>2. u[d] = [body_address |-> d, found |-> path'[d].super /\ ~BodyOpen(path', d)]
    BY <1>1 DEF AccessorsOf
  <2>3. (path'[d].super /\ ~BodyOpen(path', d)) = FALSE
    BY <1>4
  <2> QED
    BY <2>1, <2>2, <2>3
<1>9. k \in Accessors => accessors' = Append(accessors, x)
  <2>1. Address("accessorBody", Depth + 3) = d
    BY <1>1 DEF Address
  <2> QED
    BY <2>1, SuperKinds DEF HookEnter, SuperEnter
<1>10. k \notin Accessors => accessors' = accessors
  BY DEF HookEnter, SuperEnter, superVars
<1> HIDE DEF T, S, v, u, x
<1>11. /\ k \in Accessors => Stacked(Append(accessors, x), KindsAt(path', Accessors), u)
       /\ k \notin Accessors => Stacked(accessors, KindsAt(path', Accessors), u)
  BY <1>5, <1>7, <1>8, KindsEntered DEF S
<1>12. accessors' \in Seq(T)
  BY <1>5, <1>8, <1>9, <1>10
<1> QED
  BY <1>9, <1>10, <1>11, <1>12 DEF AccessorInv, u, T

(* ... and when one is left: the body of an accessor tells its accessor    *)
(* what was found in it.                                                   *)
LEMMA AccessorInvLeave ==
  ASSUME HInv, HookLeave
  PROVE  /\ AccessorInv' /\ accessors' \in Seq([body_address : Nat, found : BOOLEAN])
         /\ Inner.kind \in Accessors => Last(accessors).found = Inner.super
<1> DEFINE d == Depth
           k == Inner.kind
           T == [body_address : Nat, found : BOOLEAN]
           S == KindsAt(path, Accessors)
           v == AccessorsOf(path)
           u == AccessorsOf(path')
<1>1. /\ path \in Seq(Node) /\ path' \in Seq(Node) /\ Len(path') = d - 1 /\ Len(path) = d /\ d \in Nat
      /\ SameKinds(path, path', d - 1) /\ path # << >> /\ Inner = path[d] /\ d \in 1..Len(path)
  BY StepPaths
<1>2. \A i \in 1..(d - 1) : path'[i] = path[i]
  <2>1. Types /\ LeaveNode
    BY DEF HInv, HookLeave
  <2> QED
    BY <2>1, LeaveFacts
<1>3. accessors \in Seq(T) /\ Stacked(accessors, S, v)
  BY DEF HInv, Types, AccessorInv
<1>4. ASSUME NEW i \in S \ {d}, i + 2 # d \/ k # "accessorBody" PROVE u[i] = v[i]
  <2>1. i \in 1..(d - 1) /\ i \in 1..Len(path) /\ i \in 1..Len(path') /\ path'[i] = path[i]
    BY <1>1, <1>2 DEF KindsAt
  <2>2. BodyOpen(path', i) <=> BodyOpen(path, i)
    <3>1. CASE i + 2 <= d - 1
      <4>1. i + 2 \in 1..(d - 1)
        BY <2>1, <3>1
      <4> QED
        BY <1>1, <1>2, <3>1, <4>1 DEF BodyOpen
    <3>2. CASE i + 2 = d
      <4>1. ~BodyOpen(path', i)
        BY <1>1, <3>2 DEF BodyOpen
      <4>2. ~BodyOpen(path, i)
        BY <1>1, <1>4, <3>2 DEF BodyOpen
      <4> QED
        BY <4>1, <4>2
    <3>3. CASE i + 2 > d
      BY <1>1, <2>1, <3>3 DEF BodyOpen
    <3> QED
      BY <1>1, <2>1, <3>1, <3>2, <3>3
  <2> QED
    BY <2>1, <2>2 DEF AccessorsOf
<1>5. k \in Accessors => Last(accessors).found = Inner.super
  <2> SUFFICES ASSUME k \in Accessors PROVE Last(accessors).found = Inner.super
    OBVIOUS
  <2>1. d \in S /\ S \in SUBSET (1..d)
    BY <1>1 DEF KindsAt
  <2>2. v[d].found = (path[d].super /\ ~BodyOpen(path, d))
    BY <1>1 DEF AccessorsOf
  <2>3. ~BodyOpen(path, d)
    BY <1>1 DEF BodyOpen
  <2>4. path[d].super \in BOOLEAN
    <3>1. path[d] \in Node
      BY <1>1
    <3> QED
      BY <3>1 DEF Node
  <2> HIDE DEF d, S, T, v
  <2>5. Last(accessors) = v[d]
    BY <1>1, <1>3, <2>1, StackedLast
  <2> QED
    BY <1>1, <2>2, <2>3, <2>4, <2>5
<1>6. CASE k # "accessorBody"
  <2>1. SameValues(S \ {Depth}, v, u)
    BY <1>4, <1>6 DEF SameValues
  <2>2. k \in Accessors => accessors' = Front(accessors)
    BY SuperKinds DEF HookLeave, SuperExit
  <2>3. k = "body" => ~IsAccessorBody(k, d)
    <3> SUFFICES ASSUME k = "body" PROVE ~IsAccessorBody(k, d)
      OBVIOUS
    <3>1. "body" \notin Accessors
      BY DEF Accessors
    <3>2. d \in Nat /\ KindsAt(path, Accessors) \subseteq 1..(d - 1) /\ k \in Bodies
      BY <1>1, <3>1 DEF KindsAt, Bodies
    <3> HIDE DEF d, k
    <3> QED
      BY <1>6, <3>2, BodyRecognised DEF HInv
  <2>4. k \notin Accessors => accessors' = accessors
    BY <1>6, <2>3 DEF HookLeave, SuperExit, superVars, Bodies
  <2> HIDE DEF T, S, v, u
  <2>5. /\ Inner.kind \in Accessors => /\ accessors # << >> /\ Last(accessors) = v[Depth] /\ Front(accessors) \in Seq(T)
                                       /\ Stacked(Front(accessors), KindsAt(path', Accessors), u)
        /\ Inner.kind \notin Accessors => Stacked(accessors, KindsAt(path', Accessors), u)
    BY <1>3, <2>1, KindsLeft DEF S
  <2> QED
    BY <1>3, <1>5, <2>2, <2>4, <2>5 DEF AccessorInv, u, T
<1>7. CASE k = "accessorBody"
  <2> DEFINE m == d - 2
             b == direct_super = "true"
             x == [body_address |-> m, found |-> b]
  <2>1. /\ m \in S /\ S \in SUBSET (1..m) /\ m \in Nat /\ m \in 1..Len(path)
        /\ direct_super = IF path[m].super THEN "true" ELSE "false"
    BY <1>7, BodyLeft
  <2>2. d \notin S /\ KindsAt(path, Accessors) \subseteq 1..(d - 1) /\ m \in 1..(d - 1) /\ m \in 1..Len(path')
    BY <1>1, <2>1
  <2>3. IsAccessorBody(k, d) /\ Last(accessors) = v[m] /\ accessors # << >>
    <3>1. d - 2 \in KindsAt(path, Accessors) /\ KindsAt(path, Accessors) \subseteq 1..(d - 2) /\ d \in Nat
      BY <1>1, <2>1
    <3> HIDE DEF d, v
    <3> QED
      BY <1>7, <2>2, <3>1, SuperKinds, BodyRecognised DEF HInv, v
  <2>4. accessors' = [accessors EXCEPT ![Len(accessors)].found = b]
    BY <1>7, <2>3, SuperKinds DEF HookLeave, SuperExit
  <2>5. path[m].super \in BOOLEAN /\ (b <=> path[m].super) /\ x \in T
    <3>1. path[m] \in Node
      BY <1>1, <2>1
    <3> QED
      BY <2>1, <3>1 DEF Node
  <2>6. accessors' = [accessors EXCEPT ![Len(accessors)] = x]
    <3>1. v[m] = [body_address |-> m, found |-> path[m].super /\ ~BodyOpen(path, m)]
      BY <2>1 DEF AccessorsOf
    <3>2. accessors[Len(accessors)] = v[m]
      BY <2>3 DEF Last
    <3>3. [accessors[Len(accessors)] EXCEPT !.found = b] = x
      BY <3>1, <3>2
    <3>4. [accessors EXCEPT ![Len(accessors)].found = b]
            = [accessors EXCEPT ![Len(accessors)] = [accessors[Len(accessors)] EXCEPT !.found = b]]
      BY <1>3
    <3> HIDE DEF x
    <3> QED
      BY <2>4, <3>3, <3>4
  <2>7. \A i \in S \ {m} : u[i] = v[i]
    BY <1>1, <1>4, <2>1, <2>2
  <2>8. u[m] = x
    <3>1. ~BodyOpen(path', m) /\ path'[m] = path[m]
      BY <1>1, <1>2, <2>1, <2>2 DEF BodyOpen
    <3> QED
      BY <2>2, <2>5, <3>1 DEF AccessorsOf
  <2>9. KindsAt(path', Accessors) = S
    <3>1. 1..Len(path') = 1..Len(path) \ {d}
      BY <1>1
    <3> QED
      BY <1>1, <2>2, <3>1 DEF KindsAt, SameKinds
  <2> HIDE DEF T, S, v, u, x, m, b
  <2>10. Stacked([accessors EXCEPT ![Len(accessors)] = x], S, u)
    BY <1>3, <2>1, <2>5, <2>7, <2>8, StackedTop
  <2>11. [accessors EXCEPT ![Len(accessors)] = x] \in Seq(T)
    <3>1. Len(accessors) \in 1..Len(accessors)
      BY <1>3, <2>3
    <3> QED
      BY <1>3, <2>5, <3>1
  <2> QED
    BY <1>5, <2>6, <2>9, <2>10, <2>11 DEF AccessorInv, u, T
<1> QED
  BY <1>6, <1>7

(* The owners of what comes next.                                          *)
LEMMA OwnersOpen ==
  ASSUME Depth \in Nat
  PROVE  Owners = OwnersAt(path, Depth + 1)
<1>1. (Depth + 1) - 1 = Depth /\ \A i \in 1..Depth : i + 2 <= Depth <=> i \in 1..((Depth + 1) - 3)
  OBVIOUS
<1>2. 1..((Depth + 1) - 3) \subseteq 1..Depth
  OBVIOUS
<1> HIDE DEF Depth
<1>3. ASSUME NEW i \in Owners PROVE i \in OwnersAt(path, Depth + 1)
  BY <1>1 DEF Owners, OwnersAt
<1>4. ASSUME NEW i \in OwnersAt(path, Depth + 1) PROVE i \in Owners
  BY <1>1, <1>2 DEF Owners, OwnersAt
<1> QED
  BY <1>3, <1>4

(* A reference to super is noted by the hook if and only if an accessor    *)
(* owns it, and changes nothing else that the hooks know.                  *)
LEMMA HInvSuper ==
  ASSUME HInv, HookSuper
  PROVE  ScopeInv' /\ TryInv' /\ SuperInv' /\ AccessorInv'
<1>1. /\ Types /\ SuperProp /\ Grammar(path) /\ wrapped' = wrapped
      /\ finalizer_depth' = finalizer_depth /\ scope_depths' = scope_depths /\ finalizers' = finalizers
      /\ scopes' = scopes /\ accessors' = accessors
      /\ direct_super' = IF direct_super = "none" THEN "none" ELSE "true"
  BY DEF HInv, HookSuper, WellFormed
<1>2. /\ path \in Seq(Node) /\ path' \in Seq(Node) /\ Len(path') = Len(path) /\ Depth = Len(path)
      /\ Len(path) \in Nat /\ Depth \in Nat /\ Len(path) + 1 \in 1..(Len(path) + 1) /\ Len(path) <= Len(path)
  BY <1>1, SuperFacts DEF Types, Depth
<1>3. \A i \in 1..Len(path) : path'[i].kind = path[i].kind
  BY <1>1, SuperFacts
<1>4. \A i \in 1..Len(path) : path'[i].super = (path[i].super \/ i \in Owners)
  BY <1>1, SuperFacts
<1>5. SameKinds(path, path', Len(path)) /\ SameScopes(path, wrapped, path', wrapped', Len(path))
  BY <1>1, <1>3 DEF SameKinds, SameScopes, Bounds
<1>6. \A K : KindsAt(path', K) = KindsAt(path, K) /\ \A i \in KindsAt(path, K) : i \in 1..Len(path)
  BY <1>2, <1>3 DEF KindsAt
<1>7. ScopeInv'
  <2> DEFINE v == DepthsOf(path, wrapped)
             u == DepthsOf(path', wrapped')
             S == BoundsAt(path, wrapped)
  <2>1. /\ \A i \in 1..Len(path) : u[i] = v[i]
        /\ Cardinality(FinalizersAt(path', wrapped', Len(path) + 1))
             = Cardinality(FinalizersAt(path, wrapped, Len(path) + 1))
    BY <1>2, <1>5, DepthsSame
  <2>2. BoundsAt(path', wrapped') = S /\ S \subseteq 1..Len(path)
    BY <1>2, <1>5 DEF BoundsAt, SameScopes
  <2>3. scope_depths \in Seq(Nat) /\ Stacked(scope_depths, S, v)
    BY <1>1 DEF HInv, Types, ScopeInv
  <2>4. \A i \in S : u[i] = v[i]
    BY <2>1, <2>2
  <2>5. Stacked(scope_depths, S, u)
    <3> HIDE DEF S, u, v
    <3> QED
      BY <2>3, <2>4, StackedSame
  <2>6. finalizer_depth = Cardinality(FinalizersAt(path, wrapped, Len(path) + 1))
    BY <1>2 DEF HInv, ScopeInv
  <2> QED
    BY <1>1, <1>2, <2>1, <2>2, <2>5, <2>6 DEF ScopeInv, Depth
<1>8. TryInv'
  <2>1. FinalizersOf(path') = FinalizersOf(path)
    BY <1>2, <1>3 DEF FinalizersOf
  <2> QED
    BY <1>1, <1>6, <2>1 DEF HInv, TryInv
<1>9. Owners = OwnersAt(path, Len(path) + 1)
  BY <1>2, OwnersOpen
<1>10. SuperInv'
  <2> DEFINE v == SupersOf(path)
             u == SupersOf(path')
             S == KindsAt(path, Opaque)
  <2>1. \A p \in 1..(Len(path) + 1) : OwnersAt(path', p) = OwnersAt(path, p)
    BY <1>2, <1>5, OwnersSame
  <2>2. \A i \in Owners : i \in 1..Len(path) /\ path'[i].super
    BY <1>2, <1>4 DEF Owners
  <2>3. direct_super = SuperAt(path, Len(path) + 1)
    BY <1>2 DEF HInv, SuperInv
  <2>4. direct_super' = SuperAt(path', Len(path) + 1)
    <3>1. OwnersAt(path', Len(path) + 1) = Owners
      BY <1>2, <1>9, <2>1
    <3>2. CASE Owners = {}
      BY <1>1, <1>9, <2>3, <3>1, <3>2 DEF SuperAt
    <3>3. CASE Owners # {}
      BY <1>1, <1>9, <2>2, <2>3, <3>1, <3>3 DEF SuperAt
    <3> QED
      BY <3>2, <3>3
  <2>5. ASSUME NEW i \in S PROVE u[i] = v[i]
    <3>1. i \in 1..Len(path) /\ i \in 1..Len(path') /\ i \in 1..(Len(path) + 1) /\ path[i].kind \in Opaque
      BY <1>2 DEF KindsAt
    <3>2. ASSUME NEW m \in OwnersAt(path, i) PROVE m \in 1..Len(path) /\ path'[m].super = path[m].super
      <4>1. m \in 1..(i - 3) /\ m \in 1..Len(path) /\ i \in (m + 3)..Len(path)
        BY <3>1 DEF OwnersAt
      <4>2. m \notin Owners
        BY <1>2, <3>1, <4>1 DEF Owners
      <4>3. path[m] \in Node
        BY <1>2, <4>1
      <4> QED
        BY <1>4, <4>1, <4>2, <4>3 DEF Node
    <3>3. SuperAt(path', i) = SuperAt(path, i)
      BY <2>1, <3>1, <3>2 DEF SuperAt
    <3> QED
      BY <3>1, <3>3 DEF SupersOf
  <2>6. scopes \in Seq(Found) /\ Stacked(scopes, S, v)
    BY <1>1 DEF HInv, Types, SuperInv
  <2>7. Stacked(scopes, S, u)
    <3> HIDE DEF S, u, v
    <3> QED
      BY <2>5, <2>6, StackedSame
  <2> QED
    BY <1>1, <1>2, <1>6, <2>4, <2>7 DEF SuperInv, Depth
<1>11. AccessorInv'
  <2> DEFINE T == [body_address : Nat, found : BOOLEAN]
             v == AccessorsOf(path)
             u == AccessorsOf(path')
             S == KindsAt(path, Accessors)
  <2>1. ASSUME NEW i \in S PROVE u[i] = v[i]
    <3>1. i \in 1..Len(path) /\ i \in 1..Len(path') /\ path[i] \in Node
      BY <1>2 DEF KindsAt
    <3>2. BodyOpen(path', i) <=> BodyOpen(path, i)
      <4>1. i + 2 <= Len(path) => i + 2 \in 1..Len(path)
        BY <3>1
      <4> QED
        BY <1>2, <1>3, <4>1 DEF BodyOpen
    <3>3. CASE i \in Owners
      <4>1. BodyOpen(path, i)
        BY <1>2, <3>3 DEF Owners, BodyOpen
      <4> QED
        BY <3>1, <3>2, <4>1 DEF AccessorsOf
    <3>4. CASE i \notin Owners
      <4>1. path'[i].super = path[i].super
        BY <1>4, <3>1, <3>4 DEF Node
      <4> QED
        BY <3>1, <3>2, <4>1 DEF AccessorsOf
    <3> QED
      BY <3>3, <3>4
  <2>2. accessors \in Seq(T) /\ Stacked(accessors, S, v)
    BY <1>1 DEF HInv, Types, AccessorInv
  <2>3. Stacked(accessors, S, u)
    <3> HIDE DEF S, u, v, T
    <3> QED
      BY <2>1, <2>2, StackedSame
  <2> QED
    BY <1>1, <1>6, <2>3 DEF AccessorInv
<1> QED
  BY <1>7, <1>8, <1>10, <1>11

-----------------------------------------------------------------------------
(* The inductive invariant.                                                *)

(* The invariant holds before the traversal.                               *)
LEMMA HInvInit == HookInit => HInv
<1> SUFFICES ASSUME HookInit PROVE HInv
  OBVIOUS
<1>1. /\ program \in Programs /\ path = << >> /\ wrapped = {} /\ left = Fixes!Nothing
      /\ finalizer_depth = 0 /\ scope_depths = << >> /\ finalizers = << >>
      /\ direct_super = "none" /\ scopes = << >> /\ accessors = << >>
  BY DEF HookInit, Fixes!WalkInit
<1>2. Len(path) = 0 /\ Depth = 0 /\ 1..0 = {} /\ 1..Len(path) = {}
  BY <1>1 DEF Depth
<1>3. program.depth \in Nat
  BY <1>1, ProgramAssumption DEF Family
<1>4. Types
  <2>1. left \in [kind : AllKinds \cup {"none"}, rewritten : BOOLEAN]
    BY <1>1 DEF Fixes!Nothing
  <2>2. Depth <= program.depth
    BY <1>2, <1>3
  <2> QED
    BY <1>1, <2>1, <2>2 DEF Types
<1>5. WellFormed
  BY <1>1, <1>2 DEF WellFormed, Grammar, BodiesEntered
<1>6. BoundsAt(path, wrapped) = {} /\ \A K : KindsAt(path, K) = {}
  BY <1>2 DEF BoundsAt, KindsAt
<1>7. ScopeInv
  <2>1. FinalizersAt(path, wrapped, Depth + 1) = {}
    BY <1>2 DEF FinalizersAt
  <2> QED
    BY <1>1, <1>6, <2>1, FS_EmptySet, StackedEmpty DEF ScopeInv
<1>8. TryInv /\ AccessorInv
  BY <1>1, <1>6, StackedEmpty DEF TryInv, AccessorInv
<1>9. SuperInv
  <2>1. OwnersAt(path, Depth + 1) = {}
    BY <1>2 DEF OwnersAt
  <2> QED
    BY <1>1, <1>6, <2>1, StackedEmpty DEF SuperInv, SuperAt
<1> QED
  BY <1>4, <1>5, <1>7, <1>8, <1>9 DEF HInv

(* Every step of the hooks keeps the invariant.                            *)
LEMMA HInvNext == HInv /\ [HookNext]_hookVars => HInv'
<1> SUFFICES ASSUME HInv, [HookNext]_hookVars PROVE HInv'
  OBVIOUS
<1>1. ASSUME NEW k, HookEnter(k) PROVE HInv'
  <2>1. WellFormed'
    BY <1>1, WellFormedEnter
  <2>2. ScopeInv' /\ scope_depths' \in Seq(Nat)
    BY <1>1, ScopeEnter
  <2>3. TryInv' /\ finalizers' \in Seq(Nat \cup {None})
    BY <1>1, TryEnter
  <2>4. SuperInv' /\ scopes' \in Seq(Found)
    BY <1>1, SuperInvEnter
  <2>5. AccessorInv' /\ accessors' \in Seq([body_address : Nat, found : BOOLEAN])
    BY <1>1, AccessorInvEnter
  <2>6. /\ path' \in Seq(Node) /\ Len(path') = Len(path) + 1 /\ Len(path) \in Nat /\ Depth = Len(path)
        /\ wrapped' \subseteq wrapped \cup {Len(path) + 1} /\ wrapped \in SUBSET (1..Len(path))
    BY <1>1, StepPaths
  <2>7. Types /\ EnterNode(k) /\ left' = Fixes!Nothing
    BY <1>1 DEF HInv, HookEnter
  <2>8. Depth + 1 <= program.depth /\ program' = program
    BY <2>7, EnterFacts
  <2>9. left' \in [kind : AllKinds \cup {"none"}, rewritten : BOOLEAN]
    BY <2>7 DEF Fixes!Nothing
  <2>10. wrapped' \subseteq 1..Len(path')
    BY <2>6
  <2>11. program' \in Programs /\ Len(path') <= program'.depth
    BY <2>6, <2>7, <2>8 DEF Types
  <2> QED
    BY <2>1, <2>2, <2>3, <2>4, <2>5, <2>6, <2>9, <2>10, <2>11 DEF HInv, Types, Positions, Depth
<1>2. ASSUME HookLeave PROVE HInv'
  <2>1. WellFormed'
    BY <1>2, WellFormedLeave
  <2>2. ScopeInv' /\ scope_depths' \in Seq(Nat)
    BY <1>2, ScopeLeave
  <2>3. TryInv' /\ finalizers' \in Seq(Nat \cup {None})
    BY <1>2, TryLeave
  <2>4. SuperInv' /\ scopes' \in Seq(Found)
    BY <1>2, SuperInvLeave
  <2>5. AccessorInv' /\ accessors' \in Seq([body_address : Nat, found : BOOLEAN])
    BY <1>2, AccessorInvLeave
  <2>6. /\ path' \in Seq(Node) /\ Len(path') = Len(path) - 1 /\ Len(path) \in Nat /\ Depth = Len(path)
        /\ wrapped' = wrapped \ {Len(path)} /\ wrapped \in SUBSET (1..Len(path)) /\ path # << >>
        /\ Inner \in Node /\ path \in Seq(Node)
    BY <1>2, StepPaths
  <2>7. Types /\ LeaveNode
    BY <1>2 DEF HInv, HookLeave
  <2>8. program' = program
    BY <2>7, LeaveFacts
  <2>9. left' \in [kind : AllKinds \cup {"none"}, rewritten : BOOLEAN]
    BY <1>2, <2>6 DEF HookLeave, Node
  <2>10. wrapped' \subseteq 1..Len(path')
    <3>1. 1..Len(path') = 1..Len(path) \ {Len(path)}
      BY <2>6
    <3> QED
      BY <2>6, <3>1
  <2>11. program.depth \in Nat
    BY <2>7, ProgramAssumption DEF Types, Family
  <2>12. program' \in Programs /\ Len(path') <= program'.depth
    BY <2>6, <2>7, <2>8, <2>11 DEF Types
  <2> QED
    BY <2>1, <2>2, <2>3, <2>4, <2>5, <2>6, <2>9, <2>10, <2>12 DEF HInv, Types, Positions, Depth
<1>3. ASSUME HookSuper PROVE HInv'
  <2>1. WellFormed'
    BY <1>3, WellFormedSuper
  <2>2. ScopeInv' /\ TryInv' /\ SuperInv' /\ AccessorInv'
    BY <1>3, HInvSuper
  <2>3. Types /\ SuperProp
    BY <1>3 DEF HInv, HookSuper
  <2>4. path' \in Seq(Node) /\ Len(path') = Len(path) /\ program' = program
    BY <2>3, SuperFacts
  <2>5. left' \in [kind : AllKinds \cup {"none"}, rewritten : BOOLEAN]
    BY <1>3 DEF HookSuper, Fixes!Nothing
  <2>6. Types'
    BY <1>3, <2>3, <2>4, <2>5 DEF Types, HookSuper, Positions, Depth
  <2> QED
    BY <2>1, <2>2, <2>6 DEF HInv
<1>4. ASSUME UNCHANGED hookVars PROVE HInv'
  BY <1>4 DEF hookVars, HInv, Types, WellFormed, ScopeInv, TryInv, SuperInv, AccessorInv, Positions, Depth
<1> QED
  BY <1>1, <1>2, <1>3, <1>4 DEF HookNext

(* The invariant holds throughout the traversal.                           *)
LEMMA HInvAlways == HookSpec => []HInv
BY HInvInit, HInvNext, PTL DEF HookSpec

-----------------------------------------------------------------------------
(* Theorems.                                                               *)

(* Every variable of the hooks has its type in every reachable state: what *)
(* ClassInFinallyHook counts is never negative, so no exit of a finalizer  *)
(* underflows its usize.                                                   *)
THEOREM HookTypeCorrect == HookSpec => []HookTypeOK
<1>1. HInv => HookTypeOK
  <2> SUFFICES ASSUME HInv PROVE HookTypeOK
    OBVIOUS
  <2>1. /\ Types /\ finalizer_depth \in Nat /\ direct_super \in Found /\ Depth \in Nat
    <3>1. Types /\ Depth \in Nat
      BY DEF HInv, Types, Depth
    <3>2. finalizer_depth \in Nat
      BY <3>1, FinalizersFinite DEF HInv, ScopeInv
    <3>3. direct_super \in Found
      BY DEF HInv, SuperInv, SuperAt, Found
    <3> QED
      BY <3>1, <3>2, <3>3
  <2>2. \A i \in KindsAt(path, TryKinds) : FinalizersOf(path)[i] \in Positions \cup {None}
    BY DEF KindsAt, FinalizersOf, Positions, Depth
  <2>3. finalizers \in Seq(Positions \cup {None})
    <3>1. finalizers \in Seq(Nat \cup {None}) /\ Stacked(finalizers, KindsAt(path, TryKinds), FinalizersOf(path))
      BY DEF HInv, Types, TryInv
    <3> QED
      BY <2>2, <3>1, StackedType
  <2>4. ASSUME NEW i \in KindsAt(path, Accessors)
        PROVE  AccessorsOf(path)[i] \in [body_address : Positions, found : BOOLEAN]
    <3>1. i \in 1..Len(path) /\ i \in Positions
      BY DEF KindsAt, Positions, Depth
    <3>2. AccessorsOf(path)[i] = [body_address |-> i, found |-> path[i].super /\ ~BodyOpen(path, i)]
      BY <3>1 DEF AccessorsOf
    <3> QED
      BY <3>1, <3>2
  <2>5. accessors \in Seq([body_address : Positions, found : BOOLEAN])
    <3>1. /\ accessors \in Seq([body_address : Nat, found : BOOLEAN])
          /\ Stacked(accessors, KindsAt(path, Accessors), AccessorsOf(path))
      BY DEF HInv, Types, AccessorInv
    <3> QED
      BY <2>4, <3>1, StackedType
  <2> QED
    BY <2>1, <2>3, <2>5 DEF HookTypeOK, Types, Found
<1> QED
  BY <1>1, HInvAlways, PTL

(* The scopes of the hook are the boundaries of the promise.               *)
LEMMA BoundsBoundary == \A i : Bounds(path, wrapped, i) <=> Fixes!Boundary(i)
BY HookKinds DEF Bounds, Fixes!Boundary

(* The depth of ClassInFinallyHook is the number of finalizers open in the *)
(* innermost scope, its stacks have an entry for every open scope and try, *)
(* and between programs both hooks are as they were made.                  *)
THEOREM DepthFollowsPath == HookSpec => []DepthCountsFinalizers
<1>1. HInv => DepthCountsFinalizers
  <2> SUFFICES ASSUME HInv PROVE DepthCountsFinalizers
    OBVIOUS
  <2>1. Types /\ path \in Seq(Node) /\ Depth = Len(path) /\ Depth \in Nat
    BY DEF HInv, Types, Depth
  <2>2. finalizer_depth = Cardinality({i \in Positions : /\ path[i].kind = "finalizer"
                                                         /\ \A j \in i..Depth : ~Fixes!Boundary(j)})
    <3>1. (Depth + 1) - 1 = Depth
      BY <2>1
    <3>2. FinalizersAt(path, wrapped, Depth + 1)
            = {i \in Positions : path[i].kind = "finalizer" /\ \A j \in i..Depth : ~Fixes!Boundary(j)}
      BY <3>1, BoundsBoundary DEF FinalizersAt, Positions
    <3> QED
      BY <3>2 DEF HInv, ScopeInv
  <2>3. Len(scope_depths) = Cardinality({i \in Positions : Fixes!Boundary(i)})
    <3>1. BoundsAt(path, wrapped) = {i \in Positions : Fixes!Boundary(i)}
      BY BoundsBoundary DEF BoundsAt, Positions, Depth
    <3>2. /\ scope_depths \in Seq(Nat) /\ BoundsAt(path, wrapped) \in SUBSET Nat
          /\ Stacked(scope_depths, BoundsAt(path, wrapped), DepthsOf(path, wrapped))
      BY DEF HInv, Types, ScopeInv, BoundsAt
    <3> QED
      BY <3>1, <3>2, StackedLength
  <2>4. Len(finalizers) = Cardinality({i \in Positions : path[i].kind \in TryKinds})
    <3>1. KindsAt(path, TryKinds) = {i \in Positions : path[i].kind \in TryKinds}
      BY DEF KindsAt, Positions, Depth
    <3>2. /\ finalizers \in Seq(Nat \cup {None}) /\ KindsAt(path, TryKinds) \in SUBSET Nat
          /\ Stacked(finalizers, KindsAt(path, TryKinds), FinalizersOf(path))
      BY DEF HInv, Types, TryInv, KindsAt
    <3> QED
      BY <3>1, <3>2, StackedLength
  <2>5. ASSUME path = << >> PROVE CleanBetweenPrograms
    <3>1. Depth = 0 /\ Len(path) = 0 /\ Positions = {} /\ 1..Len(path) = {}
      BY <2>5 DEF Depth, Positions
    <3>2. \A K : KindsAt(path, K) = {} /\ KindsAt(path, K) \in SUBSET Nat
      BY <3>1 DEF KindsAt
    <3>3. finalizer_depth = 0 /\ Len(scope_depths) = 0 /\ Len(finalizers) = 0
      BY <2>2, <2>3, <2>4, <3>1, FS_EmptySet
    <3>4. Len(scopes) = 0
      <4>1. scopes \in Seq(Found) /\ Stacked(scopes, KindsAt(path, Opaque), SupersOf(path))
        BY DEF HInv, Types, SuperInv
      <4>2. Len(scopes) = Cardinality(KindsAt(path, Opaque))
        BY <3>2, <4>1, StackedLength
      <4> QED
        BY <3>2, <4>2, FS_EmptySet
    <3>5. Len(accessors) = 0
      <4>1. /\ accessors \in Seq([body_address : Nat, found : BOOLEAN])
            /\ Stacked(accessors, KindsAt(path, Accessors), AccessorsOf(path))
        BY DEF HInv, Types, AccessorInv
      <4>2. Len(accessors) = Cardinality(KindsAt(path, Accessors))
        BY <3>2, <4>1, StackedLength
      <4> QED
        BY <3>2, <4>2, FS_EmptySet
    <3>6. direct_super = "none"
      <4>1. OwnersAt(path, Depth + 1) = {}
        BY <3>1 DEF OwnersAt
      <4> QED
        BY <4>1 DEF HInv, SuperInv, SuperAt
    <3>7. scope_depths = << >> /\ finalizers = << >> /\ scopes = << >> /\ accessors = << >>
      BY <3>3, <3>4, <3>5, <2>1 DEF Types
    <3> QED
      BY <3>3, <3>6, <3>7 DEF CleanBetweenPrograms
  <2> QED
    BY <2>2, <2>3, <2>4, <2>5 DEF DepthCountsFinalizers, CleanBetweenPrograms
<1> QED
  BY <1>1, HInvAlways, PTL

(* The steps of the walk are those of the promise's walk.                  *)
LEMMA SameWalk ==
  /\ \A k : EnterNode(k) => Fixes!EnterNode(k)
  /\ LeaveNode => Fixes!LeaveNode
  /\ SuperProp => Fixes!SuperProp
<1>1. /\ Depth = Fixes!Depth /\ Accessors = Fixes!Accessors /\ Classes = Fixes!Classes
      /\ Inner = Fixes!Inner /\ Parts = Fixes!Parts
  BY DEF Depth, Fixes!Depth, Accessors, Fixes!Accessors, Classes, Fixes!Classes, Inner, Fixes!Inner,
         Parts, Fixes!Parts
<1>2. Expressions = Fixes!Expressions
  BY <1>1 DEF Expressions, Fixes!Expressions
<1>3. Statements = Fixes!Statements
  BY <1>2 DEF Statements, Fixes!Statements
<1>4. \A k : Below(k) = Fixes!Below(k)
  BY <1>1, <1>2, <1>3 DEF Below, Fixes!Below
<1>5. \A k : Levels(k) = Fixes!Levels(k)
  BY <1>1 DEF Levels, Fixes!Levels
<1>6. \A k : MayEnter(k) => Fixes!MayEnter(k)
  BY <1>1, <1>3, <1>4, <1>5 DEF MayEnter, Fixes!MayEnter
<1>7. \A k : EnterNode(k) => Fixes!EnterNode(k)
  BY <1>1, <1>6 DEF EnterNode, Fixes!EnterNode
<1>8. LeaveNode => Fixes!LeaveNode
  BY <1>1 DEF LeaveNode, Fixes!LeaveNode, Front, Fixes!Front
<1>9. Opaque = Fixes!Opaque
  BY <1>1 DEF Opaque, Fixes!Opaque
<1>10. Owners = Fixes!Owners
  BY <1>1, <1>9 DEF Owners, Fixes!Owners
<1>11. SuperAllowed => Fixes!SuperAllowed
  BY <1>1 DEF SuperAllowed, Fixes!SuperAllowed
<1>12. SuperProp => Fixes!SuperProp
  BY <1>1, <1>10, <1>11 DEF SuperProp, Fixes!SuperProp
<1> QED
  BY <1>7, <1>8, <1>12

(* A class is wrapped by the hook if and only if it stands in a finalizer  *)
(* of its own scope.                                                       *)
LEMMA WrapsInFinalizer ==
  ASSUME HInv, NEW k
  PROVE  Wraps(k) <=> Fixes!Unwrapped(k) /\ Fixes!InFinalizer
<1> DEFINE F == FinalizersAt(path, wrapped, Depth + 1)
<1>1. Depth \in Nat /\ (Depth + 1) - 1 = Depth /\ Depth = Fixes!Depth
  BY DEF HInv, Types, Depth, Fixes!Depth
<1>2. IsFiniteSet(F) /\ finalizer_depth = Cardinality(F) /\ Cardinality(F) \in Nat
  BY <1>1, FinalizersFinite DEF HInv, ScopeInv
<1>3. finalizer_depth > 0 <=> F # {}
  <2> HIDE DEF F
  <2> QED
    BY <1>2, FS_EmptySet
<1>4. F # {} <=> Fixes!InFinalizer
  BY <1>1, BoundsBoundary DEF FinalizersAt, Fixes!InFinalizer
<1> QED
  BY <1>3, <1>4 DEF Wraps, Fixes!Unwrapped

(* The two hooks, with their counter and stacks, rewrite exactly what      *)
(* HermesFixes promises: the classes that stand in a finalizer of their    *)
(* own scope, and the accessors whose body uses super directly.            *)
THEOREM HooksImplementFixes == HookSpec => ImplementsFixes
<1>1. HookInit => Fixes!WalkInit
  BY DEF HookInit
<1>2. HInv /\ [HookNext]_hookVars => [Fixes!FixNext]_<<program, path, wrapped, left>>
  <2> SUFFICES ASSUME HInv, [HookNext]_hookVars
               PROVE  [Fixes!FixNext]_<<program, path, wrapped, left>>
    OBVIOUS
  <2>1. ASSUME NEW k \in program.kinds, HookEnter(k) PROVE Fixes!Enter(k)
    <3>1. Fixes!EnterNode(k)
      BY <2>1, SameWalk DEF HookEnter
    <3>2. wrapped' = IF Fixes!Unwrapped(k) /\ Fixes!InFinalizer THEN wrapped \cup {Fixes!Depth + 1} ELSE wrapped
      BY <2>1, WrapsInFinalizer DEF HookEnter, Depth, Fixes!Depth
    <3> QED
      BY <2>1, <3>1, <3>2 DEF HookEnter, Fixes!Enter
  <2>2. ASSUME HookLeave PROVE Fixes!Leave
    <3>1. Fixes!LeaveNode
      BY <2>2, SameWalk DEF HookLeave
    <3>2. Inner = Fixes!Inner /\ Depth = Fixes!Depth
      BY DEF Inner, Fixes!Inner, Depth, Fixes!Depth
    <3>3. Inner.kind \in {"getter", "setter"} => Last(accessors).found = Inner.super
      BY <2>2, AccessorInvLeave DEF Accessors
    <3>4. left' = [kind |-> Inner.kind,
                   rewritten |-> Depth \in wrapped \/ (Inner.kind \in {"getter", "setter"} /\ Inner.super)]
      BY <2>2, <3>3 DEF HookLeave
    <3> QED
      BY <2>2, <3>1, <3>2, <3>4 DEF HookLeave, Fixes!Leave
  <2>3. ASSUME HookSuper PROVE Fixes!Super
    BY <2>3, SameWalk DEF HookSuper, Fixes!Super
  <2>4. ASSUME UNCHANGED hookVars PROVE UNCHANGED <<program, path, wrapped, left>>
    BY <2>4 DEF hookVars
  <2> QED
    BY <2>1, <2>2, <2>3, <2>4 DEF HookNext, Fixes!FixNext
<1> QED
  BY <1>1, <1>2, HInvAlways, PTL DEF HookSpec, ImplementsFixes, Fixes!FixSpec

-----------------------------------------------------------------------------
(* The combined hook beside the separate pass.                             *)

(* Sequence t begins with s.                                               *)
Begins(s, t) == Len(s) <= Len(t) /\ \A n \in 1..Len(s) : s[n] = t[n]

BoundsBefore(s, w, n) == {i \in BoundsAt(s, w) : i < n}

VisitorTypes == visitor_depth \in Nat /\ saved \in Seq(Nat)

(* Outside wrapped classes the visitor and the hook know the same.         *)
Together ==
  /\ skipped = 0 /\ visitor_wrapped = {}
  /\ visitor_depth = finalizer_depth /\ saved = scope_depths

(* In a wrapped class the visitor still knows what the hook knew at it.    *)
Apart ==
  /\ skipped \in wrapped /\ \A i \in wrapped : skipped <= i
  /\ visitor_wrapped = {skipped}
  /\ visitor_depth = DepthsOf(path, wrapped)[skipped]
  /\ Begins(saved, scope_depths)
  /\ Len(saved) = Cardinality(BoundsBefore(path, wrapped, skipped))

VisitorInv == VisitorTypes /\ IF wrapped = {} THEN Together ELSE Apart

-----------------------------------------------------------------------------
(* The kinds that open a scope are the same for both.                      *)
LEMMA ScopesAgree == ResetKinds = HookScopes
BY DEF ResetKinds, HookScopes

(* What a step does to the saved depths of the hook.                       *)
LEMMA SavedEnter ==
  ASSUME NEW k, HookEnter(k)
  PROVE  scope_depths' = IF k \in HookScopes \/ Wraps(k) THEN Append(scope_depths, finalizer_depth)
                         ELSE scope_depths
<1>1. CASE k \in HookScopes \/ Wraps(k)
  BY <1>1, HookKinds DEF HookEnter, ClassEnter, EnterScope, Wraps
<1>2. CASE ~(k \in HookScopes \/ Wraps(k))
  BY <1>2 DEF HookEnter, ClassEnter, classVars
<1> QED
  BY <1>1, <1>2

(* What the hook restores on leaving a node; a wrapped node is a class.    *)
LEMMA SavedLeave ==
  ASSUME HInv, HookLeave
  PROVE  /\ LeavesScope(Inner.kind) => /\ scope_depths' = Front(scope_depths)
                                       /\ finalizer_depth' = Last(scope_depths)
         /\ ~LeavesScope(Inner.kind) => scope_depths' = scope_depths
         /\ Depth \in wrapped => Inner.kind \in {"classDecl", "classExpr"}
<1>1. Inner = path[Depth]
  BY StepPaths
<1>2. Depth \in wrapped => Inner.kind \in {"classDecl", "classExpr"}
  BY <1>1 DEF HInv, WellFormed
<1>3. LeavesScope(Inner.kind) => scope_depths' = Front(scope_depths) /\ finalizer_depth' = Last(scope_depths)
  BY <1>2, HookKinds DEF HookLeave, ClassExit, ExitScope, LeavesScope
<1>4. ~LeavesScope(Inner.kind) => scope_depths' = scope_depths
  BY DEF HookLeave, ClassExit, classVars
<1> QED
  BY <1>2, <1>3, <1>4

(* There are as many saved depths as open scopes.                          *)
LEMMA SavedLength ==
  ASSUME HInv
  PROVE  /\ scope_depths \in Seq(Nat) /\ Len(scope_depths) = Cardinality(BoundsAt(path, wrapped))
         /\ IsFiniteSet(BoundsAt(path, wrapped)) /\ finalizer_depth \in Nat
         /\ finalizer_depth = Cardinality(FinalizersAt(path, wrapped, Len(path) + 1))
<1>1. path \in Seq(Node) /\ Len(path) = Depth /\ Depth \in Nat
  BY StepPaths
<1>2. /\ scope_depths \in Seq(Nat) /\ BoundsAt(path, wrapped) \in SUBSET Nat
      /\ Stacked(scope_depths, BoundsAt(path, wrapped), DepthsOf(path, wrapped))
  BY DEF HInv, Types, ScopeInv, BoundsAt
<1>3. Len(scope_depths) = Cardinality(BoundsAt(path, wrapped))
  BY <1>2, StackedLength
<1>4. IsFiniteSet(1..Len(path)) /\ BoundsAt(path, wrapped) \in SUBSET (1..Len(path))
  BY <1>1, FS_Interval DEF BoundsAt
<1>5. finalizer_depth = Cardinality(FinalizersAt(path, wrapped, Depth + 1))
  BY DEF HInv, ScopeInv
<1>6. finalizer_depth \in Nat
  BY <1>1, <1>5, FinalizersFinite
<1> QED
  BY <1>1, <1>2, <1>3, <1>4, <1>5, <1>6, FS_Subset

-----------------------------------------------------------------------------
(* Every step keeps the visitor with the hook.                             *)

(* Outside wrapped classes, a node is entered by both: they stay together, *)
(* or the class they both wrap is skipped by the visitor.                  *)
LEMMA TogetherEnter ==
  ASSUME HInv, VisitorInv, wrapped = {}, NEW k, EnterBoth(k)
  PROVE  VisitorInv'
<1> DEFINE d == Depth + 1
<1>1. HookEnter(k) /\ VisitorEnter(k) /\ VisitorTypes /\ Together
  BY DEF EnterBoth, VisitorInv
<1>2. /\ Depth \in Nat /\ Len(path') = d /\ d \in Nat /\ Len(path) = Depth /\ path \in Seq(Node)
      /\ wrapped \subseteq wrapped' /\ wrapped' \subseteq wrapped \cup {d}
      /\ d \in wrapped' <=> Wraps(k)
  BY <1>1, StepPaths
<1>3. /\ scope_depths \in Seq(Nat) /\ Len(scope_depths) = Cardinality(BoundsAt(path, wrapped))
      /\ finalizer_depth \in Nat
  BY SavedLength
<1>4. /\ BoundsAt(path, wrapped) \subseteq 1..Depth
      /\ DepthsOf(path', wrapped')[d] = finalizer_depth
      /\ BoundsAt(path', wrapped') = BoundsAt(path, wrapped)
                                       \cup IF k \in HookScopes \/ Wraps(k) THEN {d} ELSE {}
  BY <1>1, ScopesEntered
<1>5. Cardinality(FinalizersAt(path', wrapped', Len(path') + 1)) =
        IF k \in HookScopes \/ Wraps(k) THEN 0 ELSE finalizer_depth + IF k = "finalizer" THEN 1 ELSE 0
  BY <1>1, ScopesEntered
<1>6. finalizer_depth' = Cardinality(FinalizersAt(path', wrapped', Len(path') + 1))
  BY <1>1, ScopeEnter DEF ScopeInv, Depth
<1>7. scope_depths' = IF k \in HookScopes \/ Wraps(k) THEN Append(scope_depths, finalizer_depth)
                      ELSE scope_depths
  BY <1>1, SavedEnter
<1>8. VisitorWraps(k) <=> Wraps(k)
  BY <1>1 DEF VisitorWraps, Wraps, Together
<1>9. CASE Wraps(k)
  <2>1. wrapped' = {d}
    BY <1>2, <1>9
  <2>2. /\ visitor_wrapped' = {d} /\ skipped' = d
        /\ visitor_depth' = visitor_depth /\ saved' = saved
    BY <1>1, <1>8, <1>9 DEF VisitorEnter, Together
  <2>3. scope_depths' = Append(scope_depths, finalizer_depth) /\ saved' = scope_depths
    BY <1>1, <1>7, <1>9, <2>2 DEF Together
  <2>4. Begins(saved', scope_depths')
    BY <1>3, <2>3 DEF Begins
  <2>5. BoundsBefore(path', wrapped', d) = BoundsAt(path, wrapped)
    BY <1>2, <1>4 DEF BoundsBefore
  <2>6. Len(saved') = Cardinality(BoundsBefore(path', wrapped', d))
    BY <1>3, <2>3, <2>5
  <2>7. VisitorTypes'
    BY <1>1, <2>2 DEF VisitorTypes
  <2>8. visitor_depth' = DepthsOf(path', wrapped')[d]
    BY <1>1, <1>4, <2>2 DEF Together
  <2>9. Apart'
    BY <1>2, <2>1, <2>2, <2>4, <2>6, <2>8 DEF Apart
  <2> QED
    BY <2>1, <2>7, <2>9 DEF VisitorInv
<1>10. CASE ~Wraps(k)
  <2>1. wrapped' = {}
    BY <1>2, <1>10
  <2>2. /\ visitor_depth' = CASE k = "finalizer"  -> visitor_depth + 1
                              [] k \in HookScopes -> 0
                              [] OTHER            -> visitor_depth
        /\ saved' = IF k \in HookScopes THEN Append(saved, visitor_depth) ELSE saved
        /\ visitor_wrapped' = {} /\ skipped' = 0
    BY <1>1, <1>8, <1>10, ScopesAgree DEF VisitorEnter, Together
  <2>3. visitor_depth' = finalizer_depth' /\ saved' = scope_depths'
    BY <1>1, <1>3, <1>5, <1>6, <1>7, <1>10, <2>2, HookKinds DEF Together
  <2>4. VisitorTypes'
    BY <1>1, <1>3, <1>5, <1>6, <1>7, <1>10, <2>3 DEF VisitorTypes
  <2> QED
    BY <2>1, <2>2, <2>3, <2>4 DEF VisitorInv, Together
<1> QED
  BY <1>9, <1>10

(* Outside wrapped classes, a node is left by both.                        *)
LEMMA TogetherLeave ==
  ASSUME HInv, VisitorInv, wrapped = {}, LeaveBoth
  PROVE  VisitorInv'
<1>1. HookLeave /\ VisitorLeave(Inner.kind) /\ VisitorTypes /\ Together
  BY DEF LeaveBoth, VisitorInv
<1>2. wrapped' = {}
  BY <1>1 DEF HookLeave
<1>3. LeavesScope(Inner.kind) <=> Inner.kind \in HookScopes
  BY DEF LeavesScope
<1>4. /\ LeavesScope(Inner.kind) => /\ scope_depths' = Front(scope_depths)
                                    /\ finalizer_depth' = Last(scope_depths)
      /\ ~LeavesScope(Inner.kind) => scope_depths' = scope_depths
  BY <1>1, SavedLeave
<1>5. ScopeInv' /\ scope_depths' \in Seq(Nat)
  BY <1>1, ScopeLeave
<1>6. /\ ~LeavesScope(Inner.kind) => finalizer_depth = Cardinality(FinalizersAt(path', wrapped', Len(path') + 1))
                                                         + IF Inner.kind = "finalizer" THEN 1 ELSE 0
  BY <1>1, ScopesLeft
<1>7. finalizer_depth' = Cardinality(FinalizersAt(path', wrapped', Len(path') + 1))
  BY <1>5 DEF ScopeInv, Depth
<1>8. Len(path') + 1 \in Nat
  BY <1>1, StepPaths
<1>9. finalizer_depth' \in Nat
  BY <1>7, <1>8, FinalizersFinite
<1>10. /\ visitor_depth' = CASE Inner.kind = "finalizer"  -> visitor_depth - 1
                             [] Inner.kind \in HookScopes -> Last(saved)
                             [] OTHER                     -> visitor_depth
       /\ saved' = IF Inner.kind \in HookScopes THEN Front(saved) ELSE saved
       /\ visitor_wrapped' = {} /\ skipped' = 0
  BY <1>1, ScopesAgree DEF VisitorLeave, Resume, Together
<1>11. visitor_depth' = finalizer_depth'
  <2>1. CASE Inner.kind \in HookScopes
    BY <1>1, <1>3, <1>4, <1>10, <2>1, HookKinds DEF Together
  <2>2. CASE Inner.kind \notin HookScopes
    BY <1>1, <1>3, <1>6, <1>7, <1>9, <1>10, <2>2 DEF Together
  <2> QED
    BY <2>1, <2>2
<1>12. saved' = scope_depths'
  BY <1>1, <1>3, <1>4, <1>10 DEF Together
<1> QED
  BY <1>2, <1>5, <1>9, <1>10, <1>11, <1>12 DEF VisitorInv, VisitorTypes, Together

(* In a wrapped class the hook goes on alone, above what the visitor has   *)
(* saved.                                                                  *)
LEMMA ApartEnter ==
  ASSUME HInv, VisitorInv, wrapped # {}, NEW k, EnterBoth(k)
  PROVE  VisitorInv'
<1> DEFINE d == Depth + 1
<1>1. HookEnter(k) /\ VisitorEnter(k) /\ VisitorTypes /\ Apart
  BY DEF EnterBoth, VisitorInv
<1>2. /\ Depth \in Nat /\ d \in Nat /\ wrapped \in SUBSET (1..Len(path)) /\ Len(path) = Depth
      /\ wrapped \subseteq wrapped' /\ wrapped' \subseteq wrapped \cup {d}
  BY <1>1, StepPaths
<1>3. skipped \in wrapped /\ skipped \in 1..Depth /\ skipped # 0 /\ skipped < d
  BY <1>1, <1>2 DEF Apart
<1>4. UNCHANGED visitorVars
  BY <1>1, <1>3 DEF VisitorEnter
<1>5. visitor_wrapped' = visitor_wrapped /\ visitor_depth' = visitor_depth /\ saved' = saved /\ skipped' = skipped
  BY <1>4 DEF visitorVars
<1>6. /\ \A i \in 1..Depth : DepthsOf(path', wrapped')[i] = DepthsOf(path, wrapped)[i]
      /\ BoundsAt(path', wrapped') = BoundsAt(path, wrapped)
                                       \cup IF k \in HookScopes \/ Wraps(k) THEN {d} ELSE {}
  BY <1>1, ScopesEntered
<1>7. BoundsBefore(path', wrapped', skipped) = BoundsBefore(path, wrapped, skipped)
  BY <1>2, <1>3, <1>6 DEF BoundsBefore
<1>8. visitor_depth' = DepthsOf(path', wrapped')[skipped']
  BY <1>1, <1>3, <1>5, <1>6 DEF Apart
<1>9. Begins(saved', scope_depths')
  <2>1. scope_depths \in Seq(Nat) /\ finalizer_depth \in Nat
    BY SavedLength
  <2>2. scope_depths' = Append(scope_depths, finalizer_depth) \/ scope_depths' = scope_depths
    BY <1>1, SavedEnter
  <2>3. saved \in Seq(Nat) /\ Len(saved) <= Len(scope_depths)
        /\ \A n \in 1..Len(saved) : saved[n] = scope_depths[n]
    BY <1>1 DEF Begins, Apart, VisitorTypes
  <2>4. Len(scope_depths) <= Len(scope_depths')
        /\ \A n \in 1..Len(scope_depths) : scope_depths'[n] = scope_depths[n]
    BY <2>1, <2>2
  <2>5. Len(scope_depths) \in Nat /\ Len(scope_depths') \in Nat /\ Len(saved) \in Nat
    BY <2>1, <2>2, <2>3
  <2>6. \A n \in 1..Len(saved) : n \in 1..Len(scope_depths)
    BY <2>3, <2>5
  <2> QED
    BY <1>5, <2>3, <2>4, <2>5, <2>6 DEF Begins
<1>10. \A i \in wrapped' : skipped <= i
  BY <1>1, <1>2, <1>3 DEF Apart
<1>11. skipped' \in wrapped' /\ visitor_wrapped' = {skipped'} /\ wrapped' # {}
  BY <1>1, <1>2, <1>3, <1>5 DEF Apart
<1>12. Len(saved') = Cardinality(BoundsBefore(path', wrapped', skipped'))
  BY <1>1, <1>5, <1>7 DEF Apart
<1>13. Apart'
  BY <1>5, <1>8, <1>9, <1>10, <1>11, <1>12 DEF Apart
<1> QED
  BY <1>1, <1>5, <1>11, <1>13 DEF VisitorInv, VisitorTypes

(* In a wrapped class the hook comes back, not below what the visitor has  *)
(* saved.                                                                  *)
LEMMA ApartLeave ==
  ASSUME HInv, VisitorInv, wrapped # {}, LeaveBoth, Depth # skipped
  PROVE  VisitorInv'
<1>1. HookLeave /\ VisitorLeave(Inner.kind) /\ VisitorTypes /\ Apart
  BY DEF LeaveBoth, VisitorInv
<1>2. /\ Depth \in Nat /\ wrapped \in SUBSET (1..Len(path)) /\ Len(path) = Depth
      /\ wrapped' = wrapped \ {Depth}
  BY <1>1, StepPaths
<1>3. skipped \in wrapped' /\ skipped \in 1..(Depth - 1) /\ skipped # 0 /\ skipped < Depth
  BY <1>1, <1>2 DEF Apart
<1>4. UNCHANGED visitorVars
  BY <1>1, <1>3 DEF VisitorLeave
<1>5. visitor_wrapped' = visitor_wrapped /\ visitor_depth' = visitor_depth /\ saved' = saved /\ skipped' = skipped
  BY <1>4 DEF visitorVars
<1>6. /\ \A i \in 1..(Depth - 1) : DepthsOf(path', wrapped')[i] = DepthsOf(path, wrapped)[i]
      /\ BoundsAt(path', wrapped') = BoundsAt(path, wrapped) \ {Depth}
  BY <1>1, ScopesLeft
<1>7. BoundsBefore(path', wrapped', skipped) = BoundsBefore(path, wrapped, skipped)
  <2>1. BoundsAt(path', wrapped') = BoundsAt(path, wrapped) \ {Depth}
    BY <1>6
  <2>2. ~(Depth < skipped)
    BY <1>2, <1>3
  <2> QED
    BY ONLY <2>1, <2>2 DEF BoundsBefore
<1>8. visitor_depth' = DepthsOf(path', wrapped')[skipped']
  BY <1>1, <1>3, <1>5, <1>6 DEF Apart
<1>9. HInv'
  BY <1>1, HInvNext DEF HookNext
<1>10. Len(saved') = Cardinality(BoundsBefore(path', wrapped', skipped'))
  BY <1>1, <1>5, <1>7 DEF Apart
<1>11. Len(saved) <= Len(scope_depths')
  <2>1. scope_depths \in Seq(Nat) /\ Len(scope_depths) = Cardinality(BoundsAt(path, wrapped))
        /\ IsFiniteSet(BoundsAt(path, wrapped))
    BY SavedLength
  <2>2. ScopeInv' /\ scope_depths' \in Seq(Nat)
    BY <1>1, ScopeLeave
  <2>3. path' \in Seq(Node) /\ Len(path') \in Nat
    BY <1>1, StepPaths
  <2>4. BoundsAt(path', wrapped') \in SUBSET Nat
    BY <2>3 DEF BoundsAt
  <2>5. Len(scope_depths') = Cardinality(BoundsAt(path', wrapped'))
    BY <2>2, <2>4, StackedLength DEF ScopeInv
  <2>6. IsFiniteSet(BoundsAt(path', wrapped'))
    BY <1>6, <2>1, FS_Subset
  <2>7. BoundsBefore(path', wrapped', skipped) \in SUBSET BoundsAt(path', wrapped')
    BY DEF BoundsBefore
  <2>8. Cardinality(BoundsBefore(path', wrapped', skipped)) <= Cardinality(BoundsAt(path', wrapped'))
    BY <2>6, <2>7, FS_Subset
  <2> QED
    BY <1>5, <1>10, <2>5, <2>8
<1>12. Begins(saved', scope_depths')
  <2>1. scope_depths \in Seq(Nat) /\ Begins(saved, scope_depths) /\ saved \in Seq(Nat)
    BY <1>1, SavedLength DEF Apart, VisitorTypes
  <2>2. CASE LeavesScope(Inner.kind)
    <3>1. scope_depths' = Front(scope_depths)
      BY <1>1, <2>2, SavedLeave
    <3>2. scope_depths' = [n \in 1..(Len(scope_depths) - 1) |-> scope_depths[n]]
      BY <2>1, <3>1 DEF Front
    <3>3. \A n \in 1..Len(saved) : n \in 1..Len(scope_depths')
      BY <1>11, <2>1, <3>1, <1>1, ScopeLeave
    <3>4. scope_depths # << >>
      <4>1. Depth \in BoundsAt(path, wrapped)
        BY <1>1, <2>2, ScopesLeft
      <4> QED
        BY <4>1, SavedLength, FS_EmptySet
    <3>5. Len(scope_depths') = Len(scope_depths) - 1
      BY <2>1, <3>2, <3>4
    <3>6. \A n \in 1..Len(saved) : scope_depths'[n] = scope_depths[n]
      BY <3>2, <3>3, <3>5
    <3> QED
      BY <1>5, <1>11, <2>1, <3>6 DEF Begins
  <2>3. CASE ~LeavesScope(Inner.kind)
    <3>1. scope_depths' = scope_depths
      BY <1>1, <2>3, SavedLeave
    <3> QED
      BY <1>5, <2>1, <3>1
  <2> QED
    BY <2>2, <2>3
<1>13. \A i \in wrapped' : skipped <= i
  BY <1>1, <1>2 DEF Apart
<1>14. visitor_wrapped' = {skipped'} /\ wrapped' # {} /\ skipped' \in wrapped'
  BY <1>1, <1>3, <1>5 DEF Apart
<1>15. Apart'
  BY <1>5, <1>8, <1>10, <1>12, <1>13, <1>14 DEF Apart
<1> QED
  BY <1>1, <1>5, <1>14, <1>15 DEF VisitorInv, VisitorTypes

(* The visitor leaves the class it has wrapped: it catches up.             *)
LEMMA CatchUp ==
  ASSUME HInv, VisitorInv, wrapped # {}, LeaveBoth, Depth = skipped
  PROVE  VisitorInv'
<1>1. HookLeave /\ VisitorLeave(Inner.kind) /\ VisitorTypes /\ Apart
  BY DEF LeaveBoth, VisitorInv
<1>2. /\ Depth \in Nat /\ wrapped \in SUBSET (1..Len(path)) /\ Len(path) = Depth
      /\ wrapped' = wrapped \ {Depth}
  BY <1>1, StepPaths
<1>3. wrapped' = {} /\ Depth \in wrapped
  BY <1>1, <1>2 DEF Apart
<1>4. Inner.kind \in {"classDecl", "classExpr"}
  BY <1>1, <1>3, SavedLeave
<1>5. visitor_wrapped' = {} /\ skipped' = 0 /\ visitor_depth' = visitor_depth /\ saved' = saved
  BY <1>1, <1>4, ScopesAgree, HookKinds DEF VisitorLeave, Resume, Apart
<1>6. LeavesScope(Inner.kind)
  BY <1>3 DEF LeavesScope
<1>7. scope_depths' = Front(scope_depths)
  BY <1>1, <1>6, SavedLeave
<1>8. ScopeInv' /\ scope_depths' \in Seq(Nat)
  BY <1>1, ScopeLeave
<1>9. visitor_depth' = finalizer_depth'
  <2>1. DepthsOf(path, wrapped)[Depth] = Cardinality(FinalizersAt(path', wrapped', Len(path') + 1))
    BY <1>1, ScopesLeft
  <2> QED
    BY <1>1, <1>5, <1>8, <2>1 DEF Apart, ScopeInv, Depth
<1>10. saved = Front(scope_depths)
  <2> DEFINE B == BoundsAt(path, wrapped)
             R == BoundsBefore(path, wrapped, Depth)
  <2>1. scope_depths \in Seq(Nat) /\ Len(scope_depths) = Cardinality(B) /\ IsFiniteSet(B)
    BY SavedLength
  <2>2. B \subseteq 1..Depth /\ Depth \in B
    BY <1>1, <1>6, ScopesLeft
  <2>3. R = B \ {Depth}
    BY <1>2, <2>2 DEF BoundsBefore
  <2> HIDE DEF B, R
  <2>4. Cardinality(R) = Cardinality(B) - 1
    BY <2>1, <2>2, <2>3, FS_RemoveElement
  <2>5. Len(saved) = Len(scope_depths) - 1
    BY <1>1, <2>1, <2>4 DEF Apart, R
  <2>6. saved \in Seq(Nat) /\ \A n \in 1..Len(saved) : saved[n] = scope_depths[n]
    BY <1>1 DEF VisitorTypes, Apart, Begins
  <2>7. Front(scope_depths) = [n \in 1..(Len(scope_depths) - 1) |-> scope_depths[n]]
    BY <2>1 DEF Front
  <2>8. saved = [n \in 1..Len(saved) |-> saved[n]]
    BY <2>6
  <2> QED
    BY <2>5, <2>6, <2>7, <2>8
<1> QED
  BY <1>1, <1>3, <1>5, <1>7, <1>9, <1>10 DEF VisitorInv, VisitorTypes, Together

(* A reference to super concerns neither.                                  *)
LEMMA VisitorSuper ==
  ASSUME HInv, VisitorInv, SuperBoth
  PROVE  VisitorInv'
<1>1. HookSuper /\ UNCHANGED visitorVars /\ Types /\ SuperProp
  BY DEF SuperBoth, HInv, HookSuper
<1>2. wrapped' = wrapped /\ finalizer_depth' = finalizer_depth /\ scope_depths' = scope_depths
  BY <1>1 DEF HookSuper
<1>3. visitor_wrapped' = visitor_wrapped /\ visitor_depth' = visitor_depth /\ saved' = saved /\ skipped' = skipped
  BY <1>1 DEF visitorVars
<1>4. /\ path \in Seq(Node) /\ path' \in Seq(Node) /\ Len(path') = Len(path) /\ Len(path) \in Nat
      /\ Len(path) <= Len(path) /\ wrapped \in SUBSET (1..Len(path))
  BY <1>1, SuperFacts, StepPaths DEF Types
<1>5. \A i \in 1..Len(path) : path'[i].kind = path[i].kind
  BY <1>1, SuperFacts
<1>6. SameScopes(path, wrapped, path', wrapped', Len(path))
  BY <1>2, <1>5 DEF SameKinds, SameScopes, Bounds
<1>7. \A i \in 1..Len(path) : DepthsOf(path', wrapped')[i] = DepthsOf(path, wrapped)[i]
  BY <1>4, <1>6, DepthsSame
<1>8. BoundsAt(path', wrapped') = BoundsAt(path, wrapped)
  BY <1>4, <1>6 DEF BoundsAt, SameScopes
<1>9. \A n : BoundsBefore(path', wrapped', n) = BoundsBefore(path, wrapped, n)
  BY <1>8 DEF BoundsBefore
<1>10. CASE wrapped = {}
  BY <1>2, <1>3, <1>10 DEF VisitorInv, VisitorTypes, Together
<1>11. CASE wrapped # {}
  <2>1. VisitorTypes /\ Apart
    BY <1>11 DEF VisitorInv
  <2>2. skipped \in 1..Len(path)
    BY <1>4, <2>1 DEF Apart
  <2>3. visitor_depth' = DepthsOf(path', wrapped')[skipped']
    BY <1>3, <1>7, <2>1, <2>2 DEF Apart
  <2>4. Len(saved') = Cardinality(BoundsBefore(path', wrapped', skipped'))
    BY <1>3, <1>9, <2>1 DEF Apart
  <2>5. Apart'
    BY <1>2, <1>3, <2>1, <2>3, <2>4 DEF Apart
  <2> QED
    BY <1>2, <1>3, <1>11, <2>1, <2>5 DEF VisitorInv, VisitorTypes
<1> QED
  BY <1>10, <1>11

-----------------------------------------------------------------------------
(* Theorems.                                                               *)

(* Side by side with the separate pass the hooks behave as alone.          *)
THEOREM PassHooks == PassSpec => HookSpec
<1>1. PassInit => HookInit
  BY DEF PassInit
<1>2. [PassNext]_passVars => [HookNext]_hookVars
  BY DEF PassNext, passVars, EnterBoth, LeaveBoth, SuperBoth, HookNext
<1> QED
  BY <1>1, <1>2, PTL DEF PassSpec, HookSpec

(* Both invariants hold throughout the traversal.                          *)
LEMMA VisitorAlways == PassSpec => [](HInv /\ VisitorInv)
<1>1. PassInit => HInv /\ VisitorInv
  <2> SUFFICES ASSUME PassInit PROVE HInv /\ VisitorInv
    OBVIOUS
  <2>1. HInv
    BY HInvInit DEF PassInit
  <2>2. VisitorInv
    BY DEF PassInit, HookInit, Fixes!WalkInit, VisitorInit, VisitorInv, VisitorTypes, Together
  <2> QED
    BY <2>1, <2>2
<1>2. HInv /\ VisitorInv /\ [PassNext]_passVars => (HInv /\ VisitorInv)'
  <2> SUFFICES ASSUME HInv, VisitorInv, [PassNext]_passVars PROVE HInv' /\ VisitorInv'
    OBVIOUS
  <2>1. HInv'
    <3>1. [HookNext]_hookVars
      BY DEF PassNext, passVars, EnterBoth, LeaveBoth, SuperBoth, HookNext
    <3> QED
      BY <3>1, HInvNext
  <2>2. ASSUME NEW k, EnterBoth(k) PROVE VisitorInv'
    BY <2>2, TogetherEnter, ApartEnter
  <2>3. ASSUME LeaveBoth PROVE VisitorInv'
    BY <2>3, TogetherLeave, ApartLeave, CatchUp
  <2>4. ASSUME SuperBoth PROVE VisitorInv'
    BY <2>4, VisitorSuper
  <2>5. ASSUME UNCHANGED passVars PROVE VisitorInv'
    BY <2>5 DEF passVars, hookVars, visitorVars, VisitorInv, VisitorTypes, Together, Apart
  <2> QED
    BY <2>1, <2>2, <2>3, <2>4, <2>5 DEF PassNext
<1> QED
  BY <1>1, <1>2, PTL DEF PassSpec

(* The state of both passes has its types in every reachable state.        *)
THEOREM PassTypeCorrect == PassSpec => []PassTypeOK
<1>1. HInv /\ VisitorInv /\ HookTypeOK => PassTypeOK
  BY DEF HInv, Types, VisitorInv, VisitorTypes, Together, Apart, PassTypeOK
<1> QED
  BY <1>1, VisitorAlways, PassHooks, HookTypeCorrect, PTL

(* The separate pass wraps exactly the outermost of the classes that the   *)
(* hook wraps, and outside them both have counted and saved the same.      *)
THEOREM WrapsOutermost == PassSpec => []VisitorWrapsOutermost
<1>1. HInv /\ VisitorInv => VisitorWrapsOutermost
  <2> SUFFICES ASSUME HInv, VisitorInv PROVE VisitorWrapsOutermost
    OBVIOUS
  <2>1. wrapped \in SUBSET (1..Len(path)) /\ Len(path) \in Nat
    BY StepPaths
  <2>2. CASE wrapped = {}
    BY <2>2 DEF VisitorInv, Together, VisitorWrapsOutermost
  <2>3. CASE wrapped # {}
    <3>1. skipped \in wrapped /\ (\A i \in wrapped : skipped <= i) /\ visitor_wrapped = {skipped}
      BY <2>3 DEF VisitorInv, Apart
    <3>2. \A i \in wrapped : i <= skipped => i = skipped
      BY <2>1, <3>1
    <3> QED
      BY <2>3, <3>1, <3>2 DEF VisitorWrapsOutermost
  <2> QED
    BY <2>2, <2>3
<1> QED
  BY <1>1, VisitorAlways, PTL
===============================================================================
