------------------------- MODULE ReanimatedPass_proofs -------------------------
(***************************************************************************)
(* Proofs about ReanimatedPass, for every value of its constants.          *)
(*                                                                         *)
(* A step enters a node, goes on in it, or leaves it (Pushed, EnterBody,   *)
(* Popped); each invariant says something of every open node, so that it   *)
(* is there when the node is the last again.                               *)
(***************************************************************************)
EXTENDS ReanimatedPass, FiniteSetTheorems, SequenceTheorems, TLAPS

-----------------------------------------------------------------------------
(* Entering and leaving nodes.                                             *)

(* What no step changes of a node while it is open.                        *)
Same(a, b) ==
  a.id = b.id /\ a.span = b.span /\ a.kind = b.kind /\ a.marked = b.marked /\ a.old = b.old

(* Stack t is s and a new node n.                                          *)
Pushed(s, t, n) ==
  /\ Len(t) = Len(s) + 1 /\ t[Len(s) + 1] = n
  /\ \A i \in 1..Len(s) : /\ Same(t[i], s[i]) /\ t[i].code = s[i].code /\ t[i].params = s[i].params
                          /\ t[i].shared = (s[i].shared \/ s[i].span = n.span)
                          /\ t[i].part = s[i].part \/ s[i].kind = "context"

(* Stack t is s without its last node.                                     *)
Popped(s, t) ==
  /\ Len(t) = Len(s) - 1
  /\ \A i \in 1..Len(t) : Same(t[i], s[i]) /\ t[i].shared = s[i].shared /\ t[i].part = s[i].part

(* The node that Push puts on the stack.                                   *)
New(k, marked, scopable) ==
  [id |-> nodes + 1, span |-> IF k = "contextFactory" THEN Dummy ELSE nodes + 1,
   kind |-> k, marked |-> marked,
   part |-> IF k \in FnKinds \cup {"context"} THEN "params" ELSE "body",
   old |-> scopable, code |-> NoCode, params |-> NoCode, shared |-> FALSE, below |-> {}]

(* A stack without its last node.                                          *)
LEMMA FrontFacts ==
  ASSUME NEW s \in Seq(Node), s # << >>
  PROVE  /\ Len(s) \in Nat \ {0} /\ Front(s) \in Seq(Node) /\ Len(Front(s)) = Len(s) - 1
         /\ \A i \in 1..(Len(s) - 1) : Front(s)[i] = s[i]
         /\ s[Len(s)] \in Node
<1>1. Len(s) \in Nat \ {0} /\ \A i \in 1..Len(s) : s[i] \in Node
  BY EmptySeq, ElementOfSeq
<1>2. \A i \in 1..(Len(s) - 1) : s[i] \in Node
  BY <1>1
<1>3. /\ Front(s) \in Seq(Node)
      /\ Len(Front(s)) = IF 1 <= Len(s) - 1 THEN Len(s) - 1 - 1 + 1 ELSE 0
      /\ \A i \in 1..(Len(s) - 1 - 1 + 1) : Front(s)[i] = s[1 + i - 1]
  BY <1>1, <1>2, SubSeqProperties DEF Front
<1>4. Len(Front(s)) = Len(s) - 1
  <2>1. \A n \in Nat \ {0} : (IF 1 <= n - 1 THEN n - 1 - 1 + 1 ELSE 0) = n - 1
    OBVIOUS
  <2>2. QED
    BY <1>1, <1>3, <2>1
<1>5. ASSUME NEW i \in 1..(Len(s) - 1) PROVE Front(s)[i] = s[i]
  <2>1. i \in 1..(Len(s) - 1 - 1 + 1) /\ 1 + i - 1 = i
    BY <1>1
  <2>2. QED
    BY <1>3, <2>1
<1>6. QED
  BY <1>1, <1>3, <1>4, <1>5

(* The node that the visitor is inside of.                                 *)
LEMMA TopFacts ==
  ASSUME TypeOK, phase = "walk"
  PROVE  /\ stack \in Seq(Node) /\ stack # << >> /\ Len(stack) \in Nat \ {0}
         /\ Top \in Node /\ Top = stack[Len(stack)] /\ Len(stack) \in 1..Len(stack)
         /\ Top.code \in Code /\ Top.params \in Code /\ Top.kind \in Kinds /\ Top.marked \in BOOLEAN
<1>1. stack \in Seq(Node) /\ stack # << >>
  BY DEF TypeOK
<1>2. Len(stack) \in Nat \ {0} /\ stack[Len(stack)] \in Node
  BY <1>1, FrontFacts
<1>3. Top \in Node
  BY <1>2 DEF Top
<1>4. Top.code \in Code /\ Top.params \in Code /\ Top.kind \in Kinds /\ Top.marked \in BOOLEAN
  BY <1>3 DEF Node
<1>5. QED
  BY <1>1, <1>2, <1>3, <1>4 DEF Top

(* Push enters its node and keeps the types.                               *)
LEMMA PushFacts ==
  ASSUME TypeOK, NEW k \in Kinds, NEW m \in BOOLEAN, NEW b \in BOOLEAN, Push(k, m, b),
         k = "contextFactory" => stack # << >> /\ Top.kind = "context"
  PROVE  /\ New(k, m, b) \in Node /\ stack' \in Seq(Node) /\ stack' # << >>
         /\ Pushed(stack, stack', New(k, m, b))
         /\ nodes' = nodes + 1 /\ parent_is_scopable' \in BOOLEAN
         /\ unprocessed_bodies' = WithBody(New(k, m, b))
<1> DEFINE n == New(k, m, b)
           u == Above(n)
<1>1. stack \in Seq(Node) /\ Len(stack) \in Nat /\ nodes \in Nat /\ DOMAIN stack = 1..Len(stack)
  BY DEF TypeOK
<1>2. n \in Node
  BY <1>1 DEF New, Node, Parts, Dummy, NoCode, Code
<1>3. /\ stack' = Append(u, n) /\ unprocessed_bodies' = WithBody(n) /\ nodes' = nodes + 1
  BY DEF Push, New
<1>4. ASSUME NEW i \in 1..Len(stack)
      PROVE  /\ u[i] \in Node /\ Same(u[i], stack[i])
             /\ u[i].code = stack[i].code /\ u[i].params = stack[i].params
             /\ u[i].shared = (stack[i].shared \/ stack[i].span = n.span)
             /\ u[i].part = stack[i].part \/ stack[i].kind = "context"
  <2> DEFINE x == stack[i]
             y == x.shared \/ x.span = n.span
             z == IF x.kind = "context" THEN x.below \cup {n.kind} ELSE x.below
             p == IF n.kind = "contextFactory" /\ i = Len(stack) THEN "body" ELSE x.part
  <2>1. x \in Node
    BY <1>1
  <2>2. y \in BOOLEAN /\ z \in SUBSET Kinds /\ p \in Parts
    BY <1>2, <2>1 DEF Node, Parts
  <2>3. u[i] = [x EXCEPT !.shared = y, !.below = z, !.part = p]
    BY <1>1 DEF Above
  <2>4. p = x.part \/ x.kind = "context"
    BY DEF New, Top
  <2> HIDE DEF x, y, z, p, u, n
  <2>5. /\ u[i] \in Node /\ u[i].shared = y /\ u[i].part = p /\ u[i].code = x.code
        /\ u[i].params = x.params
        /\ Same(u[i], x)
    BY <2>1, <2>2, <2>3 DEF Node, Same
  <2>6. QED
    BY <2>4, <2>5 DEF x, y
<1>5. u = [i \in 1..Len(stack) |-> u[i]]
  BY <1>1 DEF Above
<1> HIDE DEF u, n
<1>6. u \in Seq(Node) /\ Len(u) = Len(stack)
  <2>1. \A i \in 1..Len(stack) : u[i] \in Node
    BY <1>4
  <2>2. [i \in 1..Len(stack) |-> u[i]] \in [1..Len(stack) -> Node]
    BY <2>1
  <2>3. u \in [1..Len(stack) -> Node]
    BY <1>5, <2>2
  <2>4. QED
    BY <1>1, <2>3
<1>7. /\ stack' \in Seq(Node) /\ Len(stack') = Len(stack) + 1 /\ stack'[Len(stack) + 1] = n
      /\ \A i \in 1..Len(stack) : stack'[i] = u[i]
  BY <1>1, <1>2, <1>3, <1>6
<1>8. stack' # << >>
  BY <1>1, <1>7
<1>9. Pushed(stack, stack', n)
  BY <1>4, <1>7 DEF Pushed
<1>10. parent_is_scopable' \in BOOLEAN
  BY DEF Push
<1>11. QED
  BY <1>2, <1>3, <1>7, <1>8, <1>9, <1>10 DEF n

(* The code mentions names of H only, and binds only identifiers of        *)
(* factories.                                                              *)
Clean(c, H) == c.mentions \subseteq H /\ c.binds \subseteq Name \X {"factory"}

(* The code of the open nodes does.                                        *)
Mention(s, H) == \A i \in 1..Len(s) : Clean(s[i].code, H) /\ Clean(s[i].params, H)

(* Putting code together.                                                  *)
LEMMA JoinedFacts ==
  ASSUME NEW a \in Code, NEW b \in Code
  PROVE  /\ Joined(a, b) \in Code
         /\ \A H : Clean(a, H) /\ Clean(b, H) => Clean(Joined(a, b), H)
BY DEF Joined, Code, Clean

(* Return leaves the last node and keeps the types.                        *)
LEMMA ReturnFacts ==
  ASSUME TypeOK, phase = "walk", NEW code \in Code, Return(code)
  PROVE  /\ stack' \in Seq(Node) /\ Popped(stack, stack')
         /\ \/ phase' = "walk" /\ stack' # << >>
            \/ phase' = "item" /\ stack' = << >>
         /\ escaped' \in SUBSET Name /\ parent_is_scopable' \in BOOLEAN
         /\ \A H : Mention(stack, H) /\ Clean(code, H) /\ escaped \subseteq H
                     => Mention(stack', H) /\ escaped' \subseteq H
<1> DEFINE o == Front(stack)
           x == o[Len(o)]
           z == Joined(x.code, code)
           y == [x EXCEPT !.code = z]
<1>1. /\ stack \in Seq(Node) /\ Len(stack) \in Nat \ {0} /\ o \in Seq(Node) /\ Len(o) = Len(stack) - 1
      /\ \A i \in 1..(Len(stack) - 1) : o[i] = stack[i]
  BY TopFacts, FrontFacts
<1>2. escaped' \in SUBSET Name /\ parent_is_scopable' \in BOOLEAN
  BY TopFacts DEF Return, TypeOK, Node, Code
<1>3. CASE o = << >>
  <2>1. stack' = << >> /\ phase' = "item" /\ escaped' = code.mentions
    BY <1>3 DEF Return
  <2>2. Len(stack') = 0 /\ Len(stack) = 1 /\ stack' \in Seq(Node)
    BY <1>1, <1>3, <2>1
  <2>3. QED
    BY <1>2, <2>1, <2>2 DEF Popped, Mention, Clean
<1>4. CASE o # << >>
  <2>1. Len(o) \in 1..Len(o) /\ x \in Node /\ Len(o) \in Nat
    BY <1>1, <1>4
  <2>a. x.code \in Code
    BY <2>1 DEF Node
  <2>b. z \in Code
    BY <2>a, JoinedFacts
  <2>2. /\ y \in Node /\ Same(y, x) /\ y.shared = x.shared /\ y.part = x.part
        /\ y.code = z /\ y.params = x.params
    <3> HIDE DEF z
    <3>1. QED
      BY <2>1, <2>b DEF Node, Same
  <2>3. stack' = [o EXCEPT ![Len(o)] = y]
    BY <1>4 DEF Return
  <2>4. phase' = "walk" /\ escaped' = escaped
    BY <1>4 DEF Return
  <2> HIDE DEF o, x, y, z
  <2>5. /\ stack' \in Seq(Node) /\ Len(stack') = Len(o) /\ stack'[Len(o)] = y
        /\ \A i \in 1..Len(o) : i # Len(o) => stack'[i] = o[i]
    BY <1>1, <2>1, <2>2, <2>3
  <2>6. ASSUME NEW i \in 1..Len(stack')
        PROVE  /\ Same(stack'[i], stack[i]) /\ stack'[i].shared = stack[i].shared
               /\ stack'[i].part = stack[i].part
               /\ stack'[i].params = stack[i].params
               /\ stack'[i].code = stack[i].code \/ stack'[i].code = Joined(stack[i].code, code)
    <3>1. i \in 1..Len(o) /\ o[i] = stack[i]
      BY <1>1, <2>5
    <3>2. CASE i = Len(o)
      BY <2>2, <2>5, <3>1, <3>2 DEF x, z
    <3>3. CASE i # Len(o)
      BY <2>5, <3>1, <3>3 DEF Same
    <3>4. QED
      BY <3>2, <3>3
  <2>7. Popped(stack, stack')
    BY <1>1, <2>5, <2>6 DEF Popped
  <2>8. ASSUME NEW H, Mention(stack, H), Clean(code, H), escaped \subseteq H
        PROVE  Mention(stack', H) /\ escaped' \subseteq H
    <3>1. \A i \in 1..Len(stack') : i \in 1..Len(stack)
      BY <1>1, <2>5
    <3>2. ASSUME NEW i \in 1..Len(stack')
          PROVE  Clean(stack'[i].code, H) /\ Clean(stack'[i].params, H)
      <4>1. Clean(stack[i].code, H) /\ Clean(stack[i].params, H)
        BY <2>8, <3>1 DEF Mention
      <4>a. stack[i] \in Node
        BY <1>1, <3>1
      <4>2. stack[i].code \in Code
        BY <4>a DEF Node
      <4>3. Clean(Joined(stack[i].code, code), H)
        BY <2>8, <4>1, <4>2, JoinedFacts
      <4>4. QED
        BY <2>6, <4>1, <4>3
    <3>3. QED
      BY <2>4, <2>8, <3>2 DEF Mention
  <2>9. stack' # << >>
    BY <2>1, <2>5
  <2>10. QED
    BY <1>2, <2>4, <2>5, <2>7, <2>8, <2>9
<1>5. QED
  BY <1>3, <1>4

-----------------------------------------------------------------------------
(* Types.                                                                  *)

BodiesType(f) == IsFiniteSet(DOMAIN f) /\ DOMAIN f \subseteq Nat /\ f \in [DOMAIN f -> Nat]

(* Storing a body keeps the type of the map of bodies.                     *)
LEMMA StoreTypes ==
  ASSUME TypeOK, NEW n \in Node
  PROVE  BodiesType(WithBody(n))
<1>1. /\ IsFiniteSet(DOMAIN unprocessed_bodies) /\ DOMAIN unprocessed_bodies \subseteq Nat
      /\ unprocessed_bodies \in [DOMAIN unprocessed_bodies -> Nat] /\ n.span \in Nat /\ n.id \in Nat
  BY DEF TypeOK, Node
<1>2. CASE ~Nested /\ n.marked /\ n.kind \in FunctionKinds
  <2> DEFINE D == DOMAIN unprocessed_bodies \cup {n.span}
  <2>1. WithBody(n) = [s \in D |-> IF s = n.span THEN n.id ELSE unprocessed_bodies[s]]
    BY <1>2 DEF WithBody
  <2>2. IsFiniteSet(D) /\ D \subseteq Nat
    BY <1>1, FS_AddElement
  <2>3. \A s \in D : (IF s = n.span THEN n.id ELSE unprocessed_bodies[s]) \in Nat
    BY <1>1
  <2>4. DOMAIN WithBody(n) = D /\ WithBody(n) \in [D -> Nat]
    BY <2>1, <2>3
  <2>5. QED
    BY <2>2, <2>4 DEF BodiesType
<1>3. CASE ~(~Nested /\ n.marked /\ n.kind \in FunctionKinds)
  <2>1. WithBody(n) = unprocessed_bodies
    BY <1>3 DEF WithBody
  <2>2. QED
    BY <1>1, <2>1 DEF BodiesType
<1>4. QED
  BY <1>2, <1>3

(* Taking a body out keeps the type of the map of bodies.                  *)
LEMMA TakenTypes ==
  ASSUME TypeOK, phase = "walk", Taken(Top)
  PROVE  BodiesType(unprocessed_bodies')
<1>1. /\ IsFiniteSet(DOMAIN unprocessed_bodies) /\ DOMAIN unprocessed_bodies \subseteq Nat
      /\ unprocessed_bodies \in [DOMAIN unprocessed_bodies -> Nat]
  BY DEF TypeOK
<1>2. CASE Top.kind = "arrow"
  BY <1>1, <1>2 DEF Taken, BodiesType
<1>3. CASE Top.kind # "arrow"
  <2> DEFINE D == DOMAIN unprocessed_bodies \ {Top.span}
  <2>1. unprocessed_bodies' = [s \in D |-> unprocessed_bodies[s]]
    BY <1>3 DEF Taken, Restrict
  <2>2. IsFiniteSet(D) /\ D \subseteq Nat
    BY <1>1, FS_Subset
  <2>3. \A s \in D : unprocessed_bodies[s] \in Nat
    BY <1>1
  <2>4. DOMAIN unprocessed_bodies' = D /\ unprocessed_bodies' \in [D -> Nat]
    BY <2>1, <2>3
  <2>5. QED
    BY <2>2, <2>4 DEF BodiesType
<1>4. QED
  BY <1>2, <1>3

(* Leaving a node, whatever is done with it.                               *)
LEMMA LeaveTypes ==
  ASSUME TypeOK, phase = "walk", NEW code \in Code, Return(code),
         UNCHANGED <<program, options, nodes, out, result>>,
         BodiesType(unprocessed_bodies'), pending_prepends' \in Seq(Name),
         worklet_number' \in Nat \ {0}, used_names' \in SUBSET Name,
         error' \in Errors \cup {None}, worklets' \in SUBSET Worklet, missed' \in SUBSET Kinds
  PROVE  TypeOK'
<1>1. /\ stack' \in Seq(Node)
      /\ \/ phase' = "walk" /\ stack' # << >>
         \/ phase' = "item" /\ stack' = << >>
      /\ escaped' \in SUBSET Name /\ parent_is_scopable' \in BOOLEAN
  BY ReturnFacts
<1>2. /\ IsFiniteSet(DOMAIN unprocessed_bodies') /\ DOMAIN unprocessed_bodies' \subseteq Nat
      /\ unprocessed_bodies' \in [DOMAIN unprocessed_bodies' -> Nat]
  BY DEF BodiesType
<1>3. QED
  BY <1>1, <1>2 DEF TypeOK

(* The body a worklet is serialized from is a body or none.                *)
LEMMA SerializedTypes ==
  ASSUME TypeOK, phase = "walk"
  PROVE  /\ Serialized(Top) \in Nat \cup {None}
         /\ SerializedCode(Top) \in Code /\ Closure(Top) \in SUBSET Name
<1>1. Top.code \in Code /\ Top.params \in Code /\ Top.id \in Nat
  BY TopFacts DEF Node
<1>2. \A s \in DOMAIN unprocessed_bodies : unprocessed_bodies[s] \in Nat
  BY DEF TypeOK
<1>3. SerializedCode(Top) \in Code
  BY <1>1 DEF SerializedCode
<1>4. Closure(Top) \in SUBSET Name
  BY <1>3 DEF Closure, Code
<1>5. QED
  BY <1>1, <1>2, <1>3, <1>4 DEF Serialized

(* The call of a factory is code, and binds nothing but its parameters.    *)
LEMMA CallFacts ==
  ASSUME TypeOK, phase = "walk", NEW inits \in SUBSET Name
  PROVE  /\ FactoryCall(Top, inits) \in Code
         /\ \A H : Clean(Top.code, H) /\ inits \subseteq H => Clean(FactoryCall(Top, inits), H)
<1> DEFINE b == [mentions |-> inits, binds |-> FactoryBindings(Closure(Top) \cup inits)]
<1>1. Top.code \in Code /\ Closure(Top) \in SUBSET Name
  BY TopFacts, SerializedTypes
<1>2. FactoryBindings(Closure(Top) \cup inits) \subseteq Name \X {"factory"}
  BY <1>1 DEF FactoryBindings
<1>3. b \in Code /\ b.mentions = inits /\ b.binds \subseteq Name \X {"factory"}
  BY <1>2 DEF Code, Ident
<1>4. FactoryCall(Top, inits) = Joined(Top.code, b)
  BY DEF FactoryCall
<1> HIDE DEF b
<1>5. FactoryCall(Top, inits) \in Code
  BY <1>1, <1>3, <1>4, JoinedFacts
<1>6. ASSUME NEW H, Clean(Top.code, H), inits \subseteq H
      PROVE  Clean(FactoryCall(Top, inits), H)
  <2>1. Clean(b, H)
    BY <1>3, <1>6 DEF Clean
  <2>2. QED
    BY <1>1, <1>3, <1>4, <1>6, <2>1, JoinedFacts
<1>7. QED
  BY <1>5, <1>6

(* The record kept of a replaced worklet is well typed.                    *)
LEMMA ReplacedFacts ==
  ASSUME TypeOK, phase = "walk", Due(Top), NEW init \in Name \cup {None}, Replaced(init)
  PROVE  worklets' \in SUBSET Worklet
<1>1. /\ Top.id \in Nat /\ Top.shared \in BOOLEAN /\ Top.kind \in WorkletKinds
  BY TopFacts DEF Node, Due
<1>2. worklet_number \in Nat /\ worklets \in SUBSET Worklet
  BY DEF TypeOK
<1>3. Serialized(Top) \in Nat \cup {None} /\ SerializedCode(Top).mentions \ Closure(Top) \in SUBSET Name
  BY SerializedTypes DEF Code
<1>4. QED
  BY <1>1, <1>2, <1>3 DEF Replaced, Worklet

(* The first error stays.                                                  *)
LEMMA ReportedFacts ==
  ASSUME TypeOK, NEW e \in Errors
  PROVE  Reported(e) \in Errors /\ Reported(e) # None
BY NoneAssumption DEF TypeOK, Reported

(* The names that fresh_init_id chooses from.                              *)
LEMMA CandidateNames ==
  ASSUME NEW name \in Candidates
  PROVE  name \in Name
<1>1. 1..(Cardinality(used_names) + 1) \subseteq Nat \ {0}
  OBVIOUS
<1>2. QED
  BY <1>1, HashesAssumption DEF Candidates, Name

(* The types are kept by every step.                                       *)
LEMMA NextTypeOK == TypeOK /\ [Next]_vars => TypeOK'
<1> SUFFICES ASSUME TypeOK, [Next]_vars PROVE TypeOK'
  OBVIOUS
<1>t. TypeOK
  OBVIOUS
<1>1. CASE BeginModule \/ BeginScript
  <2>1. error' \in Errors \cup {None}
    BY <1>1, ReportedFacts DEF BeginModule, BeginScript, Begin, Errors, TypeOK
  <2>2. used_names' \in SUBSET Name
    BY <1>1, NamesAssumption DEF BeginModule, BeginScript, Begin, TypeOK
  <2>3. QED
    BY <1>1, <2>1, <2>2 DEF BeginModule, BeginScript, Begin, TypeOK, kept, walk
<1>2. ASSUME NEW k \in Kinds, NEW m \in BOOLEAN, NEW b \in BOOLEAN, Push(k, m, b),
             k = "contextFactory" => stack # << >> /\ Top.kind = "context",
             phase' = "walk", UNCHANGED <<kept, names, error, rest, worklets, missed>>
      PROVE  TypeOK'
  <2>1. /\ New(k, m, b) \in Node /\ stack' \in Seq(Node) /\ stack' # << >>
        /\ nodes' \in Nat /\ parent_is_scopable' \in BOOLEAN
        /\ unprocessed_bodies' = WithBody(New(k, m, b))
    BY <1>2, PushFacts DEF TypeOK
  <2>2. BodiesType(WithBody(New(k, m, b)))
    BY <2>1, StoreTypes
  <2>3. /\ IsFiniteSet(DOMAIN unprocessed_bodies') /\ DOMAIN unprocessed_bodies' \subseteq Nat
        /\ unprocessed_bodies' \in [DOMAIN unprocessed_bodies' -> Nat]
    BY <2>1, <2>2 DEF BodiesType
  <2>4. QED
    BY <1>2, <2>1, <2>3 DEF TypeOK, kept, names, rest
<1>3. ASSUME NEW k \in program.shapes, NEW m \in BOOLEAN, OpenItem(k, m) PROVE TypeOK'
  <2>1. k \in Kinds /\ k # "contextFactory"
    BY <1>3, ProgramAssumption DEF OpenItem, Items, ItemKinds, ListKinds, TypeOK, Family
  <2>2. QED
    BY <1>2, <1>3, <2>1 DEF OpenItem
<1>4. ASSUME NEW k \in program.shapes, NEW m \in BOOLEAN, Enter(k, m) PROVE TypeOK'
  <2>1. k \in Kinds /\ k # "contextFactory"
    BY <1>4, ProgramAssumption DEF Enter, ChildKinds, ExprKinds, ListKinds, TypeOK, Family
  <2>2. parent_is_scopable \in BOOLEAN /\ phase' = "walk"
    BY <1>4 DEF TypeOK, Enter
  <2>3. QED
    BY <1>2, <1>4, <2>1, <2>2 DEF Enter
<1>5. CASE EnterFactory
  <2>1. parent_is_scopable \in BOOLEAN /\ phase' = "walk" /\ stack # << >>
    BY <1>5 DEF TypeOK, EnterFactory
  <2>2. "contextFactory" \in Kinds
    BY DEF Kinds, FnKinds
  <2>3. QED
    BY <1>2, <1>5, <2>1, <2>2 DEF EnterFactory
<1>6. CASE RejectAccessor
  <2>1. error' \in Errors \cup {None} /\ missed' \in SUBSET Kinds
    BY <1>6, ReportedFacts DEF RejectAccessor, TypeOK, Errors, Kinds, FnKinds
  <2>2. QED
    BY <1>6, <2>1 DEF RejectAccessor, TypeOK, kept, names, rest
<1>7. CASE EnterBody
  <2> DEFINE n == [stack[Len(stack)] EXCEPT !.part = "body", !.params = Top.code,
                                            !.old = parent_is_scopable]
  <2>1. Top \in Node /\ stack \in Seq(Node) /\ Len(stack) \in 1..Len(stack) /\ stack # << >>
    BY <1>7, TopFacts DEF EnterBody
  <2>2. n \in Node
    BY <2>1, TopFacts, <1>7 DEF Top, Node, TypeOK, Parts, EnterBody
  <2>3. stack' = [stack EXCEPT ![Len(stack)] = n]
    BY <1>7, <2>1 DEF EnterBody
  <2>a. stack' \in Seq(Node) /\ Len(stack') = Len(stack)
    BY <2>1, <2>2, <2>3
  <2>4. stack' \in Seq(Node) /\ stack' # << >>
    BY <2>1, <2>a
  <2>5. parent_is_scopable' \in BOOLEAN
    BY <1>7 DEF EnterBody, TypeOK
  <2>6. QED
    BY <1>7, <2>1, <2>4, <2>5 DEF EnterBody, TypeOK, kept, names, rest
<1>8. CASE LeavePlain
  <2>1. phase = "walk" /\ Return(Top.code) /\ Top.code \in Code /\ Top.kind \in Kinds
    BY <1>8, TopFacts DEF LeavePlain, Leaving
  <2>2. BodiesType(unprocessed_bodies') /\ missed' \in SUBSET Kinds
    BY <1>8, <2>1 DEF LeavePlain, BodiesType, TypeOK
  <2>3. QED
    BY <1>8, <2>1, <2>2, LeaveTypes DEF LeavePlain, TypeOK, kept, names
<1>9. CASE LeaveBodiless
  <2>1. phase = "walk" /\ Return(NoCode) /\ NoCode \in Code
    BY <1>9 DEF LeaveBodiless, NoCode, Code
  <2>2. BodiesType(unprocessed_bodies')
    BY <1>9 DEF LeaveBodiless, BodiesType, TypeOK
  <2>3. QED
    BY <1>9, <2>1, <2>2, LeaveTypes DEF LeaveBodiless, TypeOK, kept, names
<1>10. CASE LeaveWithoutData
  <2> DEFINE code == FactoryCall(Top, {})
  <2>1. /\ phase = "walk" /\ Due(Top) /\ Return(code) /\ code \in Code
        /\ Taken(Top) /\ Replaced(None)
    BY <1>10, CallFacts DEF LeaveWithoutData, Leaving
  <2>2. BodiesType(unprocessed_bodies') /\ worklets' \in SUBSET Worklet
    BY <2>1, TakenTypes, ReplacedFacts
  <2>3. worklet_number' \in Nat \ {0}
    BY <1>10 DEF LeaveWithoutData, TypeOK
  <2> HIDE DEF code
  <2>4. QED
    BY <1>10, <2>1, <2>2, <2>3, LeaveTypes DEF LeaveWithoutData, TypeOK, kept
<1>11. ASSUME NEW e \in {"shadows", "print"}, LeaveUnserialized(e) PROVE TypeOK'
  <2>1. /\ phase = "walk" /\ Return(Top.code) /\ Top.code \in Code
        /\ Taken(Top) /\ Top.kind \in Kinds
    BY <1>11, TopFacts DEF LeaveUnserialized, Leaving
  <2>2. BodiesType(unprocessed_bodies')
    BY <2>1, TakenTypes
  <2>3. worklet_number' \in Nat \ {0}
    BY <1>11 DEF LeaveUnserialized, TypeOK
  <2>4. error' \in Errors \cup {None} /\ missed' \in SUBSET Kinds
    BY <1>11, <2>1, ReportedFacts DEF LeaveUnserialized, TypeOK, Errors
  <2>5. QED
    BY <1>11, <2>1, <2>2, <2>3, <2>4, LeaveTypes DEF LeaveUnserialized, TypeOK, kept
<1>12. ASSUME NEW name \in Candidates, LeaveHoisting(name) PROVE TypeOK'
  <2> DEFINE code == FactoryCall(Top, {name})
  <2>1. /\ phase = "walk" /\ Due(Top) /\ Return(code) /\ code \in Code /\ name \in Name
        /\ Taken(Top) /\ Replaced(name)
    BY <1>12, CallFacts, CandidateNames DEF LeaveHoisting, Leaving
  <2>2. BodiesType(unprocessed_bodies') /\ worklets' \in SUBSET Worklet
    BY <2>1, TakenTypes, ReplacedFacts
  <2>3. worklet_number' \in Nat \ {0}
    BY <1>12 DEF LeaveHoisting, TypeOK
  <2>4. pending_prepends' \in Seq(Name) /\ used_names' \in SUBSET Name
    BY <1>12, <2>1 DEF LeaveHoisting, TypeOK
  <2> HIDE DEF code
  <2>5. QED
    BY <1>12, <2>1, <2>2, <2>3, <2>4, LeaveTypes DEF LeaveHoisting, TypeOK, kept
<1>13. CASE EndItem
  <2>1. [prepends |-> pending_prepends, mentions |-> escaped] \in Item
    BY DEF TypeOK, Item
  <2>2. QED
    BY <1>13, <2>1 DEF EndItem, TypeOK, kept, walk
<1>14. CASE Finish
  BY <1>14 DEF Finish, TypeOK, kept, walk, names
<1>15. CASE UNCHANGED vars
  BY <1>15 DEF TypeOK, vars, kept, walk, names, rest
<1>16. QED
  BY <1>1, <1>3, <1>4, <1>5, <1>6, <1>7, <1>8, <1>9, <1>10, <1>11, <1>12, <1>13, <1>14, <1>15
  DEF Next, LeaveWorklet, Terminated

(* Every variable has its type.                                            *)
THEOREM TypeCorrect == Spec => []TypeOK
<1>1. Init => TypeOK
  <2>1. SUFFICES ASSUME Init PROVE TypeOK
    OBVIOUS
  <2>2. unprocessed_bodies = NoBodies /\ DOMAIN NoBodies = {} /\ IsFiniteSet({})
    BY <2>1, FS_EmptySet DEF Init, NoBodies
  <2>3. QED
    BY <2>1, <2>2 DEF Init, TypeOK, NoBodies
<1>2. QED
  BY <1>1, NextTypeOK, PTL DEF Spec

-----------------------------------------------------------------------------
(* The steps, by what they do to the stack.                                *)

(* A node is entered.                                                      *)
Entering(k, m, b) ==
  /\ Push(k, m, b) /\ phase \in {"module", "walk"} /\ phase' = "walk"
  /\ stack # << >> => phase = "walk" /\ b = parent_is_scopable
  /\ k = "contextFactory" => m /\ stack # << >> /\ Top.kind = "context" /\ Top.part = "params"
  /\ ~(k = "accessor" /\ m)
  /\ UNCHANGED <<kept, names, error, rest, worklets, missed>>

(* A node is left.                                                         *)
LeaveAny ==
  \/ LeavePlain \/ LeaveBodiless \/ LeaveWithoutData
  \/ \E e \in {"shadows", "print"} : LeaveUnserialized(e)
  \/ \E name \in Candidates : LeaveHoisting(name)

(* The walk is not touched, or not yet begun.                              *)
Aside ==
  /\ UNCHANGED <<kept, stack, nodes, parent_is_scopable, unprocessed_bodies, worklets>>
  /\ phase = "walk" <=> phase' = "walk"

(* Every step enters a node, goes on to a body, leaves a node or none.     *)
LEMMA Steps ==
  ASSUME TypeOK, [Next]_vars
  PROVE  \/ \E k \in Kinds, m, b \in BOOLEAN : Entering(k, m, b)
         \/ EnterBody
         \/ LeaveAny
         \/ BeginModule \/ BeginScript \/ EndItem \/ Finish \/ UNCHANGED vars
         \/ RejectAccessor
<1>1. ASSUME NEW k \in program.shapes, NEW m \in BOOLEAN, OpenItem(k, m)
      PROVE  \E j \in Kinds, n, b \in BOOLEAN : Entering(j, n, b)
  <2>1. k \in Kinds /\ k # "contextFactory" /\ k # "accessor" /\ stack = << >>
    BY <1>1, ProgramAssumption DEF OpenItem, Items, ItemKinds, ListKinds, TypeOK, Family
  <2>2. Entering(k, m, TRUE)
    BY <1>1, <2>1 DEF OpenItem, Entering
  <2>3. QED
    BY <2>1, <2>2
<1>2. ASSUME NEW k \in program.shapes, NEW m \in BOOLEAN, Enter(k, m)
      PROVE  \E j \in Kinds, n, b \in BOOLEAN : Entering(j, n, b)
  <2>1. k \in Kinds /\ k # "contextFactory" /\ parent_is_scopable \in BOOLEAN
    BY <1>2, ProgramAssumption DEF Enter, ChildKinds, ExprKinds, ListKinds, TypeOK, Family
  <2>2. Entering(k, m, parent_is_scopable)
    BY <1>2, <2>1 DEF Enter, Entering
  <2>3. QED
    BY <2>1, <2>2
<1>3. ASSUME EnterFactory
      PROVE  \E j \in Kinds, n, b \in BOOLEAN : Entering(j, n, b)
  <2>1. "contextFactory" \in Kinds /\ parent_is_scopable \in BOOLEAN /\ stack # << >>
    BY <1>3 DEF EnterFactory, TypeOK, Kinds, FnKinds
  <2>2. Entering("contextFactory", TRUE, parent_is_scopable)
    BY <1>3, <2>1 DEF EnterFactory, Entering
  <2>3. QED
    BY <2>1, <2>2
<1>4. QED
  BY <1>1, <1>2, <1>3 DEF Next, LeaveWorklet, LeaveAny, Terminated

(* The steps that neither enter nor leave a node, but for EnterBody.       *)
LEMMA AsideSteps ==
  BeginModule \/ BeginScript \/ EndItem \/ Finish \/ UNCHANGED vars
  => Aside /\ missed' = missed
BY DEF BeginModule, BeginScript, Begin, EndItem, Finish, vars, Aside, kept, walk, names, rest

(* A node is left by Return, with names, and its body may be taken out.    *)
LEMMA LeaveFacts ==
  ASSUME TypeOK, LeaveAny
  PROVE  /\ phase = "walk" /\ UNCHANGED <<kept, nodes, out, result>>
         /\ \E code \in Code : Return(code)
<1>1. phase = "walk"
  BY DEF LeaveAny, LeavePlain, LeaveBodiless, LeaveWithoutData, LeaveUnserialized, LeaveHoisting,
         Leaving
<1>2. Top.code \in Code /\ NoCode \in Code /\ FactoryCall(Top, {}) \in Code
  BY <1>1, TopFacts, CallFacts DEF NoCode, Code
<1>3. \A name \in Candidates : FactoryCall(Top, {name}) \in Code
  BY <1>1, CallFacts, CandidateNames
<1>4. QED
  BY <1>1, <1>2, <1>3 DEF LeaveAny, LeavePlain, LeaveBodiless, LeaveWithoutData,
     LeaveUnserialized, LeaveHoisting

(* EnterBody goes on in the last node and does not touch the others.       *)
LEMMA EnterBodyFacts ==
  ASSUME TypeOK, EnterBody
  PROVE  /\ phase = "walk" /\ phase' = "walk" /\ Len(stack') = Len(stack)
         /\ Top.kind \in FnKinds /\ Top.part = "params" /\ Top' = stack'[Len(stack)]
         /\ \A i \in 1..(Len(stack) - 1) : stack'[i] = stack[i]
         /\ Top'.part = "body" /\ Top'.old = parent_is_scopable
         /\ Top'.id = Top.id /\ Top'.span = Top.span /\ Top'.kind = Top.kind
         /\ Top'.marked = Top.marked /\ Top'.shared = Top.shared
         /\ Top'.code = Top.code /\ Top'.params = Top.code
<1> DEFINE n == [stack[Len(stack)] EXCEPT !.part = "body", !.params = Top.code,
                                          !.old = parent_is_scopable]
<1>1. /\ phase = "walk" /\ Top \in Node /\ stack \in Seq(Node) /\ Len(stack) \in Nat \ {0}
      /\ Top = stack[Len(stack)]
  BY TopFacts DEF EnterBody
<1>2. /\ n.part = "body" /\ n.old = parent_is_scopable /\ n.id = Top.id /\ n.span = Top.span
      /\ n.kind = Top.kind /\ n.marked = Top.marked /\ n.code = Top.code /\ n.params = Top.code
      /\ n.shared = Top.shared
  BY <1>1 DEF Node
<1>3. stack' = [stack EXCEPT ![Len(stack)] = n]
  BY <1>1 DEF EnterBody
<1>4. /\ Len(stack') = Len(stack) /\ stack'[Len(stack)] = n
      /\ \A i \in 1..(Len(stack) - 1) : stack'[i] = stack[i]
  <2> HIDE DEF n
  <2>1. QED
    BY <1>1, <1>3
<1>5. Top' = n /\ Top' = stack'[Len(stack)]
  BY <1>4 DEF Top
<1>6. phase' = "walk" /\ Top.kind \in FnKinds /\ Top.part = "params"
  BY <1>1 DEF EnterBody
<1> HIDE DEF n
<1>7. QED
  BY <1>1, <1>2, <1>4, <1>5, <1>6

-----------------------------------------------------------------------------
(* The flags, and the worklets that are left as they were.                 *)

(* What parent_is_scopable is while the visitor stands directly in n.      *)
Flag(n) ==
  CASE n.kind = "stmt"                                      -> FALSE
    [] n.kind = "stmts"                                     -> TRUE
    [] n.kind \in FnKinds \ {"exprArrow"} /\ n.part = "body" -> n.kind # "contextFactory"
    [] OTHER                                                -> n.old

(* What a node saved is the flag of the node around it.                    *)
OldFlags(s) == \A i \in 1..(Len(s) - 1) : s[i + 1].old = Flag(s[i])
FlagsSaved  == OldFlags(stack) /\ (phase = "walk" => parent_is_scopable = Flag(Top))

(* The flag of a node that differs in names only, or is a context object.  *)
LEMMA SameFlag ==
  ASSUME NEW a, NEW b, Same(a, b), a.part = b.part \/ b.kind = "context"
  PROVE  Flag(a) = Flag(b)
BY DEF Same, Flag, FnKinds

(* Entering a node saves the flag.                                         *)
LEMMA EnterFlags ==
  ASSUME TypeOK, FlagsSaved, NEW k \in Kinds, NEW m \in BOOLEAN, NEW b \in BOOLEAN,
         Entering(k, m, b)
  PROVE  FlagsSaved'
<1> DEFINE n == New(k, m, b)
           d == Len(stack)
<1>1. Pushed(stack, stack', n) /\ d \in Nat
  BY PushFacts DEF Entering, TypeOK
<1>2. /\ Len(stack') = d + 1 /\ stack'[d + 1] = n /\ Top' = n
      /\ \A i \in 1..d : stack'[i].old = stack[i].old /\ Flag(stack'[i]) = Flag(stack[i])
  <2>1. Len(stack') = d + 1 /\ stack'[d + 1] = n
    BY <1>1 DEF Pushed
  <2>2. ASSUME NEW i \in 1..d
        PROVE  stack'[i].old = stack[i].old /\ Flag(stack'[i]) = Flag(stack[i])
    <3>1. Same(stack'[i], stack[i]) /\ (stack'[i].part = stack[i].part \/ stack[i].kind = "context")
      BY <1>1 DEF Pushed
    <3>2. QED
      BY <3>1, SameFlag DEF Same
  <2>3. QED
    BY <2>1, <2>2 DEF Top
<1>3. n.old = b /\ parent_is_scopable' = Flag(n)
  <2>1. n.old = b /\ n.kind = k /\ (k \in FnKinds => n.part = "params")
    BY DEF New
  <2>2. parent_is_scopable' = CASE k = "stmt" -> FALSE [] k = "stmts" -> TRUE [] OTHER -> b
    BY DEF Entering, Push
  <2> HIDE DEF n
  <2>3. QED
    BY <2>1, <2>2 DEF Flag, FnKinds
<1> HIDE DEF n
<1>4. ASSUME NEW i \in 1..(Len(stack') - 1) PROVE stack'[i + 1].old = Flag(stack'[i])
  <2>1. i \in 1..d
    BY <1>1, <1>2
  <2>2. CASE i = d
    <3>1. stack # << >> /\ Top = stack[d]
      BY <1>1, <2>1, <2>2 DEF Top
    <3>2. b = Flag(Top)
      BY <3>1 DEF Entering, FlagsSaved
    <3>3. QED
      BY <1>2, <1>3, <2>1, <2>2, <3>1, <3>2
  <2>3. CASE i # d
    <3>1. i + 1 \in 1..d /\ i \in 1..(d - 1)
      BY <1>1, <2>1, <2>3
    <3>2. stack[i + 1].old = Flag(stack[i])
      BY <3>1 DEF FlagsSaved, OldFlags
    <3>3. stack'[i + 1].old = stack[i + 1].old /\ Flag(stack'[i]) = Flag(stack[i])
      BY <1>2, <2>1, <3>1
    <3>4. QED
      BY <3>2, <3>3
  <2>4. QED
    BY <2>2, <2>3
<1>5. QED
  BY <1>2, <1>3, <1>4 DEF FlagsSaved, OldFlags

(* Leaving a node restores the flag.                                       *)
LEMMA LeaveFlags ==
  ASSUME TypeOK, FlagsSaved, phase = "walk", NEW code \in Code, Return(code)
  PROVE  FlagsSaved'
<1> DEFINE d == Len(stack)
<1>1. d \in Nat \ {0} /\ Top = stack[d]
  BY TopFacts
<1>2. Popped(stack, stack') /\ (phase' = "walk" => stack' # << >> /\ stack' \in Seq(Node))
  BY ReturnFacts
<1>3. /\ Len(stack') = d - 1
      /\ \A i \in 1..(d - 1) : stack'[i].old = stack[i].old /\ Flag(stack'[i]) = Flag(stack[i])
  BY <1>2, SameFlag DEF Popped, Same
<1>4. ASSUME NEW i \in 1..(Len(stack') - 1) PROVE stack'[i + 1].old = Flag(stack'[i])
  <2>1. i \in 1..(d - 1) /\ i + 1 \in 1..(d - 1)
    BY <1>1, <1>3
  <2>2. stack[i + 1].old = Flag(stack[i])
    BY <2>1 DEF FlagsSaved, OldFlags
  <2>3. stack'[i + 1].old = stack[i + 1].old /\ Flag(stack'[i]) = Flag(stack[i])
    BY <1>3, <2>1
  <2>4. QED
    BY <2>2, <2>3
<1>5. ASSUME phase' = "walk" PROVE parent_is_scopable' = Flag(Top)'
  <2>1. d - 1 \in 1..(d - 1)
    <3>1. Len(stack') # 0
      BY <1>2, <1>5
    <3>2. QED
      BY <1>1, <1>3, <3>1
  <2>2. parent_is_scopable' = Top.old
    <3>1. Top.kind = "exprArrow" => parent_is_scopable = Top.old
      BY DEF FlagsSaved, Flag, FnKinds
    <3>2. QED
      BY <3>1 DEF Return
  <2>3. stack[d - 1 + 1].old = Flag(stack[d - 1])
    BY <2>1 DEF FlagsSaved, OldFlags
  <2>4. Top.old = Flag(stack[d - 1])
    BY <1>1, <2>3
  <2>5. Flag(stack'[d - 1]) = Flag(stack[d - 1])
    BY <1>3, <2>1
  <2>6. QED
    BY <1>3, <2>2, <2>4, <2>5 DEF Top
<1>6. QED
  BY <1>4, <1>5 DEF FlagsSaved, OldFlags

(* Going on to a body keeps what the node saved, and sets the flag.        *)
LEMMA EnterBodyFlags ==
  ASSUME TypeOK, FlagsSaved, EnterBody
  PROVE  FlagsSaved'
<1> DEFINE d == Len(stack)
<1>1. /\ d \in Nat \ {0} /\ Len(stack') = d /\ Top = stack[d] /\ Top' = stack'[d]
      /\ phase = "walk"
      /\ \A i \in 1..(d - 1) : stack'[i] = stack[i]
      /\ Top'.part = "body" /\ Top'.old = parent_is_scopable /\ Top'.kind = Top.kind
      /\ Top.kind \in FnKinds /\ Top.part = "params"
  BY EnterBodyFacts, TopFacts DEF EnterBody
<1>2. parent_is_scopable = Top.old
  <2>1. parent_is_scopable = Flag(Top)
    BY <1>1 DEF FlagsSaved
  <2>2. QED
    BY <1>1, <2>1 DEF Flag, FnKinds
<1>3. ASSUME NEW i \in 1..(Len(stack') - 1) PROVE stack'[i + 1].old = Flag(stack'[i])
  <2>1. i \in 1..(d - 1) /\ stack'[i] = stack[i] /\ stack[i + 1].old = Flag(stack[i])
    BY <1>1 DEF FlagsSaved, OldFlags
  <2>2. CASE i + 1 = d
    BY <1>1, <1>2, <2>1, <2>2
  <2>3. CASE i + 1 # d
    <3>1. i + 1 \in 1..(d - 1)
      BY <1>1, <2>1, <2>3
    <3>2. stack'[i + 1] = stack[i + 1]
      BY <1>1, <3>1
    <3>3. QED
      BY <2>1, <3>2
  <2>4. QED
    BY <2>2, <2>3
<1>4. parent_is_scopable' = Flag(Top')
  <2>1. parent_is_scopable' = CASE Top.kind = "contextFactory" -> FALSE
                                [] Top.kind = "exprArrow"      -> parent_is_scopable
                                [] OTHER                       -> TRUE
    BY DEF EnterBody
  <2>2. QED
    BY <1>1, <2>1 DEF Flag, FnKinds
<1>5. QED
  BY <1>3, <1>4 DEF FlagsSaved, OldFlags

(* Every step keeps the flags saved.                                       *)
LEMMA NextFlags == TypeOK /\ FlagsSaved /\ [Next]_vars => FlagsSaved'
<1> SUFFICES ASSUME TypeOK, FlagsSaved, [Next]_vars PROVE FlagsSaved'
  OBVIOUS
<1>1. CASE LeaveAny
  BY <1>1, LeaveFacts, LeaveFlags
<1>2. ASSUME UNCHANGED <<stack, parent_is_scopable>>, phase = "walk" <=> phase' = "walk"
      PROVE  FlagsSaved'
  BY <1>2 DEF FlagsSaved, Top
<1>3. CASE Aside
  BY <1>2, <1>3 DEF Aside
<1>4. CASE RejectAccessor
  BY <1>2, <1>4 DEF RejectAccessor
<1>5. QED
  BY <1>1, <1>3, <1>4, Steps, AsideSteps, EnterFlags, EnterBodyFlags

(* Whatever was visited in between, parent_is_scopable is set in every     *)
(* statement list and cleared under every other statement, so a function   *)
(* declaration of a list, and no other, becomes a declaration.             *)
THEOREM AlwaysScopable == Spec => []ScopableInLists
<1>1. TypeOK /\ FlagsSaved => ScopableInLists
  BY DEF FlagsSaved, Flag, ScopableInLists, InList, FnKinds
<1>2. Init => FlagsSaved
  <2>1. SUFFICES ASSUME Init PROVE FlagsSaved
    OBVIOUS
  <2>2. stack = << >> /\ Len(stack) = 0 /\ phase = "start"
    BY <2>1 DEF Init
  <2>3. QED
    BY <2>2 DEF FlagsSaved, OldFlags
<1>3. QED
  BY <1>1, <1>2, NextFlags, TypeCorrect, PTL DEF Spec

-----------------------------------------------------------------------------
(* No getter or setter marked as a worklet is entered, so none is left.    *)
PlainAccessors == \A i \in 1..Len(stack) : stack[i].kind = "accessor" => ~stack[i].marked

(* Every step keeps the open accessors unmarked.                           *)
LEMMA NextAccessors == TypeOK /\ PlainAccessors /\ [Next]_vars => PlainAccessors'
<1> SUFFICES ASSUME TypeOK, PlainAccessors, [Next]_vars,
                    NEW i \in 1..Len(stack'), stack'[i].kind = "accessor"
             PROVE  ~stack'[i].marked
  BY DEF PlainAccessors
<1>1. Len(stack) \in Nat
  BY DEF TypeOK
<1>2. ASSUME i \in 1..Len(stack), stack'[i].kind = stack[i].kind, stack'[i].marked = stack[i].marked
      PROVE  ~stack'[i].marked
  BY <1>2 DEF PlainAccessors
<1>3. ASSUME NEW k \in Kinds, NEW m \in BOOLEAN, NEW b \in BOOLEAN, Entering(k, m, b)
      PROVE  ~stack'[i].marked
  <2>1. Pushed(stack, stack', New(k, m, b)) /\ ~(k = "accessor" /\ m)
    BY <1>3, PushFacts DEF Entering
  <2>2. CASE i = Len(stack) + 1
    BY <2>1, <2>2 DEF Pushed, New
  <2>3. CASE i # Len(stack) + 1
    <3>1. i \in 1..Len(stack)
      BY <1>1, <2>1, <2>3 DEF Pushed
    <3>2. QED
      BY <1>2, <2>1, <3>1 DEF Pushed, Same
  <2>4. QED
    BY <2>2, <2>3
<1>4. CASE LeaveAny
  <2>1. Popped(stack, stack')
    BY <1>4, LeaveFacts, ReturnFacts
  <2>2. i \in 1..Len(stack)
    BY <1>1, <2>1 DEF Popped
  <2>3. QED
    BY <1>2, <2>1, <2>2 DEF Popped, Same
<1>5. CASE EnterBody
  <2>1. CASE i = Len(stack)
    BY <1>2, <1>5, <2>1, EnterBodyFacts DEF Top
  <2>2. CASE i # Len(stack)
    <3>1. i \in 1..(Len(stack) - 1)
      BY <1>1, <1>5, <2>2, EnterBodyFacts
    <3>2. QED
      BY <1>2, <1>5, <3>1, EnterBodyFacts
  <2>3. QED
    BY <2>1, <2>2
<1>6. ASSUME stack' = stack PROVE ~stack'[i].marked
  BY <1>2, <1>6
<1>7. QED
  BY <1>3, <1>4, <1>5, <1>6, Steps, AsideSteps DEF Aside, RejectAccessor

(* Every step keeps ReplacedOrRefused.                                     *)
LEMMA NextReplaced ==
  TypeOK /\ PlainAccessors /\ ReplacedOrRefused /\ [Next]_vars => ReplacedOrRefused'
<1> SUFFICES ASSUME TypeOK, PlainAccessors, ReplacedOrRefused, [Next]_vars
             PROVE  ReplacedOrRefused'
  OBVIOUS
<1>1. ASSUME missed' = missed, error' = error \/ error' # None, phase' # "done"
      PROVE  ReplacedOrRefused'
  BY <1>1 DEF ReplacedOrRefused
<1>2. CASE BeginModule \/ BeginScript
  <2>1. missed' = missed /\ (error' = error \/ error' # None)
    BY <1>2, ReportedFacts DEF BeginModule, BeginScript, Begin, Errors
  <2>2. phase' = "done" => result' = "original"
    BY <1>2 DEF BeginModule, BeginScript, Begin
  <2>3. QED
    BY <2>1, <2>2 DEF ReplacedOrRefused
<1>3. CASE \E k \in Kinds, m, b \in BOOLEAN : Entering(k, m, b)
  BY <1>1, <1>3 DEF Entering
<1>4. CASE EnterBody
  BY <1>1, <1>4, EnterBodyFacts DEF EnterBody
<1>5. CASE RejectAccessor
  <2>1. error' # None /\ phase' # "done"
    BY <1>5, ReportedFacts DEF RejectAccessor, Errors
  <2>2. QED
    BY <2>1 DEF ReplacedOrRefused
<1>6. CASE LeaveAny
  <2>1. phase' # "done"
    BY <1>6, LeaveFacts, ReturnFacts
  <2>2. CASE LeavePlain
    <3>1. /\ ~Due(Top) /\ error' = error /\ phase = "walk"
          /\ missed' = IF Top.marked THEN missed \cup {Top.kind} ELSE missed
      BY <2>2 DEF LeavePlain, Leaving
    <3>2. Top.marked /\ error = None => Top.kind \notin WorkletKinds /\ Top.kind # "accessor"
      BY <3>1, TopFacts DEF Due, PlainAccessors
    <3>3. QED
      BY <2>1, <3>1, <3>2 DEF ReplacedOrRefused
  <2>3. CASE \E e \in {"shadows", "print"} : LeaveUnserialized(e)
    <3>1. error' # None
      BY <2>3, ReportedFacts DEF LeaveUnserialized, Errors
    <3>2. QED
      BY <2>1, <3>1 DEF ReplacedOrRefused
  <2>4. CASE LeaveBodiless \/ LeaveWithoutData \/ \E name \in Candidates : LeaveHoisting(name)
    BY <1>1, <2>1, <2>4 DEF LeaveBodiless, LeaveWithoutData, LeaveHoisting
  <2>5. QED
    BY <1>6, <2>2, <2>3, <2>4 DEF LeaveAny
<1>7. CASE EndItem
  BY <1>1, <1>7 DEF EndItem
<1>8. CASE Finish
  BY <1>8 DEF Finish, ReplacedOrRefused
<1>9. CASE UNCHANGED vars
  BY <1>9 DEF ReplacedOrRefused, vars, rest
<1>10. QED
  BY <1>2, <1>3, <1>4, <1>5, <1>6, <1>7, <1>8, <1>9, Steps

(* Without an error every marked function of a kind that has a handler     *)
(* was replaced, and with one the caller gets the program it gave.         *)
THEOREM AlwaysReplacedOrRefused == Spec => []ReplacedOrRefused
<1>1. Init => PlainAccessors /\ ReplacedOrRefused
  <2>1. SUFFICES ASSUME Init PROVE PlainAccessors /\ ReplacedOrRefused
    OBVIOUS
  <2>2. Len(stack) = 0 /\ missed = {} /\ phase = "start"
    BY <2>1 DEF Init
  <2>3. QED
    BY <2>2 DEF PlainAccessors, ReplacedOrRefused
<1>2. QED
  BY <1>1, NextAccessors, NextReplaced, TypeCorrect, PTL DEF Spec

-----------------------------------------------------------------------------
(* The stored bodies.                                                      *)

(* Nodes have numbers of their own, and only generated functions share a   *)
(* span.                                                                   *)
Ids(s, m) ==
  \A i \in 1..Len(s) :
    /\ s[i].id \in 1..m
    /\ s[i].span = IF s[i].kind = "contextFactory" THEN Dummy ELSE s[i].id
    /\ s[i].kind = "contextFactory" => s[i].marked
    /\ \A j \in 1..Len(s) : s[i].id = s[j].id => i = j

(* A marked function with a span of its own finds its own body.            *)
Stored(s, f) ==
  \A i \in 1..Len(s) :
    s[i].marked /\ s[i].kind \in FunctionKinds \ {"contextFactory"} =>
      s[i].id \in DOMAIN f /\ f[s[i].id] = s[i].id

(* Node i is the innermost generated function.                             *)
Innermost(s, i) ==
  s[i].kind = "contextFactory" /\ \A j \in 1..Len(s) : s[j].kind = "contextFactory" => j <= i

(* What is stored under the span of generated functions is the body of the *)
(* innermost one, and it is there unless another one was entered in it.    *)
Generated(s, f) ==
  /\ Dummy \in DOMAIN f => \E i \in 1..Len(s) : Innermost(s, i) /\ f[Dummy] = s[i].id
  /\ \A i \in 1..Len(s) :
       s[i].kind = "contextFactory" /\ ~s[i].shared => Dummy \in DOMAIN f /\ Innermost(s, i)

(* An error ends the factories, and may leave a body behind.               *)
BodiesKept ==
  IF Nested THEN DOMAIN unprocessed_bodies = {}
  ELSE error = None => Stored(stack, unprocessed_bodies) /\ Generated(stack, unprocessed_bodies)

BodiesInv == Ids(stack, nodes) /\ BodiesKept

(* Stacks that differ in parts and code only.                              *)
Alike(s, t) ==
  /\ Len(s) = Len(t)
  /\ \A i \in 1..Len(s) : /\ s[i].id = t[i].id /\ s[i].span = t[i].span /\ s[i].kind = t[i].kind
                          /\ s[i].marked = t[i].marked /\ s[i].shared = t[i].shared

(* What is said of bodies does not look at parts and code.                 *)
LEMMA AlikeBodies ==
  ASSUME NEW s, NEW t, NEW f, NEW m, Alike(s, t)
  PROVE  /\ Ids(t, m) => Ids(s, m)
         /\ Stored(t, f) => Stored(s, f)
         /\ Generated(t, f) => Generated(s, f)
<1>1. Ids(t, m) => Ids(s, m)
  BY DEF Alike, Ids
<1>2. Stored(t, f) => Stored(s, f)
  BY DEF Alike, Stored
<1>3. \A i \in 1..Len(s) : Innermost(t, i) => Innermost(s, i)
  BY DEF Alike, Innermost
<1>4. Generated(t, f) => Generated(s, f)
  BY <1>3 DEF Alike, Generated
<1>5. QED
  BY <1>1, <1>2, <1>4

(* A new node gets the next number.                                        *)
LEMMA PushedIds ==
  ASSUME NEW s \in Seq(Node), NEW t, NEW m \in Nat, NEW n \in Node, Pushed(s, t, n), Ids(s, m),
         n.id = m + 1, n.span = IF n.kind = "contextFactory" THEN Dummy ELSE n.id,
         n.kind = "contextFactory" => n.marked
  PROVE  Ids(t, m + 1)
<1> DEFINE d == Len(s)
<1>1. /\ d \in Nat /\ Len(t) = d + 1 /\ t[d + 1] = n
      /\ \A i \in 1..d : /\ t[i].id = s[i].id /\ t[i].span = s[i].span /\ t[i].kind = s[i].kind
                         /\ t[i].marked = s[i].marked
  BY DEF Pushed, Same
<1>2. \A i \in 1..d : t[i].id \in 1..m
  BY <1>1 DEF Ids
<1>3. t[d + 1].id = m + 1
  BY <1>1
<1> HIDE DEF d
<1>4. \A i \in 1..Len(t) : i \in 1..d \/ i = d + 1
  BY <1>1
<1>5. ASSUME NEW i \in 1..Len(t) PROVE t[i].id \in 1..(m + 1)
  BY <1>2, <1>3, <1>4
<1>6. ASSUME NEW i \in 1..Len(t)
      PROVE  /\ t[i].span = IF t[i].kind = "contextFactory" THEN Dummy ELSE t[i].id
             /\ t[i].kind = "contextFactory" => t[i].marked
  <2>1. CASE i \in 1..d
    BY <1>1, <2>1 DEF Ids, d
  <2>2. CASE i = d + 1
    BY <1>1, <2>2
  <2>3. QED
    BY <1>4, <2>1, <2>2
<1>7. ASSUME NEW i \in 1..Len(t), NEW j \in 1..Len(t), t[i].id = t[j].id PROVE i = j
  <2>1. CASE i \in 1..d /\ j \in 1..d
    BY <1>1, <1>7, <2>1 DEF Ids, d
  <2>2. CASE i = d + 1 /\ j \in 1..d
    BY <1>2, <1>3, <1>7, <2>2
  <2>3. CASE j = d + 1 /\ i \in 1..d
    BY <1>2, <1>3, <1>7, <2>3
  <2>4. QED
    BY <1>4, <2>1, <2>2, <2>3
<1>8. QED
  BY <1>5, <1>6, <1>7 DEF Ids

(* Leaving a node keeps the numbers of the others.                         *)
LEMMA PoppedIds ==
  ASSUME NEW s \in Seq(Node), NEW t, NEW m, Popped(s, t), Ids(s, m)
  PROVE  Ids(t, m)
<1>1. Len(s) \in Nat /\ Len(t) = Len(s) - 1
  BY DEF Popped
<1>2. \A i \in 1..Len(t) : i \in 1..Len(s)
  BY <1>1
<1>3. \A i \in 1..Len(t) : t[i].id = s[i].id /\ t[i].span = s[i].span /\ t[i].kind = s[i].kind
                           /\ t[i].marked = s[i].marked
  BY DEF Popped, Same
<1>4. QED
  BY <1>2, <1>3 DEF Ids

(* A new function finds its own body, and the others still find theirs.    *)
LEMMA PushedBodies ==
  ASSUME TypeOK, NEW t, NEW n \in Node, Pushed(stack, t, n), Ids(stack, nodes), Ids(t, nodes + 1),
         ~n.shared, ~Nested, Stored(stack, unprocessed_bodies), Generated(stack, unprocessed_bodies)
  PROVE  Stored(t, WithBody(n)) /\ Generated(t, WithBody(n))
<1> DEFINE d == Len(stack)
           f == unprocessed_bodies
           g == WithBody(n)
<1>1. /\ d \in Nat /\ Len(t) = d + 1 /\ t[d + 1] = n
      /\ \A i \in 1..d : /\ t[i].id = stack[i].id /\ t[i].kind = stack[i].kind
                         /\ t[i].span = stack[i].span /\ t[i].marked = stack[i].marked
                         /\ t[i].shared = (stack[i].shared \/ stack[i].span = n.span)
  BY DEF Pushed, Same, TypeOK
<1>2. \A i \in 1..Len(t) : i \in 1..d \/ i = d + 1
  BY <1>1
<1>3. /\ n.marked /\ n.kind \in FunctionKinds => n.span \in DOMAIN g /\ g[n.span] = n.id
      /\ \A x \in DOMAIN f : x # n.span => x \in DOMAIN g /\ g[x] = f[x]
      /\ \A x \in DOMAIN g : x # n.span => x \in DOMAIN f
      /\ n.span \in DOMAIN g /\ ~(n.marked /\ n.kind \in FunctionKinds) => n.span \in DOMAIN f
  BY DEF WithBody
<1>4. /\ \A i \in 1..Len(t) : t[i].id # Dummy
      /\ \A i \in 1..d : stack[i].id # n.id
      /\ n.id # Dummy
      /\ n.span = IF n.kind = "contextFactory" THEN Dummy ELSE n.id
      /\ n.kind = "contextFactory" => n.marked
      /\ \A i \in 1..d : stack[i].kind = "contextFactory" => stack[i].span = Dummy
  <2>1. \A i \in 1..Len(t) : t[i].id # Dummy
    BY DEF Ids, Dummy
  <2>2. d + 1 \in 1..Len(t) /\ \A i \in 1..d : i \in 1..Len(t) /\ i # d + 1
    BY <1>1
  <2>3. QED
    BY <1>1, <2>1, <2>2 DEF Ids
<1> HIDE DEF d, f, g
<1>5. Stored(t, g)
  <2> SUFFICES ASSUME NEW i \in 1..Len(t), t[i].marked,
                      t[i].kind \in FunctionKinds \ {"contextFactory"}
               PROVE  t[i].id \in DOMAIN g /\ g[t[i].id] = t[i].id
    BY DEF Stored
  <2>1. CASE i = d + 1
    BY <1>1, <1>3, <1>4, <2>1
  <2>2. CASE i \in 1..d
    <3>1. stack[i].id \in DOMAIN f /\ f[stack[i].id] = stack[i].id
      BY <1>1, <2>2 DEF Stored, d, f
    <3>2. stack[i].id # n.span
      <4>1. stack[i].id = t[i].id /\ stack[i].id # n.id
        BY <1>1, <1>4, <2>2
      <4>2. QED
        BY <1>4, <4>1
    <3>3. QED
      BY <1>1, <1>3, <2>2, <3>1, <3>2
  <2>3. QED
    BY <1>2, <2>1, <2>2
<1>6. CASE n.kind = "contextFactory"
  <2>1. n.kind \in FunctionKinds /\ n.marked /\ n.span = Dummy
    BY <1>4, <1>6 DEF FunctionKinds, FnKinds
  <2>2. Dummy \in DOMAIN g /\ g[Dummy] = t[d + 1].id /\ d + 1 \in 1..Len(t)
    BY <1>1, <1>3, <2>1
  <2>3. Innermost(t, d + 1)
    BY <1>1, <1>6 DEF Innermost
  <2>4. \A i \in 1..d : t[i].kind = "contextFactory" => t[i].shared
    BY <1>1, <1>4, <2>1
  <2>5. ASSUME NEW i \in 1..Len(t), t[i].kind = "contextFactory", ~t[i].shared
        PROVE  Dummy \in DOMAIN g /\ Innermost(t, i)
    BY <1>2, <2>2, <2>3, <2>4, <2>5
  <2>6. \E i \in 1..Len(t) : Innermost(t, i) /\ g[Dummy] = t[i].id
    BY <2>2, <2>3
  <2>7. Generated(t, g)
    BY <2>5, <2>6 DEF Generated
  <2>8. QED
    BY <1>5, <2>7 DEF g
<1>7. CASE n.kind # "contextFactory"
  <2>1. n.span # Dummy
    BY <1>4, <1>7
  <2>2. Dummy \in DOMAIN g <=> Dummy \in DOMAIN f
    BY <1>3, <2>1
  <2>3. Dummy \in DOMAIN f => g[Dummy] = f[Dummy]
    BY <1>3, <2>1
  <2>4. ASSUME NEW i \in 1..d, Innermost(stack, i) PROVE Innermost(t, i)
    <3>1. t[i].kind = "contextFactory"
      BY <1>1, <2>4 DEF Innermost
    <3>2. ASSUME NEW j \in 1..Len(t), t[j].kind = "contextFactory" PROVE j <= i
      <4>1. j \in 1..d
        BY <1>1, <1>2, <1>7, <3>2
      <4>2. QED
        BY <1>1, <2>4, <3>2, <4>1 DEF Innermost, d
    <3>3. QED
      BY <3>1, <3>2 DEF Innermost
  <2>5. ASSUME Dummy \in DOMAIN g
        PROVE  \E i \in 1..Len(t) : Innermost(t, i) /\ g[Dummy] = t[i].id
    <3>1. PICK i \in 1..d : Innermost(stack, i) /\ f[Dummy] = stack[i].id
      BY <2>2, <2>5 DEF Generated, d, f
    <3>2. i \in 1..Len(t)
      BY <1>1
    <3>3. QED
      BY <1>1, <2>2, <2>3, <2>4, <2>5, <3>1, <3>2
  <2>6. ASSUME NEW i \in 1..Len(t), t[i].kind = "contextFactory", ~t[i].shared
        PROVE  Dummy \in DOMAIN g /\ Innermost(t, i)
    <3>1. i \in 1..d
      BY <1>1, <1>2, <1>7, <2>6
    <3>2. stack[i].kind = "contextFactory" /\ ~stack[i].shared
      BY <1>1, <2>6, <3>1
    <3>3. Dummy \in DOMAIN f /\ Innermost(stack, i)
      BY <3>1, <3>2 DEF Generated, d, f
    <3>4. QED
      BY <2>2, <2>4, <3>1, <3>3
  <2>7. Generated(t, g)
    BY <2>5, <2>6 DEF Generated
  <2>8. QED
    BY <1>5, <2>7 DEF g
<1>8. QED
  BY <1>6, <1>7

(* Leaving a node keeps the bodies of the others, whether or not its own   *)
(* is taken out; that of a generated function has to be.                   *)
LEMMA PoppedBodies ==
  ASSUME NEW s \in Seq(Node), s # << >>, NEW t, NEW f, NEW g, NEW m, Popped(s, t), Ids(s, m),
         Stored(s, f), Generated(s, f),
         \A x \in DOMAIN f : x # s[Len(s)].span => x \in DOMAIN g /\ g[x] = f[x],
         DOMAIN g \subseteq DOMAIN f,
         s[Len(s)].kind = "contextFactory" => Dummy \notin DOMAIN g
  PROVE  Stored(t, g) /\ Generated(t, g)
<1> DEFINE d == Len(s)
           top == s[d]
<1>1. /\ d \in Nat \ {0} /\ Len(t) = d - 1
      /\ \A i \in 1..(d - 1) : /\ t[i].id = s[i].id /\ t[i].kind = s[i].kind
                               /\ t[i].marked = s[i].marked /\ t[i].shared = s[i].shared
  BY EmptySeq DEF Popped, Same
<1>2. \A i \in 1..(d - 1) : i \in 1..d /\ i # d /\ d \in 1..d
  BY <1>1
<1>3. /\ \A i \in 1..(d - 1) : s[i].id # top.id /\ s[i].id # Dummy
      /\ top.id # Dummy
      /\ top.span = IF top.kind = "contextFactory" THEN Dummy ELSE top.id
  <2>1. d \in 1..d
    BY <1>1
  <2>2. \A i \in 1..d : s[i].id # Dummy
    BY DEF Ids, Dummy
  <2>3. QED
    BY <1>2, <2>1, <2>2 DEF Ids
<1> HIDE DEF d
<1>4. ASSUME NEW i \in 1..(d - 1), t[i].marked, t[i].kind \in FunctionKinds \ {"contextFactory"}
      PROVE  t[i].id \in DOMAIN g /\ g[t[i].id] = t[i].id
  <2>1. s[i].id \in DOMAIN f /\ f[s[i].id] = s[i].id
    BY <1>1, <1>2, <1>4 DEF Stored, d
  <2>2. s[i].id # top.span
    BY <1>3
  <2>3. QED
    BY <1>1, <2>1, <2>2 DEF d
<1>5. Stored(t, g)
  BY <1>1, <1>4 DEF Stored
<1>6. CASE top.kind = "contextFactory"
  <2>1. Dummy \notin DOMAIN g
    BY <1>6 DEF d
  <2>2. ASSUME NEW i \in 1..(d - 1), s[i].kind = "contextFactory" PROVE s[i].shared
    <3>1. ~Innermost(s, i)
      BY <1>1, <1>2, <1>6 DEF Innermost, d
    <3>2. QED
      BY <1>2, <2>2, <3>1 DEF Generated, d
  <2>3. QED
    BY <1>1, <1>5, <2>1, <2>2 DEF Generated
<1>7. CASE top.kind # "contextFactory"
  <2>1. top.span # Dummy
    BY <1>3, <1>7
  <2>2. Dummy \in DOMAIN g <=> Dummy \in DOMAIN f
    BY <2>1 DEF d
  <2>3. Dummy \in DOMAIN f => g[Dummy] = f[Dummy]
    BY <2>1 DEF d
  <2>4. ASSUME NEW i \in 1..d, Innermost(s, i) PROVE i \in 1..(d - 1) /\ Innermost(t, i)
    <3>1. i # d
      BY <1>7, <2>4 DEF Innermost
    <3>2. i \in 1..(d - 1)
      BY <1>1, <3>1
    <3>3. QED
      BY <1>1, <1>2, <2>4, <3>2 DEF Innermost, d
  <2>5. ASSUME Dummy \in DOMAIN g
        PROVE  \E i \in 1..Len(t) : Innermost(t, i) /\ g[Dummy] = t[i].id
    <3>1. PICK i \in 1..d : Innermost(s, i) /\ f[Dummy] = s[i].id
      BY <2>2, <2>5 DEF Generated, d
    <3>2. QED
      BY <1>1, <2>2, <2>3, <2>4, <2>5, <3>1
  <2>6. ASSUME NEW i \in 1..(d - 1), t[i].kind = "contextFactory", ~t[i].shared
        PROVE  Dummy \in DOMAIN g /\ Innermost(t, i)
    <3>1. Dummy \in DOMAIN f /\ Innermost(s, i)
      BY <1>1, <1>2, <2>6 DEF Generated, d
    <3>2. QED
      BY <1>2, <2>2, <2>4, <3>1
  <2>7. QED
    BY <1>1, <1>5, <2>5, <2>6 DEF Generated
<1>8. QED
  BY <1>6, <1>7

(* A worklet's body is taken out; otherwise the map stays as it is.        *)
LEMMA TakenFacts ==
  ASSUME TypeOK, phase = "walk", Taken(Top)
  PROVE  /\ DOMAIN unprocessed_bodies' \subseteq DOMAIN unprocessed_bodies
         /\ \A x \in DOMAIN unprocessed_bodies : x # Top.span =>
              x \in DOMAIN unprocessed_bodies' /\ unprocessed_bodies'[x] = unprocessed_bodies[x]
         /\ Top.kind # "arrow" => Top.span \notin DOMAIN unprocessed_bodies'
BY DEF Taken, Restrict

(* Every step keeps the bodies.                                            *)
LEMMA NextBodies == TypeOK /\ BodiesInv /\ [Next]_vars => BodiesInv'
<1> SUFFICES ASSUME TypeOK, BodiesInv, [Next]_vars PROVE BodiesInv'
  OBVIOUS
<1>1. /\ stack \in Seq(Node) /\ nodes \in Nat /\ Ids(stack, nodes) /\ BodiesKept
  BY DEF TypeOK, BodiesInv
<1>2. ASSUME NEW k \in Kinds, NEW m \in BOOLEAN, NEW b \in BOOLEAN, Entering(k, m, b)
      PROVE  BodiesInv'
  <2> DEFINE n == New(k, m, b)
  <2>1. /\ n \in Node /\ stack' \in Seq(Node) /\ Pushed(stack, stack', n) /\ nodes' = nodes + 1
        /\ unprocessed_bodies' = WithBody(n) /\ error' = error /\ options' = options
    BY <1>2, PushFacts DEF Entering, kept
  <2>2. /\ n.id = nodes + 1 /\ n.span = IF n.kind = "contextFactory" THEN Dummy ELSE n.id
        /\ n.kind = "contextFactory" => n.marked
        /\ ~n.shared
    BY <1>2 DEF New, Entering
  <2> HIDE DEF n
  <2>3. Ids(stack', nodes')
    BY <1>1, <2>1, <2>2, PushedIds
  <2>4. CASE Nested
    <3>1. DOMAIN unprocessed_bodies' = {} /\ Nested'
      BY <1>1, <2>1, <2>4 DEF BodiesKept, WithBody, Nested
    <3>2. QED
      BY <2>3, <3>1 DEF BodiesInv, BodiesKept
  <2>5. CASE ~Nested
    <3>1. ~Nested'
      BY <2>1, <2>5 DEF Nested
    <3>2. ASSUME error' = None
          PROVE  Stored(stack', WithBody(n)) /\ Generated(stack', WithBody(n))
      <4>1. Stored(stack, unprocessed_bodies) /\ Generated(stack, unprocessed_bodies)
        BY <1>1, <2>1, <2>5, <3>2 DEF BodiesKept
      <4>2. Ids(stack', nodes + 1)
        BY <2>1, <2>3
      <4>3. QED
        BY <1>1, <2>1, <2>2, <2>5, <4>1, <4>2, PushedBodies
    <3>3. QED
      BY <2>1, <2>3, <3>1, <3>2 DEF BodiesInv, BodiesKept
  <2>6. QED
    BY <2>4, <2>5
<1>3. ASSUME Alike(stack', stack), UNCHANGED <<options, nodes, unprocessed_bodies>>,
             error' = error \/ error' # None
      PROVE  BodiesInv'
  <2>1. Ids(stack', nodes')
    BY <1>1, <1>3, AlikeBodies
  <2>2. CASE Nested
    BY <1>1, <1>3, <2>1, <2>2 DEF BodiesInv, BodiesKept, Nested
  <2>3. CASE ~Nested
    <3>1. ASSUME error' = None
          PROVE  Stored(stack', unprocessed_bodies) /\ Generated(stack', unprocessed_bodies)
      BY <1>1, <1>3, <2>3, <3>1, AlikeBodies DEF BodiesKept
    <3>2. ~Nested'
      BY <1>3, <2>3 DEF Nested
    <3>3. QED
      BY <1>3, <2>1, <3>1, <3>2 DEF BodiesInv, BodiesKept
  <2>4. QED
    BY <2>2, <2>3
<1>4. ASSUME stack' = stack PROVE Alike(stack', stack)
  BY <1>4 DEF Alike
<1>5. CASE EnterBody
  <2>1. Alike(stack', stack)
    <3>1. /\ Len(stack') = Len(stack) /\ Len(stack) \in Nat \ {0} /\ Top = stack[Len(stack)]
          /\ Top' = stack'[Len(stack)]
          /\ \A i \in 1..(Len(stack) - 1) : stack'[i] = stack[i]
          /\ Top'.id = Top.id /\ Top'.span = Top.span /\ Top'.kind = Top.kind
          /\ Top'.marked = Top.marked /\ Top'.shared = Top.shared
      BY <1>5, EnterBodyFacts, TopFacts
    <3>2. ASSUME NEW i \in 1..Len(stack')
          PROVE  /\ stack'[i].id = stack[i].id /\ stack'[i].span = stack[i].span
                 /\ stack'[i].kind = stack[i].kind /\ stack'[i].marked = stack[i].marked
                 /\ stack'[i].shared = stack[i].shared
      <4>1. CASE i = Len(stack)
        BY <3>1, <4>1
      <4>2. CASE i # Len(stack)
        <5>1. i \in 1..(Len(stack) - 1)
          BY <3>1, <4>2
        <5>2. QED
          BY <3>1, <5>1
      <4>3. QED
        BY <4>1, <4>2
    <3>3. QED
      BY <3>1, <3>2 DEF Alike
  <2>2. UNCHANGED <<options, nodes, unprocessed_bodies, error>>
    BY <1>5 DEF EnterBody, kept
  <2>3. QED
    BY <1>3, <2>1, <2>2
<1>6. CASE LeaveAny
  <2>1. /\ phase = "walk" /\ UNCHANGED <<options, nodes>> /\ Popped(stack, stack')
        /\ stack # << >> /\ Top = stack[Len(stack)] /\ stack' \in Seq(Node)
    BY <1>6, LeaveFacts, ReturnFacts, TopFacts DEF kept
  <2>2. Ids(stack', nodes')
    BY <1>1, <2>1, PoppedIds
  <2>3. Taken(Top) \/ unprocessed_bodies' = unprocessed_bodies
    BY <1>6 DEF LeaveAny, LeavePlain, LeaveBodiless, LeaveWithoutData, LeaveUnserialized, LeaveHoisting
  <2>4. /\ DOMAIN unprocessed_bodies' \subseteq DOMAIN unprocessed_bodies
        /\ \A x \in DOMAIN unprocessed_bodies : x # Top.span =>
             x \in DOMAIN unprocessed_bodies' /\ unprocessed_bodies'[x] = unprocessed_bodies[x]
    BY <2>1, <2>3, TakenFacts
  <2>5. CASE Nested
    <3>1. Nested' /\ DOMAIN unprocessed_bodies' = {}
      BY <1>1, <2>1, <2>4, <2>5 DEF BodiesKept, Nested
    <3>2. QED
      BY <2>2, <3>1 DEF BodiesInv, BodiesKept
  <2>6. CASE ~Nested
    <3>1. ~Nested'
      BY <2>1, <2>6 DEF Nested
    <3>2. ASSUME error' = None
          PROVE  Stored(stack', unprocessed_bodies') /\ Generated(stack', unprocessed_bodies')
      <4>1. error = None /\ ~\E e \in {"shadows", "print"} : LeaveUnserialized(e)
        <5>1. ~\E e \in {"shadows", "print"} : LeaveUnserialized(e)
          BY <3>2, ReportedFacts DEF LeaveUnserialized, Errors
        <5>2. error' = error
          BY <1>6, <5>1 DEF LeaveAny, LeavePlain, LeaveBodiless, LeaveWithoutData, LeaveHoisting
        <5>3. QED
          BY <3>2, <5>1, <5>2
      <4>2. Stored(stack, unprocessed_bodies) /\ Generated(stack, unprocessed_bodies)
        BY <1>1, <2>6, <4>1 DEF BodiesKept
      <4>3. ASSUME Top.kind = "contextFactory" PROVE Dummy \notin DOMAIN unprocessed_bodies'
        <5>1. Len(stack) \in 1..Len(stack)
          BY <2>1, TopFacts
        <5>2. Top.marked /\ Top.span = Dummy
          BY <1>1, <2>1, <4>3, <5>1 DEF Ids
        <5>3. Due(Top)
          BY <4>1, <4>3, <5>2 DEF Due, WorkletKinds, FnKinds
        <5>4. Taken(Top)
          BY <1>6, <4>3, <5>2, <5>3 DEF LeaveAny, LeavePlain, LeaveBodiless, LeaveWithoutData,
             LeaveUnserialized, LeaveHoisting
        <5>5. QED
          BY <2>1, <4>3, <5>2, <5>4, TakenFacts
      <4>4. QED
        BY <1>1, <2>1, <2>4, <4>2, <4>3, PoppedBodies
    <3>3. QED
      BY <2>2, <3>1, <3>2 DEF BodiesInv, BodiesKept
  <2>7. QED
    BY <2>5, <2>6
<1>7. CASE RejectAccessor
  <2>1. Ids(stack', nodes')
    <3>1. stack' = stack /\ nodes' = nodes + 1
      BY <1>7 DEF RejectAccessor
    <3>2. \A i \in 1..Len(stack) : stack[i].id \in 1..(nodes + 1)
      BY <1>1 DEF Ids
    <3>3. QED
      BY <1>1, <3>1, <3>2 DEF Ids
  <2>2. error' # None /\ UNCHANGED <<options, unprocessed_bodies>>
    BY <1>7, ReportedFacts DEF RejectAccessor, Errors, kept
  <2>3. QED
    BY <1>1, <2>1, <2>2 DEF BodiesInv, BodiesKept, Nested
<1>8. CASE BeginModule \/ BeginScript \/ EndItem \/ Finish \/ UNCHANGED vars
  <2>1. /\ stack' = stack /\ UNCHANGED <<options, nodes, unprocessed_bodies>>
    BY <1>8, AsideSteps DEF Aside, kept
  <2>2. error' = error \/ error' # None
    BY <1>8, ReportedFacts DEF BeginModule, BeginScript, Begin, EndItem, Finish, vars, Errors
  <2>3. QED
    BY <1>3, <1>4, <2>1, <2>2
<1>9. QED
  BY <1>2, <1>5, <1>6, <1>7, <1>8, Steps

(* What make_worklet_factory serializes is the function's own body.        *)
LEMMA SerializedOwn ==
  ASSUME TypeOK, BodiesInv, phase = "walk", Due(Top)
  PROVE  /\ Serialized(Top) \in {None, Top.id}
         /\ ~Nested /\ Serialized(Top) = None => Top.kind = "contextFactory" /\ Top.shared
<1> DEFINE d == Len(stack)
<1>1. /\ d \in 1..d /\ d \in Nat /\ Top = stack[d] /\ Top.id \in Nat /\ Top.id # None /\ error = None
      /\ Top.marked /\ Top.kind \in WorkletKinds /\ Ids(stack, nodes) /\ stack \in Seq(Node)
  BY TopFacts, NoneAssumption DEF Due, Node, BodiesInv
<1>2. Top.span = IF Top.kind = "contextFactory" THEN Dummy ELSE Top.id
  BY <1>1 DEF Ids
<1>3. CASE Top.kind = "arrow"
  BY <1>1, <1>3 DEF Serialized
<1>4. CASE Top.kind # "arrow" /\ Nested
  <2>1. Top.span \notin DOMAIN unprocessed_bodies
    BY <1>4 DEF BodiesInv, BodiesKept
  <2>2. QED
    BY <1>4, <2>1 DEF Serialized
<1>5. CASE Top.kind # "arrow" /\ ~Nested
  <2>1. Stored(stack, unprocessed_bodies) /\ Generated(stack, unprocessed_bodies)
    BY <1>1, <1>5 DEF BodiesInv, BodiesKept
  <2>2. CASE Top.kind # "contextFactory"
    <3>1. Top.kind \in FunctionKinds \ {"contextFactory"}
      BY <1>1, <1>5, <2>2 DEF FunctionKinds, WorkletKinds
    <3>2. Top.id \in DOMAIN unprocessed_bodies /\ unprocessed_bodies[Top.id] = Top.id
      BY <1>1, <2>1, <3>1 DEF Stored
    <3>3. QED
      BY <1>1, <1>2, <1>5, <2>2, <3>2 DEF Serialized
  <2>3. CASE Top.kind = "contextFactory" /\ Dummy \in DOMAIN unprocessed_bodies
    <3>1. PICK i \in 1..d : Innermost(stack, i) /\ unprocessed_bodies[Dummy] = stack[i].id
      BY <2>1, <2>3 DEF Generated
    <3>2. i = d
      BY <1>1, <2>3, <3>1 DEF Innermost
    <3>3. QED
      BY <1>1, <1>2, <1>5, <2>3, <3>1, <3>2 DEF Serialized
  <2>4. CASE Top.kind = "contextFactory" /\ Dummy \notin DOMAIN unprocessed_bodies
    <3>1. Top.shared
      BY <1>1, <2>1, <2>4 DEF Generated
    <3>2. QED
      BY <1>2, <1>5, <2>4, <3>1 DEF Serialized
  <2>5. QED
    BY <2>2, <2>3, <2>4
<1>6. QED
  BY <1>3, <1>4, <1>5

(* Every step keeps SerializesOwnBody.                                     *)
LEMMA NextSerializes ==
  TypeOK /\ BodiesInv /\ SerializesOwnBody /\ [Next]_vars => SerializesOwnBody'
<1> SUFFICES ASSUME TypeOK, BodiesInv, SerializesOwnBody, [Next]_vars PROVE SerializesOwnBody'
  OBVIOUS
<1>1. ASSUME worklets' = worklets, options' = options PROVE SerializesOwnBody'
  BY <1>1 DEF SerializesOwnBody, Nested
<1>2. ASSUME NEW init, phase = "walk", Due(Top), Replaced(init), options' = options
      PROVE  SerializesOwnBody'
  <2> DEFINE w == [number |-> worklet_number, init |-> init, id |-> Top.id, kind |-> Top.kind,
                   shared |-> Top.shared, body |-> Serialized(Top),
                   open |-> SerializedCode(Top).mentions \ Closure(Top)]
  <2>1. worklets' = worklets \cup {w}
    BY <1>2 DEF Replaced
  <2>2. /\ w.body \in {None, w.id}
        /\ ~Nested /\ w.body = None => w.kind = "contextFactory" /\ w.shared
    BY <1>2, SerializedOwn
  <2> HIDE DEF w
  <2>3. Nested' = Nested
    BY <1>2 DEF Nested
  <2>4. QED
    BY <2>1, <2>2, <2>3 DEF SerializesOwnBody
<1>3. CASE LeaveWithoutData
  BY <1>2, <1>3 DEF LeaveWithoutData, Leaving, kept
<1>4. CASE \E name \in Candidates : LeaveHoisting(name)
  BY <1>2, <1>4 DEF LeaveHoisting, Leaving, kept
<1>5. CASE LeavePlain \/ LeaveBodiless \/ \E e \in {"shadows", "print"} : LeaveUnserialized(e)
  BY <1>1, <1>5 DEF LeavePlain, LeaveBodiless, LeaveUnserialized, kept
<1>6. CASE EnterBody \/ RejectAccessor
  BY <1>1, <1>6 DEF EnterBody, RejectAccessor, kept
<1>7. CASE \E k \in Kinds, m, b \in BOOLEAN : Entering(k, m, b)
  BY <1>1, <1>7 DEF Entering, kept
<1>8. CASE BeginModule \/ BeginScript \/ EndItem \/ Finish \/ UNCHANGED vars
  BY <1>1, <1>8, AsideSteps DEF Aside, kept
<1>9. QED
  BY <1>3, <1>4, <1>5, <1>6, <1>7, <1>8, Steps DEF LeaveAny

(* No worklet is serialized from the body of another function, and without *)
(* process_nested_worklets only a generated factory with another one in it *)
(* is serialized from the body whose children were processed.              *)
THEOREM AlwaysSerializesOwnBody == Spec => []SerializesOwnBody
<1>1. Init => BodiesInv /\ SerializesOwnBody
  <2>1. SUFFICES ASSUME Init PROVE BodiesInv /\ SerializesOwnBody
    OBVIOUS
  <2>2. Len(stack) = 0 /\ worklets = {} /\ DOMAIN unprocessed_bodies = {}
    BY <2>1 DEF Init, NoBodies
  <2>3. Ids(stack, nodes) /\ Stored(stack, unprocessed_bodies) /\ Generated(stack, unprocessed_bodies)
    BY <2>2 DEF Ids, Stored, Generated
  <2>4. QED
    BY <2>2, <2>3 DEF BodiesInv, BodiesKept, SerializesOwnBody
<1>2. QED
  BY <1>1, NextBodies, NextSerializes, TypeCorrect, PTL DEF Spec

-----------------------------------------------------------------------------
(* Init data.                                                              *)

(* The names in some lists.                                                *)
NamesIn(lists) == UNION {ToSet(lists[i]) : i \in DOMAIN lists}

(* The fields of a list of lists with one more list.                       *)
LEMMA OneMoreList ==
  ASSUME NEW s \in Seq(Seq(Name)), NEW p \in Seq(Name)
  PROVE  /\ Append(s, p) \in Seq(Seq(Name)) /\ DOMAIN Append(s, p) = 1..(Len(s) + 1)
         /\ Append(s, p)[Len(s) + 1] = p /\ Len(s) \in Nat
         /\ \A i \in 1..Len(s) : Append(s, p)[i] = s[i]
         /\ NamesIn(Append(s, p)) = NamesIn(s) \cup ToSet(p)
<1> DEFINE t == Append(s, p)
<1>1. /\ t \in Seq(Seq(Name)) /\ Len(t) = Len(s) + 1 /\ t[Len(s) + 1] = p /\ Len(s) \in Nat
      /\ \A i \in 1..Len(s) : t[i] = s[i]
  BY AppendProperties
<1>2. DOMAIN t = 1..(Len(s) + 1) /\ DOMAIN s = 1..Len(s)
  BY <1>1
<1> HIDE DEF t
<1>3. ASSUME NEW x \in NamesIn(t) PROVE x \in NamesIn(s) \cup ToSet(p)
  <2>1. PICK i \in DOMAIN t : x \in ToSet(t[i])
    BY <1>3 DEF NamesIn
  <2>2. CASE i = Len(s) + 1
    BY <1>1, <2>1, <2>2
  <2>3. CASE i # Len(s) + 1
    <3>1. i \in 1..Len(s)
      BY <1>1, <1>2, <2>1, <2>3
    <3>2. QED
      BY <1>1, <1>2, <2>1, <3>1 DEF NamesIn
  <2>4. QED
    BY <2>2, <2>3
<1>4. ASSUME NEW x \in NamesIn(s) \cup ToSet(p) PROVE x \in NamesIn(t)
  <2>1. CASE x \in ToSet(p)
    <3>1. Len(s) + 1 \in DOMAIN t
      BY <1>1, <1>2
    <3>2. QED
      BY <1>1, <2>1, <3>1 DEF NamesIn
  <2>2. CASE x \in NamesIn(s)
    <3>1. PICK i \in DOMAIN s : x \in ToSet(s[i])
      BY <2>2 DEF NamesIn
    <3>2. i \in DOMAIN t /\ t[i] = s[i]
      BY <1>1, <1>2, <3>1
    <3>3. QED
      BY <3>1, <3>2 DEF NamesIn
  <2>3. QED
    BY <1>4, <2>1, <2>2
<1>5. NamesIn(t) = NamesIn(s) \cup ToSet(p)
  BY <1>3, <1>4
<1>6. QED
  BY <1>1, <1>2, <1>5 DEF t

(* The names of a list with one more name.                                 *)
LEMMA OneMoreName ==
  ASSUME NEW p \in Seq(Name), NEW x \in Name
  PROVE  /\ Append(p, x) \in Seq(Name) /\ DOMAIN Append(p, x) = 1..(Len(p) + 1)
         /\ Append(p, x)[Len(p) + 1] = x /\ Len(p) \in Nat
         /\ \A i \in 1..Len(p) : Append(p, x)[i] = p[i]
         /\ ToSet(Append(p, x)) = ToSet(p) \cup {x}
<1> DEFINE q == Append(p, x)
<1>1. /\ q \in Seq(Name) /\ Len(q) = Len(p) + 1 /\ q[Len(p) + 1] = x /\ Len(p) \in Nat
      /\ \A i \in 1..Len(p) : q[i] = p[i]
  BY AppendProperties
<1>2. DOMAIN q = 1..(Len(p) + 1) /\ DOMAIN p = 1..Len(p)
  BY <1>1
<1> HIDE DEF q
<1>3. ASSUME NEW y \in ToSet(q) PROVE y \in ToSet(p) \cup {x}
  <2>1. PICK i \in DOMAIN q : y = q[i]
    BY <1>3 DEF ToSet
  <2>2. i = Len(p) + 1 \/ i \in 1..Len(p)
    BY <1>1, <1>2
  <2>3. QED
    BY <1>1, <1>2, <2>1, <2>2 DEF ToSet
<1>4. ASSUME NEW y \in ToSet(p) \cup {x} PROVE y \in ToSet(q)
  <2>1. Len(p) + 1 \in DOMAIN q /\ \A i \in DOMAIN p : i \in DOMAIN q /\ q[i] = p[i]
    BY <1>1, <1>2
  <2>2. QED
    BY <1>1, <1>4, <2>1 DEF ToSet
<1>5. ToSet(q) = ToSet(p) \cup {x}
  BY <1>3, <1>4
<1>6. QED
  BY <1>1, <1>2, <1>5 DEF q

(* A name that is in none of the lists may be added to the last.           *)
LEMMA MoreDistinct ==
  ASSUME NEW s \in Seq(Seq(Name)), NEW p \in Seq(Name), NEW x \in Name,
         Distinct(Append(s, p)), x \notin NamesIn(Append(s, p))
  PROVE  Distinct(Append(s, Append(p, x)))
<1> DEFINE q == Append(p, x)
           t == Append(s, p)
           u == Append(s, q)
           d == Len(s) + 1
           e == Len(p) + 1
<1>1. /\ q \in Seq(Name) /\ DOMAIN q = 1..e /\ q[e] = x /\ Len(p) \in Nat
      /\ \A i \in 1..Len(p) : q[i] = p[i]
  BY OneMoreName
<1> HIDE DEF q
<1>2. /\ DOMAIN t = 1..d /\ t[d] = p /\ Len(s) \in Nat
      /\ \A i \in 1..Len(s) : t[i] = s[i]
  BY OneMoreList
<1>3. /\ DOMAIN u = 1..d /\ u[d] = q
      /\ \A i \in 1..Len(s) : u[i] = s[i]
  BY <1>1, OneMoreList
<1> HIDE DEF t, u
<1>4. DOMAIN p = 1..Len(p)
  OBVIOUS
<1>5. ASSUME NEW i \in DOMAIN u, NEW a \in DOMAIN u[i]
      PROVE  \/ i = d /\ a = e /\ u[i][a] = x
             \/ ~(i = d /\ a = e) /\ i \in DOMAIN t /\ a \in DOMAIN t[i] /\ u[i][a] = t[i][a]
  <2>1. CASE i = d
    <3>1. u[i] = q /\ t[i] = p /\ i \in DOMAIN t
      BY <1>2, <1>3, <2>1
    <3>2. CASE a = e
      BY <1>1, <2>1, <3>1, <3>2
    <3>3. CASE a # e
      <4>1. a \in 1..Len(p)
        BY <1>1, <1>5, <3>1, <3>3
      <4>2. QED
        BY <1>1, <1>4, <3>1, <3>3, <4>1
    <3>4. QED
      BY <3>2, <3>3
  <2>2. CASE i # d
    <3>1. i \in 1..Len(s) /\ i \in DOMAIN t
      BY <1>2, <1>3, <2>2
    <3>2. u[i] = t[i]
      BY <1>2, <1>3, <3>1
    <3>3. QED
      BY <1>5, <2>2, <3>1, <3>2
  <2>3. QED
    BY <2>1, <2>2
<1>6. \A i \in DOMAIN t : \A a \in DOMAIN t[i] : t[i][a] # x
  BY DEF NamesIn, ToSet, t
<1>7. \A i, j \in DOMAIN t : \A a \in DOMAIN t[i], b \in DOMAIN t[j] :
         t[i][a] = t[j][b] => i = j /\ a = b
  BY DEF Distinct, t
<1> HIDE DEF d, e
<1>8. ASSUME NEW i \in DOMAIN u, NEW j \in DOMAIN u, NEW a \in DOMAIN u[i], NEW b \in DOMAIN u[j],
             u[i][a] = u[j][b]
      PROVE  i = j /\ a = b
  BY <1>5, <1>6, <1>7, <1>8
<1>9. Distinct(u)
  BY <1>8 DEF Distinct
<1>10. QED
  BY <1>9 DEF u, q

(* An empty list may be added.                                             *)
LEMMA EmptyDistinct ==
  ASSUME NEW s \in Seq(Seq(Name)), Distinct(s)
  PROVE  Distinct(Append(s, << >>)) /\ NamesIn(Append(s, << >>)) = NamesIn(s)
<1> DEFINE t == Append(s, << >>)
<1>1. << >> \in Seq(Name) /\ ToSet(<< >>) = {} /\ DOMAIN << >> = {}
  BY EmptySeq DEF ToSet
<1>2. /\ DOMAIN t = 1..(Len(s) + 1) /\ t[Len(s) + 1] = << >> /\ Len(s) \in Nat
      /\ \A i \in 1..Len(s) : t[i] = s[i]
      /\ NamesIn(t) = NamesIn(s) \cup ToSet(<< >>)
  BY <1>1, OneMoreList
<1>3. DOMAIN s = 1..Len(s)
  OBVIOUS
<1> HIDE DEF t
<1>4. ASSUME NEW i \in DOMAIN t, NEW a \in DOMAIN t[i]
      PROVE  i \in DOMAIN s /\ t[i] = s[i]
  <2>1. i # Len(s) + 1
    BY <1>1, <1>2, <1>4
  <2>2. i \in 1..Len(s)
    BY <1>2, <2>1
  <2>3. QED
    BY <1>2, <1>3, <2>2
<1>5. ASSUME NEW i \in DOMAIN t, NEW j \in DOMAIN t, NEW a \in DOMAIN t[i], NEW b \in DOMAIN t[j],
             t[i][a] = t[j][b]
      PROVE  i = j /\ a = b
  BY <1>4, <1>5 DEF Distinct
<1>6. Distinct(t)
  BY <1>5 DEF Distinct
<1>7. QED
  BY <1>1, <1>2, <1>6 DEF t

(* The lists of the items, with one more item.                             *)
LEMMA ItemLists ==
  ASSUME NEW items \in Seq(Item)
  PROVE  /\ ItemPrepends(items) \in Seq(Seq(Name)) /\ Len(ItemPrepends(items)) = Len(items)
         /\ \A i \in 1..Len(items) : ItemPrepends(items)[i] = items[i].prepends
         /\ \A x \in Item : ItemPrepends(Append(items, x)) = Append(ItemPrepends(items), x.prepends)
<1> DEFINE L(s) == ItemPrepends(s)
<1>1. ASSUME NEW s \in Seq(Item)
      PROVE  /\ L(s) \in Seq(Seq(Name)) /\ Len(L(s)) = Len(s) /\ Len(s) \in Nat
             /\ \A i \in 1..Len(s) : L(s)[i] = s[i].prepends
  <2>1. DOMAIN s = 1..Len(s) /\ Len(s) \in Nat
    OBVIOUS
  <2>2. L(s) = [i \in 1..Len(s) |-> s[i].prepends]
    BY <2>1 DEF ItemPrepends
  <2>3. \A i \in 1..Len(s) : s[i].prepends \in Seq(Name)
    <3>1. \A i \in 1..Len(s) : s[i] \in Item
      OBVIOUS
    <3>2. \A x \in Item : x.prepends \in Seq(Name)
      BY DEF Item
    <3>3. QED
      BY <3>1, <3>2
  <2>4. L(s) \in [1..Len(s) -> Seq(Name)]
    BY <2>2, <2>3
  <2>5. L(s) \in Seq(Seq(Name)) /\ Len(L(s)) = Len(s)
    BY <2>1, <2>4
  <2>6. QED
    BY <2>1, <2>2, <2>5
<1>2. ASSUME NEW x \in Item
      PROVE  L(Append(items, x)) = Append(L(items), x.prepends)
  <2> DEFINE t == Append(items, x)
             u == Append(L(items), x.prepends)
  <2>1. /\ t \in Seq(Item) /\ Len(t) = Len(items) + 1 /\ t[Len(items) + 1] = x
        /\ \A i \in 1..Len(items) : t[i] = items[i]
    BY AppendProperties
  <2>2. x.prepends \in Seq(Name) /\ L(items) \in Seq(Seq(Name)) /\ Len(L(items)) = Len(items)
    BY <1>1 DEF Item
  <2>3. /\ u \in Seq(Seq(Name)) /\ Len(u) = Len(items) + 1 /\ u[Len(items) + 1] = x.prepends
        /\ \A i \in 1..Len(items) : u[i] = L(items)[i]
    <3> HIDE DEF L
    <3>1. QED
      BY <2>2, AppendProperties
  <2>4. L(t) \in Seq(Seq(Name)) /\ Len(L(t)) = Len(t)
    BY <1>1, <2>1
  <2>5. ASSUME NEW i \in 1..Len(t) PROVE L(t)[i] = u[i]
    <3>1. L(t)[i] = t[i].prepends
      BY <1>1, <2>1
    <3>2. CASE i = Len(items) + 1
      BY <2>1, <2>3, <3>1, <3>2
    <3>3. CASE i # Len(items) + 1
      <4>1. i \in 1..Len(items)
        BY <1>1, <2>1, <3>3
      <4>2. L(items)[i] = items[i].prepends
        BY <1>1, <4>1
      <4>3. QED
        BY <2>1, <2>3, <3>1, <4>1, <4>2
    <3>4. QED
      BY <3>2, <3>3
  <2> HIDE DEF t, u, L
  <2>6. L(t) = u
    BY <2>1, <2>3, <2>4, <2>5, SeqEqual
  <2>7. QED
    BY <2>6 DEF t, u
<1>3. QED
  BY <1>1, <1>2

-----------------------------------------------------------------------------
(* The init data declared so far.                                          *)
Declared == NamesIn(Declarations)

(* A finished item mentions only data declared before it.                  *)
ItemsClosed(items) ==
  \A i \in DOMAIN items : items[i].mentions \subseteq UNION {ToSet(items[j].prepends) : j \in 1..i}

(* Every name declared is known as used, and so is every name that the     *)
(* program binds; the open nodes and the current item mention declared     *)
(* names only.                                                             *)
ScopeInv ==
  /\ Distinct(Declarations)
  /\ Declared \subseteq used_names /\ Declared \cap UserNames = {}
  /\ phase = "start" => Declared = {}
  /\ phase \in {"module", "walk", "item"} => UserNames \subseteq used_names
  /\ Mention(stack, Declared) /\ escaped \subseteq Declared
  /\ ItemsClosed(out)
  /\ \A w \in worklets : w.open = {}

(* The lists declared are lists of names.                                  *)
LEMMA DeclarationTypes ==
  ASSUME TypeOK
  PROVE  /\ ItemPrepends(out) \in Seq(Seq(Name)) /\ Declarations \in Seq(Seq(Name))
         /\ pending_prepends \in Seq(Name)
         /\ Declared = NamesIn(ItemPrepends(out)) \cup ToSet(pending_prepends)
BY ItemLists, OneMoreList DEF TypeOK, Declarations, Declared

(* Init data is added to what is pending under a name that is not used.    *)
LEMMA HoistScope ==
  ASSUME TypeOK, ScopeInv, NEW name \in Name, name \notin used_names,
         out' = out, pending_prepends' = Append(pending_prepends, name)
  PROVE  Distinct(Declarations') /\ Declared' = Declared \cup {name}
<1>1. ItemPrepends(out) \in Seq(Seq(Name)) /\ pending_prepends \in Seq(Name)
  BY DeclarationTypes
<1>2. Declarations' = Append(ItemPrepends(out), Append(pending_prepends, name))
  BY DEF Declarations
<1>3. name \notin NamesIn(Append(ItemPrepends(out), pending_prepends))
  BY DEF ScopeInv, Declared, Declarations
<1>4. Distinct(Declarations')
  BY <1>1, <1>2, <1>3, MoreDistinct DEF ScopeInv, Declarations
<1>5. /\ Append(pending_prepends, name) \in Seq(Name)
      /\ ToSet(Append(pending_prepends, name)) = ToSet(pending_prepends) \cup {name}
  BY <1>1, OneMoreName
<1>6. Declared' = NamesIn(ItemPrepends(out)) \cup ToSet(Append(pending_prepends, name))
  BY <1>1, <1>2, <1>5, OneMoreList DEF Declared
<1>7. Declared = NamesIn(ItemPrepends(out)) \cup ToSet(pending_prepends)
  BY DeclarationTypes
<1>8. QED
  BY <1>4, <1>5, <1>6, <1>7

(* What is pending becomes the list of the item.                           *)
LEMMA EndItemScope ==
  ASSUME TypeOK, ScopeInv, EndItem
  PROVE  Distinct(Declarations') /\ Declared' = Declared /\ ItemsClosed(out')
<1> DEFINE x == [prepends |-> pending_prepends, mentions |-> escaped]
<1>1. x \in Item /\ x.prepends = pending_prepends /\ x.mentions = escaped
  BY DEF TypeOK, Item
<1>2. out' = Append(out, x) /\ pending_prepends' = << >> /\ out \in Seq(Item)
  BY DEF EndItem, TypeOK
<1> HIDE DEF x
<1>3. ItemPrepends(out') = Declarations
  BY <1>1, <1>2, ItemLists DEF Declarations
<1>4. Declarations' = Append(Declarations, << >>)
  BY <1>2, <1>3 DEF Declarations
<1>5. Declarations \in Seq(Seq(Name)) /\ Distinct(Declarations)
  BY DeclarationTypes DEF ScopeInv
<1>6. Distinct(Declarations') /\ Declared' = Declared
  BY <1>4, <1>5, EmptyDistinct DEF Declared
<1>7. /\ Len(out') = Len(out) + 1 /\ out'[Len(out) + 1] = x /\ Len(out) \in Nat
      /\ \A i \in 1..Len(out) : out'[i] = out[i]
      /\ DOMAIN out = 1..Len(out) /\ DOMAIN out' = 1..(Len(out) + 1)
  BY <1>1, <1>2
<1>8. ASSUME NEW i \in DOMAIN out'
      PROVE  out'[i].mentions \subseteq UNION {ToSet(out'[j].prepends) : j \in 1..i}
  <2>1. CASE i = Len(out) + 1
    <3>1. out'[i].mentions \subseteq Declared
      BY <1>1, <1>7, <2>1 DEF ScopeInv
    <3>2. ASSUME NEW y \in Declared
          PROVE  y \in UNION {ToSet(out'[j].prepends) : j \in 1..i}
      <4>1. PICK j \in DOMAIN Declarations : y \in ToSet(Declarations[j])
        BY <3>2 DEF Declared, NamesIn
      <4>2. /\ DOMAIN Declarations = 1..(Len(out) + 1)
            /\ \A l \in 1..(Len(out) + 1) : Declarations[l] = out'[l].prepends
        <5>1. out' \in Seq(Item) /\ Len(out') = Len(out) + 1
          BY <1>1, <1>2, <1>7
        <5>2. /\ Len(ItemPrepends(out')) = Len(out')
              /\ \A l \in 1..Len(out') : ItemPrepends(out')[l] = out'[l].prepends
          BY <5>1, ItemLists
        <5>3. DOMAIN Declarations = 1..Len(Declarations)
          BY <1>5
        <5>4. QED
          BY <1>3, <5>1, <5>2, <5>3
      <4>3. QED
        BY <2>1, <4>1, <4>2
    <3>3. QED
      BY <3>1, <3>2
  <2>2. CASE i # Len(out) + 1
    <3>1. i \in 1..Len(out)
      BY <1>7, <2>2
    <3>2. \A j \in 1..i : j \in 1..Len(out)
      BY <1>7, <3>1
    <3>3. out[i].mentions \subseteq UNION {ToSet(out[j].prepends) : j \in 1..i}
      BY <1>7, <3>1 DEF ScopeInv, ItemsClosed
    <3>4. {ToSet(out'[j].prepends) : j \in 1..i} = {ToSet(out[j].prepends) : j \in 1..i}
      BY <1>7, <3>2
    <3>5. QED
      BY <1>7, <3>1, <3>3, <3>4
  <2>3. QED
    BY <2>1, <2>2
<1>9. QED
  BY <1>6, <1>8 DEF ItemsClosed

(* Every step keeps the scopes.                                            *)
LEMMA NextScope == TypeOK /\ ScopeInv /\ [Next]_vars => ScopeInv'
<1> SUFFICES ASSUME TypeOK, ScopeInv, [Next]_vars PROVE ScopeInv'
  OBVIOUS
<1>1. ASSUME UNCHANGED <<out, pending_prepends>> PROVE UNCHANGED <<Declarations, Declared>>
  BY <1>1 DEF Declarations, Declared
<1>2. ASSUME UNCHANGED <<out, pending_prepends, used_names, escaped, worklets>>,
             phase' \in {"walk", "item", "module"} => phase \in {"walk", "item", "module"},
             phase' = "start" => phase = "start",
             Mention(stack', Declared)
      PROVE  ScopeInv'
  <2>1. Declarations' = Declarations /\ Declared' = Declared
    BY <1>1, <1>2
  <2>2. QED
    BY <1>2, <2>1 DEF ScopeInv
<1>3. ASSUME NEW k \in Kinds, NEW m \in BOOLEAN, NEW b \in BOOLEAN, Entering(k, m, b)
      PROVE  ScopeInv'
  <2>1. /\ UNCHANGED <<out, pending_prepends, used_names, escaped, worklets>> /\ phase' = "walk"
        /\ Pushed(stack, stack', New(k, m, b)) /\ Len(stack) \in Nat
    BY <1>3, PushFacts DEF Entering, names, rest, TypeOK
  <2>2. phase \in {"walk", "module"}
    BY <1>3 DEF Entering
  <2>3. Mention(stack', Declared)
    <3>1. ASSUME NEW i \in 1..Len(stack')
          PROVE  Clean(stack'[i].code, Declared) /\ Clean(stack'[i].params, Declared)
      <4>1. CASE i = Len(stack) + 1
        <5>1. New(k, m, b).code = NoCode /\ New(k, m, b).params = NoCode
          BY DEF New
        <5>2. Clean(NoCode, Declared)
          BY DEF Clean, NoCode
        <5>3. QED
          BY <2>1, <4>1, <5>1, <5>2 DEF Pushed
      <4>2. CASE i # Len(stack) + 1
        <5>1. i \in 1..Len(stack)
          BY <2>1, <4>2 DEF Pushed
        <5>2. QED
          BY <2>1, <5>1 DEF Pushed, ScopeInv, Mention
      <4>3. QED
        BY <4>1, <4>2
    <3>2. QED
      BY <3>1 DEF Mention
  <2>4. QED
    BY <1>2, <2>1, <2>2, <2>3
<1>4. CASE EnterBody
  <2>1. UNCHANGED <<out, pending_prepends, used_names, escaped, worklets>>
    BY <1>4 DEF EnterBody, names, rest
  <2>2. Mention(stack', Declared)
    <3>1. /\ Len(stack') = Len(stack) /\ Len(stack) \in Nat \ {0} /\ Top = stack[Len(stack)]
          /\ Top' = stack'[Len(stack)] /\ Top'.code = Top.code /\ Top'.params = Top.code
          /\ \A i \in 1..(Len(stack) - 1) : stack'[i] = stack[i]
          /\ phase = "walk" /\ phase' = "walk"
      BY <1>4, EnterBodyFacts, TopFacts
    <3>2. ASSUME NEW i \in 1..Len(stack')
          PROVE  /\ i \in 1..Len(stack) /\ stack'[i].code = stack[i].code
                 /\ stack'[i].params \in {stack[i].code, stack[i].params}
      <4>1. CASE i = Len(stack)
        BY <3>1, <4>1
      <4>2. CASE i # Len(stack)
        <5>1. i \in 1..(Len(stack) - 1)
          BY <3>1, <4>2
        <5>2. QED
          BY <3>1, <5>1
      <4>3. QED
        BY <4>1, <4>2
    <3>3. QED
      BY <3>2 DEF ScopeInv, Mention
  <2>3. QED
    BY <1>2, <1>4, <2>1, <2>2, EnterBodyFacts
<1>5. ASSUME LeaveAny, NEW code \in Code, Return(code), Clean(code, Declared'),
             UNCHANGED <<out>>, Distinct(Declarations'), Declared \subseteq Declared',
             Declared' \subseteq Declared \cup (used_names' \ used_names),
             used_names \subseteq used_names',
             \A w \in worklets' : w.open = {}
      PROVE  ScopeInv'
  <2> DEFINE H == Declared'
  <2>1. phase = "walk" /\ phase' \in {"walk", "item"}
    BY <1>5, LeaveFacts, ReturnFacts
  <2>2. UserNames \subseteq used_names /\ Declared \subseteq used_names /\ Declared \cap UserNames = {}
    BY <2>1 DEF ScopeInv
  <2>3. Declared' \subseteq used_names' /\ Declared' \cap UserNames = {} /\ UserNames \subseteq used_names'
    BY <1>5, <2>2
  <2>4. Mention(stack, H) /\ escaped \subseteq H
    <3> HIDE DEF H
    <3>1. Declared \subseteq H
      BY <1>5 DEF H
    <3>2. QED
      BY <3>1 DEF ScopeInv, Mention, Clean
  <2>5. Mention(stack', H) /\ escaped' \subseteq H
    <3> HIDE DEF H
    <3>1. Clean(code, H)
      BY <1>5 DEF H
    <3>2. QED
      BY <1>5, <2>1, <2>4, <3>1, ReturnFacts
  <2>6. ItemsClosed(out')
    BY <1>5 DEF ScopeInv
  <2>7. QED
    BY <1>5, <2>1, <2>3, <2>5, <2>6 DEF ScopeInv
<1>6. ASSUME phase = "walk"
      PROVE  /\ Clean(Top.code, Declared) /\ Clean(Top.params, Declared)
             /\ Top.code \in Code /\ Top.params \in Code
  BY <1>6, TopFacts DEF ScopeInv, Mention
<1>l. ASSUME LeaveAny, NEW code \in Code, Return(code), Clean(code, Declared),
             UNCHANGED <<out, pending_prepends, used_names>>,
             \A w \in worklets' : w.open = {}
      PROVE  ScopeInv'
  <2>1. Declarations' = Declarations /\ Declared' = Declared /\ Distinct(Declarations')
    BY <1>1, <1>l DEF ScopeInv
  <2>2. Declared \subseteq Declared' /\ Declared' \subseteq Declared \cup (used_names' \ used_names)
    BY <2>1
  <2>3. QED
    BY <1>5, <1>l, <2>1, <2>2
<1>7. ASSUME phase = "walk", NEW init, Replaced(init)
      PROVE  \A w \in worklets' : w.open = {}
  <2>1. SerializedCode(Top) \in Code /\ Clean(SerializedCode(Top), Declared)
    BY <1>6, <1>7 DEF SerializedCode
  <2>2. \A x \in Name : <<x, "data">> \notin SerializedCode(Top).binds
    BY <2>1 DEF Clean
  <2>3. SerializedCode(Top).mentions \subseteq Name
    BY <2>1 DEF Code
  <2>4. SerializedCode(Top).mentions \ Closure(Top) = {}
    BY <2>2, <2>3 DEF Closure
  <2>5. QED
    BY <1>7, <2>4 DEF Replaced, ScopeInv
<1>8. CASE LeavePlain \/ LeaveBodiless
  <2>1. /\ LeaveAny /\ phase = "walk" /\ UNCHANGED <<out, pending_prepends, used_names, worklets>>
        /\ Return(Top.code) \/ Return(NoCode)
    BY <1>8, LeaveFacts DEF LeaveAny, LeavePlain, LeaveBodiless, names
  <2>2. NoCode \in Code /\ Clean(NoCode, Declared)
    BY DEF NoCode, Code, Clean
  <2>3. \A w \in worklets' : w.open = {}
    BY <2>1 DEF ScopeInv
  <2>4. QED
    BY <1>6, <1>l, <2>1, <2>2, <2>3
<1>9. CASE LeaveWithoutData
  <2>1. /\ LeaveAny /\ phase = "walk" /\ UNCHANGED <<out, pending_prepends, used_names>>
        /\ Return(FactoryCall(Top, {})) /\ Replaced(None)
    BY <1>9, LeaveFacts DEF LeaveAny, LeaveWithoutData
  <2>2. FactoryCall(Top, {}) \in Code /\ Clean(FactoryCall(Top, {}), Declared)
    <3>1. {} \in SUBSET Name /\ {} \subseteq Declared
      OBVIOUS
    <3>2. QED
      BY <1>6, <2>1, <3>1, CallFacts
  <2>3. QED
    BY <1>7, <1>l, <2>1, <2>2
<1>10. CASE \E e \in {"shadows", "print"} : LeaveUnserialized(e)
  <2>1. /\ LeaveAny /\ phase = "walk" /\ UNCHANGED <<out, pending_prepends, used_names, worklets>>
        /\ Return(Top.code)
    BY <1>10, LeaveFacts DEF LeaveAny, LeaveUnserialized
  <2>2. \A w \in worklets' : w.open = {}
    BY <2>1 DEF ScopeInv
  <2>3. QED
    BY <1>6, <1>l, <2>1, <2>2
<1>11. ASSUME NEW name \in Candidates, LeaveHoisting(name) PROVE ScopeInv'
  <2> DEFINE code == FactoryCall(Top, {name})
  <2>1. /\ LeaveAny /\ phase = "walk" /\ Return(code) /\ Replaced(name)
        /\ out' = out /\ pending_prepends' = Append(pending_prepends, name)
        /\ name \in Name /\ name \notin used_names /\ used_names' = used_names \cup {name}
    BY <1>11, LeaveFacts, CandidateNames DEF LeaveAny, LeaveHoisting, IsFreshInitId
  <2>2. Distinct(Declarations') /\ Declared' = Declared \cup {name}
    BY <2>1, HoistScope
  <2>3. Clean(Top.code, Declared \cup {name})
    BY <1>6, <2>1 DEF Clean
  <2>4. code \in Code /\ Clean(code, Declared \cup {name})
    <3>1. {name} \in SUBSET Name /\ {name} \subseteq Declared \cup {name}
      BY <2>1
    <3>2. QED
      BY <2>1, <2>3, <3>1, CallFacts
  <2>5. \A w \in worklets' : w.open = {}
    BY <1>7, <2>1
  <2>6. /\ Declared \subseteq Declared' /\ used_names \subseteq used_names'
        /\ Declared' \subseteq Declared \cup (used_names' \ used_names)
    BY <2>1, <2>2
  <2> HIDE DEF code
  <2>7. QED
    BY <1>5, <2>1, <2>2, <2>4, <2>5, <2>6
<1>12. CASE BeginModule \/ BeginScript
  <2>1. /\ UNCHANGED <<out, pending_prepends, stack, escaped, worklets>> /\ phase = "start"
        /\ \/ phase' = "done" /\ used_names' = used_names
           \/ phase' = "module" /\ used_names' = UserNames
    BY <1>12 DEF BeginModule, BeginScript, Begin, walk
  <2>2. Declarations' = Declarations /\ Declared' = Declared /\ Declared = {}
    BY <1>1, <2>1 DEF ScopeInv
  <2>3. QED
    BY <2>1, <2>2 DEF ScopeInv
<1>13. CASE EndItem
  <2>1. Distinct(Declarations') /\ Declared' = Declared /\ ItemsClosed(out')
    BY <1>13, EndItemScope
  <2>2. /\ UNCHANGED <<stack, used_names, worklets>> /\ escaped' = {} /\ phase = "item" /\ phase' = "module"
    BY <1>13 DEF EndItem, walk
  <2>3. QED
    BY <2>1, <2>2 DEF ScopeInv
<1>14. CASE Finish \/ UNCHANGED vars \/ RejectAccessor
  <2>1. /\ UNCHANGED <<out, pending_prepends, used_names, escaped, worklets, stack>>
        /\ phase' = phase \/ phase' = "done"
    BY <1>14 DEF Finish, vars, RejectAccessor, walk, names, rest
  <2>2. Mention(stack', Declared)
    BY <2>1 DEF ScopeInv
  <2>3. QED
    BY <1>2, <2>1, <2>2
<1>15. QED
  BY <1>3, <1>4, <1>8, <1>9, <1>10, <1>11, <1>12, <1>13, <1>14, Steps DEF LeaveAny

(* Every mention of init data finds one declaration, under a name that     *)
(* nothing else has, that comes before the item; and serialized code       *)
(* captures what it mentions.                                              *)
THEOREM InitDataAlwaysInScope == Spec => []InitDataInScope
<1>1. TypeOK /\ ScopeInv => InitDataInScope
  <2> SUFFICES ASSUME TypeOK, ScopeInv PROVE InitDataInScope
    OBVIOUS
  <2>1. \A i \in DOMAIN Declarations : ToSet(Declarations[i]) \cap UserNames = {}
    BY DEF ScopeInv, Declared, NamesIn
  <2>2. QED
    BY <2>1 DEF ScopeInv, ItemsClosed, InitDataInScope
<1>2. Init => ScopeInv
  <2>1. SUFFICES ASSUME Init PROVE ScopeInv
    OBVIOUS
  <2>2. /\ out = << >> /\ pending_prepends = << >> /\ Len(stack) = 0 /\ phase = "start"
        /\ worklets = {} /\ escaped = {} /\ used_names = {}
    BY <2>1 DEF Init
  <2>3. out \in Seq(Item) /\ Len(out) = 0
    BY <2>2
  <2>4. ItemPrepends(out) \in Seq(Seq(Name)) /\ Len(ItemPrepends(out)) = 0
    BY <2>3, ItemLists
  <2>5. DOMAIN ItemPrepends(out) = {}
    BY <2>2 DEF ItemPrepends
  <2>6. Distinct(ItemPrepends(out)) /\ NamesIn(ItemPrepends(out)) = {}
    BY <2>5 DEF Distinct, NamesIn
  <2>7. Distinct(Declarations) /\ Declared = {}
    BY <2>2, <2>4, <2>6, EmptyDistinct DEF Declarations, Declared
  <2>8. ItemsClosed(out)
    BY <2>2 DEF ItemsClosed
  <2>9. QED
    BY <2>2, <2>7, <2>8 DEF ScopeInv, Mention
<1>3. QED
  BY <1>1, <1>2, NextScope, TypeCorrect, PTL DEF Spec
===============================================================================
