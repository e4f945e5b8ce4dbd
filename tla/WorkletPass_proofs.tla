-------------------------- MODULE WorkletPass_proofs --------------------------
(***************************************************************************)
(* Proofs about WorkletPass, for every value of its constants.             *)
(*                                                                         *)
(* Types alone are not inductive: that what is spliced into a body is init *)
(* data needs function_prepends not to be empty when a function is left.   *)
(* The inductive invariant is therefore TypeOK with FramesMatchFunctions,  *)
(* whose preservation rests on the lemmas about FramesOf.                  *)
(***************************************************************************)
EXTENDS WorkletPass, FiniteSetTheorems, SequenceTheorems, TLAPS

(* How many frames a node accounts for.                                    *)
Pushes(k) == IF k \in FrameKinds THEN 1 ELSE 0

(* The functions of a finite stack are finitely many.                      *)
LEMMA FramesFinite ==
  ASSUME NEW s \in Seq(Node)
  PROVE  IsFiniteSet(FramesOf(s)) /\ Cardinality(FramesOf(s)) \in Nat
<1>1. IsFiniteSet(1..Len(s))
  BY FS_Interval
<1>2. FramesOf(s) \in SUBSET (1..Len(s))
  BY DEF FramesOf
<1>3. QED
  BY <1>1, <1>2, FS_Subset, FS_CardinalityType

(* Entering a node adds the frames it accounts for.                        *)
LEMMA FramesAppend ==
  ASSUME NEW s \in Seq(Node), NEW n \in Node
  PROVE  Cardinality(FramesOf(Append(s, n))) = Cardinality(FramesOf(s)) + Pushes(n.kind)
<1>1. Len(s) + 1 \notin FramesOf(s)
  BY DEF FramesOf
<1>2. CASE n.kind \in FrameKinds
  <2>1. FramesOf(Append(s, n)) = FramesOf(s) \cup {Len(s) + 1}
    BY <1>2 DEF FramesOf
  <2>2. QED
    BY <1>1, <1>2, <2>1, FramesFinite, FS_AddElement DEF Pushes
<1>3. CASE n.kind \notin FrameKinds
  <2>1. FramesOf(Append(s, n)) = FramesOf(s)
    BY <1>3 DEF FramesOf
  <2>2. QED
    BY <1>3, <2>1, FramesFinite DEF Pushes
<1>4. QED
  BY <1>2, <1>3

(* Leaving the innermost node takes them away.                             *)
LEMMA FramesFront ==
  ASSUME NEW s \in Seq(Node), s # << >>
  PROVE  /\ Front(s) \in Seq(Node) /\ Len(Front(s)) = Len(s) - 1
         /\ \A i \in 1..(Len(s) - 1) : Front(s)[i] = s[i]
         /\ s[Len(s)] \in Node
         /\ Cardinality(FramesOf(s)) = Cardinality(FramesOf(Front(s))) + Pushes(s[Len(s)].kind)
<1>1. /\ Len(s) \in Nat \ {0} /\ Front(s) \in Seq(Node) /\ Len(Front(s)) = Len(s) - 1
      /\ \A i \in 1..(Len(s) - 1) : Front(s)[i] = s[i]
      /\ s[Len(s)] \in Node
  <2>1. Len(s) \in Nat \ {0} /\ \A i \in 1..Len(s) : s[i] \in Node
    BY EmptySeq, ElementOfSeq
  <2>2. \A i \in 1..(Len(s) - 1) : s[i] \in Node
    BY <2>1
  <2>3. /\ Front(s) \in Seq(Node)
        /\ Len(Front(s)) = IF 1 <= Len(s) - 1 THEN Len(s) - 1 - 1 + 1 ELSE 0
        /\ \A i \in 1..(Len(s) - 1 - 1 + 1) : Front(s)[i] = s[1 + i - 1]
    BY <2>1, <2>2, SubSeqProperties DEF Front
  <2>4. Len(Front(s)) = Len(s) - 1
    <3>1. \A n \in Nat \ {0} : (IF 1 <= n - 1 THEN n - 1 - 1 + 1 ELSE 0) = n - 1
      OBVIOUS
    <3>2. QED
      BY <2>1, <2>3, <3>1
  <2>5. ASSUME NEW i \in 1..(Len(s) - 1) PROVE Front(s)[i] = s[i]
    <3>1. i \in 1..(Len(s) - 1 - 1 + 1) /\ 1 + i - 1 = i
      BY <2>1
    <3>2. QED
      BY <2>3, <3>1
  <2>6. QED
    BY <2>1, <2>3, <2>4, <2>5
<1>2. s = Append(Front(s), s[Len(s)])
  BY <1>1
<1>3. QED
  BY <1>1, <1>2, FramesAppend

(* Only kinds matter to FramesOf.                                          *)
LEMMA FramesSameKinds ==
  ASSUME NEW s \in Seq(Node), NEW t \in Seq(Node), Len(s) = Len(t),
         \A i \in 1..Len(s) : s[i].kind = t[i].kind
  PROVE  FramesOf(s) = FramesOf(t)
  BY DEF FramesOf

-----------------------------------------------------------------------------
IInv == TypeOK /\ FramesMatchFunctions

(* The invariant holds before the walk.                                    *)
LEMMA InitIInv == Init => IInv
<1> SUFFICES ASSUME Init PROVE IInv
  OBVIOUS
<1>1. TypeOK
  BY DEF Init, TypeOK
<1>2. FramesOf(stack) = {}
  BY DEF Init, FramesOf
<1>3. QED
  BY <1>1, <1>2, FS_EmptySet DEF IInv, FramesMatchFunctions, Init

(* What the invariant says of the node the visitor is inside of: it has a  *)
(* frame of its own when it is a function, and what is spliced into it and *)
(* what it mentions is init data.                                          *)
LEMMA TopFacts ==
  ASSUME IInv, phase = "walk"
  PROVE  /\ Top \in Node /\ stack # << >> /\ Len(stack) \in Nat \ {0}
         /\ Top.kind \in Kinds
         /\ Top.kind \in FrameKinds => Len(function_prepends) > 0
         /\ Spliced \in SUBSET Name
         /\ Popped \in Seq(Seq(Name))
         /\ Len(Popped) = Cardinality(FramesOf(Front(stack)))
         /\ Free(Top, Spliced) \in SUBSET Name
<1>1. stack \in Seq(Node) /\ stack # << >> /\ function_prepends \in Seq(Seq(Name))
  BY DEF IInv, TypeOK
<1>2. /\ Top \in Node /\ Front(stack) \in Seq(Node)
      /\ Cardinality(FramesOf(stack)) = Cardinality(FramesOf(Front(stack))) + Pushes(Top.kind)
  BY <1>1, FramesFront DEF Top
<1>3. Len(function_prepends) = Cardinality(FramesOf(Front(stack))) + Pushes(Top.kind)
  BY <1>2 DEF IInv, FramesMatchFunctions
<1>4. Cardinality(FramesOf(Front(stack))) \in Nat
  BY <1>2, FramesFinite
<1>5. Top.kind \in FrameKinds => Len(function_prepends) > 0
  BY <1>3, <1>4 DEF Pushes
<1>6. Top.kind \in FrameKinds => Last(function_prepends) \in Seq(Name)
  BY <1>1, <1>5 DEF Last
<1>7. Spliced \in SUBSET Name
  <2>1. ASSUME NEW f \in Seq(Name) PROVE ToSet(f) \in SUBSET Name
    BY DEF ToSet
  <2>2. QED
    BY <1>6, <2>1 DEF Spliced
<1>8. Popped \in Seq(Seq(Name)) /\ Len(Popped) = Cardinality(FramesOf(Front(stack)))
  <2>1. CASE Top.kind \in FrameKinds
    BY <1>1, <1>3, <1>4, <1>5, <2>1 DEF Popped, Front, Pushes
  <2>2. CASE Top.kind \notin FrameKinds
    BY <1>1, <1>3, <1>4, <2>2 DEF Popped, Pushes
  <2>3. QED
    BY <2>1, <2>2
<1>9. Free(Top, Spliced) \in SUBSET Name
  BY <1>2 DEF Free, Node
<1>10. Top.kind \in Kinds
  BY <1>2 DEF Node
<1>11. QED
  BY <1>1, <1>2, <1>5, <1>7, <1>8, <1>9, <1>10

(* Leaving the innermost node keeps the walk's variables well typed and    *)
(* the remaining nodes' kinds.                                             *)
LEMMA ReturnFacts ==
  ASSUME IInv, phase = "walk", NEW refs \in SUBSET Name, Return(refs)
  PROVE  /\ stack' \in Seq(Node)
         /\ \/ phase' = "walk" /\ stack' # << >>
            \/ phase' = "item" /\ stack' = << >>
         /\ escaped' \in SUBSET Name
         /\ parent_is_scopable' \in BOOLEAN
         /\ FramesOf(stack') = FramesOf(Front(stack))
<1> DEFINE outer == Front(stack)
<1>1. /\ Top \in Node /\ stack # << >> /\ Spliced \in SUBSET Name
      /\ stack \in Seq(Node) /\ escaped \in SUBSET Name /\ parent_is_scopable \in BOOLEAN
  BY TopFacts DEF IInv, TypeOK
<1>2. outer \in Seq(Node)
  BY <1>1, FramesFront
<1>3. CASE outer = << >>
  BY <1>1, <1>2, <1>3 DEF Return, Node
<1>4. CASE outer # << >>
  <2>1. Len(outer) \in Nat \ {0} /\ outer[Len(outer)] \in Node
    BY <1>2, <1>4
  <2>2. Top.bound \cup Spliced \in SUBSET Name
    BY <1>1 DEF Node
  <2>3. ASSUME NEW n \in Node, NEW b \in SUBSET Name
        PROVE  Mention(n, refs, b) \in Node /\ Mention(n, refs, b).kind = n.kind
    BY <2>3 DEF Mention, Node
  <2>4. stack' = [outer EXCEPT ![Len(outer)] =
                    Mention(outer[Len(outer)], refs, Top.bound \cup Spliced)]
    BY <1>4 DEF Return
  <2>5. stack' \in Seq(Node) /\ Len(stack') = Len(outer)
    BY <1>2, <2>1, <2>2, <2>3, <2>4
  <2>6. \A i \in 1..Len(outer) : stack'[i].kind = outer[i].kind
    BY <1>2, <2>1, <2>2, <2>3, <2>4
  <2>7. FramesOf(stack') = FramesOf(outer)
    BY <1>2, <2>5, <2>6, FramesSameKinds
  <2>8. QED
    BY <1>1, <1>4, <2>5, <2>1, <2>7 DEF Return, Node
<1>5. QED
  BY <1>3, <1>4

(* Every way of leaving a node pops its frame and may append to the one    *)
(* below, so the frames still match the functions.                         *)
LEMMA LeaveFrames ==
  ASSUME IInv, phase = "walk", NEW refs \in SUBSET Name, Return(refs),
         Len(function_prepends') = Len(Popped)
  PROVE  FramesMatchFunctions'
  BY TopFacts, ReturnFacts DEF FramesMatchFunctions

(* What is left to show of an action that leaves a node.                   *)
LEMMA LeaveTypes ==
  ASSUME IInv, phase = "walk", NEW refs \in SUBSET Name, Return(refs),
         UNCHANGED <<program, options, nodes, out, result, disk>>,
         function_prepends' \in Seq(Seq(Name)), pending_prepends' \in Seq(Name),
         worklet_number' \in Nat \ {0}, used_names' \in SUBSET Name,
         emitted_files' \in Seq(File), error' \in Errors \cup {None},
         worklets' \in SUBSET Worklet, missed' \in SUBSET Kinds
  PROVE  TypeOK'
<1>1. TypeOK
  BY DEF IInv
<1>2. /\ stack' \in Seq(Node)
      /\ \/ phase' = "walk" /\ stack' # << >>
         \/ phase' = "item" /\ stack' = << >>
      /\ escaped' \in SUBSET Name
      /\ parent_is_scopable' \in BOOLEAN
  BY ReturnFacts
<1>3. QED
  BY <1>1, <1>2 DEF TypeOK

(* The record kept of a replaced worklet is well typed.                    *)
LEMMA ReplacedFacts ==
  ASSUME IInv, phase = "walk", NEW init \in Name \cup {None}, Replaced(init)
  PROVE  worklets' \in SUBSET Worklet
<1>1. Top \in Node /\ Free(Top, Spliced) \in SUBSET Name /\ Front(stack) \in Seq(Node)
  BY TopFacts, FramesFront DEF IInv, TypeOK
<1>2. worklet_number \in Nat /\ worklets \in SUBSET Worklet
  BY DEF IInv, TypeOK
<1>3. Site \in SUBSET Place
  <2>1. ASSUME NEW p \in Site PROVE p \in Place
    <3>1. PICK i \in DOMAIN Front(stack) :
             /\ Front(stack)[i].kind \in FrameKinds
             /\ p = [kind |-> Front(stack)[i].kind, part |-> Front(stack)[i].part]
      BY <2>1 DEF Site
    <3>2. Front(stack)[i] \in Node
      BY <1>1
    <3>3. QED
      BY <3>1, <3>2 DEF Place, Node
  <2>2. QED
    BY <2>1
<1>4. Free(Top, Spliced) \ Closure(Top, Spliced) \in SUBSET Name /\ Top.dirs \in SUBSET Directives
  BY <1>1 DEF Node
<1>5. QED
  BY <1>2, <1>3, <1>4 DEF Replaced, Worklet

(* Entering a node.                                                        *)
LEMMA PushFacts ==
  ASSUME IInv, NEW k \in Kinds, NEW dirs \in SUBSET Directives, NEW b \in BOOLEAN,
         Push(k, dirs, b)
  PROVE  /\ stack' \in Seq(Node) /\ stack' # << >>
         /\ nodes' \in Nat
         /\ function_prepends' \in Seq(Seq(Name))
         /\ parent_is_scopable' \in BOOLEAN
         /\ FramesMatchFunctions'
<1> DEFINE n == [kind |-> k, dirs |-> dirs,
                 part |-> IF k \in FnKinds THEN "params" ELSE "body",
                 old |-> b, inParams |-> {}, inBody |-> {}, bound |-> {}]
<1>1. /\ stack \in Seq(Node) /\ nodes \in Nat /\ function_prepends \in Seq(Seq(Name))
      /\ Len(function_prepends) = Cardinality(FramesOf(stack))
  BY DEF IInv, TypeOK, FramesMatchFunctions
<1>2. n \in Node /\ n.kind = k
  BY DEF Node, Parts
<1>3. stack' = Append(stack, n) /\ nodes' = nodes + 1
  BY DEF Push
<1>4. parent_is_scopable' \in BOOLEAN
  BY DEF Push
<1>5. /\ function_prepends' \in Seq(Seq(Name))
      /\ Len(function_prepends') = Len(function_prepends) + Pushes(k)
  <2>1. CASE k \in FrameKinds
    <3>1. << >> \in Seq(Name)
      OBVIOUS
    <3>2. QED
      BY <1>1, <2>1, <3>1 DEF Push, Pushes
  <2>2. CASE k \notin FrameKinds
    BY <1>1, <2>2 DEF Push, Pushes
  <2>3. QED
    BY <2>1, <2>2
<1>6. Cardinality(FramesOf(stack')) = Cardinality(FramesOf(stack)) + Pushes(k)
  BY <1>1, <1>2, <1>3, FramesAppend
<1>7. QED
  BY <1>1, <1>2, <1>3, <1>4, <1>5, <1>6 DEF FramesMatchFunctions

-----------------------------------------------------------------------------
(* Every step preserves the invariant, one step of the proof per action.   *)
LEMMA NextIInv == IInv /\ [Next]_vars => IInv'
<1> SUFFICES ASSUME IInv, [Next]_vars PROVE IInv'
  OBVIOUS
<1> USE DEF IInv
<1>t. TypeOK
  OBVIOUS
<1>1. CASE BeginModule \/ BeginScript
  <2>1. TypeOK'
    BY <1>t, <1>1, NamesAssumption DEF BeginModule, BeginScript, Begin, TypeOK, Reported, Errors, history, Name
  <2>2. FramesMatchFunctions'
    BY <1>1 DEF BeginModule, BeginScript, Begin, FramesMatchFunctions, FramesOf
  <2>3. QED
    BY <2>1, <2>2
<1>2. ASSUME NEW k \in program.shapes, NEW dirs \in Prologues \cup {{}}, OpenItem(k, dirs)
      PROVE  IInv'
  <2>1. k \in Kinds /\ dirs \in SUBSET Directives
    BY <1>t, ProgramAssumption, PrologueAssumption DEF TypeOK, Family
  <2>2. Push(k, dirs, TRUE)
    BY <1>2 DEF OpenItem
  <2>3. TypeOK'
    BY <1>t, <1>2, <2>1, <2>2, PushFacts DEF OpenItem, TypeOK, history
  <2>4. QED
    BY <2>1, <2>2, <2>3, PushFacts
<1>3. ASSUME NEW k \in program.shapes, NEW dirs \in Prologues \cup {{}}, Enter(k, dirs)
      PROVE  IInv'
  <2>1. k \in Kinds /\ dirs \in SUBSET Directives /\ parent_is_scopable \in BOOLEAN
    BY <1>t, ProgramAssumption, PrologueAssumption DEF TypeOK, Family
  <2>2. Push(k, dirs, parent_is_scopable)
    BY <1>3 DEF Enter
  <2>3. TypeOK'
    BY <1>t, <1>3, <2>1, <2>2, PushFacts DEF Enter, TypeOK, history
  <2>4. QED
    BY <2>1, <2>2, <2>3, PushFacts
<1>4. CASE RejectAccessor
  <2>a. missed' \in SUBSET Kinds /\ error' \in Errors \cup {None}
    BY <1>t, <1>4 DEF RejectAccessor, TypeOK, Reported, Errors, Kinds, FnKinds, FrameKinds
  <2>1. TypeOK'
    BY <1>t, <1>4, <2>a DEF RejectAccessor, TypeOK
  <2>2. FramesMatchFunctions'
    BY <1>4 DEF RejectAccessor, FramesMatchFunctions, FramesOf
  <2>3. QED
    BY <2>1, <2>2
<1>5. CASE EnterBody
  <2> DEFINE n == [stack[Len(stack)] EXCEPT !.part = "body", !.old = parent_is_scopable]
  <2>1. Top \in Node /\ stack \in Seq(Node) /\ Len(stack) \in 1..Len(stack) /\ stack # << >>
    BY <1>t, <1>5, TopFacts DEF EnterBody, TypeOK
  <2>2. n \in Node /\ n.kind = Top.kind
    BY <1>t, <2>1 DEF Top, Node, TypeOK, Parts
  <2>3. stack' = [stack EXCEPT ![Len(stack)] = n]
    BY <1>5, <2>1 DEF EnterBody
  <2>4. /\ stack' \in Seq(Node) /\ Len(stack') = Len(stack) /\ stack' # << >>
        /\ \A i \in 1..Len(stack) : stack'[i].kind = stack[i].kind
    BY <2>1, <2>2, <2>3 DEF Top
  <2>5. FramesOf(stack') = FramesOf(stack)
    BY <2>1, <2>4, FramesSameKinds
  <2>6. TypeOK'
    BY <1>t, <1>5, <2>4 DEF EnterBody, TypeOK, history
  <2>7. FramesMatchFunctions'
    BY <1>5, <2>5 DEF EnterBody, FramesMatchFunctions
  <2>8. QED
    BY <2>6, <2>7
<1>6. CASE LeavePlain
  <2>1. /\ phase = "walk" /\ Return(Free(Top, Spliced)) /\ function_prepends' = Popped
        /\ Free(Top, Spliced) \in SUBSET Name /\ Popped \in Seq(Seq(Name)) /\ Top.kind \in Kinds
    BY <1>6, TopFacts DEF LeavePlain, Leaving
  <2>a. missed' \in SUBSET Kinds /\ error' \in Errors \cup {None}
    BY <1>t, <1>6, <2>1 DEF LeavePlain, TypeOK
  <2>2. TypeOK'
    BY <1>t, <1>6, <2>1, <2>a, LeaveTypes DEF LeavePlain, TypeOK
  <2>3. QED
    BY <2>1, <2>2, LeaveFrames
<1>7. CASE LeaveBodiless
  <2>1. /\ phase = "walk" /\ Return({}) /\ function_prepends' = Popped
        /\ Popped \in Seq(Seq(Name)) /\ {} \in SUBSET Name
    BY <1>7, TopFacts DEF LeaveBodiless
  <2>2. TypeOK'
    BY <1>t, <1>7, <2>1, LeaveTypes DEF LeaveBodiless, TypeOK, history
  <2>3. QED
    BY <2>1, <2>2, LeaveFrames
<1>8. CASE LeaveWithoutData
  <2>1. /\ phase = "walk" /\ Return(Free(Top, Spliced)) /\ function_prepends' = Popped
        /\ Free(Top, Spliced) \in SUBSET Name /\ Popped \in Seq(Seq(Name)) /\ Replaced(None)
    BY <1>8, TopFacts DEF LeaveWithoutData, Leaving
  <2>2. worklets' \in SUBSET Worklet
    BY <2>1, ReplacedFacts
  <2>b. worklet_number' \in Nat \ {0}
    BY <1>t, <1>8 DEF LeaveWithoutData, TypeOK
  <2>3. TypeOK'
    BY <1>t, <1>8, <2>1, <2>2, <2>b, LeaveTypes DEF LeaveWithoutData, TypeOK
  <2>4. QED
    BY <2>1, <2>3, LeaveFrames
<1>9. ASSUME NEW e \in {"shadows", "print"}, LeaveUnserialized(e)
      PROVE  IInv'
  <2>1. /\ phase = "walk" /\ Return(Free(Top, Spliced)) /\ function_prepends' = Popped
        /\ Free(Top, Spliced) \in SUBSET Name /\ Popped \in Seq(Seq(Name)) /\ Top.kind \in Kinds
    BY <1>9, TopFacts DEF LeaveUnserialized, Leaving
  <2>a. missed' \in SUBSET Kinds /\ error' \in Errors \cup {None}
    BY <1>t, <1>9, <2>1 DEF LeaveUnserialized, TypeOK, Reported, Errors
  <2>b. worklet_number' \in Nat \ {0} /\ used_names' \in SUBSET Name
    BY <1>t, <1>9, <2>1 DEF LeaveUnserialized, TypeOK
  <2>2. TypeOK'
    BY <1>t, <1>9, <2>1, <2>a, <2>b, LeaveTypes DEF LeaveUnserialized, TypeOK
  <2>3. QED
    BY <2>1, <2>2, LeaveFrames
<1>10. ASSUME NEW name \in Candidates PROVE name \in Name
  <2>1. Cardinality(used_names) + 1 \in Nat => 1..(Cardinality(used_names) + 1) \subseteq Nat \ {0}
    OBVIOUS
  <2>2. 1..(Cardinality(used_names) + 1) \subseteq Nat \ {0}
    OBVIOUS
  <2>3. QED
    BY <1>10, <2>2 DEF Candidates, Name
<1>11. ASSUME NEW name \in Candidates, LeaveHoisting(name)
       PROVE  IInv'
  <2> DEFINE refs == Free(Top, Spliced) \cup {name}
  <2>1. /\ phase = "walk" /\ Return(refs) /\ Replaced(name) /\ name \in Name
        /\ refs \in SUBSET Name /\ Popped \in Seq(Seq(Name))
    BY <1>10, <1>11, TopFacts DEF LeaveHoisting, Leaving
  <2>2. worklets' \in SUBSET Worklet
    BY <2>1, ReplacedFacts
  <2>3. /\ function_prepends' \in Seq(Seq(Name)) /\ Len(function_prepends') = Len(Popped)
        /\ pending_prepends' \in Seq(Name)
    <3>1. CASE Limited(Top)
      <4>1. Popped # << >> /\ Len(Popped) \in 1..Len(Popped) /\ Popped[Len(Popped)] \in Seq(Name)
        BY <1>11, <2>1, <3>1 DEF LeaveHoisting
      <4>2. Append(Popped[Len(Popped)], name) \in Seq(Name)
        BY <2>1, <4>1
      <4>3. function_prepends' = [Popped EXCEPT ![Len(Popped)] = Append(Popped[Len(Popped)], name)]
        BY <1>11, <3>1 DEF LeaveHoisting
      <4>4. pending_prepends' \in Seq(Name)
        BY <1>t, <1>11, <3>1 DEF LeaveHoisting, TypeOK
      <4>5. QED
        BY <2>1, <4>1, <4>2, <4>3, <4>4, ExceptSeq
    <3>2. CASE ~Limited(Top)
      <4>1. function_prepends' = Popped /\ pending_prepends' = Append(pending_prepends, name)
        BY <1>11, <3>2 DEF LeaveHoisting
      <4>2. pending_prepends \in Seq(Name)
        BY <1>t DEF TypeOK
      <4>3. QED
        BY <2>1, <4>1, <4>2
    <3>3. QED
      BY <3>1, <3>2
  <2>b. worklet_number' \in Nat \ {0}
    BY <1>t, <1>11 DEF LeaveHoisting, TypeOK
  <2>c. used_names' = used_names \cup {name} /\ used_names \in SUBSET Name
    BY <1>t, <1>11 DEF LeaveHoisting, TypeOK
  <2>d. used_names' \in SUBSET Name
    BY <2>1, <2>c
  <2>4. TypeOK'
    BY <1>t, <1>11, <2>1, <2>2, <2>3, <2>b, <2>d, LeaveTypes DEF LeaveHoisting, TypeOK
  <2>5. QED
    BY <2>1, <2>3, <2>4, LeaveFrames
<1>12. ASSUME NEW name \in Candidates, LeaveUnhoistable(name)
       PROVE  IInv'
  <2>1. /\ phase = "walk" /\ Return(Free(Top, Spliced)) /\ function_prepends' = Popped
        /\ Free(Top, Spliced) \in SUBSET Name /\ Popped \in Seq(Seq(Name)) /\ Top.kind \in Kinds
        /\ name \in Name
    BY <1>10, <1>12, TopFacts DEF LeaveUnhoistable, Leaving
  <2>a. missed' \in SUBSET Kinds /\ error' \in Errors \cup {None}
    BY <1>t, <1>12, <2>1 DEF LeaveUnhoistable, TypeOK, Reported, Errors
  <2>b. worklet_number' \in Nat \ {0}
    <3>1. worklet_number' = worklet_number + 1
      BY <1>12 DEF LeaveUnhoistable
    <3>2. worklet_number \in Nat \ {0}
      BY <1>t DEF TypeOK
    <3>3. QED
      BY <3>1, <3>2
  <2>c. used_names' = used_names \cup {name} /\ used_names \in SUBSET Name
    BY <1>t, <1>12 DEF LeaveUnhoistable, TypeOK
  <2>d. used_names' \in SUBSET Name
    BY <2>1, <2>c
  <2>2. TypeOK'
    BY <1>t, <1>12, <2>1, <2>a, <2>b, <2>d, LeaveTypes DEF LeaveUnhoistable, TypeOK
  <2>3. QED
    BY <2>1, <2>2, LeaveFrames
<1>13. ASSUME NEW name \in Candidates, LeaveToFile(name)
       PROVE  IInv'
  <2>1. /\ phase = "walk" /\ function_prepends' = Popped
        /\ Free(Top, Spliced) \in SUBSET Name /\ Popped \in Seq(Seq(Name)) /\ Top.kind \in Kinds
        /\ name \in Name /\ {name} \in SUBSET Name
    BY <1>10, <1>13, TopFacts DEF LeaveToFile, Leaving
  <2>b. worklet_number' \in Nat \ {0}
    <3>1. worklet_number' = worklet_number + 1
      BY <1>13 DEF LeaveToFile
    <3>2. worklet_number \in Nat \ {0}
      BY <1>t DEF TypeOK
    <3>3. QED
      BY <3>1, <3>2
  <2>2. CASE PackageDir
    <3>1. Return({name}) /\ Replaced(None)
      BY <1>13, <2>2 DEF LeaveToFile
    <3>2. worklets' \in SUBSET Worklet
      BY <2>1, <3>1, ReplacedFacts
    <3>3. emitted_files' \in Seq(File)
      <4>1. [file |-> name, needs |-> Free(Top, Spliced)] \in File
        BY <2>1 DEF File
      <4>2. emitted_files \in Seq(File)
        BY <1>t DEF TypeOK
      <4>3. emitted_files' = Append(emitted_files, [file |-> name, needs |-> Free(Top, Spliced)])
        BY <1>13, <2>2 DEF LeaveToFile
      <4>4. QED
        BY <4>1, <4>2, <4>3, AppendProperties
    <3>4. TypeOK'
      BY <1>t, <1>13, <2>1, <2>b, <2>2, <3>1, <3>2, <3>3, LeaveTypes DEF LeaveToFile, TypeOK
    <3>5. QED
      BY <2>1, <3>1, <3>4, LeaveFrames
  <2>3. CASE ~PackageDir
    <3>1. Return(Free(Top, Spliced))
      BY <1>13, <2>3 DEF LeaveToFile
    <3>a. missed' \in SUBSET Kinds /\ error' \in Errors \cup {None}
      BY <1>t, <1>13, <2>1, <2>3 DEF LeaveToFile, TypeOK, Reported, Errors
    <3>2. TypeOK'
      BY <1>t, <1>13, <2>1, <2>b, <2>3, <3>1, <3>a, LeaveTypes DEF LeaveToFile, TypeOK
    <3>3. QED
      BY <2>1, <3>1, <3>2, LeaveFrames
  <2>4. QED
    BY <2>2, <2>3
<1>14. CASE EndItem
  <2>1. [prepends |-> pending_prepends, mentions |-> escaped] \in Item
    BY <1>t DEF TypeOK, Item
  <2>2. TypeOK'
    BY <1>t, <1>14, <2>1 DEF EndItem, TypeOK, history
  <2>3. FramesMatchFunctions'
    BY <1>14 DEF EndItem, FramesMatchFunctions, FramesOf
  <2>4. QED
    BY <2>2, <2>3
<1>15. CASE EndModule
  <2>1. TypeOK'
    BY <1>t, <1>15 DEF EndModule, TypeOK, visitor, history
  <2>2. FramesMatchFunctions'
    BY <1>15 DEF EndModule, FramesMatchFunctions, FramesOf, visitor
  <2>3. QED
    BY <2>1, <2>2
<1>16. CASE WriteFile
  <2> DEFINE next == emitted_files[Len(disk) + 1]
             Put(whole) == Append(disk, [file |-> next.file, needs |-> next.needs, whole |-> whole])
  <2>1. next \in File
    BY <1>t, <1>16 DEF WriteFile, WritesLeft, TypeOK
  <2>2. \A whole \in BOOLEAN : Put(whole) \in Seq(Written)
    BY <1>t, <2>1 DEF TypeOK, File, Written
  <2>3. disk' \in {disk, Put(TRUE), Put(FALSE)} /\ error' \in Errors \cup {None}
    BY <1>t, <1>16 DEF WriteFile, TypeOK, Reported, Errors
  <2>4. disk' \in Seq(Written)
    BY <1>t, <2>2, <2>3 DEF TypeOK
  <2>5. TypeOK'
    BY <1>t, <1>16, <2>3, <2>4 DEF WriteFile, TypeOK, history
  <2>6. FramesMatchFunctions'
    BY <1>16 DEF WriteFile, FramesMatchFunctions, FramesOf
  <2>7. QED
    BY <2>5, <2>6
<1>17. CASE Finish
  <2>1. TypeOK'
    BY <1>t, <1>17 DEF Finish, TypeOK, history
  <2>2. FramesMatchFunctions'
    BY <1>17 DEF Finish, FramesMatchFunctions, FramesOf
  <2>3. QED
    BY <2>1, <2>2
<1>18. CASE UNCHANGED vars
  <2>1. TypeOK'
    BY <1>t, <1>18 DEF vars, visitor, history, TypeOK
  <2>2. FramesMatchFunctions'
    BY <1>18 DEF vars, visitor, FramesMatchFunctions, FramesOf
  <2>3. QED
    BY <2>1, <2>2
<1>19. QED
  BY <1>1, <1>2, <1>3, <1>4, <1>5, <1>6, <1>7, <1>8, <1>9, <1>11, <1>12, <1>13, <1>14, <1>15,
     <1>16, <1>17, <1>18 DEF Next, LeaveWorklet, Terminated

(* Type correctness of WorkletPass.                                        *)
THEOREM TypeCorrect == Spec => []TypeOK
<1>1. IInv => TypeOK
  BY DEF IInv
<1>2. QED
  BY <1>1, InitIInv, NextIInv, PTL DEF Spec

(* Each function the visitor is inside of has its frame, for every program *)
(* and every option: no expect("function frame was pushed") ever fails.    *)
THEOREM FramesAlwaysMatch == Spec => []FramesMatchFunctions
<1>1. IInv => FramesMatchFunctions
  BY DEF IInv
<1>2. QED
  BY <1>1, InitIInv, NextIInv, PTL DEF Spec
-----------------------------------------------------------------------------
(* The flags, and the worklets that are left as they were.                 *)

(* What parent_is_scopable is while the visitor stands directly in n.      *)
Flag(n) ==
  CASE n.kind = "stmt" -> FALSE
    [] n.kind = "stmts" \/ (n.kind \in BodyKinds /\ n.part = "body") -> TRUE
    [] OTHER -> n.old

(* What a node saved is the flag of the node around it.                    *)
OldFlags(s) == \A i \in 1..(Len(s) - 1) : s[i + 1].old = Flag(s[i])
FlagsSaved  == OldFlags(stack) /\ (phase = "walk" => parent_is_scopable = Flag(Top))

(* No getter or setter marked as a worklet is entered, so none is left.    *)
PlainAccessors(s) == \A i \in 1..Len(s) : s[i].kind = "accessor" => "worklet" \notin s[i].dirs

WalkInv == FlagsSaved /\ PlainAccessors(stack) /\ NoWorkletMissed

(* Nodes that differ in the names they mention only are alike to WalkInv.  *)
Alike(s, t, n) == \A i \in 1..n : /\ s[i].kind = t[i].kind /\ s[i].part = t[i].part
                                  /\ s[i].dirs = t[i].dirs /\ s[i].old = t[i].old

(* A stack that agrees with a longer one has its flags and accessors.      *)
LEMMA AlikeFlags ==
  ASSUME NEW s \in Seq(Node), NEW t \in Seq(Node), Len(s) <= Len(t), Alike(s, t, Len(s))
  PROVE  /\ OldFlags(t) => OldFlags(s)
         /\ PlainAccessors(t) => PlainAccessors(s)
<1>1. Len(s) \in Nat /\ Len(t) \in Nat
  OBVIOUS
<1>2. ASSUME NEW i \in 1..Len(s) PROVE Flag(s[i]) = Flag(t[i])
  BY DEF Alike, Flag
<1>3. ASSUME OldFlags(t), NEW i \in 1..(Len(s) - 1) PROVE s[i + 1].old = Flag(s[i])
  <2>1. i \in 1..Len(s) /\ i + 1 \in 1..Len(s) /\ i \in 1..(Len(t) - 1)
    BY <1>1
  <2>2. s[i + 1].old = t[i + 1].old
    BY <2>1 DEF Alike
  <2>3. t[i + 1].old = Flag(t[i])
    BY <1>3, <2>1 DEF OldFlags
  <2>4. QED
    BY <1>2, <2>1, <2>2, <2>3
<1>4. ASSUME PlainAccessors(t), NEW i \in 1..Len(s), s[i].kind = "accessor"
      PROVE  "worklet" \notin s[i].dirs
  <2>1. i \in 1..Len(t)
    BY <1>1
  <2>2. s[i].kind = t[i].kind /\ s[i].dirs = t[i].dirs
    BY DEF Alike
  <2>3. QED
    BY <1>4, <2>1, <2>2 DEF PlainAccessors
<1>5. QED
  BY <1>3, <1>4 DEF OldFlags, PlainAccessors

(* Leaving a node leaves the others as they were but for the names they    *)
(* mention, and restores the flag that the node around it had.             *)
LEMMA ReturnAlike ==
  ASSUME IInv, phase = "walk", NEW refs \in SUBSET Name, Return(refs)
  PROVE  Len(stack') = Len(stack) - 1 /\ Alike(stack', stack, Len(stack'))
<1> DEFINE outer == Front(stack)
<1>1. /\ Top \in Node /\ stack \in Seq(Node) /\ stack # << >> /\ Spliced \in SUBSET Name
  BY TopFacts DEF IInv, TypeOK
<1>2. /\ outer \in Seq(Node) /\ Len(outer) = Len(stack) - 1 /\ Len(stack) \in Nat
      /\ \A i \in 1..(Len(stack) - 1) : outer[i] = stack[i]
  BY <1>1, FramesFront
<1>3. CASE outer = << >>
  <2>1. stack' = << >>
    BY <1>3 DEF Return
  <2>2. QED
    BY <1>2, <1>3, <2>1 DEF Alike
<1>4. CASE outer # << >>
  <2>1. ASSUME NEW n \in Node, NEW b
        PROVE  LET m == Mention(n, refs, b)
               IN m.kind = n.kind /\ m.part = n.part /\ m.dirs = n.dirs /\ m.old = n.old
    BY DEF Mention, Node
  <2>2. stack' = [outer EXCEPT ![Len(outer)] =
                    Mention(outer[Len(outer)], refs, Top.bound \cup Spliced)]
    BY <1>4 DEF Return
  <2>3. Len(stack') = Len(outer)
    BY <1>2, <2>2
  <2>4. ASSUME NEW i \in 1..Len(stack')
        PROVE  /\ stack'[i].kind = stack[i].kind /\ stack'[i].part = stack[i].part
               /\ stack'[i].dirs = stack[i].dirs /\ stack'[i].old = stack[i].old
    <3>1. i \in 1..Len(outer) /\ outer[i] = stack[i] /\ outer[i] \in Node
      BY <1>2, <2>3, <2>4
    <3>2. CASE i = Len(outer)
      <4>1. stack'[i] = Mention(outer[i], refs, Top.bound \cup Spliced)
        BY <1>2, <2>2, <3>1, <3>2
      <4>2. QED
        BY <2>1, <3>1, <4>1
    <3>3. CASE i # Len(outer)
      <4>1. stack'[i] = outer[i]
        BY <1>2, <2>2, <3>1, <3>3
      <4>2. QED
        BY <3>1, <4>1
    <3>4. QED
      BY <3>2, <3>3
  <2>5. QED
    BY <1>2, <2>3, <2>4 DEF Alike
<1>5. QED
  BY <1>3, <1>4

(* The flags after leaving a node that is walked, or that has no body.     *)
LEMMA ReturnFlags ==
  ASSUME IInv, FlagsSaved, PlainAccessors(stack), phase = "walk",
         NEW refs \in SUBSET Name, Return(refs)
  PROVE  FlagsSaved' /\ PlainAccessors(stack')
<1>1. /\ Top \in Node /\ stack \in Seq(Node) /\ Len(stack) \in Nat \ {0} /\ stack' \in Seq(Node)
  BY TopFacts, ReturnFacts DEF IInv, TypeOK
<1>2. Len(stack') = Len(stack) - 1 /\ Alike(stack', stack, Len(stack'))
  BY ReturnAlike
<1>3. OldFlags(stack') /\ PlainAccessors(stack')
  BY <1>1, <1>2, AlikeFlags DEF FlagsSaved
<1>4. ASSUME phase' = "walk" PROVE parent_is_scopable' = Flag(Top)'
  <2>1. stack' # << >> /\ Len(stack') \in 1..(Len(stack) - 1)
    BY <1>1, <1>2, <1>4, ReturnFacts
  <2>2. parent_is_scopable' = Top.old
    <3>1. Top.kind = "exprArrow" => parent_is_scopable = Top.old
      <4>1. parent_is_scopable = Flag(Top)
        BY DEF FlagsSaved
      <4>2. QED
        BY <4>1 DEF Flag, BodyKinds
    <3>2. QED
      BY <3>1 DEF Return
  <2>3. Top.old = Flag(stack[Len(stack) - 1])
    <3>1. stack[Len(stack) - 1 + 1].old = Flag(stack[Len(stack) - 1])
      BY <1>1, <1>2, <2>1 DEF FlagsSaved, OldFlags
    <3>2. Len(stack) - 1 + 1 = Len(stack)
      BY <1>1
    <3>3. QED
      BY <3>1, <3>2 DEF Top
  <2>4. Flag(stack'[Len(stack')]) = Flag(stack[Len(stack')])
    BY <1>2, <2>1 DEF Alike, Flag
  <2>5. QED
    BY <1>2, <2>2, <2>3, <2>4 DEF Top
<1>5. QED
  BY <1>3, <1>4 DEF FlagsSaved

(* The flags after entering a node of kind k where the flag is b.          *)
LEMMA PushFlags ==
  ASSUME IInv, FlagsSaved, PlainAccessors(stack), NEW k \in Kinds, NEW dirs \in SUBSET Directives,
         NEW b \in BOOLEAN, Push(k, dirs, b), ~(k = "accessor" /\ "worklet" \in dirs),
         stack # << >> => b = Flag(Top)
  PROVE  FlagsSaved' /\ PlainAccessors(stack')
<1> DEFINE n == [kind |-> k, dirs |-> dirs,
                 part |-> IF k \in FnKinds THEN "params" ELSE "body",
                 old |-> b, inParams |-> {}, inBody |-> {}, bound |-> {}]
<1>1. stack \in Seq(Node) /\ Len(stack) \in Nat
  BY DEF IInv, TypeOK
<1>2. stack' = Append(stack, n)
  BY DEF Push
<1>3. /\ Len(stack') = Len(stack) + 1 /\ stack'[Len(stack) + 1] = n
      /\ \A i \in 1..Len(stack) : stack'[i] = stack[i]
  BY <1>1, <1>2
<1>4. parent_is_scopable' = Flag(n)
  <2>1. CASE k \in BodyKinds
    BY <2>1 DEF Push, Flag, BodyKinds, FnKinds, FrameKinds
  <2>2. CASE k \notin BodyKinds
    BY <2>2 DEF Push, Flag
  <2>3. QED
    BY <2>1, <2>2
<1>5. OldFlags(stack')
  <2>1. ASSUME NEW i \in 1..(Len(stack') - 1) PROVE stack'[i + 1].old = Flag(stack'[i])
    <3>1. i \in 1..Len(stack) /\ stack'[i] = stack[i]
      BY <1>1, <1>3
    <3>2. CASE i = Len(stack)
      <4>1. stack'[i + 1].old = b
        BY <1>3, <3>2
      <4>2. stack # << >> /\ Top = stack[i]
        BY <1>1, <3>1, <3>2 DEF Top
      <4>3. QED
        BY <3>1, <4>1, <4>2
    <3>3. CASE i # Len(stack)
      <4>1. i + 1 \in 1..Len(stack) /\ i \in 1..(Len(stack) - 1)
        BY <1>1, <3>1, <3>3
      <4>2. stack[i + 1].old = Flag(stack[i])
        BY <4>1 DEF FlagsSaved, OldFlags
      <4>3. QED
        BY <1>3, <3>1, <4>1, <4>2
    <3>4. QED
      BY <3>2, <3>3
  <2>2. QED
    BY <2>1 DEF OldFlags
<1>6. PlainAccessors(stack')
  <2>1. ASSUME NEW i \in 1..Len(stack'), stack'[i].kind = "accessor"
        PROVE  "worklet" \notin stack'[i].dirs
    <3>1. CASE i = Len(stack) + 1
      BY <1>3, <2>1, <3>1
    <3>2. CASE i # Len(stack) + 1
      <4>1. i \in 1..Len(stack) /\ stack'[i] = stack[i]
        BY <1>1, <1>3, <3>2
      <4>2. QED
        BY <2>1, <4>1 DEF PlainAccessors
    <3>3. QED
      BY <3>1, <3>2
  <2>2. QED
    BY <2>1 DEF PlainAccessors
<1>7. Top' = n
  BY <1>1, <1>3 DEF Top
<1>8. QED
  BY <1>4, <1>5, <1>6, <1>7 DEF FlagsSaved

(* Once something has been reported there is an error.                     *)
LEMMA ReportedFacts == \A e \in Errors : Reported(e) # None
  BY NoneAssumption DEF Reported

(* The invariant of the walk holds before it.                              *)
LEMMA WalkInvInit == Init => WalkInv
<1> SUFFICES ASSUME Init PROVE WalkInv
  OBVIOUS
<1>1. stack = << >> /\ Len(stack) = 0 /\ phase = "start" /\ missed = {}
  BY DEF Init
<1>2. QED
  BY <1>1 DEF WalkInv, FlagsSaved, OldFlags, PlainAccessors, NoWorkletMissed

(* Every step keeps the invariant of the walk.                             *)
LEMMA WalkInvNext == IInv /\ WalkInv /\ [Next]_vars => WalkInv'
<1> SUFFICES ASSUME IInv, WalkInv, [Next]_vars PROVE WalkInv'
  OBVIOUS
<1>t. TypeOK /\ FlagsSaved /\ PlainAccessors(stack) /\ NoWorkletMissed
  BY DEF IInv, WalkInv
<1>o. phase # "walk" => stack = << >> /\ Len(stack) = 0
  BY <1>t DEF TypeOK
<1>e. ASSUME UNCHANGED <<stack, parent_is_scopable>>, phase' = phase \/ phase' # "walk"
      PROVE  FlagsSaved' /\ PlainAccessors(stack')
  BY <1>t, <1>e DEF FlagsSaved, Top
<1>f. ASSUME missed' = missed, error' = error \/ error' # None PROVE NoWorkletMissed'
  BY <1>t, <1>f DEF NoWorkletMissed
<1>1. CASE BeginModule \/ BeginScript
  <2>1. /\ UNCHANGED <<stack, parent_is_scopable>> /\ missed' = missed /\ phase' # "walk"
        /\ error' = error \/ error' \in {Reported("unsupported"), Reported("callbacks")}
    BY <1>1 DEF BeginModule, BeginScript, Begin, history
  <2>2. error' = error \/ error' # None
    BY <2>1, ReportedFacts DEF Errors
  <2>3. QED
    BY <2>1, <2>2, <1>e, <1>f DEF WalkInv
<1>2. ASSUME NEW k \in program.shapes, NEW dirs \in Prologues \cup {{}}, OpenItem(k, dirs)
      PROVE  WalkInv'
  <2>1. k \in Kinds /\ dirs \in SUBSET Directives
    BY <1>t, ProgramAssumption, PrologueAssumption DEF TypeOK, Family
  <2>2. /\ Push(k, dirs, TRUE) /\ stack = << >> /\ k # "accessor"
        /\ missed' = missed /\ error' = error
    BY <1>2, <1>o DEF OpenItem, Items, ItemKinds, ListKinds, history
  <2>3. FlagsSaved' /\ PlainAccessors(stack')
    BY <1>t, <2>1, <2>2, PushFlags
  <2>4. QED
    BY <2>2, <2>3, <1>f DEF WalkInv
<1>3. ASSUME NEW k \in program.shapes, NEW dirs \in Prologues \cup {{}}, Enter(k, dirs)
      PROVE  WalkInv'
  <2>1. k \in Kinds /\ dirs \in SUBSET Directives /\ parent_is_scopable \in BOOLEAN
    BY <1>t, ProgramAssumption, PrologueAssumption DEF TypeOK, Family
  <2>2. /\ Push(k, dirs, parent_is_scopable) /\ phase = "walk"
        /\ ~(k = "accessor" /\ "worklet" \in dirs)
        /\ missed' = missed /\ error' = error
    BY <1>3 DEF Enter, history
  <2>3. parent_is_scopable = Flag(Top)
    BY <1>t, <2>2 DEF FlagsSaved
  <2>4. FlagsSaved' /\ PlainAccessors(stack')
    BY <1>t, <2>1, <2>2, <2>3, PushFlags
  <2>5. QED
    BY <2>2, <2>4, <1>f DEF WalkInv
<1>4. CASE RejectAccessor
  <2>1. /\ UNCHANGED <<stack, parent_is_scopable, phase>> /\ error' = Reported("accessor")
    BY <1>4 DEF RejectAccessor
  <2>2. error' # None
    BY <2>1, ReportedFacts DEF Errors
  <2>3. QED
    BY <2>1, <2>2, <1>e DEF WalkInv, NoWorkletMissed
<1>5. CASE EnterBody
  <2> DEFINE d == Len(stack)
             n == [stack[d] EXCEPT !.part = "body", !.old = parent_is_scopable]
  <2>1. Top \in Node /\ Top = stack[d] /\ stack \in Seq(Node) /\ d \in Nat \ {0}
    BY <1>t, <1>5, TopFacts DEF EnterBody, TypeOK, Top
  <2>2. n.kind = Top.kind /\ n.dirs = Top.dirs /\ n.part = "body" /\ n.old = parent_is_scopable
    BY <2>1 DEF Node
  <2>3. stack' = [stack EXCEPT ![d] = n]
    BY <1>5, <2>1 DEF EnterBody
  <2>4. /\ Len(stack') = d /\ stack'[d] = n /\ Top' = n
        /\ \A i \in 1..(d - 1) : stack'[i] = stack[i]
    <3> HIDE DEF n
    <3>1. Len(stack') = d /\ stack'[d] = n /\ \A i \in 1..(d - 1) : stack'[i] = stack[i]
      BY <2>1, <2>3
    <3>2. QED
      BY <3>1 DEF Top
  <2>5. parent_is_scopable = Top.old
    <3>1. parent_is_scopable = Flag(Top)
      BY <1>t, <1>5 DEF EnterBody, FlagsSaved
    <3>2. Top.kind \in FnKinds /\ Top.part = "params"
      BY <1>5 DEF EnterBody
    <3>3. QED
      BY <3>1, <3>2 DEF Flag, FnKinds, FrameKinds
  <2>6. OldFlags(stack')
    <3>1. ASSUME NEW i \in 1..(Len(stack') - 1) PROVE stack'[i + 1].old = Flag(stack'[i])
      <4>1. i \in 1..(d - 1) /\ stack'[i] = stack[i] /\ stack[i + 1].old = Flag(stack[i])
        BY <1>t, <2>1, <2>4 DEF FlagsSaved, OldFlags
      <4>2. stack'[i + 1].old = stack[i + 1].old
        <5>1. CASE i + 1 = d
          BY <2>1, <2>2, <2>4, <2>5, <5>1
        <5>2. CASE i + 1 # d
          BY <2>1, <2>4, <4>1, <5>2
        <5>3. QED
          BY <5>1, <5>2
      <4>3. QED
        BY <4>1, <4>2
    <3>2. QED
      BY <3>1 DEF OldFlags
  <2>7. PlainAccessors(stack')
    <3>1. ASSUME NEW i \in 1..Len(stack'), stack'[i].kind = "accessor"
          PROVE  "worklet" \notin stack'[i].dirs
      <4>1. stack'[i].kind = stack[i].kind /\ stack'[i].dirs = stack[i].dirs /\ i \in 1..d
        <5>1. CASE i = d
          BY <2>1, <2>2, <2>4, <5>1
        <5>2. CASE i # d
          BY <2>1, <2>4, <5>2
        <5>3. QED
          BY <5>1, <5>2
      <4>2. QED
        BY <1>t, <3>1, <4>1 DEF PlainAccessors
    <3>2. QED
      BY <3>1 DEF PlainAccessors
  <2>8. parent_is_scopable' = Flag(n)
    <3>1. parent_is_scopable' = (Top.kind \in BodyKinds \/ parent_is_scopable)
          /\ Top.kind \in FnKinds
      BY <1>5 DEF EnterBody
    <3>2. parent_is_scopable \in BOOLEAN
      BY <1>t DEF TypeOK
    <3>3. QED
      BY <2>2, <3>1, <3>2 DEF Flag, FnKinds, FrameKinds, BodyKinds
  <2>9. missed' = missed /\ error' = error
    BY <1>5 DEF EnterBody, history
  <2>10. QED
    BY <2>4, <2>6, <2>7, <2>8, <2>9, <1>f DEF WalkInv, FlagsSaved
<1>6. CASE LeavePlain
  <2>1. /\ phase = "walk" /\ Return(Free(Top, Spliced)) /\ Free(Top, Spliced) \in SUBSET Name
        /\ error' = error /\ ~Due(Top)
        /\ missed' = IF "worklet" \in Top.dirs THEN missed \cup {Top.kind} ELSE missed
    BY <1>6, TopFacts DEF LeavePlain, Leaving
  <2>2. FlagsSaved' /\ PlainAccessors(stack')
    BY <1>t, <2>1, ReturnFlags
  <2>3. ASSUME error = None, "worklet" \in Top.dirs PROVE Top.kind \notin WorkletKinds \cup {"accessor"}
    <3>1. Top.kind \notin WorkletKinds
      BY <2>1, <2>3 DEF Due
    <3>2. Top = stack[Len(stack)] /\ Len(stack) \in 1..Len(stack)
      BY <2>1, TopFacts DEF Top
    <3>3. Top.kind # "accessor"
      BY <1>t, <2>3, <3>2 DEF PlainAccessors
    <3>4. QED
      BY <3>1, <3>3
  <2>4. NoWorkletMissed'
    BY <1>t, <2>1, <2>3 DEF NoWorkletMissed
  <2>5. QED
    BY <2>2, <2>4 DEF WalkInv
<1>7. CASE LeaveBodiless
  <2>1. /\ phase = "walk" /\ Return({}) /\ {} \in SUBSET Name /\ error' = error /\ missed' = missed
    BY <1>7 DEF LeaveBodiless, history
  <2>2. QED
    BY <1>t, <1>f, <2>1, ReturnFlags DEF WalkInv
<1>8. CASE LeaveWithoutData
  <2>1. /\ phase = "walk" /\ Return(Free(Top, Spliced)) /\ Free(Top, Spliced) \in SUBSET Name
        /\ error' = error /\ missed' = missed
    BY <1>8, TopFacts DEF LeaveWithoutData, Leaving
  <2>2. QED
    BY <1>t, <1>f, <2>1, ReturnFlags DEF WalkInv
<1>9. ASSUME NEW e \in {"shadows", "print"}, LeaveUnserialized(e)
      PROVE  WalkInv'
  <2>1. /\ phase = "walk" /\ Return(Free(Top, Spliced)) /\ Free(Top, Spliced) \in SUBSET Name
        /\ error' = Reported(e) /\ e \in Errors
    BY <1>9, TopFacts DEF LeaveUnserialized, Leaving, Errors
  <2>2. QED
    BY <1>t, <2>1, ReturnFlags, ReportedFacts DEF WalkInv, NoWorkletMissed
<1>10. ASSUME NEW name \in Candidates PROVE name \in Name
  <2>1. 1..(Cardinality(used_names) + 1) \subseteq Nat \ {0}
    OBVIOUS
  <2>2. QED
    BY <2>1 DEF Candidates, Name
<1>11. ASSUME NEW name \in Candidates, LeaveHoisting(name)
       PROVE  WalkInv'
  <2> DEFINE refs == Free(Top, Spliced) \cup {name}
  <2>1. /\ phase = "walk" /\ Return(refs) /\ refs \in SUBSET Name
        /\ error' = error /\ missed' = missed
    BY <1>10, <1>11, TopFacts DEF LeaveHoisting, Leaving
  <2>2. QED
    BY <1>t, <1>f, <2>1, ReturnFlags DEF WalkInv
<1>12. ASSUME NEW name \in Candidates, LeaveUnhoistable(name)
       PROVE  WalkInv'
  <2>1. /\ phase = "walk" /\ Return(Free(Top, Spliced)) /\ Free(Top, Spliced) \in SUBSET Name
        /\ error' = Reported("no frame")
    BY <1>12, TopFacts DEF LeaveUnhoistable, Leaving
  <2>2. error' # None
    BY <2>1, ReportedFacts DEF Errors
  <2>3. QED
    BY <1>t, <2>1, <2>2, ReturnFlags DEF WalkInv, NoWorkletMissed
<1>13. ASSUME NEW name \in Candidates, LeaveToFile(name)
       PROVE  WalkInv'
  <2>1. phase = "walk" /\ {name} \in SUBSET Name /\ Free(Top, Spliced) \in SUBSET Name
    BY <1>10, <1>13, TopFacts DEF LeaveToFile, Leaving
  <2>2. CASE PackageDir
    <3>1. Return({name}) /\ error' = error /\ missed' = missed
      BY <1>13, <2>2 DEF LeaveToFile
    <3>2. QED
      BY <1>t, <1>f, <2>1, <3>1, ReturnFlags DEF WalkInv
  <2>3. CASE ~PackageDir
    <3>1. Return(Free(Top, Spliced)) /\ error' = Reported("no package")
      BY <1>13, <2>3 DEF LeaveToFile
    <3>2. error' # None
      BY <3>1, ReportedFacts DEF Errors
    <3>3. QED
      BY <1>t, <2>1, <3>1, <3>2, ReturnFlags DEF WalkInv, NoWorkletMissed
  <2>4. QED
    BY <2>2, <2>3
<1>14. CASE EndItem \/ EndModule \/ Finish
  <2>1. /\ UNCHANGED <<stack, parent_is_scopable>> /\ phase' # "walk"
        /\ missed' = missed /\ error' = error
    BY <1>14 DEF EndItem, EndModule, Finish, visitor, history
  <2>2. QED
    BY <2>1, <1>e, <1>f DEF WalkInv
<1>15. CASE WriteFile
  <2>1. /\ UNCHANGED <<stack, parent_is_scopable, phase>>
        /\ missed' = missed /\ error' \in {error, Reported("write")}
    BY <1>15 DEF WriteFile, history
  <2>2. error' = error \/ error' # None
    BY <2>1, ReportedFacts DEF Errors
  <2>3. QED
    BY <2>1, <2>2, <1>e, <1>f DEF WalkInv
<1>16. CASE UNCHANGED vars
  <2>1. UNCHANGED <<stack, parent_is_scopable, phase, missed, error>>
    BY <1>16 DEF vars, visitor, history
  <2>2. QED
    BY <2>1, <1>e, <1>f DEF WalkInv
<1>17. QED
  BY <1>1, <1>2, <1>3, <1>4, <1>5, <1>6, <1>7, <1>8, <1>9, <1>11, <1>12, <1>13, <1>14, <1>15,
     <1>16 DEF Next, LeaveWorklet, Terminated

(* Whatever was visited in between, parent_is_scopable is set in every     *)
(* statement list and cleared under every other statement, so a function   *)
(* declaration of a list, and no other, becomes a declaration.             *)
THEOREM AlwaysScopable == Spec => []ScopableInLists
<1>1. IInv /\ WalkInv => ScopableInLists
  <2> SUFFICES ASSUME IInv, WalkInv, phase = "walk"
               PROVE  /\ InList(Top) => parent_is_scopable
                      /\ Top.kind = "stmt" => ~parent_is_scopable
    BY DEF ScopableInLists
  <2>1. parent_is_scopable = Flag(Top)
    BY DEF WalkInv, FlagsSaved
  <2>2. InList(Top) => Top.kind # "stmt"
    BY DEF InList, BodyKinds, FrameKinds
  <2>3. QED
    BY <2>1, <2>2 DEF Flag, InList
<1>2. QED
  BY <1>1, InitIInv, NextIInv, WalkInvInit, WalkInvNext, PTL DEF Spec

(* Without an error the pass leaves no marked function as it was.          *)
THEOREM NeverMissed == Spec => []NoWorkletMissed
<1>1. WalkInv => NoWorkletMissed
  BY DEF WalkInv
<1>2. QED
  BY <1>1, InitIInv, NextIInv, WalkInvInit, WalkInvNext, PTL DEF Spec
===============================================================================
