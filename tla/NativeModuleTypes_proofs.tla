---------------------- MODULE NativeModuleTypes_proofs ----------------------
(***************************************************************************)
(* Proofs about NativeModuleTypes, for every set of declarations.          *)
(***************************************************************************)
EXTENDS NativeModuleSchema, SequenceTheorems, TLAPS

(* The names of the alias calls of a stack are these, each there once.     *)
Matches(s, names) ==
  /\ names = {s[i].name : i \in {j \in DOMAIN s : s[j].op = "alias"}}
  /\ \A i, j \in {k \in DOMAIN s : s[k].op = "alias"} : s[i].name = s[j].name => i = j

(* A call that resolves an alias adds its name, any other call nothing.    *)
LEMMA MatchesPush ==
  ASSUME NEW s \in Seq(CallSet), NEW c \in CallSet, NEW names, Matches(s, names)
  PROVE  /\ c.op # "alias" => Matches(Append(s, c), names)
         /\ c.op = "alias" /\ c.name \notin names => Matches(Append(s, c), names \cup {c.name})
<1> DEFINE t == Append(s, c)
<1>1. /\ DOMAIN s = 1..Len(s) /\ DOMAIN t = 1..(Len(s) + 1) /\ Len(s) \in Nat
      /\ \A i \in DOMAIN s : t[i] = s[i]
      /\ t[Len(s) + 1] = c
  OBVIOUS
<1>2. \A i \in DOMAIN t : i \in DOMAIN s \/ i = Len(s) + 1
  BY <1>1
<1>3. ASSUME c.op # "alias" PROVE Matches(t, names)
  <2>1. {j \in DOMAIN t : t[j].op = "alias"} = {j \in DOMAIN s : s[j].op = "alias"}
    BY <1>1, <1>2, <1>3
  <2>2. QED
    BY <1>1, <2>1 DEF Matches
<1>4. ASSUME c.op = "alias", c.name \notin names PROVE Matches(t, names \cup {c.name})
  <2>1. {j \in DOMAIN t : t[j].op = "alias"} = {j \in DOMAIN s : s[j].op = "alias"} \cup {Len(s) + 1}
    BY <1>1, <1>2, <1>4
  <2>2. \A i \in {j \in DOMAIN s : s[j].op = "alias"} : t[i].name \in names /\ t[i].name # c.name
    BY <1>1, <1>4 DEF Matches
  <2>3. names \cup {c.name} = {t[i].name : i \in {j \in DOMAIN t : t[j].op = "alias"}}
    BY <1>1, <2>1 DEF Matches
  <2>4. \A i, j \in {k \in DOMAIN t : t[k].op = "alias"} : t[i].name = t[j].name => i = j
    BY <1>1, <2>1, <2>2 DEF Matches
  <2>5. QED
    BY <2>3, <2>4 DEF Matches
<1>5. QED
  BY <1>3, <1>4

(* A call that returns takes its own name away and no other.               *)
LEMMA MatchesPop ==
  ASSUME NEW s \in Seq(CallSet), s # << >>, NEW names, Matches(s, names)
  PROVE  /\ s[Len(s)].op # "alias" => Matches(Front(s), names)
         /\ s[Len(s)].op = "alias" => Matches(Front(s), names \ {s[Len(s)].name})
<1> DEFINE t == Front(s)
           n == Len(s)
<1>1. /\ n \in Nat \ {0} /\ DOMAIN s = 1..n /\ DOMAIN t = 1..(n - 1)
      /\ \A i \in DOMAIN t : t[i] = s[i]
  BY DEF Front
<1>2. \A i \in DOMAIN s : (i \in DOMAIN t /\ i # n) \/ (i = n /\ i \notin DOMAIN t)
  BY <1>1
<1>3. ASSUME s[n].op # "alias" PROVE Matches(t, names)
  <2>1. {j \in DOMAIN t : t[j].op = "alias"} = {j \in DOMAIN s : s[j].op = "alias"}
    BY <1>1, <1>2, <1>3
  <2>2. QED
    BY <1>1, <2>1 DEF Matches
<1>4. ASSUME s[n].op = "alias" PROVE Matches(t, names \ {s[n].name})
  <2>1. {j \in DOMAIN t : t[j].op = "alias"} = {j \in DOMAIN s : s[j].op = "alias"} \ {n}
    BY <1>1, <1>2
  <2>2. \A i \in {j \in DOMAIN t : t[j].op = "alias"} : s[i].name # s[n].name
    BY <1>1, <1>2, <1>4, <2>1 DEF Matches
  <2>3. names \ {s[n].name} = {t[i].name : i \in {j \in DOMAIN t : t[j].op = "alias"}}
    BY <1>1, <2>1, <2>2 DEF Matches
  <2>4. \A i, j \in {k \in DOMAIN t : t[k].op = "alias"} : t[i].name = t[j].name => i = j
    BY <1>1, <2>1 DEF Matches
  <2>5. QED
    BY <2>3, <2>4 DEF Matches
<1>5. QED
  BY <1>3, <1>4

(* A call that goes on keeps what it is and whose name it carries.         *)
LEMMA MatchesMove ==
  ASSUME NEW s \in Seq(CallSet), s # << >>, NEW names, Matches(s, names),
         NEW c \in CallSet, c.op = s[Len(s)].op, c.name = s[Len(s)].name
  PROVE  Matches([s EXCEPT ![Len(s)] = c], names)
<1> DEFINE t == [s EXCEPT ![Len(s)] = c]
<1>1. /\ DOMAIN t = DOMAIN s
      /\ \A i \in DOMAIN s : t[i].op = s[i].op /\ t[i].name = s[i].name
  OBVIOUS
<1>2. {j \in DOMAIN t : t[j].op = "alias"} = {j \in DOMAIN s : s[j].op = "alias"}
  BY <1>1
<1>3. QED
  BY <1>1, <1>2 DEF Matches

-----------------------------------------------------------------------------
(* The invariant is inductive as it stands: what the parser is resolving   *)
(* is determined by its stack.                                             *)
IInv == TypeOK /\ ResolvingOnStack

(* What a new call is made of.                                             *)
LEMMA CallType ==
  ASSUME NEW op \in (Ops \ Atoms) \cup {"alias", "interface"}, NEW name \in Names \cup {None},
         NEW args \in Seq(Types), NEW bases \in Seq(Names),
         op \in {"alias", "interface"} => name \in Names
  PROVE  /\ Call(op, name, args, bases) \in CallSet
         /\ Call(op, name, args, bases).op = op
         /\ Call(op, name, args, bases).name = name
<1>1. Annotation("void", {}) \in Ann
  BY DEF Annotation, Ann, Tags
<1>2. QED
  BY <1>1 DEF Call, CallSet

(* A call for a type with parts is a call, and not one for an alias.       *)
LEMMA PartsCallType ==
  ASSUME NEW op \in Ops \ Atoms, NEW args \in Seq(Types)
  PROVE  /\ Call(op, None, args, << >>) \in CallSet
         /\ Call(op, None, args, << >>).op # "alias"
<1>1. Annotation("void", {}) \in Ann
  BY DEF Annotation, Ann, Tags
<1>2. op \notin {"alias", "interface"}
  BY DEF Ops, Unary, Many
<1>3. << >> \in Seq(Names)
  BY EmptySeq
<1>4. QED
  BY <1>1, <1>2, <1>3 DEF Call, CallSet

(* The innermost call, and the stack without it or with it moved on.       *)
LEMMA TopType ==
  ASSUME stack \in Seq(CallSet), stack # << >>
  PROVE  /\ Top \in CallSet
         /\ Top = stack[Len(stack)]
         /\ Front(stack) \in Seq(CallSet)
         /\ \A c \in CallSet : [stack EXCEPT ![Len(stack)] = c] \in Seq(CallSet)
<1>1. Len(stack) \in DOMAIN stack
  OBVIOUS
<1>2. Top \in CallSet /\ Top = stack[Len(stack)]
  BY <1>1 DEF Top
<1>3. Front(stack) \in Seq(CallSet)
  BY DEF Front
<1>4. \A c \in CallSet : [stack EXCEPT ![Len(stack)] = c] \in Seq(CallSet)
  BY <1>1
<1>5. QED
  BY <1>2, <1>3, <1>4

(* The types of the declarations of a module.                              *)
LEMMA DeclType ==
  ASSUME module \in Modules
  PROVE  /\ module.members \in Seq(Types)
         /\ \A n \in Names : module.decls[n].parts \in Seq(Types) /\ module.decls[n].bases \in Seq(Names)
BY ModulesAssumption DEF Decl

(* A call that is pushed keeps the invariant: the name of an alias is new  *)
(* and is entered, any other call enters nothing.                          *)
LEMMA PushKeeps ==
  ASSUME IInv, NEW c \in CallSet, NEW names \in SUBSET Names, Push(c, names),
         \/ c.op # "alias" /\ names = resolving_aliases
         \/ c.op = "alias" /\ c.name \notin resolving_aliases /\ names = resolving_aliases \cup {c.name},
         UNCHANGED <<module, alias_map, parsed, mentioned>>
  PROVE  IInv'
<1>1. Matches(stack, resolving_aliases)
  BY DEF IInv, ResolvingOnStack, AliasCalls, Matches
<1>2. CASE Advance /\ stack' = Append(stack, c) /\ resolving_aliases' = names
  <2>1. stack' \in Seq(CallSet) /\ stack' # << >>
    BY <1>2 DEF IInv, TypeOK
  <2>2. Matches(stack', resolving_aliases')
    BY <1>1, <1>2, MatchesPush DEF IInv, TypeOK
  <2>3. TypeOK'
    BY <1>2, <2>1 DEF IInv, TypeOK, Advance
  <2>4. QED
    BY <2>2, <2>3 DEF IInv, ResolvingOnStack, AliasCalls, Matches
<1>3. CASE mode' = "overflow" /\ UNCHANGED <<stack, resolving_aliases>>
  BY <1>3 DEF IInv, TypeOK, ResolvingOnStack, AliasCalls
<1>4. QED
  BY <1>2, <1>3 DEF Push

(* A step that leaves the stack and the names alone keeps what relates     *)
(* them.                                                                   *)
LEMMA StayKeeps ==
  ASSUME IInv, TypeOK', UNCHANGED <<stack, resolving_aliases>>
  PROVE  IInv'
BY DEF IInv, ResolvingOnStack, AliasCalls

(* A call that returns or is left by an error.                             *)
LEMMA ReturnKeeps ==
  ASSUME IInv, stack # << >>, Return, TypeOK',
         resolving_aliases' = IF Top.op = "alias" THEN resolving_aliases \ {Top.name}
                                                  ELSE resolving_aliases
  PROVE  IInv'
<1>1. Matches(stack, resolving_aliases)
  BY DEF IInv, ResolvingOnStack, AliasCalls, Matches
<1>2. Matches(stack', resolving_aliases')
  BY <1>1, MatchesPop DEF IInv, TypeOK, Return, Top
<1>3. QED
  BY <1>2 DEF IInv, ResolvingOnStack, AliasCalls, Matches

(* A call that goes on.                                                    *)
LEMMA MoveKeeps ==
  ASSUME IInv, stack # << >>, TypeOK', UNCHANGED resolving_aliases,
         NEW c \in CallSet, c.op = Top.op, c.name = Top.name,
         stack' = [stack EXCEPT ![Len(stack)] = c]
  PROVE  IInv'
<1>1. Matches(stack, resolving_aliases)
  BY DEF IInv, ResolvingOnStack, AliasCalls, Matches
<1>2. Matches(stack', resolving_aliases')
  BY <1>1, MatchesMove DEF IInv, TypeOK, Top
<1>3. QED
  BY <1>2 DEF IInv, ResolvingOnStack, AliasCalls, Matches

-----------------------------------------------------------------------------
(* Annotations that the steps build.                                       *)
LEMMA AnnotationType ==
  /\ \A tag \in Tags \ {"alias"}, refs \in SUBSET Names :
       /\ Annotation(tag, refs) \in Ann
       /\ [Annotation(tag, refs) EXCEPT !.nullable = TRUE] \in Ann
  /\ \A n \in Names : AliasOf(n) \in Ann
  /\ \A v \in Ann, b \in BOOLEAN : [v EXCEPT !.nullable = b] \in Ann
  /\ \A v \in Ann : v.refs \in SUBSET Names
<1>1. ASSUME NEW tag \in Tags \ {"alias"}, NEW refs \in SUBSET Names
      PROVE  /\ Annotation(tag, refs) \in Ann
             /\ [Annotation(tag, refs) EXCEPT !.nullable = TRUE] \in Ann
  BY DEF Annotation, Ann
<1>2. ASSUME NEW n \in Names PROVE AliasOf(n) \in Ann
  BY DEF AliasOf, Ann, Tags
<1>3. ASSUME NEW v \in Ann, NEW b \in BOOLEAN PROVE [v EXCEPT !.nullable = b] \in Ann
  BY DEF Ann
<1>4. ASSUME NEW v \in Ann PROVE v.refs \in SUBSET Names
  BY DEF Ann
<1>5. QED
  BY <1>1, <1>2, <1>3, <1>4

(* A call that goes on, and what it has seen of its parts, keep its kind   *)
(* and name.                                                               *)
LEMMA MovedType ==
  ASSUME NEW c \in CallSet
  PROVE  /\ Moved(c) \in CallSet /\ Moved(c).op = c.op /\ Moved(c).name = c.name
         /\ LET d == [Moved(c) EXCEPT !.nullable = TRUE]
            IN d \in CallSet /\ d.op = c.op /\ d.name = c.name
<1>1. Moved(c) \in CallSet /\ Moved(c).op = c.op /\ Moved(c).name = c.name
  BY DEF Moved, CallSet
<1>2. QED
  BY <1>1 DEF CallSet

(* A call that has taken the value of a part is the same call.             *)
LEMMA TakenType ==
  ASSUME NEW c \in CallSet, NEW v \in Ann
  PROVE  Taken(c, v) \in CallSet /\ Taken(c, v).op = c.op /\ Taken(c, v).name = c.name
<1>1. Moved(c) \in CallSet /\ Moved(c).op = c.op /\ Moved(c).name = c.name
  BY MovedType
<1>3. Annotation("value", {}) \in Ann
  BY AnnotationType DEF Tags
<1>4. v.nullable \in BOOLEAN /\ c.nullable \in BOOLEAN /\ v.refs \in SUBSET Names
  BY DEF Ann, CallSet
<1>5. CASE c.next <= Len(c.bases)
  <2>1. Taken(c, v) = Moved(c)
    BY <1>5 DEF Taken
  <2>2. QED
    BY <1>1, <2>1
<1>6. CASE ~(c.next <= Len(c.bases)) /\ c.op = "array" /\ v.tag \in NotAMember
  <2>1. Taken(c, v) = [Moved(c) EXCEPT !.last = Annotation("value", {})]
    BY <1>6 DEF Taken
  <2>2. QED
    BY <1>1, <1>3, <2>1 DEF CallSet
<1>7. CASE ~(c.next <= Len(c.bases)) /\ ~(c.op = "array" /\ v.tag \in NotAMember)
  <2>1. PICK b \in BOOLEAN : b = (c.nullable \/ (c.op = "union" /\ v.nullable))
    BY <1>4
  <2> DEFINE d == [c EXCEPT !.next = c.next + 1, !.last = v, !.refs = c.refs \cup v.refs,
                            !.kept = c.kept + 1]
  <2>2. d \in CallSet /\ d.op = c.op /\ d.name = c.name
    <3>1. PICK refs \in SUBSET Names : refs = c.refs \cup v.refs
      BY <1>4 DEF CallSet
    <3>2. c.kept + 1 \in Nat /\ c.next + 1 \in Nat \ {0}
      BY DEF CallSet
    <3>3. PICK k \in Nat : k = c.kept + 1
      BY <3>2
    <3>4. PICK n \in Nat \ {0} : n = c.next + 1
      BY <3>2
    <3>5. d = [c EXCEPT !.next = n, !.last = v, !.refs = refs, !.kept = k]
      BY <3>1, <3>3, <3>4
    <3>6. QED
      BY <3>5 DEF CallSet
  <2>3. Taken(c, v) = [Moved(c) EXCEPT !.last = v, !.refs = @ \cup v.refs, !.kept = @ + 1,
                                      !.nullable = @ \/ (c.op = "union" /\ v.nullable)]
    BY <1>7 DEF Taken
  <2>4. Taken(c, v) = [d EXCEPT !.nullable = b]
    BY <2>1, <2>3 DEF Moved, CallSet
  <2>5. Taken(c, v) \in CallSet /\ Taken(c, v).op = c.op /\ Taken(c, v).name = c.name
    <3> HIDE DEF d
    <3>1. QED
      BY <2>2, <2>4 DEF CallSet
  <2>6. QED
    BY <1>1, <2>5
<1>8. QED
  BY <1>5, <1>6, <1>7

(* The invariant holds at the start.                                       *)
LEMMA InitKeeps == Init => IInv
<1> SUFFICES ASSUME Init PROVE IInv
  OBVIOUS
<1>1. AliasCalls = {}
  BY DEF Init, AliasCalls
<1>2. QED
  BY <1>1 DEF Init, IInv, TypeOK, ResolvingOnStack

-----------------------------------------------------------------------------
(* One lemma for the steps of each kind: between members, a type that is   *)
(* passed to translate_type, a call that goes on, a call that returns.     *)
LEMMA MemberKeeps ==
  ASSUME IInv, NextMember \/ Finish \/ TakeMember \/ Reject PROVE IInv'
<1> USE DEF IInv, TypeOK
<1>1. CASE NextMember
  <2>1. module.members[parsed + 1] \in Types
    BY <1>1, DeclType DEF NextMember
  <2>2. TypeOK'
    BY <1>1, <2>1 DEF NextMember, Eval
  <2>3. QED
    BY <1>1, <2>2, StayKeeps DEF NextMember
<1>2. CASE Finish
  <2>1. TypeOK'
    BY <1>2 DEF Finish
  <2>2. QED
    BY <1>2, <2>1, StayKeeps DEF Finish
<1>3. CASE TakeMember
  <2>1. value.refs \in SUBSET Names
    BY <1>3, AnnotationType DEF TakeMember
  <2>2. TypeOK'
    BY <1>3, <2>1 DEF TakeMember, Fail
  <2>3. QED
    BY <1>3, <2>2, StayKeeps DEF TakeMember
<1>4. CASE Reject
  <2>1. TypeOK'
    BY <1>4 DEF Reject
  <2>2. QED
    BY <1>4, <2>1, StayKeeps DEF Reject
<1>5. QED
  BY <1>1, <1>2, <1>3, <1>4

(* Entering an alias puts its name in resolving_aliases and its call on    *)
(* the stack.                                                              *)
LEMMA ResolveAliasKeeps ==
  ASSUME IInv, NEW n \in Names, n \notin resolving_aliases, ResolveAlias(n),
         UNCHANGED <<module, alias_map, parsed, mentioned>>
  PROVE  IInv'
<1> DEFINE c == Call("alias", n, module.decls[n].parts, << >>)
<1>1. PICK bases \in Seq(Names) : bases = << >>
  BY EmptySeq
<1>2. c \in CallSet /\ c.op = "alias" /\ c.name = n
  <2>1. module.decls[n].parts \in Seq(Types)
    BY DeclType DEF IInv, TypeOK
  <2>2. c = Call("alias", n, module.decls[n].parts, bases)
    BY <1>1
  <2>3. QED
    BY <2>1, <2>2, CallType
<1>3. resolving_aliases \cup {n} \in SUBSET Names
  BY DEF IInv, TypeOK
<1>4. Push(c, resolving_aliases \cup {n})
  BY DEF ResolveAlias
<1>5. QED
  BY <1>2, <1>3, <1>4, PushKeeps

(* Entering an interface resolves no alias.                                *)
LEMMA ResolveInterfaceKeeps ==
  ASSUME IInv, NEW n \in Names, ResolveInterface(n),
         UNCHANGED <<module, alias_map, parsed, mentioned>>
  PROVE  IInv'
<1> DEFINE c == Call("interface", n, module.decls[n].parts, module.decls[n].bases)
<1>1. module.decls[n].parts \in Seq(Types) /\ module.decls[n].bases \in Seq(Names)
  BY DeclType DEF IInv, TypeOK
<1>2. c \in CallSet /\ c.op = "interface"
  BY <1>1, CallType
<1>3. Push(c, resolving_aliases) /\ resolving_aliases \in SUBSET Names
  BY DEF ResolveInterface, IInv, TypeOK
<1>4. QED
  BY <1>2, <1>3, PushKeeps

(* A step that only returns an annotation or an error.                     *)
LEMMA GiveKeeps ==
  ASSUME IInv, (\E v \in Ann : Give(v)) \/ Fail,
         UNCHANGED <<module, alias_map, resolving_aliases, stack, parsed, mentioned>>
  PROVE  IInv'
<1>1. TypeOK'
  BY DEF IInv, TypeOK, Give, Fail
<1>2. QED
  BY <1>1, StayKeeps

(* Looking at a type keeps the invariant, whichever form it has.           *)
LEMMA EvalKeeps ==
  ASSUME IInv, EvalLeaf \/ EvalParts \/ EvalAlias \/ EvalBuiltIn \/ EvalNamed PROVE IInv'
<1> USE DEF IInv, TypeOK
<1>1. /\ mode = "eval" /\ focus \in Types
      /\ focus.op \in Ops /\ focus.args \in Seq(Types)
      /\ focus.op \in {"ref", "qualified"} => focus.name \in Names
  <2>1. mode = "eval" /\ focus \in Types
    BY DEF EvalLeaf, EvalParts, EvalAlias, EvalBuiltIn, EvalNamed
  <2>2. QED
    BY <2>1, TypesAssumption
<1>2. CASE EvalLeaf
  <2>1. \E v \in Ann : Give(v)
    BY <1>2, AnnotationType DEF EvalLeaf, Tags
  <2>2. QED
    BY <1>2, <2>1, GiveKeeps DEF EvalLeaf
<1>3. CASE EvalParts
  <2>1. CASE Fail /\ UNCHANGED <<stack, resolving_aliases>>
    BY <1>3, <2>1, GiveKeeps DEF EvalParts
  <2>2. CASE Push(Call(focus.op, None, focus.args, << >>), resolving_aliases)
    <3>1. focus.op \in Ops \ Atoms
      BY <1>1, <1>3 DEF EvalParts
    <3>2. /\ Call(focus.op, None, focus.args, << >>) \in CallSet
          /\ Call(focus.op, None, focus.args, << >>).op # "alias"
      BY <1>1, <3>1, PartsCallType
    <3>3. QED
      BY <1>3, <2>2, <3>2, PushKeeps DEF EvalParts
  <2>3. QED
    BY <1>3, <2>1, <2>2 DEF EvalParts
<1>4. CASE EvalAlias
  BY <1>1, <1>4, ResolveAliasKeeps DEF EvalAlias
<1>5. CASE EvalBuiltIn
  <2>1. \E v \in Ann : Give(v)
    BY <1>5, AnnotationType DEF EvalBuiltIn, Tags
  <2>2. QED
    BY <1>5, <2>1, GiveKeeps DEF EvalBuiltIn
<1>6. CASE EvalNamed
  <2>1. focus.name \in Names
    BY <1>1, <1>6 DEF EvalNamed
  <2>2. \/ (\E v \in Ann : Give(v)) /\ UNCHANGED <<stack, resolving_aliases>>
        \/ Fail /\ UNCHANGED <<stack, resolving_aliases>>
        \/ ResolveInterface(focus.name)
    BY <1>6, <2>1, AnnotationType DEF EvalNamed, Tags
  <2>3. UNCHANGED <<module, alias_map, parsed, mentioned>>
    BY <1>6 DEF EvalNamed
  <2>4. QED
    BY <2>1, <2>2, <2>3, GiveKeeps, ResolveInterfaceKeeps
<1>7. QED
  BY <1>2, <1>3, <1>4, <1>5, <1>6

(* Going on to the next base or part of a call, or past an element that    *)
(* failed, keeps the invariant.                                            *)
LEMMA StepKeeps ==
  ASSUME IInv, StepBase \/ StepPart \/ Absorb PROVE IInv'
<1> USE DEF IInv, TypeOK
<1>1. stack \in Seq(CallSet) /\ stack # << >>
  BY DEF StepBase, StepPart, Absorb
<1>2. /\ Top \in CallSet /\ Top = stack[Len(stack)]
      /\ \A c \in CallSet : [stack EXCEPT ![Len(stack)] = c] \in Seq(CallSet)
      /\ \A c : [stack EXCEPT ![Len(stack)] = c] # << >>
  <2>1. \A c : [stack EXCEPT ![Len(stack)] = c] # << >>
    BY <1>1
  <2>2. QED
    BY <1>1, <2>1, TopType
<1>3. ASSUME NEW c \in CallSet, c.op = Top.op, c.name = Top.name, Advance,
             stack' = [stack EXCEPT ![Len(stack)] = c],
             UNCHANGED <<module, alias_map, resolving_aliases, parsed, mentioned>>
      PROVE  IInv'
  <2>1. TypeOK'
    BY <1>2, <1>3 DEF Advance
  <2>2. QED
    BY <1>1, <1>3, <2>1, MoveKeeps
<1>4. CASE StepBase
  <2> DEFINE b == Top.bases[Top.next]
  <2>1. b \in Names
    BY <1>2, <1>4 DEF StepBase, CallSet
  <2>2. AliasOf(b) \in Ann
    BY <2>1, AnnotationType
  <2>3. Moved(Top) \in CallSet /\ Moved(Top).op = Top.op /\ Moved(Top).name = Top.name
    BY <1>2, MovedType
  <2>4. UNCHANGED <<module, alias_map, parsed, mentioned>>
    BY <1>4 DEF StepBase
  <2>5. \/ ResolveInterface(b)
        \/ b \notin resolving_aliases /\ ResolveAlias(b)
        \/ Give(AliasOf(b)) /\ UNCHANGED <<stack, resolving_aliases>>
        \/ /\ Advance /\ stack' = [stack EXCEPT ![Len(stack)] = Moved(Top)]
           /\ UNCHANGED resolving_aliases
    BY <1>2, <1>4 DEF StepBase
  <2>6. CASE ResolveInterface(b)
    BY <2>1, <2>4, <2>6, ResolveInterfaceKeeps
  <2>7. CASE b \notin resolving_aliases /\ ResolveAlias(b)
    BY <2>1, <2>4, <2>7, ResolveAliasKeeps
  <2>8. CASE Give(AliasOf(b)) /\ UNCHANGED <<stack, resolving_aliases>>
    BY <2>2, <2>4, <2>8, GiveKeeps
  <2>9. CASE /\ Advance /\ stack' = [stack EXCEPT ![Len(stack)] = Moved(Top)]
             /\ UNCHANGED resolving_aliases
    BY <1>3, <2>3, <2>4, <2>9
  <2>10. QED
    BY <2>5, <2>6, <2>7, <2>8, <2>9
<1>5. CASE StepPart
  <2> DEFINE t == Top.args[Top.next - Len(Top.bases)]
             c == [Moved(Top) EXCEPT !.nullable = TRUE]
  <2>1. t \in Types
    <3>1. Top.args \in Seq(Types) /\ Len(Top.bases) \in Nat /\ Top.next \in Nat
      BY <1>2 DEF CallSet
    <3>2. Top.next > Len(Top.bases) /\ Top.next <= Len(Top.bases) + Len(Top.args)
      BY <1>5 DEF StepPart, Parts
    <3>3. Len(Top.args) \in Nat
      BY <3>1
    <3>4. \A x, y, z \in Nat : x > y /\ x <= y + z => x - y \in 1..z
      OBVIOUS
    <3>5. Top.next - Len(Top.bases) \in 1..Len(Top.args)
      BY <3>1, <3>2, <3>3, <3>4
    <3>6. QED
      BY <3>1, <3>5
  <2>2. UNCHANGED <<module, alias_map, resolving_aliases, parsed, mentioned>>
    BY <1>5 DEF StepPart
  <2>3. CASE stack' = [stack EXCEPT ![Len(stack)] = c] /\ Advance
    <3>1. c \in CallSet /\ c.op = Top.op /\ c.name = Top.name
      BY <1>2, MovedType
    <3>2. QED
      BY <1>3, <2>2, <2>3, <3>1
  <2>4. CASE Eval(t) /\ UNCHANGED stack
    <3>1. TypeOK'
      BY <2>1, <2>2, <2>4 DEF Eval
    <3>2. QED
      BY <2>2, <2>4, <3>1, StayKeeps
  <2>5. QED
    BY <1>2, <1>5, <2>3, <2>4 DEF StepPart
<1>6. CASE Absorb
  <2>1. value \in Ann /\ UNCHANGED <<module, alias_map, resolving_aliases, parsed, mentioned>>
    BY <1>6 DEF Absorb
  <2>2. CASE Advance /\ stack' = [stack EXCEPT ![Len(stack)] = Taken(Top, value)]
    BY <1>2, <1>3, <2>1, <2>2, TakenType
  <2>3. CASE Fail /\ UNCHANGED stack
    BY <2>1, <2>3, GiveKeeps
  <2>4. QED
    BY <1>2, <1>6, <2>2, <2>3 DEF Absorb
<1>7. QED
  BY <1>4, <1>5, <1>6

(* Returning from a call that is not for an alias keeps the invariant.     *)
LEMMA ReturnsKeep ==
  ASSUME IInv, ReturnPlain \/ ReturnUnion \/ ReturnPartial \/ ReturnInterface PROVE IInv'
<1> USE DEF IInv, TypeOK
<1>1. stack \in Seq(CallSet) /\ stack # << >> /\ Complete /\ Top.op # "alias"
  BY DEF ReturnPlain, ReturnUnion, ReturnPartial, ReturnInterface, Complete
<1>2. Top \in CallSet /\ Front(stack) \in Seq(CallSet)
  BY <1>1, TopType
<1>3. Top.refs \in SUBSET Names /\ Top.last \in Ann /\ Top.nullable \in BOOLEAN
  BY <1>2 DEF CallSet
<1>4. ASSUME Return, alias_map' \in [Names -> Ann \cup {None}], (\E v \in Ann : Give(v)) \/ Fail,
             UNCHANGED <<module, resolving_aliases, parsed, mentioned>>
      PROVE  IInv'
  <2>1. TypeOK'
    BY <1>2, <1>4 DEF Return, Give, Fail
  <2>2. QED
    BY <1>1, <1>4, <2>1, ReturnKeeps
<1>5. CASE ReturnPlain
  <2> DEFINE tag == CASE Top.op \in {"object", "inter"} -> "object"
                      [] Top.op \in {"array", "dict"}   -> "value"
                      [] Top.op \in {"fn", "method"}    -> "fn"
                      [] OTHER                          -> Top.op
  <2>1. tag \in Tags \ {"alias"}
    BY <1>5 DEF ReturnPlain, Tags
  <2>2. Annotation(tag, Top.refs) \in Ann
    BY <1>3, <2>1, AnnotationType
  <2>3. Give(Annotation(tag, Top.refs))
    BY <1>5 DEF ReturnPlain
  <2>4. QED
    BY <1>4, <1>5, <2>2, <2>3 DEF ReturnPlain
<1>6. CASE ReturnUnion
  <2> DEFINE v == CASE Top.kept = 0 -> Annotation("void", {})
                    [] Top.kept = 1 -> Top.last
                    [] OTHER        -> Annotation("value", Top.refs)
  <2>1. v \in Ann
    BY <1>3, AnnotationType DEF Tags
  <2>2. [v EXCEPT !.nullable = Top.nullable] \in Ann
    BY <1>3, <2>1, AnnotationType
  <2>3. Give([v EXCEPT !.nullable = Top.nullable])
    BY <1>6 DEF ReturnUnion
  <2>4. QED
    BY <1>4, <1>6, <2>2, <2>3 DEF ReturnUnion
<1>7. CASE ReturnPartial
  <2> DEFINE object == PartialOf(Top.last)
  <2>1. object # None => object \in Ann
    BY <1>3 DEF PartialOf, Ann
  <2>2. object # None => Annotation("object", object.refs) \in Ann
    BY <2>1, AnnotationType DEF Tags
  <2>3. (\E w \in Ann : Give(w)) \/ Fail
    BY <1>7, <2>2 DEF ReturnPartial
  <2>4. QED
    BY <1>4, <1>7, <2>3 DEF ReturnPartial
<1>8. CASE ReturnInterface
  <2>1. Top.name \in Names
    BY <1>2, <1>8 DEF ReturnInterface, CallSet
  <2>2. Annotation("object", Top.refs) \in Ann /\ AliasOf(Top.name) \in Ann
    BY <1>3, <2>1, AnnotationType DEF Tags
  <2>3. QED
    BY <1>4, <1>8, <2>1, <2>2 DEF ReturnInterface
<1>9. QED
  BY <1>5, <1>6, <1>7, <1>8

(* Returning from an alias takes its name and its call away together.      *)
LEMMA ReturnAliasKeeps == ASSUME IInv, ReturnAlias PROVE IInv'
<1> USE DEF IInv, TypeOK
<1>1. stack \in Seq(CallSet) /\ stack # << >> /\ Top.op = "alias"
  BY DEF ReturnAlias, Complete
<1>2. Top \in CallSet /\ Front(stack) \in Seq(CallSet)
  BY <1>1, TopType
<1>3. Top.name \in Names /\ Top.last \in Ann /\ AliasOf(Top.name) \in Ann
  <2>1. Top.name \in Names /\ Top.last \in Ann
    BY <1>1, <1>2 DEF CallSet
  <2>2. QED
    BY <2>1, AnnotationType
<1>4. alias_map' \in [Names -> Ann \cup {None}] /\ ((\E v \in Ann : Give(v)) \/ Fail)
  BY <1>3 DEF ReturnAlias
<1>5. /\ stack' = Front(stack) /\ resolving_aliases' = resolving_aliases \ {Top.name}
      /\ UNCHANGED <<module, parsed, mentioned>>
  BY DEF ReturnAlias, Return
<1>6. TypeOK'
  BY <1>2, <1>4, <1>5 DEF Give, Fail
<1>7. QED
  BY <1>1, <1>5, <1>6, ReturnKeeps DEF Return

(* An error takes the name of an alias away together with its call.        *)
LEMMA UnwindKeeps == ASSUME IInv, Unwind PROVE IInv'
<1> USE DEF IInv, TypeOK
<1>1. stack \in Seq(CallSet) /\ stack # << >>
  BY DEF Unwind
<1>2. Top \in CallSet /\ Front(stack) \in Seq(CallSet)
  BY <1>1, TopType
<1>3. (\E v \in Ann : Give(v)) \/ Fail
  BY AnnotationType DEF Unwind, Tags
<1>4. TypeOK'
  BY <1>2, <1>3 DEF Unwind, Return, Give, Fail
<1>5. QED
  BY <1>1, <1>4, ReturnKeeps DEF Unwind

-----------------------------------------------------------------------------
(* The invariant holds throughout.                                         *)
LEMMA Inductive == Spec => []IInv
<1>1. ASSUME IInv, [Next]_vars PROVE IInv'
  <2>1. CASE Step
    BY <1>1, <2>1, MemberKeeps, EvalKeeps, StepKeeps, ReturnsKeep, ReturnAliasKeeps, UnwindKeeps
    DEF Step
  <2>2. CASE UNCHANGED vars
    BY <1>1, <2>2 DEF IInv, TypeOK, ResolvingOnStack, AliasCalls, vars
  <2>3. QED
    BY <1>1, <2>1, <2>2 DEF Next, Terminated
<1>2. QED
  BY <1>1, InitKeeps, PTL DEF Spec

(* The state stays well typed: in particular every call on the stack has   *)
(* the parts of a declared type, and resolve_type_alias and the returns    *)
(* only ever put annotations in alias_map.                                 *)
THEOREM ParserTypeCorrect == Spec => []TypeOK
BY Inductive, PTL DEF IInv

(* resolving_aliases holds the names of the resolve_type_alias calls that  *)
(* have not returned, each once, for every set of declarations, also after *)
(* errors that translate_array_type swallowed.                             *)
THEOREM ResolvingMatchesStack == Spec => []ResolvingOnStack
BY Inductive, PTL DEF IInv

-----------------------------------------------------------------------------
(* NamesIn is defined by recursion over types, and the equation has a      *)
(* solution: the names that every set with a name for each reference, and  *)
(* closed under taking a type with that part, gives to the type.           *)
LEMMA NamesInDef ==
  \A t \in Types : NamesIn[t] = (IF t.op = "ref" THEN {t.name} ELSE {})
                                  \cup UNION {NamesIn[t.args[i]] : i \in DOMAIN t.args}
<1> DEFINE Own(t)    == IF t.op = "ref" THEN {t.name} ELSE {}
           Pairs     == Types \X Names
           Closed(R) == \A t \in Types, n \in Names :
                          (n \in Own(t) \/ \E i \in DOMAIN t.args : <<t.args[i], n>> \in R)
                             => <<t, n>> \in R
           L == {p \in Pairs : \A R \in SUBSET Pairs : Closed(R) => p \in R}
           M == {p \in Pairs : \/ p[2] \in Own(p[1])
                              \/ \E i \in DOMAIN p[1].args : <<p[1].args[i], p[2]>> \in L}
           F == [t \in Types |-> {n \in Names : <<t, n>> \in L}]
<1>1. \A t \in Types : Own(t) \subseteq Names /\ \A i \in DOMAIN t.args : t.args[i] \in Types
  <2> SUFFICES ASSUME NEW t \in Types
               PROVE  Own(t) \subseteq Names /\ \A i \in DOMAIN t.args : t.args[i] \in Types
    OBVIOUS
  <2>1. t.args \in Seq(Types) /\ (t.op = "ref" => t.name \in Names)
    BY TypesAssumption
  <2>2. QED
    BY <2>1
<1>2. Closed(L)
  <2> SUFFICES ASSUME NEW t \in Types, NEW n \in Names,
                      n \in Own(t) \/ \E i \in DOMAIN t.args : <<t.args[i], n>> \in L,
                      NEW R \in SUBSET Pairs, Closed(R)
               PROVE  <<t, n>> \in R
    OBVIOUS
  <2>1. n \in Own(t) \/ \E i \in DOMAIN t.args : <<t.args[i], n>> \in R
    OBVIOUS
  <2>2. QED
    BY <2>1
<1>3. M \subseteq L /\ M \in SUBSET Pairs
  <2> SUFFICES ASSUME NEW p \in M PROVE p \in L
    OBVIOUS
  <2>1. PICK t \in Types, n \in Names : p = <<t, n>>
    OBVIOUS
  <2>2. n \in Own(t) \/ \E i \in DOMAIN t.args : <<t.args[i], n>> \in L
    BY <2>1
  <2> HIDE DEF L, M, Own
  <2>3. QED
    BY <1>2, <2>1, <2>2
<1>4. Closed(M)
  <2> SUFFICES ASSUME NEW t \in Types, NEW n \in Names,
                      n \in Own(t) \/ \E i \in DOMAIN t.args : <<t.args[i], n>> \in M
               PROVE  <<t, n>> \in M
    OBVIOUS
  <2>1. n \in Own(t) \/ \E i \in DOMAIN t.args : <<t.args[i], n>> \in L
    <3> HIDE DEF L, M, Own
    <3>1. QED
      BY <1>3
  <2> HIDE DEF L, Own
  <2>2. QED
    BY <2>1
<1>5. L = M
  <2> HIDE DEF M, Closed
  <2>1. QED
    BY <1>3, <1>4
<1>6. \A t \in Types : F[t] = Own(t) \cup UNION {F[t.args[i]] : i \in DOMAIN t.args}
  <2> SUFFICES ASSUME NEW t \in Types
               PROVE  F[t] = Own(t) \cup UNION {F[t.args[i]] : i \in DOMAIN t.args}
    OBVIOUS
  <2>1. \A n \in Names : <<t, n>> \in L <=> \/ n \in Own(t)
                                            \/ \E i \in DOMAIN t.args : <<t.args[i], n>> \in L
    <3> HIDE DEF L, Own
    <3>1. \A n \in Names : <<t, n>> \in M <=> \/ n \in Own(t)
                                            \/ \E i \in DOMAIN t.args : <<t.args[i], n>> \in L
      OBVIOUS
    <3> HIDE DEF M
    <3>2. QED
      BY <1>5, <3>1
  <2> HIDE DEF L, M, Own
  <2>2. F[t] = {n \in Names : <<t, n>> \in L}
    OBVIOUS
  <2>3. \A i \in DOMAIN t.args : F[t.args[i]] = {n \in Names : <<t.args[i], n>> \in L}
    BY <1>1
  <2> HIDE DEF F
  <2>4. \A n : n \in F[t] <=> \/ n \in Own(t)
                            \/ \E i \in DOMAIN t.args : n \in F[t.args[i]]
    <3>1. Own(t) \subseteq Names
      BY <1>1
    <3>2. \A n : n \in F[t] <=> n \in Names /\ <<t, n>> \in L
      BY <2>2
    <3>3. \A n : \A i \in DOMAIN t.args : n \in F[t.args[i]] <=> n \in Names /\ <<t.args[i], n>> \in L
      BY <2>3
    <3>4. QED
      BY <2>1, <3>1, <3>2, <3>3
  <2>5. QED
    BY <2>4
<1>7. F = [t \in Types |-> Own(t) \cup UNION {F[t.args[i]] : i \in DOMAIN t.args}]
  <2> DEFINE H == [t \in Types |-> Own(t) \cup UNION {F[t.args[i]] : i \in DOMAIN t.args}]
  <2>1. DOMAIN F = Types /\ DOMAIN H = Types
    OBVIOUS
  <2>2. \A t \in Types : H[t] = Own(t) \cup UNION {F[t.args[i]] : i \in DOMAIN t.args}
    OBVIOUS
  <2>3. F = [t \in Types |-> F[t]] /\ H = [t \in Types |-> H[t]]
    OBVIOUS
  <2>4. \A t \in Types : F[t] = H[t]
    <3> HIDE DEF F, H, Own
    <3>1. QED
      BY <1>6, <2>2
  <2>5. F = H
    <3> HIDE DEF F, H
    <3>1. QED
      BY <2>3, <2>4
  <2>6. QED
    BY <2>5
<1>8. NamesIn = [t \in Types |-> Own(t) \cup UNION {NamesIn[t.args[i]] : i \in DOMAIN t.args}]
  <2>1. \E f : f = [t \in Types |-> (IF t.op = "ref" THEN {t.name} ELSE {})
                                    \cup UNION {f[t.args[i]] : i \in DOMAIN t.args}]
    <3> HIDE DEF F
    <3>1. QED
      BY <1>7
  <2>2. QED
    BY <2>1 DEF NamesIn
<1>9. QED
  BY <1>8

-----------------------------------------------------------------------------
(* What a name leads to: closed under reference, and holding at least what *)
(* the name refers to.                                                     *)
LEMMA BelowClosed ==
  ASSUME NEW G, NEW n \in G.node
  PROVE  /\ Below(G, n) \subseteq G.node
         /\ Successors(G, n) \subseteq Below(G, n)
         /\ \A m \in Below(G, n) : Successors(G, m) \subseteq Below(G, n)
         /\ \A m \in Below(G, n) : Below(G, m) \subseteq Below(G, n)
<1>1. Below(G, n) \subseteq G.node
  BY DEF Below
<1>2. Successors(G, n) \subseteq Below(G, n)
  BY DEF Below, Successors
<1>3. \A m \in Below(G, n) : Successors(G, m) \subseteq Below(G, n)
  <2> SUFFICES ASSUME NEW m \in Below(G, n), NEW k \in Successors(G, m),
                      NEW S \in SUBSET G.node, Successors(G, n) \cup AllSuccessors(G, S) \subseteq S
               PROVE  k \in S
    BY DEF Below, Successors
  <2>1. m \in S
    BY DEF Below
  <2>2. k \in AllSuccessors(G, S)
    BY <2>1 DEF AllSuccessors
  <2>3. QED
    BY <2>2
<1>4. \A m \in Below(G, n) : Below(G, m) \subseteq Below(G, n)
  <2> SUFFICES ASSUME NEW m \in Below(G, n), NEW k \in Below(G, m) PROVE k \in Below(G, n)
    OBVIOUS
  <2> DEFINE S == Below(G, n)
  <2>1. S \in SUBSET G.node
    BY <1>1
  <2>2. Successors(G, m) \cup AllSuccessors(G, S) \subseteq S
    BY <1>3 DEF AllSuccessors
  <2>3. k \in S
    <3> HIDE DEF S
    <3>1. QED
      BY <2>1, <2>2 DEF Below
  <2>4. QED
    BY <2>3
<1>5. QED
  BY <1>1, <1>2, <1>3, <1>4

Named == {"alias", "interface"}

(* The names that a call has to translate.                                 *)
CallNames(c) == {n \in Names : n \in ToSet(c.bases) \/ \E t \in ToSet(c.args) : n \in NamesIn[t]}

(* Everything on top of the call that resolves a name belongs to what the  *)
(* name leads to.                                                          *)
Beneath(G, s, names) ==
  \A i \in DOMAIN s : s[i].op \in Named => names \subseteq Below(G, s[i].name)

Rooted(G, s) ==
  \A i, j \in DOMAIN s : i <= j /\ s[i].op \in Named => CallNames(s[j]) \subseteq Below(G, s[i].name)

(* The calls on the stack and the type in focus follow references.         *)
Chained(G, s, md, t) ==
  /\ Rooted(G, s)
  /\ md = "eval" => Beneath(G, s, NamesIn[t] \cap Names)
  /\ md = "next" => s = << >>

ChainInv == Chained(ReferenceGraph, stack, mode, focus)

(* A new call keeps the stack rooted if its own names, and the name it     *)
(* resolves, belong there.                                                 *)
LEMMA RootedPush ==
  ASSUME NEW G, G.node = Names, NEW s \in Seq(CallSet), NEW c \in CallSet, Rooted(G, s),
         \/ /\ c.op \notin Named /\ Beneath(G, s, CallNames(c))
         \/ /\ c.op \in Named /\ Beneath(G, s, {c.name})
            /\ c.name \in Names /\ CallNames(c) \subseteq Successors(G, c.name)
  PROVE  Rooted(G, Append(s, c))
<1> DEFINE t == Append(s, c)
<1>1. /\ Len(s) \in Nat /\ DOMAIN s = 1..Len(s) /\ DOMAIN t = 1..(Len(s) + 1)
      /\ \A i \in DOMAIN s : t[i] = s[i]
      /\ t[Len(s) + 1] = c
  OBVIOUS
<1>2. Beneath(G, s, CallNames(c))
  <2>1. CASE c.op \notin Named
    BY <2>1
  <2>2. CASE c.op \in Named
    <3> SUFFICES ASSUME NEW i \in DOMAIN s, s[i].op \in Named
                 PROVE  CallNames(c) \subseteq Below(G, s[i].name)
      BY DEF Beneath
    <3>1. s[i] \in CallSet
      OBVIOUS
    <3>2. s[i].name \in Names
      BY <3>1 DEF CallSet, Named
    <3>3. c.name \in Below(G, s[i].name)
      BY <2>2 DEF Beneath
    <3>4. QED
      BY <2>2, <3>2, <3>3, BelowClosed
  <2>3. QED
    BY <2>1, <2>2
<1>3. c.op \in Named => CallNames(c) \subseteq Below(G, c.name)
  BY BelowClosed
<1> SUFFICES ASSUME NEW i \in DOMAIN t, NEW j \in DOMAIN t, i <= j, t[i].op \in Named
             PROVE  CallNames(t[j]) \subseteq Below(G, t[i].name)
  BY DEF Rooted
<1> HIDE DEF t
<1>4. CASE j \in DOMAIN s
  <2>1. i \in DOMAIN s
    BY <1>1, <1>4
  <2>2. QED
    BY <1>1, <1>4, <2>1 DEF Rooted
<1>5. CASE j = Len(s) + 1
  <2>1. CASE i \in DOMAIN s
    BY <1>1, <1>2, <1>5, <2>1 DEF Beneath
  <2>2. CASE i = Len(s) + 1
    BY <1>1, <1>3, <1>5, <2>2
  <2>3. QED
    BY <1>1, <2>1, <2>2
<1>6. QED
  BY <1>1, <1>4, <1>5

(* A call that returns leaves the rest of the stack rooted.                *)
LEMMA RootedPop ==
  ASSUME NEW G, NEW s \in Seq(CallSet), s # << >>, Rooted(G, s)
  PROVE  Rooted(G, Front(s))
<1>1. DOMAIN Front(s) \subseteq DOMAIN s /\ \A i \in DOMAIN Front(s) : Front(s)[i] = s[i]
  BY DEF Front
<1>2. QED
  BY <1>1 DEF Rooted

(* So does one that goes on: it has the same names to translate.           *)
LEMMA RootedMove ==
  ASSUME NEW G, NEW s \in Seq(CallSet), s # << >>, NEW c, Rooted(G, s),
         c.op = s[Len(s)].op, c.name = s[Len(s)].name,
         c.args = s[Len(s)].args, c.bases = s[Len(s)].bases
  PROVE  Rooted(G, [s EXCEPT ![Len(s)] = c])
<1> DEFINE t == [s EXCEPT ![Len(s)] = c]
<1>1. /\ DOMAIN t = DOMAIN s
      /\ \A i \in DOMAIN s : t[i].op = s[i].op /\ t[i].name = s[i].name
      /\ \A i \in DOMAIN s : t[i].args = s[i].args /\ t[i].bases = s[i].bases
  OBVIOUS
<1>2. \A i \in DOMAIN s : CallNames(t[i]) = CallNames(s[i])
  <2> HIDE DEF t
  <2>1. QED
    BY <1>1 DEF CallNames
<1>3. QED
  <2> HIDE DEF t
  <2>1. Rooted(G, t)
    BY <1>1, <1>2 DEF Rooted
  <2>2. QED
    BY <2>1 DEF t

(* The graph of references belongs to the module, which is never replaced. *)
LEMMA GraphStays ==
  /\ ReferenceGraph.node = Names
  /\ UNCHANGED module => ReferenceGraph' = ReferenceGraph
  /\ \A n \in Names : Successors(ReferenceGraph, n) = RefersTo(n) \cap Names
<1>1. ReferenceGraph.node = Names
  BY DEF ReferenceGraph
<1>2. ASSUME UNCHANGED module PROVE ReferenceGraph' = ReferenceGraph
  BY <1>2 DEF ReferenceGraph, RefersTo
<1>3. ASSUME NEW n \in Names PROVE Successors(ReferenceGraph, n) = RefersTo(n) \cap Names
  <2>1. \A m \in Names : <<n, m>> \in ReferenceGraph.edge <=> m \in RefersTo(n)
    BY DEF ReferenceGraph
  <2>2. QED
    BY <1>1, <2>1 DEF Successors
<1>4. QED
  BY <1>1, <1>2, <1>3

(* The call that resolves a declaration translates what it refers to.      *)
LEMMA ResolvedNames ==
  ASSUME IInv, NEW n \in Names
  PROVE  /\ CallNames(Call("alias", n, module.decls[n].parts, << >>)) \subseteq Successors(ReferenceGraph, n)
         /\ CallNames(Call("interface", n, module.decls[n].parts, module.decls[n].bases))
              \subseteq Successors(ReferenceGraph, n)
<1>1. ToSet(<< >>) = {}
  BY DEF ToSet
<1>2. RefersTo(n) = ToSet(module.decls[n].bases) \cup UNION {NamesIn[t] : t \in ToSet(module.decls[n].parts)}
  BY DEF RefersTo
<1>3. QED
  BY <1>1, <1>2, GraphStays DEF CallNames, Call

(* A call for a type translates no name that the type does not hold.       *)
LEMMA PartNames ==
  ASSUME NEW t \in Types, NEW op
  PROVE  CallNames(Call(op, None, t.args, << >>)) \subseteq NamesIn[t] \cap Names
<1>1. ToSet(<< >>) = {}
  BY DEF ToSet
<1>2. \A u \in ToSet(t.args) : NamesIn[u] \subseteq NamesIn[t]
  BY NamesInDef DEF ToSet
<1>3. QED
  BY <1>1, <1>2 DEF CallNames, Call

(* Where a call goes on the stack, and where the stack stays what it was.  *)
LEMMA PushChains ==
  ASSUME IInv, ChainInv, UNCHANGED module, NEW c \in CallSet, NEW names, Push(c, names),
         \/ c.op \notin Named /\ Beneath(ReferenceGraph, stack, CallNames(c))
         \/ /\ c.op \in Named /\ Beneath(ReferenceGraph, stack, {c.name})
            /\ c.name \in Names /\ CallNames(c) \subseteq Successors(ReferenceGraph, c.name)
  PROVE  ChainInv'
<1>1. ReferenceGraph' = ReferenceGraph /\ ReferenceGraph.node = Names
  BY GraphStays
<1>2. Rooted(ReferenceGraph, stack) /\ stack \in Seq(CallSet)
  BY DEF ChainInv, Chained, IInv, TypeOK
<1>3. Rooted(ReferenceGraph, Append(stack, c))
  BY <1>1, <1>2, RootedPush
<1>4. Rooted(ReferenceGraph, stack') /\ mode' \notin {"eval", "next"}
  BY <1>2, <1>3 DEF Push, Advance
<1>5. QED
  BY <1>1, <1>4 DEF ChainInv, Chained

LEMMA StayChains ==
  ASSUME ChainInv, UNCHANGED module, UNCHANGED stack, mode' \notin {"eval", "next"}
  PROVE  ChainInv'
BY GraphStays DEF ChainInv, Chained

LEMMA ReturnChains ==
  ASSUME IInv, ChainInv, UNCHANGED module, stack # << >>, Return, mode' \notin {"eval", "next"}
  PROVE  ChainInv'
<1>1. Rooted(ReferenceGraph, Front(stack))
  BY RootedPop DEF ChainInv, Chained, IInv, TypeOK
<1>2. QED
  BY <1>1, GraphStays DEF ChainInv, Chained, Return

LEMMA MoveChains ==
  ASSUME IInv, ChainInv, UNCHANGED module, stack # << >>, mode' \notin {"eval", "next"}, NEW c,
         c.op = Top.op, c.name = Top.name, c.args = Top.args, c.bases = Top.bases,
         stack' = [stack EXCEPT ![Len(stack)] = c]
  PROVE  ChainInv'
<1>1. Rooted(ReferenceGraph, [stack EXCEPT ![Len(stack)] = c])
  BY RootedMove DEF ChainInv, Chained, IInv, TypeOK, Top
<1>2. QED
  BY <1>1, GraphStays DEF ChainInv, Chained

(* What the innermost call has to translate lies beneath every call that   *)
(* resolves a name.                                                        *)
LEMMA TopBeneath ==
  ASSUME IInv, ChainInv, stack # << >>, NEW names, names \subseteq CallNames(Top)
  PROVE  Beneath(ReferenceGraph, stack, names)
<1>1. Rooted(ReferenceGraph, stack) /\ stack \in Seq(CallSet)
  BY DEF ChainInv, Chained, IInv, TypeOK
<1>2. Len(stack) \in DOMAIN stack /\ \A i \in DOMAIN stack : i <= Len(stack)
  BY <1>1
<1>3. QED
  BY <1>1, <1>2 DEF Rooted, Beneath, Top

(* The next base or part of a call is one of those it was called with.     *)
LEMMA NextPart ==
  ASSUME NEW c \in CallSet, c.next <= Parts(c)
  PROVE  /\ c.next <= Len(c.bases) => c.bases[c.next] \in Names /\ c.bases[c.next] \in CallNames(c)
         /\ c.next > Len(c.bases) => LET t == c.args[c.next - Len(c.bases)]
                                     IN t \in Types /\ NamesIn[t] \cap Names \subseteq CallNames(c)
<1>1. c.args \in Seq(Types) /\ c.bases \in Seq(Names) /\ c.next \in Nat \ {0}
  BY DEF CallSet
<1>2. CASE c.next <= Len(c.bases)
  <2>1. c.next \in DOMAIN c.bases
    BY <1>1, <1>2
  <2>2. c.bases[c.next] \in Names /\ c.bases[c.next] \in ToSet(c.bases)
    BY <1>1, <2>1 DEF ToSet
  <2>3. ~(c.next > Len(c.bases))
    BY <1>1, <1>2
  <2>4. QED
    BY <2>2, <2>3 DEF CallNames
<1>3. CASE c.next > Len(c.bases)
  <2> DEFINE k == c.next - Len(c.bases)
             t == c.args[k]
  <2>1. \A x, y, z \in Nat : x > y /\ x <= y + z => x - y \in 1..z
    OBVIOUS
  <2>2. k \in 1..Len(c.args)
    <3>1. c.next \in Nat /\ Len(c.bases) \in Nat /\ Len(c.args) \in Nat
      BY <1>1
    <3>2. c.next <= Len(c.bases) + Len(c.args)
      BY DEF Parts
    <3>3. QED
      BY <1>3, <2>1, <3>1, <3>2
  <2>3. t \in Types /\ t \in ToSet(c.args)
    <3> HIDE DEF k
    <3>1. QED
      BY <1>1, <2>2 DEF ToSet
  <2>4. NamesIn[t] \cap Names \subseteq CallNames(c)
    <3> HIDE DEF t
    <3>1. QED
      BY <2>3 DEF CallNames
  <2>5. ~(c.next <= Len(c.bases))
    BY <1>1, <1>3
  <2>6. QED
    BY <2>3, <2>4, <2>5
<1>4. QED
  BY <1>1, <1>2, <1>3

(* Every step keeps the stack chained.                                     *)
LEMMA MemberChains ==
  ASSUME IInv, ChainInv, NextMember \/ Finish \/ TakeMember \/ Reject PROVE ChainInv'
<1>1. UNCHANGED module /\ UNCHANGED stack
  BY DEF NextMember, Finish, TakeMember, Reject
<1>2. CASE NextMember
  <2>1. stack' = << >>
    BY <1>1, <1>2 DEF NextMember, ChainInv, Chained
  <2>2. Rooted(ReferenceGraph', stack') /\ Beneath(ReferenceGraph', stack', NamesIn[focus'] \cap Names)
    BY <2>1 DEF Rooted, Beneath
  <2>3. QED
    BY <2>1, <2>2 DEF ChainInv, Chained
<1>3. CASE Finish \/ Reject
  <2>1. mode' \notin {"eval", "next"}
    BY <1>3 DEF Finish, Reject
  <2>2. QED
    BY <1>1, <2>1, StayChains
<1>4. CASE TakeMember
  <2>1. stack' = << >> /\ mode' # "eval"
    BY <1>4 DEF TakeMember, Fail
  <2>2. Rooted(ReferenceGraph', stack')
    BY <2>1 DEF Rooted
  <2>3. QED
    BY <2>1, <2>2 DEF ChainInv, Chained
<1>5. QED
  BY <1>2, <1>3, <1>4

LEMMA ResolveChains ==
  ASSUME IInv, ChainInv, UNCHANGED module, NEW n \in Names, Beneath(ReferenceGraph, stack, {n}),
         ResolveAlias(n) \/ ResolveInterface(n)
  PROVE  ChainInv'
<1>1. module.decls[n].parts \in Seq(Types) /\ module.decls[n].bases \in Seq(Names)
  BY DeclType DEF IInv, TypeOK
<1>2. PICK none \in Seq(Names) : none = << >>
  BY EmptySeq
<1>3. CASE ResolveAlias(n)
  <2> DEFINE c == Call("alias", n, module.decls[n].parts, none)
  <2>1. c \in CallSet /\ c.op = "alias" /\ c.name = n
    <3>1. c \in CallSet
      BY <1>1, <1>2, CallType
    <3>2. QED
      BY <3>1 DEF Call
  <2>2. CallNames(c) \subseteq Successors(ReferenceGraph, n)
    BY <1>2, ResolvedNames
  <2>3. Push(c, resolving_aliases \cup {n})
    BY <1>2, <1>3 DEF ResolveAlias
  <2> HIDE DEF c
  <2>4. QED
    BY <2>1, <2>2, <2>3, PushChains DEF Named
<1>4. CASE ResolveInterface(n)
  <2> DEFINE c == Call("interface", n, module.decls[n].parts, module.decls[n].bases)
  <2>1. c \in CallSet /\ c.op = "interface" /\ c.name = n
    <3>1. c \in CallSet
      BY <1>1, CallType
    <3>2. QED
      BY <3>1 DEF Call
  <2>2. CallNames(c) \subseteq Successors(ReferenceGraph, n)
    BY ResolvedNames
  <2>3. Push(c, resolving_aliases)
    BY <1>4 DEF ResolveInterface
  <2> HIDE DEF c
  <2>4. QED
    BY <2>1, <2>2, <2>3, PushChains DEF Named
<1>5. QED
  BY <1>3, <1>4

LEMMA EvalChains ==
  ASSUME IInv, ChainInv, EvalLeaf \/ EvalParts \/ EvalAlias \/ EvalBuiltIn \/ EvalNamed PROVE ChainInv'
<1>1. /\ mode = "eval" /\ focus \in Types /\ UNCHANGED module
      /\ focus.op \in Ops /\ focus.args \in Seq(Types)
      /\ focus.op \in {"ref", "qualified"} => focus.name \in Names
  <2>1. mode = "eval" /\ focus \in Types /\ UNCHANGED module
    BY DEF EvalLeaf, EvalParts, EvalAlias, EvalBuiltIn, EvalNamed, IInv, TypeOK
  <2>2. QED
    BY <2>1, TypesAssumption
<1>2. Beneath(ReferenceGraph, stack, NamesIn[focus] \cap Names)
  BY <1>1 DEF ChainInv, Chained
<1>3. ASSUME focus.op = "ref" PROVE focus.name \in Names /\ Beneath(ReferenceGraph, stack, {focus.name})
  <2>1. focus.name \in Names /\ focus.name \in NamesIn[focus]
    BY <1>1, <1>3, NamesInDef
  <2>2. QED
    BY <1>2, <2>1 DEF Beneath
<1>4. ASSUME UNCHANGED stack, mode' \in {"ret", "err"} PROVE ChainInv'
  BY <1>1, <1>4, StayChains
<1>5. CASE EvalLeaf \/ EvalBuiltIn
  BY <1>4, <1>5 DEF EvalLeaf, EvalBuiltIn, Give
<1>6. CASE EvalParts
  <2>1. CASE Fail /\ UNCHANGED stack
    BY <1>4, <2>1 DEF Fail
  <2>2. CASE Push(Call(focus.op, None, focus.args, << >>), resolving_aliases)
    <3> DEFINE c == Call(focus.op, None, focus.args, << >>)
    <3>1. c \in CallSet /\ c.op \notin Named
      <4>1. c \in CallSet
        BY <1>1, <1>6, PartsCallType DEF EvalParts
      <4>2. c.op = focus.op
        BY DEF Call
      <4>3. QED
        BY <1>1, <4>1, <4>2 DEF Ops, Atoms, Unary, Many, Named
    <3>2. Beneath(ReferenceGraph, stack, CallNames(c))
      <4>1. CallNames(c) \subseteq NamesIn[focus] \cap Names
        BY <1>1, PartNames
      <4>2. QED
        BY <1>2, <4>1 DEF Beneath
    <3> HIDE DEF c
    <3>3. Push(c, resolving_aliases)
      BY <2>2 DEF c
    <3>4. QED
      BY <1>1, <3>1, <3>2, <3>3, PushChains
  <2>3. QED
    BY <1>6, <2>1, <2>2 DEF EvalParts
<1>7. CASE EvalAlias
  <2>1. focus.op = "ref" /\ ResolveAlias(focus.name)
    BY <1>7 DEF EvalAlias
  <2>2. QED
    BY <1>1, <1>3, <2>1, ResolveChains
<1>8. CASE EvalNamed
  <2>1. \/ mode' \in {"ret", "err"} /\ UNCHANGED stack
        \/ focus.op = "ref" /\ ResolveInterface(focus.name)
    BY <1>8 DEF EvalNamed, Give, Fail
  <2>2. QED
    BY <1>1, <1>3, <1>4, <2>1, ResolveChains
<1>9. QED
  BY <1>5, <1>6, <1>7, <1>8

LEMMA StepChains ==
  ASSUME IInv, ChainInv, StepBase \/ StepPart \/ Absorb PROVE ChainInv'
<1>1. stack \in Seq(CallSet) /\ stack # << >> /\ UNCHANGED module
  BY DEF StepBase, StepPart, Absorb, IInv, TypeOK
<1>2. Top \in CallSet
  BY <1>1, TopType
<1>3. ASSUME Top.next <= Parts(Top), Top.next <= Len(Top.bases)
      PROVE  Top.bases[Top.next] \in Names /\ Beneath(ReferenceGraph, stack, {Top.bases[Top.next]})
  <2>1. Top.bases[Top.next] \in Names /\ {Top.bases[Top.next]} \subseteq CallNames(Top)
    BY <1>2, <1>3, NextPart
  <2>2. QED
    BY <1>1, <2>1, TopBeneath
<1>4. /\ Moved(Top).op = Top.op /\ Moved(Top).name = Top.name
      /\ Moved(Top).args = Top.args /\ Moved(Top).bases = Top.bases
      /\ Moved(Top) \in CallSet
  BY <1>2, MovedType DEF Moved, CallSet
<1>5. CASE StepBase
  <2> DEFINE b == Top.bases[Top.next]
  <2>1. Top.next <= Parts(Top) /\ Top.next <= Len(Top.bases)
    <3>1. \A x, y, z \in Nat : x <= y => x <= y + z
      OBVIOUS
    <3>2. QED
      BY <1>2, <1>5, <3>1 DEF StepBase, Parts, CallSet
  <2>2. \/ ResolveInterface(b) \/ ResolveAlias(b)
        \/ mode' = "ret" /\ UNCHANGED stack
        \/ mode' = "step" /\ stack' = [stack EXCEPT ![Len(stack)] = Moved(Top)]
    BY <1>1, <1>5 DEF StepBase, Give, Advance, Top
  <2>3. CASE ResolveInterface(b) \/ ResolveAlias(b)
    BY <1>1, <1>3, <2>1, <2>3, ResolveChains
  <2>4. CASE mode' = "ret" /\ UNCHANGED stack
    BY <1>1, <2>4, StayChains
  <2>5. CASE mode' = "step" /\ stack' = [stack EXCEPT ![Len(stack)] = Moved(Top)]
    BY <1>1, <1>4, <2>5, MoveChains
  <2>6. QED
    BY <2>2, <2>3, <2>4, <2>5
<1>6. CASE StepPart
  <2> DEFINE t == Top.args[Top.next - Len(Top.bases)]
             c == [Moved(Top) EXCEPT !.nullable = TRUE]
  <2>1. CASE stack' = [stack EXCEPT ![Len(stack)] = c] /\ Advance
    <3>1. c.op = Top.op /\ c.name = Top.name /\ c.args = Top.args /\ c.bases = Top.bases
      BY <1>4 DEF CallSet
    <3> HIDE DEF c
    <3>2. QED
      BY <1>1, <2>1, <3>1, MoveChains DEF Advance
  <2>2. CASE Eval(t) /\ UNCHANGED stack
    <3>1. NamesIn[t] \cap Names \subseteq CallNames(Top)
      BY <1>2, <1>6, NextPart DEF StepPart
    <3>2. Beneath(ReferenceGraph, stack, NamesIn[t] \cap Names)
      BY <1>1, <3>1, TopBeneath
    <3>3. QED
      <4> HIDE DEF t
      <4>1. QED
        BY <1>1, <2>2, <3>2, GraphStays DEF ChainInv, Chained, Eval
  <2>3. QED
    BY <1>1, <1>6, <2>1, <2>2 DEF StepPart, Top
<1>7. CASE Absorb
  <2>1. value \in Ann
    BY <1>7 DEF Absorb, IInv, TypeOK
  <2>2. CASE Advance /\ stack' = [stack EXCEPT ![Len(stack)] = Taken(Top, value)]
    <3>1. Taken(Top, value).op = Top.op /\ Taken(Top, value).name = Top.name
      BY <1>2, <2>1, TakenType
    <3>2. Taken(Top, value).args = Top.args /\ Taken(Top, value).bases = Top.bases
      BY <1>4 DEF Taken, CallSet
    <3>3. QED
      BY <1>1, <2>2, <3>1, <3>2, MoveChains DEF Advance
  <2>3. CASE Fail /\ UNCHANGED stack
    BY <1>1, <2>3, StayChains DEF Fail
  <2>4. QED
    BY <1>1, <1>7, <2>2, <2>3 DEF Absorb, Top
<1>8. QED
  BY <1>5, <1>6, <1>7

LEMMA ReturnsChain ==
  ASSUME IInv, ChainInv,
         \/ ReturnPlain \/ ReturnUnion \/ ReturnPartial
         \/ ReturnInterface \/ ReturnAlias \/ Unwind
  PROVE  ChainInv'
<1>1. /\ stack # << >> /\ UNCHANGED module /\ Return /\ mode' \in {"ret", "err"}
  BY DEF ReturnPlain, ReturnUnion, ReturnPartial, ReturnInterface, ReturnAlias, Unwind,
         Complete, Give, Fail, IInv, TypeOK
<1>2. QED
  BY <1>1, ReturnChains

LEMMA InitChains == Init => ChainInv
<1> SUFFICES ASSUME Init PROVE ChainInv
  OBVIOUS
<1>1. stack = << >> /\ mode = "next"
  BY DEF Init
<1>2. Rooted(ReferenceGraph, stack)
  BY <1>1 DEF Rooted
<1>3. QED
  BY <1>1, <1>2 DEF ChainInv, Chained

(* The calls on the stack follow references at every moment.               *)
LEMMA AlwaysChained == Spec => []ChainInv
<1>1. ASSUME IInv, ChainInv, [Next]_vars PROVE ChainInv'
  <2>1. CASE Step
    BY <1>1, <2>1, MemberChains, EvalChains, StepChains, ReturnsChain DEF Step
  <2>2. CASE UNCHANGED vars
    BY <1>1, <2>2, GraphStays DEF ChainInv, Chained, vars
  <2>3. QED
    BY <1>1, <2>1, <2>2 DEF Next, Terminated
<1>2. QED
  BY <1>1, InitChains, Inductive, PTL DEF Spec

-----------------------------------------------------------------------------
(* References that may stand in a schema: to a name with an entry or to    *)
(* one on a cycle.                                                         *)
Settled(G, map) == {n \in Names : map[n] # None \/ OnCycle(G, n)}

CallRefs(D, s) == \A i \in DOMAIN s : s[i].refs \subseteq D /\ s[i].last.refs \subseteq D

(* No other reference is anywhere: in a call, an entry, an annotation on   *)
(* its way, or the part of the schema that is finished.                    *)
RefsWithin(D, s, map, md, v, done) ==
  /\ CallRefs(D, s)
  /\ \A n \in Names : map[n] # None => map[n].refs \subseteq D
  /\ md = "ret" => v.refs \subseteq D
  /\ done \subseteq D

RefInv == RefsWithin(Settled(ReferenceGraph, alias_map), stack, alias_map, mode, value, mentioned)

(* Pushing a new call, returning from one and going on with one.           *)
LEMMA CallRefsKept ==
  ASSUME NEW D, NEW s \in Seq(CallSet), CallRefs(D, s)
  PROVE  /\ \A c : c.refs = {} /\ c.last.refs = {} => CallRefs(D, Append(s, c))
         /\ s # << >> => CallRefs(D, Front(s))
         /\ s # << >> => \A c : c.refs \subseteq D /\ c.last.refs \subseteq D
                                => CallRefs(D, [s EXCEPT ![Len(s)] = c])
<1>1. ASSUME NEW c, c.refs = {}, c.last.refs = {} PROVE CallRefs(D, Append(s, c))
  <2> DEFINE t == Append(s, c)
  <2>1. /\ Len(s) \in Nat /\ DOMAIN s = 1..Len(s) /\ DOMAIN t = 1..(Len(s) + 1)
        /\ \A i \in DOMAIN s : t[i] = s[i]
        /\ t[Len(s) + 1] = c
    OBVIOUS
  <2>2. \A i \in DOMAIN t : i \in DOMAIN s \/ i = Len(s) + 1
    BY <2>1
  <2> HIDE DEF t
  <2>3. CallRefs(D, t)
    BY <1>1, <2>1, <2>2 DEF CallRefs
  <2>4. QED
    BY <2>3 DEF t
<1>2. ASSUME s # << >> PROVE CallRefs(D, Front(s))
  <2>1. DOMAIN Front(s) \subseteq DOMAIN s /\ \A i \in DOMAIN Front(s) : Front(s)[i] = s[i]
    BY <1>2 DEF Front
  <2>2. QED
    BY <2>1 DEF CallRefs
<1>3. ASSUME s # << >>, NEW c, c.refs \subseteq D, c.last.refs \subseteq D
      PROVE  CallRefs(D, [s EXCEPT ![Len(s)] = c])
  <2> DEFINE t == [s EXCEPT ![Len(s)] = c]
  <2>1. DOMAIN t = DOMAIN s /\ \A i \in DOMAIN s : t[i] = s[i] \/ t[i] = c
    OBVIOUS
  <2> HIDE DEF t
  <2>2. CallRefs(D, t)
    BY <1>3, <2>1 DEF CallRefs
  <2>3. QED
    BY <2>2 DEF t
<1>4. QED
  BY <1>1, <1>2, <1>3

(* The innermost call refers to settled names only.                        *)
LEMMA TopRefs ==
  ASSUME IInv, RefInv, stack # << >>
  PROVE  /\ Top.refs \subseteq Settled(ReferenceGraph, alias_map)
         /\ Top.last.refs \subseteq Settled(ReferenceGraph, alias_map)
<1>1. Len(stack) \in DOMAIN stack
  BY DEF IInv, TypeOK
<1>2. QED
  BY <1>1 DEF RefInv, RefsWithin, CallRefs, Top

(* What a step has to show: entries stay or are replaced by others, and    *)
(* what is new refers to settled names.                                    *)
LEMMA RefsStep ==
  ASSUME RefInv, UNCHANGED module,
         \A n \in Names : \/ alias_map'[n] = alias_map[n]
                          \/ /\ alias_map'[n] # None
                             /\ alias_map'[n].refs \subseteq Settled(ReferenceGraph, alias_map),
         CallRefs(Settled(ReferenceGraph, alias_map), stack'),
         mode' = "ret" => value'.refs \subseteq Settled(ReferenceGraph, alias_map'),
         mentioned' \subseteq Settled(ReferenceGraph, alias_map)
  PROVE  RefInv'
<1> DEFINE D == Settled(ReferenceGraph, alias_map)
           E == Settled(ReferenceGraph, alias_map')
<1>1. D \subseteq E
  BY DEF Settled
<1> HIDE DEF D, E
<1>2. CallRefs(E, stack')
  <2>1. CallRefs(D, stack')
    BY DEF D
  <2>2. QED
    BY <1>1, <2>1 DEF CallRefs
<1>3. \A n \in Names : alias_map'[n] # None => alias_map'[n].refs \subseteq E
  <2>1. \A n \in Names : alias_map'[n] # None => alias_map'[n].refs \subseteq D
    BY DEF D, RefInv, RefsWithin
  <2>2. QED
    BY <1>1, <2>1
<1>4. mentioned' \subseteq E
  <2>1. mentioned' \subseteq D
    BY DEF D
  <2>2. QED
    BY <1>1, <2>1
<1>5. mode' = "ret" => value'.refs \subseteq E
  BY DEF E
<1>6. RefsWithin(E, stack', alias_map', mode', value', mentioned')
  BY <1>2, <1>3, <1>4, <1>5 DEF RefsWithin
<1>7. QED
  BY <1>6, GraphStays DEF E, RefInv

(* A step that leaves the entries and the schema alone.                    *)
LEMMA RefsSame ==
  ASSUME IInv, RefInv, UNCHANGED <<module, alias_map, mentioned>>,
         \/ UNCHANGED stack
         \/ \E c : stack' = Append(stack, c) /\ c.refs = {} /\ c.last.refs = {}
         \/ stack # << >> /\ Return
         \/ /\ stack # << >>
            /\ \E c : /\ stack' = [stack EXCEPT ![Len(stack)] = c]
                      /\ c.refs \subseteq Settled(ReferenceGraph, alias_map)
                      /\ c.last.refs \subseteq Settled(ReferenceGraph, alias_map),
         mode' = "ret" => value'.refs \subseteq Settled(ReferenceGraph, alias_map)
  PROVE  RefInv'
<1> DEFINE D == Settled(ReferenceGraph, alias_map)
<1>1. CallRefs(D, stack) /\ mentioned \subseteq D /\ stack \in Seq(CallSet)
  BY DEF RefInv, RefsWithin, IInv, TypeOK
<1>2. CallRefs(D, stack')
  <2> HIDE DEF D
  <2>1. CASE UNCHANGED stack
    BY <1>1, <2>1
  <2>2. CASE \E c : stack' = Append(stack, c) /\ c.refs = {} /\ c.last.refs = {}
    BY <1>1, <2>2, CallRefsKept
  <2>3. CASE stack # << >> /\ Return
    BY <1>1, <2>3, CallRefsKept DEF Return
  <2>4. CASE /\ stack # << >>
             /\ \E c : /\ stack' = [stack EXCEPT ![Len(stack)] = c]
                       /\ c.refs \subseteq Settled(ReferenceGraph, alias_map)
                       /\ c.last.refs \subseteq Settled(ReferenceGraph, alias_map)
    <3>1. PICK c : /\ stack' = [stack EXCEPT ![Len(stack)] = c]
                   /\ c.refs \subseteq D /\ c.last.refs \subseteq D
      BY <2>4 DEF D
    <3>2. QED
      BY <1>1, <2>4, <3>1, CallRefsKept
  <2>5. QED
    BY <2>1, <2>2, <2>3, <2>4
<1>3. QED
  BY <1>1, <1>2, RefsStep

(* Pushing a call.                                                         *)
LEMMA PushRefs ==
  ASSUME IInv, RefInv, UNCHANGED <<module, alias_map, mentioned>>,
         NEW op, NEW name, NEW args, NEW bases, NEW names, Push(Call(op, name, args, bases), names)
  PROVE  RefInv'
<1> DEFINE c == Call(op, name, args, bases)
<1>1. c.refs = {} /\ c.last.refs = {}
  BY DEF Call, Annotation
<1>2. mode' # "ret" /\ (UNCHANGED stack \/ stack' = Append(stack, c))
  BY DEF Push, Advance
<1> HIDE DEF c
<1>3. QED
  BY <1>1, <1>2, RefsSame

(* A name that is being resolved and met again is on a cycle: it is on the *)
(* stack, and everything above it is what it leads to.                     *)
LEMMA MetAgain ==
  ASSUME IInv, NEW n \in resolving_aliases, Beneath(ReferenceGraph, stack, {n})
  PROVE  n \in Settled(ReferenceGraph, alias_map)
<1>1. PICK i \in DOMAIN stack : stack[i].op = "alias" /\ stack[i].name = n
  BY DEF IInv, ResolvingOnStack, AliasCalls
<1>2. n \in Below(ReferenceGraph, n)
  BY <1>1 DEF Beneath, Named
<1>3. n \in Names
  BY DEF IInv, TypeOK
<1>4. QED
  BY <1>2, <1>3 DEF Settled, OnCycle

LEMMA MemberRefs ==
  ASSUME IInv, RefInv, NextMember \/ Finish \/ TakeMember \/ Reject PROVE RefInv'
<1>1. CASE NextMember \/ Finish \/ Reject
  <2>1. UNCHANGED <<module, alias_map, mentioned, stack>> /\ mode' # "ret"
    BY <1>1 DEF NextMember, Finish, Reject, Eval
  <2>2. QED
    BY <2>1, RefsSame
<1>2. CASE TakeMember
  <2>1. UNCHANGED <<module, alias_map, stack>> /\ mode' # "ret"
    BY <1>2 DEF TakeMember, Fail
  <2>2. mentioned' \subseteq Settled(ReferenceGraph, alias_map)
    BY <1>2 DEF TakeMember, RefInv, RefsWithin
  <2>3. CallRefs(Settled(ReferenceGraph, alias_map), stack')
    BY <2>1 DEF RefInv, RefsWithin
  <2>4. QED
    BY <2>1, <2>2, <2>3, RefsStep
<1>3. QED
  BY <1>1, <1>2

LEMMA EvalRefs ==
  ASSUME IInv, ChainInv, RefInv, EvalLeaf \/ EvalParts \/ EvalAlias \/ EvalBuiltIn \/ EvalNamed
  PROVE  RefInv'
<1>1. UNCHANGED <<module, alias_map, mentioned>>
  BY DEF EvalLeaf, EvalParts, EvalAlias, EvalBuiltIn, EvalNamed
<1>2. ASSUME NEW v, Give(v), v.refs = {}, UNCHANGED stack PROVE RefInv'
  BY <1>1, <1>2, RefsSame DEF Give
<1>3. ASSUME Fail, UNCHANGED stack PROVE RefInv'
  BY <1>1, <1>3, RefsSame DEF Fail
<1>4. CASE EvalLeaf \/ EvalBuiltIn
  <2>1. \A tag : Annotation(tag, {}).refs = {} /\ [Annotation(tag, {}) EXCEPT !.nullable = TRUE].refs = {}
    BY DEF Annotation
  <2>2. UNCHANGED stack /\ \E tag : \/ Give(Annotation(tag, {}))
                                   \/ Give([Annotation(tag, {}) EXCEPT !.nullable = TRUE])
    BY <1>4 DEF EvalLeaf, EvalBuiltIn
  <2>3. QED
    BY <1>2, <2>1, <2>2
<1>5. CASE EvalParts
  <2>1. \/ Fail /\ UNCHANGED stack
        \/ Push(Call(focus.op, None, focus.args, << >>), resolving_aliases)
    BY <1>5 DEF EvalParts
  <2>2. QED
    BY <1>1, <1>3, <2>1, PushRefs
<1>6. CASE EvalAlias
  BY <1>1, <1>6, PushRefs DEF EvalAlias, ResolveAlias
<1>7. CASE EvalNamed
  <2> DEFINE n == focus.name
  <2>1. \/ Give(Annotation("value", {})) /\ UNCHANGED stack
        \/ ResolveInterface(n)
        \/ /\ focus.op = "ref" /\ n \in resolving_aliases
           /\ Give(AliasOf(n)) /\ UNCHANGED stack
        \/ Fail /\ UNCHANGED stack
    BY <1>7 DEF EvalNamed
  <2>2. CASE Give(Annotation("value", {})) /\ UNCHANGED stack
    BY <1>2, <2>2 DEF Annotation
  <2>3. CASE ResolveInterface(n)
    BY <1>1, <2>3, PushRefs DEF ResolveInterface
  <2>4. CASE focus.op = "ref" /\ n \in resolving_aliases /\ Give(AliasOf(n)) /\ UNCHANGED stack
    <3>1. mode = "eval" /\ focus \in Types /\ n \in Names
      BY <1>7, <2>4 DEF EvalNamed, IInv, TypeOK
    <3>2. n \in NamesIn[focus]
      BY <2>4, <3>1, NamesInDef
    <3>3. Beneath(ReferenceGraph, stack, {n})
      BY <3>1, <3>2 DEF ChainInv, Chained, Beneath
    <3>4. n \in Settled(ReferenceGraph, alias_map)
      BY <2>4, <3>3, MetAgain
    <3>5. mode' = "ret" => value'.refs = {n}
      BY <2>4 DEF Give, AliasOf
    <3>6. QED
      BY <1>1, <2>4, <3>4, <3>5, RefsSame
  <2>5. CASE Fail /\ UNCHANGED stack
    BY <1>3, <2>5
  <2>6. QED
    BY <2>1, <2>2, <2>3, <2>4, <2>5
<1>8. QED
  BY <1>4, <1>5, <1>6, <1>7

LEMMA StepRefs ==
  ASSUME IInv, ChainInv, RefInv, StepBase \/ StepPart \/ Absorb PROVE RefInv'
<1>1. stack \in Seq(CallSet) /\ stack # << >> /\ UNCHANGED <<module, alias_map, mentioned>>
  BY DEF StepBase, StepPart, Absorb, IInv, TypeOK
<1>2. Top \in CallSet
  BY <1>1, TopType
<1> DEFINE D == Settled(ReferenceGraph, alias_map)
<1>3. Top.refs \subseteq D /\ Top.last.refs \subseteq D
  BY <1>1, TopRefs
<1>4. Moved(Top).refs = Top.refs /\ Moved(Top).last = Top.last
  BY <1>2 DEF Moved, CallSet
<1>5. ASSUME NEW c, c.refs \subseteq D, c.last.refs \subseteq D, Advance,
             stack' = [stack EXCEPT ![Len(stack)] = c]
      PROVE  RefInv'
  BY <1>1, <1>5, RefsSame DEF Advance
<1> HIDE DEF D
<1>6. CASE StepBase
  <2> DEFINE b == Top.bases[Top.next]
  <2>1. \/ ResolveInterface(b) \/ ResolveAlias(b)
        \/ b \in resolving_aliases /\ Give(AliasOf(b)) /\ UNCHANGED stack
        \/ Advance /\ stack' = [stack EXCEPT ![Len(stack)] = Moved(Top)]
    BY <1>1, <1>6 DEF StepBase, Top
  <2>2. CASE ResolveInterface(b) \/ ResolveAlias(b)
    BY <1>1, <2>2, PushRefs DEF ResolveInterface, ResolveAlias
  <2>3. CASE b \in resolving_aliases /\ Give(AliasOf(b)) /\ UNCHANGED stack
    <3>1. Top.next <= Parts(Top) /\ Top.next <= Len(Top.bases)
      <4>1. \A x, y, z \in Nat : x <= y => x <= y + z
        OBVIOUS
      <4>2. QED
        BY <1>2, <1>6, <4>1 DEF StepBase, Parts, CallSet
    <3>2. {b} \subseteq CallNames(Top)
      BY <1>2, <3>1, NextPart
    <3>3. Beneath(ReferenceGraph, stack, {b})
      BY <1>1, <3>2, TopBeneath
    <3>4. b \in Settled(ReferenceGraph, alias_map)
      BY <2>3, <3>3, MetAgain
    <3>5. mode' = "ret" => value'.refs = {b}
      BY <2>3 DEF Give, AliasOf
    <3>6. QED
      BY <1>1, <2>3, <3>4, <3>5, RefsSame
  <2>4. CASE Advance /\ stack' = [stack EXCEPT ![Len(stack)] = Moved(Top)]
    BY <1>3, <1>4, <1>5, <2>4
  <2>5. QED
    BY <2>1, <2>2, <2>3, <2>4
<1>7. CASE StepPart
  <2> DEFINE t == Top.args[Top.next - Len(Top.bases)]
             c == [Moved(Top) EXCEPT !.nullable = TRUE]
  <2>1. c.refs = Top.refs /\ c.last = Top.last
    BY <1>2, <1>4 DEF Moved, CallSet
  <2>2. CASE stack' = [stack EXCEPT ![Len(stack)] = c] /\ Advance
    <3> HIDE DEF c
    <3>1. QED
      BY <1>3, <1>5, <2>1, <2>2
  <2>3. CASE Eval(t) /\ UNCHANGED stack
    BY <1>1, <2>3, RefsSame DEF Eval
  <2>4. QED
    BY <1>1, <1>7, <2>2, <2>3 DEF StepPart, Top
<1>8. CASE Absorb
  <2>1. value \in Ann /\ value.refs \subseteq D
    BY <1>8 DEF Absorb, IInv, TypeOK, RefInv, RefsWithin, D
  <2>2. CASE Advance /\ stack' = [stack EXCEPT ![Len(stack)] = Taken(Top, value)]
    <3>1. Taken(Top, value).refs \subseteq D /\ Taken(Top, value).last.refs \subseteq D
      <4>1. CASE Taken(Top, value) = Moved(Top)
        BY <1>3, <1>4, <4>1
      <4>2. CASE Taken(Top, value) = [Moved(Top) EXCEPT !.last = Annotation("value", {})]
        BY <1>2, <1>3, <4>2 DEF Moved, Annotation, CallSet
      <4>3. CASE Taken(Top, value) =
                   [Moved(Top) EXCEPT !.last = value, !.refs = @ \cup value.refs, !.kept = @ + 1,
                                      !.nullable = @ \/ (Top.op = "union" /\ value.nullable)]
        <5>1. Taken(Top, value).refs = Top.refs \cup value.refs /\ Taken(Top, value).last = value
          BY <1>2, <4>3 DEF Moved, CallSet
        <5>2. QED
          BY <1>3, <2>1, <5>1
      <4>4. QED
        BY <4>1, <4>2, <4>3 DEF Taken
    <3>2. QED
      BY <1>5, <2>2, <3>1
  <2>3. CASE Fail /\ UNCHANGED stack
    BY <1>1, <2>3, RefsSame DEF Fail
  <2>4. QED
    BY <1>1, <1>8, <2>2, <2>3 DEF Absorb, Top
<1>9. QED
  BY <1>6, <1>7, <1>8

LEMMA ReturnsRefs ==
  ASSUME IInv, RefInv, ReturnPlain \/ ReturnUnion \/ ReturnPartial \/ Unwind PROVE RefInv'
<1>1. /\ stack # << >> /\ Return /\ UNCHANGED <<module, alias_map, mentioned>>
      /\ stack \in Seq(CallSet)
  BY DEF ReturnPlain, ReturnUnion, ReturnPartial, Unwind, Complete, IInv, TypeOK
<1>2. Top \in CallSet
  BY <1>1, TopType
<1> DEFINE D == Settled(ReferenceGraph, alias_map)
<1>3. Top.refs \subseteq D /\ Top.last.refs \subseteq D
  BY <1>1, TopRefs
<1>4. ASSUME NEW v, Give(v), v.refs \subseteq D PROVE RefInv'
  BY <1>1, <1>4, RefsSame DEF Give
<1>5. ASSUME Fail PROVE RefInv'
  BY <1>1, <1>5, RefsSame DEF Fail
<1> HIDE DEF D
<1>6. CASE ReturnPlain
  <2>1. PICK tag : Give(Annotation(tag, Top.refs))
    BY <1>6 DEF ReturnPlain
  <2>2. Annotation(tag, Top.refs).refs = Top.refs
    BY DEF Annotation
  <2>3. QED
    BY <1>3, <1>4, <2>1, <2>2
<1>7. CASE ReturnUnion
  <2> DEFINE v == CASE Top.kept = 0 -> Annotation("void", {})
                    [] Top.kept = 1 -> Top.last
                    [] OTHER        -> Annotation("value", Top.refs)
  <2>1. /\ Annotation("void", {}) \in Ann /\ Annotation("value", Top.refs) \in Ann /\ Top.last \in Ann
        /\ Annotation("void", {}).refs = {} /\ Annotation("value", Top.refs).refs = Top.refs
    BY <1>2, AnnotationType DEF Annotation, CallSet, Tags
  <2>2. v \in Ann /\ v.refs \subseteq D
    <3>1. v = Annotation("void", {}) \/ v = Top.last \/ v = Annotation("value", Top.refs)
      OBVIOUS
    <3> HIDE DEF v
    <3>2. QED
      BY <1>3, <2>1, <3>1
  <2>3. Give([v EXCEPT !.nullable = Top.nullable])
    BY <1>7 DEF ReturnUnion
  <2> HIDE DEF v
  <2>4. [v EXCEPT !.nullable = Top.nullable].refs = v.refs
    BY <2>2 DEF Ann
  <2>5. QED
    BY <1>4, <2>2, <2>3, <2>4
<1>8. CASE ReturnPartial
  <2> DEFINE object == PartialOf(Top.last)
  <2>1. Top.last \in Ann
    BY <1>2 DEF CallSet
  <2>2. object # None => object.refs \subseteq D
    <3>1. CASE Top.last.tag = "alias"
      <4>1. Top.last.name \in Names
        BY <2>1, <3>1 DEF Ann
      <4>2. QED
        BY <3>1, <4>1 DEF PartialOf, RefInv, RefsWithin, D
    <3>2. CASE Top.last.tag # "alias"
      BY <1>3, <3>2 DEF PartialOf
    <3>3. QED
      BY <3>1, <3>2
  <2>3. Fail \/ (object # None /\ Give(Annotation("object", object.refs)))
    BY <1>8 DEF ReturnPartial
  <2>4. Annotation("object", object.refs).refs = object.refs
    BY DEF Annotation
  <2>5. QED
    BY <1>4, <1>5, <2>2, <2>3, <2>4
<1>9. CASE Unwind
  <2>1. Fail \/ Give(Annotation("value", {}))
    BY <1>9 DEF Unwind
  <2>2. Annotation("value", {}).refs = {}
    BY DEF Annotation
  <2>3. QED
    BY <1>4, <1>5, <2>1, <2>2
<1>10. QED
  BY <1>6, <1>7, <1>8, <1>9

(* An entry is made before the reference to it is given away.              *)
LEMMA EntryRefs ==
  ASSUME IInv, RefInv, ReturnInterface \/ ReturnAlias PROVE RefInv'
<1>1. /\ stack # << >> /\ stack' = Front(stack) /\ UNCHANGED <<module, mentioned>>
      /\ stack \in Seq(CallSet) /\ alias_map \in [Names -> Ann \cup {None}]
  BY DEF ReturnInterface, ReturnAlias, Complete, Return, IInv, TypeOK
<1>2. Top \in CallSet /\ Top.name \in Names /\ Top.last \in Ann
  <2>1. Top \in CallSet /\ Top.op \in {"alias", "interface"}
    BY <1>1, TopType DEF ReturnInterface, ReturnAlias
  <2>2. QED
    BY <2>1 DEF CallSet
<1> DEFINE D == Settled(ReferenceGraph, alias_map)
<1>3. Top.refs \subseteq D /\ Top.last.refs \subseteq D
  BY <1>1, TopRefs
<1>4. CallRefs(D, stack') /\ mentioned' \subseteq D
  <2>1. CallRefs(D, stack) /\ mentioned \subseteq D
    BY DEF RefInv, RefsWithin
  <2> HIDE DEF D
  <2>2. QED
    BY <1>1, <2>1, CallRefsKept
<1>5. ASSUME NEW e, e # None, e.refs \subseteq D, alias_map' = [alias_map EXCEPT ![Top.name] = e],
             Give(AliasOf(Top.name))
      PROVE  RefInv'
  <2>1. \A n \in Names : \/ alias_map'[n] = alias_map[n]
                         \/ alias_map'[n] # None /\ alias_map'[n].refs \subseteq D
    BY <1>1, <1>5
  <2>2. alias_map'[Top.name] # None
    BY <1>1, <1>2, <1>5
  <2>3. Top.name \in Settled(ReferenceGraph, alias_map')
    BY <1>2, <2>2 DEF Settled
  <2>4. mode' = "ret" => value'.refs \subseteq Settled(ReferenceGraph, alias_map')
    BY <1>5, <2>3 DEF Give, AliasOf
  <2>5. QED
    BY <1>1, <1>4, <2>1, <2>4, RefsStep
<1>6. ASSUME UNCHANGED alias_map, Fail \/ Give(Top.last) PROVE RefInv'
  <2>1. mode' = "ret" => value'.refs \subseteq Settled(ReferenceGraph, alias_map)
    BY <1>3, <1>6 DEF Fail, Give
  <2>2. QED
    BY <1>1, <1>6, <2>1, RefsSame DEF Return
<1>7. CASE ReturnInterface
  <2>1. Annotation("object", Top.refs) # None /\ Annotation("object", Top.refs).refs = Top.refs
    <3>1. Annotation("object", Top.refs) \in Ann
      BY <1>2, AnnotationType DEF CallSet, Tags
    <3>2. QED
      BY <3>1, NoneAssumption DEF Annotation
  <2>2. QED
    BY <1>3, <1>5, <1>7, <2>1 DEF ReturnInterface
<1>8. CASE ReturnAlias
  <2>1. Top.last # None
    BY <1>2, NoneAssumption
  <2>2. QED
    BY <1>3, <1>5, <1>6, <1>8, <2>1 DEF ReturnAlias
<1>9. QED
  BY <1>7, <1>8

LEMMA InitRefs == Init => RefInv
<1> SUFFICES ASSUME Init PROVE RefInv
  OBVIOUS
<1>1. CallRefs(Settled(ReferenceGraph, alias_map), stack)
  BY DEF Init, CallRefs
<1>2. QED
  BY <1>1 DEF Init, RefInv, RefsWithin

(* Only settled references are anywhere, at every moment.                  *)
LEMMA AlwaysRefs == Spec => []RefInv
<1>1. ASSUME IInv, ChainInv, RefInv, [Next]_vars PROVE RefInv'
  <2>1. CASE Step
    BY <1>1, <2>1, MemberRefs, EvalRefs, StepRefs, ReturnsRefs, EntryRefs DEF Step
  <2>2. CASE UNCHANGED vars
    BY <1>1, <2>2, GraphStays DEF RefInv, vars
  <2>3. QED
    BY <1>1, <2>1, <2>2 DEF Next, Terminated
<1>2. QED
  BY <1>1, InitRefs, Inductive, AlwaysChained, PTL DEF Spec

(* Whatever a module declares, a finished schema refers to an alias without*)
(* an entry only if the alias is on a cycle of declarations, also after    *)
(* errors that translate_array_type swallowed.                             *)
THEOREM OnlyCyclesAreUnresolved == Spec => []OnlyCyclesUnresolved
<1>1. RefInv => OnlyCyclesUnresolved
  <2> SUFFICES ASSUME RefInv, NEW n \in Referenced, alias_map[n] = None
               PROVE  OnCycle(ReferenceGraph, n)
    BY DEF OnlyCyclesUnresolved
  <2>1. Referenced \subseteq Settled(ReferenceGraph, alias_map)
    BY DEF Referenced, RefInv, RefsWithin
  <2>2. QED
    BY <2>1 DEF Settled
<1>2. QED
  BY <1>1, AlwaysRefs, PTL

-----------------------------------------------------------------------------
(* What a call comes to, if nothing is met that is being resolved and      *)
(* every alias has its entry: a relation between calls, at any point of    *)
(* theirs, and results.  It is the least one with one rule for each step   *)
(* of a call, so neither types nor references need be well-founded.        *)

(* What a call returns and what it enters in alias_map; no value is an     *)
(* error.                                                                  *)
Result(v, e) == [value |-> v, entry |-> e]
Results      == [value : Ann \cup {None}, entry : Ann \cup {None}]

DeclCall(d, n) == IF d[n].kind = "alias" THEN Call("alias", n, d[n].parts, << >>)
                                         ELSE Call("interface", n, d[n].parts, d[n].bases)
TypeCall(t)    == Call(t.op, None, t.args, << >>)
Origin(c)      == Call(c.op, c.name, c.args, c.bases)

(* The types that are translated by a call, and the values of the others.  *)
Calls(d, t) == \/ t.op \notin Atoms \cup {"event", "method"}
               \/ t.op = "ref" /\ d[t.name].kind = "alias"
               \/ t.op = "ref" /\ d[t.name].kind = "interface" /\ t.name \notin BuiltIns
CallFor(d, t) == IF t.op = "ref" THEN DeclCall(d, t.name) ELSE TypeCall(t)
Plain(d, t) ==
  CASE t.op = "prim"   -> Annotation("value", {})
    [] t.op = "buffer" -> Annotation("buffer", {})
    [] t.op = "void"   -> Annotation("void", {})
    [] t.op = "null"   -> [Annotation("void", {}) EXCEPT !.nullable = TRUE]
    [] t.op \in {"ref", "qualified"} /\ (t.name \in BuiltIns \/ (t.op = "ref" /\ d[t.name].kind = "enum"))
                       -> Annotation("value", {})
    [] OTHER           -> None

(* The part that a call is at.                                             *)
AtBase(c) == c.next <= Len(c.bases)
Finished(c) == c.next > Parts(c)
Base(c)   == c.bases[c.next]
Part(c)   == c.args[c.next - Len(c.bases)]
Skips(d, c) == IF AtBase(c) THEN d[Base(c)].kind \notin Named ELSE c.op = "union" /\ Nullish(Part(c))
Skipped(c)  == IF AtBase(c) THEN Moved(c) ELSE [Moved(c) EXCEPT !.nullable = TRUE]
PartCalls(d, c) == AtBase(c) \/ Calls(d, Part(c))
PartCall(d, c)  == IF AtBase(c) THEN DeclCall(d, Base(c)) ELSE CallFor(d, Part(c))

PartGives(d, P, c, v) == IF PartCalls(d, c) THEN \E r \in Results : <<PartCall(d, c), r>> \in P /\ v = r.value
                                            ELSE v = Plain(d, Part(c))

(* The results of a call that is left by an error, and of one that ends.   *)
Failed(c) == Result(IF c.op = "array" THEN Annotation("value", {}) ELSE None, None)
Union(c)  == CASE c.kept = 0 -> Annotation("void", {})
               [] c.kept = 1 -> c.last
               [] OTHER      -> Annotation("value", c.refs)
Returned(c) ==
  CASE c.op = "interface" -> Result(AliasOf(c.name), Annotation("object", c.refs))
    [] c.op = "alias"     -> IF c.last.tag = "object" THEN Result(AliasOf(c.name), c.last)
                                                      ELSE Result(c.last, None)
    [] c.op = "union"     -> Result([Union(c) EXCEPT !.nullable = c.nullable], None)
    [] OTHER              -> Result(Annotation(CASE c.op \in {"object", "inter"} -> "object"
                                                 [] c.op \in {"array", "dict"}   -> "value"
                                                 [] c.op \in {"fn", "method"}    -> "fn"
                                                 [] OTHER                        -> c.op, c.refs), None)

ObjectGives(d, P, v, e) ==
  IF v.tag = "alias" THEN \E r \in Results : <<DeclCall(d, v.name), r>> \in P /\ e = r.entry
  ELSE e = IF v.tag = "object" THEN v ELSE None
PartialGives(e) == Result(IF e # None /\ ~e.nullable THEN Annotation("object", e.refs) ELSE None, None)

Rule(d, P, c, r) ==
  \/ ~Finished(c) /\ Skips(d, c) /\ <<Skipped(c), r>> \in P
  \/ /\ ~Finished(c) /\ ~Skips(d, c)
     /\ \E v \in Ann \cup {None} :
          /\ PartGives(d, P, c, v)
          /\ IF v # None /\ Accepts(c, v) THEN <<Taken(c, v), r>> \in P ELSE r = Failed(c)
  \/ Finished(c) /\ c.op # "partial" /\ r = Returned(c)
  \/ /\ Finished(c) /\ c.op = "partial"
     /\ \E e \in Ann \cup {None} : ObjectGives(d, P, c.last, e) /\ r = PartialGives(e)

Closed(d, P) == \A c \in CallSet, r \in Results : Rule(d, P, c, r) => <<c, r>> \in P
ComesTo(d)   == {x \in CallSet \X Results : \A P \in SUBSET (CallSet \X Results) : Closed(d, P) => x \in P}

(* More premises, more conclusions.                                        *)
LEMMA RuleGrows ==
  ASSUME NEW d, NEW P, NEW Q, P \subseteq Q, NEW c, NEW r, Rule(d, P, c, r)
  PROVE  Rule(d, Q, c, r)
<1>1. \A v : PartGives(d, P, c, v) => PartGives(d, Q, c, v)
  BY DEF PartGives
<1>2. \A e : ObjectGives(d, P, c.last, e) => ObjectGives(d, Q, c.last, e)
  BY DEF ObjectGives
<1>3. QED
  BY <1>1, <1>2 DEF Rule

(* The relation obeys the rules, and nothing is in it but by a rule.       *)
LEMMA ComesToRules ==
  ASSUME NEW d, NEW c \in CallSet, NEW r \in Results
  PROVE  <<c, r>> \in ComesTo(d) <=> Rule(d, ComesTo(d), c, r)
<1> DEFINE L == ComesTo(d)
           All == CallSet \X Results
<1>1. L \in SUBSET All /\ \A P \in SUBSET All : Closed(d, P) => L \subseteq P
  BY DEF ComesTo
<1>2. Closed(d, L)
  <2> SUFFICES ASSUME NEW b \in CallSet, NEW q \in Results, Rule(d, L, b, q),
                      NEW P \in SUBSET All, Closed(d, P)
               PROVE  <<b, q>> \in P
    BY DEF Closed, ComesTo
  <2> HIDE DEF L
  <2>1. Rule(d, P, b, q)
    BY <1>1, RuleGrows
  <2>2. QED
    BY <2>1 DEF Closed
<1> DEFINE M == {x \in All : Rule(d, L, x[1], x[2])}
<1> HIDE DEF L
<1>3. M \subseteq L
  BY <1>2 DEF Closed
<1>4. Closed(d, M)
  <2> SUFFICES ASSUME NEW b \in CallSet, NEW q \in Results, Rule(d, M, b, q) PROVE <<b, q>> \in M
    BY DEF Closed
  <2>1. Rule(d, L, b, q)
    <3> HIDE DEF M
    <3>1. QED
      BY <1>3, RuleGrows
  <2>2. QED
    BY <2>1
<1>5. L \subseteq M
  <2>1. M \in SUBSET All
    OBVIOUS
  <2> HIDE DEF M
  <2>2. QED
    BY <1>1, <1>4, <2>1
<1>6. <<c, r>> \in M <=> Rule(d, L, c, r)
  OBVIOUS
<1>7. <<c, r>> \in L <=> Rule(d, L, c, r)
  <2> HIDE DEF M
  <2>1. QED
    BY <1>3, <1>5, <1>6
<1>8. QED
  BY <1>7 DEF L

(* A call comes to one result.                                             *)
LEMMA ComesToOne ==
  ASSUME NEW d, NEW c, NEW r, NEW q, <<c, r>> \in ComesTo(d), <<c, q>> \in ComesTo(d)
  PROVE  r = q
<1> DEFINE L   == ComesTo(d)
           All == CallSet \X Results
           D   == {x \in L : \A y \in L : y[1] = x[1] => y[2] = x[2]}
<1>1. L \in SUBSET All /\ \A P \in SUBSET All : Closed(d, P) => L \subseteq P
  BY DEF ComesTo
<1>2. \A b \in CallSet, p \in Results : <<b, p>> \in L <=> Rule(d, L, b, p)
  BY ComesToRules
<1> HIDE DEF L
<1>3. D \subseteq L
  OBVIOUS
<1>4. \A b, p, o : <<b, p>> \in D /\ <<b, o>> \in L => o = p
  OBVIOUS
<1> HIDE DEF D
<1>5. Closed(d, D)
  <2> SUFFICES ASSUME NEW b \in CallSet, NEW p \in Results, Rule(d, D, b, p) PROVE <<b, p>> \in D
    BY DEF Closed
  <2>1. <<b, p>> \in L
    BY <1>2, <1>3, RuleGrows
  <2> SUFFICES ASSUME NEW o, <<b, o>> \in L PROVE o = p
    <3>1. \A y \in L : \E z \in CallSet, w \in Results : y = <<z, w>>
      BY <1>1
    <3>2. QED
      BY <2>1, <3>1 DEF D
  <2>2. o \in Results /\ Rule(d, L, b, o)
    <3>1. o \in Results
      BY <1>1
    <3>2. QED
      BY <1>2, <3>1
  <2>3. \A v, w : PartGives(d, D, b, v) /\ PartGives(d, L, b, w) => v = w
    BY <1>4 DEF PartGives
  <2>4. \A v, w : ObjectGives(d, D, b.last, v) /\ ObjectGives(d, L, b.last, w) => v = w
    BY <1>4 DEF ObjectGives
  <2>5. CASE ~Finished(b) /\ Skips(d, b)
    BY <1>4, <2>2, <2>5 DEF Rule
  <2>6. CASE ~Finished(b) /\ ~Skips(d, b)
    <3>1. PICK v \in Ann \cup {None} :
            /\ PartGives(d, D, b, v)
            /\ IF v # None /\ Accepts(b, v) THEN <<Taken(b, v), p>> \in D ELSE p = Failed(b)
      BY <2>6 DEF Rule
    <3>2. PICK w \in Ann \cup {None} :
            /\ PartGives(d, L, b, w)
            /\ IF w # None /\ Accepts(b, w) THEN <<Taken(b, w), o>> \in L ELSE o = Failed(b)
      BY <2>2, <2>6 DEF Rule
    <3>3. v = w
      BY <2>3, <3>1, <3>2
    <3>4. QED
      BY <1>4, <3>1, <3>2, <3>3
  <2>7. CASE Finished(b) /\ b.op # "partial"
    BY <2>2, <2>7 DEF Rule
  <2>8. CASE Finished(b) /\ b.op = "partial"
    <3>1. PICK v \in Ann \cup {None} : ObjectGives(d, D, b.last, v) /\ p = PartialGives(v)
      BY <2>8 DEF Rule
    <3>2. PICK w \in Ann \cup {None} : ObjectGives(d, L, b.last, w) /\ o = PartialGives(w)
      BY <2>2, <2>8 DEF Rule
    <3>3. QED
      BY <2>4, <3>1, <3>2
  <2>9. QED
    BY <2>5, <2>6, <2>7, <2>8
<1>6. L \subseteq D
  BY <1>1, <1>3, <1>5
<1>7. <<c, r>> \in D /\ <<c, q>> \in L
  BY <1>6 DEF L
<1>8. QED
  BY <1>4, <1>7

(* The names that lead to no cycle: nothing they lead to does.             *)
Calm(G)     == {n \in Names : ~ReachesCycle(G, n)}
CalmCall(K, c) == CallNames(c) \subseteq K /\ (c.op \in Named => c.name \in K)

(* What such a name leads to is such a name.                               *)
LEMMA CalmBelow ==
  ASSUME NEW G, G.node = Names, NEW n \in Calm(G)
  PROVE  /\ n \in Names /\ ~OnCycle(G, n)
         /\ Below(G, n) \subseteq Calm(G) /\ Successors(G, n) \subseteq Calm(G)
<1>1. n \in Names /\ \A m \in {n} \cup Below(G, n) : ~OnCycle(G, m)
  BY DEF Calm, ReachesCycle
<1>2. /\ Below(G, n) \subseteq Names /\ Successors(G, n) \subseteq Below(G, n)
      /\ \A m \in Below(G, n) : Below(G, m) \subseteq Below(G, n)
  BY <1>1, BelowClosed
<1>3. ASSUME NEW m \in Below(G, n) PROVE m \in Calm(G)
  BY <1>1, <1>2, <1>3 DEF Calm, ReachesCycle
<1>4. QED
  BY <1>1, <1>2, <1>3

-----------------------------------------------------------------------------
(* What each call on the stack has still to come to is what it comes to    *)
(* from its start, for the calls that lead to no cycle.                    *)

(* Where the innermost call is.                                            *)
AtPart(d, c) == ~Finished(c) /\ ~Skips(d, c)

(* Every call but the outermost is the call for the part that the one      *)
(* below it is at.                                                         *)
Linked(d, s) ==
  /\ \A i \in DOMAIN s : s[i].op \in Named => Origin(s[i]) = DeclCall(d, s[i].name)
  /\ \A i \in DOMAIN s : i + 1 \in DOMAIN s =>
       AtPart(d, s[i]) /\ PartCalls(d, s[i]) /\ PartCall(d, s[i]) = Origin(s[i + 1])

Promise(d, c) == \A r \in Results : <<c, r>> \in ComesTo(d) => <<Origin(c), r>> \in ComesTo(d)
Kept(d, K, s) == \A i \in DOMAIN s : CalmCall(K, s[i]) => Promise(d, s[i])

(* An alias annotation refers to the alias.                                *)
OwnRef(v)   == v.tag = "alias" => v.name \in v.refs
CalmRefs(K, s) == \A i \in DOMAIN s : /\ OwnRef(s[i].last)
                                      /\ CalmCall(K, s[i]) => s[i].refs \cup s[i].last.refs \subseteq K

(* What the innermost call is given is what its part comes to.             *)
Given(d, K, c, md, t, v) ==
  /\ md = "eval" => AtPart(d, c) /\ ~AtBase(c) /\ t = Part(c)
  /\ md = "ret" /\ CalmCall(K, c) => /\ AtPart(d, c) /\ PartGives(d, ComesTo(d), c, v)
                                     /\ v.refs \subseteq K
  /\ md = "err" /\ CalmCall(K, c) => <<c, Failed(c)>> \in ComesTo(d)

(* And what has been entered is what the name's call enters.               *)
Entered(d, K, map) ==
  \A n \in K : map[n] # None =>
    /\ \E r \in Results : <<DeclCall(d, n), r>> \in ComesTo(d) /\ r.entry = map[n]
    /\ map[n].refs \subseteq K

Foretold(d, K, s, md, t, v, map) ==
  /\ Linked(d, s) /\ Kept(d, K, s) /\ CalmRefs(K, s) /\ Entered(d, K, map)
  /\ s # << >> => Given(d, K, s[Len(s)], md, t, v)
  /\ md = "ret" => OwnRef(v)

EntryInv == Foretold(module.decls, Calm(ReferenceGraph), stack, mode, focus, value, alias_map)

-----------------------------------------------------------------------------
(* A call that is pushed, one that goes on, and one that returns.          *)
LEMMA LinkedPush ==
  ASSUME NEW d, NEW s \in Seq(CallSet), NEW c, Linked(d, s),
         c.op \in Named => Origin(c) = DeclCall(d, c.name),
         s # << >> => LET b == s[Len(s)] IN AtPart(d, b) /\ PartCalls(d, b) /\ PartCall(d, b) = Origin(c)
  PROVE  Linked(d, Append(s, c))
<1> DEFINE t == Append(s, c)
           n == Len(s)
<1>1. /\ n \in Nat /\ DOMAIN s = 1..n /\ DOMAIN t = 1..(n + 1)
      /\ \A i \in DOMAIN s : t[i] = s[i]
      /\ t[n + 1] = c /\ (n # 0 => s # << >> /\ n \in DOMAIN s)
  OBVIOUS
<1>2. \A i \in DOMAIN t : i \in DOMAIN s \/ i = n + 1
  BY <1>1
<1>3. \A i \in DOMAIN t : i + 1 \in DOMAIN t => (i + 1 \in DOMAIN s /\ i \in DOMAIN s) \/ (i = n /\ n # 0)
  BY <1>1
<1> HIDE DEF t, n
<1>4. \A i \in DOMAIN t : t[i].op \in Named => Origin(t[i]) = DeclCall(d, t[i].name)
  BY <1>1, <1>2 DEF Linked
<1>5. ASSUME NEW i \in DOMAIN t, i + 1 \in DOMAIN t
      PROVE  AtPart(d, t[i]) /\ PartCalls(d, t[i]) /\ PartCall(d, t[i]) = Origin(t[i + 1])
  <2>1. CASE i + 1 \in DOMAIN s /\ i \in DOMAIN s
    BY <1>1, <2>1 DEF Linked
  <2>2. CASE i = n /\ n # 0
    BY <1>1, <2>2 DEF n
  <2>3. QED
    BY <1>3, <1>5, <2>1, <2>2
<1>6. QED
  BY <1>4, <1>5 DEF Linked, t

(* The call that goes on is still the one it was.                          *)
LEMMA LinkedMove ==
  ASSUME NEW d, NEW s \in Seq(CallSet), s # << >>, Linked(d, s), NEW c,
         c.op = s[Len(s)].op, c.name = s[Len(s)].name, Origin(c) = Origin(s[Len(s)])
  PROVE  Linked(d, [s EXCEPT ![Len(s)] = c])
<1> DEFINE t == [s EXCEPT ![Len(s)] = c]
           n == Len(s)
<1>1. /\ n \in Nat \ {0} /\ DOMAIN s = 1..n /\ DOMAIN t = 1..n
      /\ \A i \in DOMAIN s : i # n => t[i] = s[i]
      /\ t[n] = c
  OBVIOUS
<1>2. \A i \in DOMAIN t : /\ t[i].op = s[i].op /\ t[i].name = s[i].name /\ Origin(t[i]) = Origin(s[i])
                          /\ i + 1 \in DOMAIN t => i # n
  BY <1>1
<1> HIDE DEF t, n
<1>3. QED
  BY <1>1, <1>2 DEF Linked, t

(* The call that is uncovered is at the part that has been translated.     *)
LEMMA LinkedPop ==
  ASSUME NEW d, NEW s \in Seq(CallSet), s # << >>, Linked(d, s)
  PROVE  /\ Linked(d, Front(s))
         /\ Front(s) # << >> =>
              LET b == Front(s)[Len(Front(s))]
              IN  AtPart(d, b) /\ PartCalls(d, b) /\ PartCall(d, b) = Origin(s[Len(s)])
<1> DEFINE t == Front(s)
           n == Len(s)
<1>1. /\ n \in Nat \ {0} /\ DOMAIN s = 1..n /\ DOMAIN t = 1..(n - 1) /\ Len(t) = n - 1
      /\ \A i \in DOMAIN t : t[i] = s[i]
      /\ t \in Seq(CallSet)
  <2>1. /\ n \in Nat \ {0} /\ DOMAIN s = 1..n /\ DOMAIN t = 1..(n - 1)
        /\ \A i \in DOMAIN t : t[i] = s[i]
    BY DEF Front
  <2>2. t \in Seq(CallSet)
    BY DEF Front
  <2>3. \A i \in 1..(n - 1) : s[i] \in CallSet
    OBVIOUS
  <2>4. Len(SubSeq(s, 1, n - 1)) = IF 1 <= n - 1 THEN n - 1 - 1 + 1 ELSE 0
    BY <2>3, SubSeqProperties
  <2>5. Len(t) = IF 1 <= n - 1 THEN n - 1 - 1 + 1 ELSE 0
    BY <2>4 DEF Front
  <2>6. n \in Nat \ {0}
    OBVIOUS
  <2> HIDE DEF n, t
  <2>7. Len(t) = n - 1
    BY <2>5, <2>6
  <2>8. QED
    BY <2>1, <2>2, <2>7
<1> HIDE DEF t
<1>2. \A i \in DOMAIN t : i \in DOMAIN s /\ (i + 1 \in DOMAIN t => i + 1 \in DOMAIN s)
  BY <1>1
<1>3. Linked(d, t)
  <2> HIDE DEF n
  <2>1. QED
    BY <1>1, <1>2 DEF Linked
<1>4. ASSUME t # << >>
      PROVE  AtPart(d, t[Len(t)]) /\ PartCalls(d, t[Len(t)]) /\ PartCall(d, t[Len(t)]) = Origin(s[n])
  <2>1. n # 1
    BY <1>1, <1>4
  <2>2. n - 1 \in DOMAIN s /\ n - 1 \in DOMAIN t /\ (n - 1) + 1 = n /\ n \in DOMAIN s
    BY <1>1, <2>1
  <2> HIDE DEF n
  <2>3. QED
    BY <1>1, <2>2 DEF Linked
<1>5. QED
  BY <1>3, <1>4 DEF t

(* A property of each call on the stack.                                   *)
LEMMA EachCall ==
  ASSUME NEW s \in Seq(CallSet), NEW T, \A i \in DOMAIN s : s[i] \in T
  PROVE  /\ \A c \in T : \A i \in DOMAIN Append(s, c) : Append(s, c)[i] \in T
         /\ s # << >> => /\ \A i \in DOMAIN Front(s) : Front(s)[i] \in T
                         /\ \A c \in T : \A i \in DOMAIN s : [s EXCEPT ![Len(s)] = c][i] \in T
<1>1. ASSUME NEW c \in T, NEW i \in DOMAIN Append(s, c) PROVE Append(s, c)[i] \in T
  <2>1. i \in 1..(Len(s) + 1)
    OBVIOUS
  <2>2. CASE i = Len(s) + 1
    BY <2>2
  <2>3. CASE i # Len(s) + 1
    <3>1. i \in DOMAIN s
      BY <2>1, <2>3
    <3>2. Append(s, c)[i] = s[i]
      BY <3>1
    <3>3. QED
      BY <3>1, <3>2
  <2>4. QED
    BY <2>2, <2>3
<1>2. ASSUME s # << >> PROVE \A i \in DOMAIN Front(s) : Front(s)[i] \in T
  <2>1. DOMAIN Front(s) \subseteq DOMAIN s /\ \A i \in DOMAIN Front(s) : Front(s)[i] = s[i]
    BY <1>2 DEF Front
  <2>2. QED
    BY <2>1
<1>3. ASSUME s # << >>, NEW c \in T, NEW i \in DOMAIN s PROVE [s EXCEPT ![Len(s)] = c][i] \in T
  OBVIOUS
<1>4. QED
  BY <1>1, <1>2, <1>3

(* Where a call is does not matter for what it leads to.                   *)
LEMMA CalmOrigin ==
  ASSUME NEW K, NEW c, NEW b, Origin(b) = Origin(c)
  PROVE  CalmCall(K, b) <=> CalmCall(K, c)
<1>1. b.op = c.op /\ b.name = c.name /\ b.args = c.args /\ b.bases = c.bases
  <2>1. \A x : /\ Origin(x).op = x.op /\ Origin(x).name = x.name
               /\ Origin(x).args = x.args /\ Origin(x).bases = x.bases
    BY DEF Origin, Call
  <2>2. QED
    BY <2>1
<1>2. QED
  BY <1>1 DEF CalmCall, CallNames

(* A new call is at its start.                                             *)
LEMMA OriginOfCall ==
  ASSUME NEW op, NEW name, NEW args, NEW bases
  PROVE  Origin(Call(op, name, args, bases)) = Call(op, name, args, bases)
BY DEF Origin, Call

(* The call for a declaration, or for a part, that leads to no cycle.      *)
LEMMA CalmDecl ==
  ASSUME IInv, NEW n \in Calm(ReferenceGraph)
  PROVE  CalmCall(Calm(ReferenceGraph), DeclCall(module.decls, n))
<1>1. Successors(ReferenceGraph, n) \subseteq Calm(ReferenceGraph) /\ n \in Names
  BY CalmBelow, GraphStays
<1>2. CallNames(DeclCall(module.decls, n)) \subseteq Successors(ReferenceGraph, n)
  BY <1>1, ResolvedNames DEF DeclCall
<1>3. DeclCall(module.decls, n).name = n
  BY DEF DeclCall, Call
<1>4. QED
  BY <1>1, <1>2, <1>3 DEF CalmCall

(* The same of the part that a call is at.                                 *)
LEMMA CalmPart ==
  ASSUME IInv, NEW c \in CallSet, CalmCall(Calm(ReferenceGraph), c), ~Finished(c)
  PROVE  /\ AtBase(c) => Base(c) \in Calm(ReferenceGraph)
         /\ ~AtBase(c) => Part(c) \in Types /\ NamesIn[Part(c)] \cap Names \subseteq Calm(ReferenceGraph)
         /\ PartCalls(module.decls, c) => CalmCall(Calm(ReferenceGraph), PartCall(module.decls, c))
<1> DEFINE K == Calm(ReferenceGraph)
           d == module.decls
<1>1. c.next \in Nat \ {0} /\ Len(c.bases) \in Nat /\ Len(c.args) \in Nat
  BY DEF CallSet
<1>2. c.next <= Parts(c)
  <2>1. \A x, y, z \in Nat : ~(x > y + z) => x <= y + z
    OBVIOUS
  <2>2. QED
    BY <1>1, <2>1 DEF Finished, Parts
<1>3. CallNames(c) \subseteq K
  BY DEF CalmCall
<1>4. AtBase(c) => Base(c) \in K
  BY <1>2, <1>3, NextPart DEF AtBase, Base
<1>5. ~AtBase(c) => Part(c) \in Types /\ NamesIn[Part(c)] \cap Names \subseteq K
  <2>1. ~AtBase(c) => c.next > Len(c.bases)
    BY <1>1 DEF AtBase
  <2>2. QED
    BY <1>2, <1>3, <2>1, NextPart DEF Part
<1> HIDE DEF K
<1>6. ASSUME PartCalls(d, c) PROVE CalmCall(K, PartCall(d, c))
  <2>1. CASE AtBase(c)
    BY <1>4, <2>1, CalmDecl DEF PartCall, K
  <2>2. CASE ~AtBase(c) /\ Part(c).op = "ref"
    <3>1. Part(c).name \in Names /\ Part(c).name \in NamesIn[Part(c)]
      BY <1>5, <2>2, NamesInDef, TypesAssumption
    <3>2. QED
      BY <1>5, <2>2, <3>1, CalmDecl DEF PartCall, CallFor, K
  <2>3. CASE ~AtBase(c) /\ Part(c).op # "ref"
    <3>1. PartCall(d, c) = TypeCall(Part(c)) /\ Part(c) \in Types
      BY <1>5, <2>3 DEF PartCall, CallFor
    <3>2. CallNames(TypeCall(Part(c))) \subseteq K
      BY <1>5, <2>3, PartNames DEF TypeCall
    <3>3. TypeCall(Part(c)).op = Part(c).op /\ Part(c).op \in Ops
      BY <3>1, TypesAssumption DEF TypeCall, Call
    <3>4. Part(c).op \notin Named
      BY <3>3 DEF Named, Ops, Atoms, Unary, Many
    <3>5. QED
      BY <3>1, <3>2, <3>3, <3>4 DEF CalmCall
  <2>4. QED
    BY <2>1, <2>2, <2>3
<1>7. QED
  BY <1>4, <1>5, <1>6 DEF K

-----------------------------------------------------------------------------
(* The parts of the invariant at a step of each sort.                      *)
LEMMA ForetoldParts ==
  ASSUME EntryInv
  PROVE  /\ Linked(module.decls, stack) /\ Kept(module.decls, Calm(ReferenceGraph), stack)
         /\ CalmRefs(Calm(ReferenceGraph), stack)
         /\ Entered(module.decls, Calm(ReferenceGraph), alias_map)
         /\ stack # << >> => Given(module.decls, Calm(ReferenceGraph), Top, mode, focus, value)
         /\ mode = "ret" => OwnRef(value)
BY DEF EntryInv, Foretold, Top

(* The module and its graph of references are never replaced.              *)
LEMMA ForetoldStays ==
  ASSUME UNCHANGED module,
         Foretold(module.decls, Calm(ReferenceGraph), stack', mode', focus', value', alias_map')
  PROVE  EntryInv'
BY GraphStays DEF EntryInv

(* Where the stack stays what it was.                                      *)
LEMMA StayForetold ==
  ASSUME EntryInv, UNCHANGED <<module, stack, alias_map>>,
         stack # << >> => Given(module.decls, Calm(ReferenceGraph), Top, mode', focus', value'),
         mode' = "ret" => OwnRef(value')
  PROVE  EntryInv'
<1>1. Foretold(module.decls, Calm(ReferenceGraph), stack', mode', focus', value', alias_map')
  BY ForetoldParts DEF Foretold, Top
<1>2. QED
  BY <1>1, ForetoldStays

(* A new call has all its way before it.                                   *)
LEMMA PushForetold ==
  ASSUME IInv, EntryInv, UNCHANGED <<module, alias_map>>,
         NEW op, NEW name, NEW args, NEW bases, Call(op, name, args, bases) \in CallSet,
         NEW names, Push(Call(op, name, args, bases), names),
         op \in Named => Call(op, name, args, bases) = DeclCall(module.decls, name),
         stack # << >> => /\ AtPart(module.decls, Top) /\ PartCalls(module.decls, Top)
                          /\ PartCall(module.decls, Top) = Call(op, name, args, bases)
  PROVE  EntryInv'
<1> DEFINE c == Call(op, name, args, bases)
           d == module.decls
           K == Calm(ReferenceGraph)
<1>1. /\ c \in CallSet /\ Origin(c) = c /\ c.op = op /\ c.name = name
      /\ c.refs = {} /\ c.last.refs = {} /\ OwnRef(c.last)
  BY OriginOfCall DEF Call, Annotation, OwnRef
<1>2. stack \in Seq(CallSet)
  BY DEF IInv, TypeOK
<1>3. CASE Advance /\ stack' = Append(stack, c)
  <2>1. Linked(d, Append(stack, c))
    <3>1. c.op \in Named => Origin(c) = DeclCall(d, c.name)
      BY <1>1
    <3>2. stack # << >> => LET b == stack[Len(stack)]
                           IN AtPart(d, b) /\ PartCalls(d, b) /\ PartCall(d, b) = Origin(c)
      BY <1>1 DEF Top
    <3> HIDE DEF c, d
    <3>3. Linked(d, stack)
      BY ForetoldParts DEF d
    <3>4. QED
      BY <1>2, <3>1, <3>2, <3>3, LinkedPush
  <2> HIDE DEF c, d, K
  <2> DEFINE T == {b \in CallSet : /\ OwnRef(b.last)
                                   /\ CalmCall(K, b) => b.refs \cup b.last.refs \subseteq K /\ Promise(d, b)}
  <2>2. \A i \in DOMAIN stack : stack[i] \in T
    BY <1>2, ForetoldParts DEF Kept, CalmRefs, d, K
  <2>3. c \in T
    BY <1>1 DEF Promise
  <2>4. \A i \in DOMAIN stack' : stack'[i] \in T
    <3> HIDE DEF T
    <3>1. QED
      BY <1>2, <1>3, <2>2, <2>3, EachCall
  <2>5. Kept(d, K, stack') /\ CalmRefs(K, stack')
    BY <2>4 DEF Kept, CalmRefs
  <2>6. mode' = "step"
    BY <1>3 DEF Advance
  <2>7. Foretold(d, K, stack', mode', focus', value', alias_map')
    BY <1>3, <2>1, <2>5, <2>6, ForetoldParts DEF Foretold, Given, d, K
  <2>8. QED
    BY <2>7, ForetoldStays DEF d, K
<1>4. CASE mode' = "overflow" /\ UNCHANGED stack
  BY <1>4, StayForetold DEF Given
<1>5. QED
  BY <1>3, <1>4 DEF Push

(* A call that goes on by a rule still comes to what it came to.           *)
LEMMA MoveForetold ==
  ASSUME IInv, EntryInv, UNCHANGED <<module, alias_map>>, stack # << >>, Advance, NEW c \in CallSet,
         stack' = [stack EXCEPT ![Len(stack)] = c],
         c.op = Top.op, c.name = Top.name, c.args = Top.args, c.bases = Top.bases, OwnRef(c.last),
         CalmCall(Calm(ReferenceGraph), Top) =>
           /\ c.refs \cup c.last.refs \subseteq Calm(ReferenceGraph)
           /\ \A r \in Results : <<c, r>> \in ComesTo(module.decls) => <<Top, r>> \in ComesTo(module.decls)
  PROVE  EntryInv'
<1> DEFINE d == module.decls
           K == Calm(ReferenceGraph)
<1>1. stack \in Seq(CallSet) /\ Len(stack) \in DOMAIN stack /\ Top = stack[Len(stack)]
  BY DEF IInv, TypeOK, Top
<1>2. Origin(c) = Origin(Top)
  BY DEF Origin
<1>3. Linked(d, stack')
  <2>1. Linked(d, stack)
    BY ForetoldParts
  <2> HIDE DEF d
  <2>2. QED
    BY <1>1, <1>2, <2>1, LinkedMove
<1> DEFINE T == {b \in CallSet : /\ OwnRef(b.last)
                                 /\ CalmCall(K, b) => b.refs \cup b.last.refs \subseteq K /\ Promise(d, b)}
<1>4. \A i \in DOMAIN stack : stack[i] \in T
  BY <1>1, ForetoldParts DEF Kept, CalmRefs
<1>5. c \in T
  <2>1. CalmCall(K, c) => CalmCall(K, Top) /\ Promise(d, Top)
    BY <1>1, <1>2, <1>4, CalmOrigin
  <2>2. CalmCall(K, c) => Promise(d, c)
    BY <1>2, <2>1 DEF Promise
  <2> HIDE DEF d
  <2>3. QED
    BY <2>1, <2>2
<1>6. DOMAIN stack' = DOMAIN stack /\ \A i \in DOMAIN stack' : stack'[i] \in T
  <2> HIDE DEF T
  <2>1. QED
    BY <1>1, <1>4, <1>5, EachCall
<1>7. Kept(d, K, stack') /\ CalmRefs(K, stack')
  BY <1>6 DEF Kept, CalmRefs
<1>8. mode' = "step"
  BY DEF Advance
<1>9. Foretold(d, K, stack', mode', focus', value', alias_map')
  BY <1>3, <1>7, <1>8, ForetoldParts DEF Foretold, Given
<1>10. QED
  BY <1>9, ForetoldStays

(* A call that returns gives what it came to, hence what its part does.    *)
LEMMA ReturnForetold ==
  ASSUME IInv, EntryInv, UNCHANGED module, stack # << >>, Return, NEW r \in Results,
         mode' \in {"ret", "err"}, mode' = "ret" => OwnRef(value') /\ value' \in Ann,
         CalmCall(Calm(ReferenceGraph), Top) =>
           /\ <<Top, r>> \in ComesTo(module.decls)
           /\ mode' = "ret" => value' = r.value /\ value'.refs \subseteq Calm(ReferenceGraph)
           /\ mode' = "err" => r.value = None,
         Entered(module.decls, Calm(ReferenceGraph), alias_map')
  PROVE  EntryInv'
<1> DEFINE d == module.decls
           K == Calm(ReferenceGraph)
<1>1. /\ stack \in Seq(CallSet) /\ Len(stack) \in DOMAIN stack /\ Top = stack[Len(stack)] /\ Top \in CallSet
      /\ stack' = Front(stack) /\ stack' \in Seq(CallSet)
  BY TopType DEF IInv, TypeOK, Return
<1> DEFINE b == stack'[Len(stack')]
<1>2. /\ Linked(d, stack')
      /\ stack' # << >> => AtPart(d, b) /\ PartCalls(d, b) /\ PartCall(d, b) = Origin(Top)
  <2>1. Linked(d, stack)
    BY ForetoldParts
  <2> HIDE DEF d
  <2>2. QED
    BY <1>1, <2>1, LinkedPop
<1> DEFINE T == {x \in CallSet : /\ OwnRef(x.last)
                                 /\ CalmCall(K, x) => x.refs \cup x.last.refs \subseteq K /\ Promise(d, x)}
<1>3. \A i \in DOMAIN stack : stack[i] \in T
  BY <1>1, ForetoldParts DEF Kept, CalmRefs
<1>4. \A i \in DOMAIN stack' : stack'[i] \in T
  <2> HIDE DEF T
  <2>1. QED
    BY <1>1, <1>3, EachCall
<1>5. Kept(d, K, stack') /\ CalmRefs(K, stack')
  BY <1>4 DEF Kept, CalmRefs
<1>6. ASSUME stack' # << >> PROVE Given(d, K, b, mode', focus', value')
  <2> SUFFICES ASSUME CalmCall(K, b)
               PROVE  /\ mode' = "ret" => /\ AtPart(d, b) /\ PartGives(d, ComesTo(d), b, value')
                                          /\ value'.refs \subseteq K
                      /\ mode' = "err" => <<b, Failed(b)>> \in ComesTo(d)
    BY DEF Given
  <2>1. b \in CallSet /\ ~Finished(b)
    BY <1>1, <1>2, <1>6 DEF AtPart
  <2>2. CalmCall(K, Top)
    <3>1. CalmCall(K, Origin(Top))
      BY <1>2, <1>6, <2>1, CalmPart
    <3>2. Origin(Origin(Top)) = Origin(Top)
      BY OriginOfCall DEF Origin
    <3>3. QED
      BY <3>1, <3>2, CalmOrigin
  <2>3. <<Origin(Top), r>> \in ComesTo(d)
    BY <1>1, <1>3, <2>2 DEF Promise
  <2>4. PartGives(d, ComesTo(d), b, r.value)
    <3> HIDE DEF b, d
    <3>1. QED
      BY <1>2, <1>6, <2>3 DEF PartGives
  <2>5. CASE mode' = "ret"
    BY <1>2, <1>6, <2>2, <2>4, <2>5
  <2>6. CASE mode' = "err"
    <3>1. PartGives(d, ComesTo(d), b, None)
      BY <2>2, <2>4, <2>6
    <3> HIDE DEF b, d
    <3>2. Rule(d, ComesTo(d), b, Failed(b))
      BY <1>2, <1>6, <3>1 DEF Rule, AtPart
    <3>3. Failed(b) \in Results
      BY AnnotationType DEF Failed, Result, Results, Tags
    <3>4. QED
      BY <2>1, <2>6, <3>2, <3>3, ComesToRules
  <2>7. QED
    BY <2>5, <2>6
<1>7. Foretold(d, K, stack', mode', focus', value', alias_map')
  BY <1>2, <1>5, <1>6 DEF Foretold
<1>8. QED
  BY <1>7, ForetoldStays

(* What leads to no cycle and is met now is not being resolved.            *)
LEMMA NotMet ==
  ASSUME IInv, NEW n \in Calm(ReferenceGraph), Beneath(ReferenceGraph, stack, {n})
  PROVE  n \notin resolving_aliases
<1> SUFFICES ASSUME n \in resolving_aliases PROVE FALSE
  OBVIOUS
<1>1. PICK i \in DOMAIN stack : stack[i].op = "alias" /\ stack[i].name = n
  BY DEF IInv, ResolvingOnStack, AliasCalls
<1>2. n \in Below(ReferenceGraph, n)
  BY <1>1 DEF Beneath, Named
<1>3. ~OnCycle(ReferenceGraph, n)
  BY CalmBelow, GraphStays
<1>4. QED
  BY <1>2, <1>3 DEF OnCycle

(* So it is with a reference in a call that leads to no cycle.             *)
LEMMA CalmFocus ==
  ASSUME IInv, ChainInv, EntryInv, mode = "eval", stack # << >>, CalmCall(Calm(ReferenceGraph), Top),
         focus.op = "ref"
  PROVE  focus.name \in Calm(ReferenceGraph) /\ focus.name \notin resolving_aliases
<1>1. focus \in Types /\ Top \in CallSet /\ focus.name \in Names
  <2>1. focus \in Types /\ stack \in Seq(CallSet)
    BY DEF IInv, TypeOK
  <2>2. QED
    BY <2>1, TopType, TypesAssumption
<1>2. focus = Part(Top) /\ ~Finished(Top) /\ ~AtBase(Top)
  BY ForetoldParts DEF Given, AtPart
<1>3. NamesIn[focus] \cap Names \subseteq Calm(ReferenceGraph)
  BY <1>1, <1>2, CalmPart
<1>4. focus.name \in NamesIn[focus]
  BY <1>1, NamesInDef
<1>5. Beneath(ReferenceGraph, stack, {focus.name})
  BY <1>1, <1>4 DEF ChainInv, Chained, Beneath
<1>6. QED
  BY <1>1, <1>3, <1>4, <1>5, NotMet

(* Every step keeps the invariant: one between members,                       *)
LEMMA MemberForetold ==
  ASSUME IInv, ChainInv, EntryInv, NextMember \/ Finish \/ TakeMember \/ Reject PROVE EntryInv'
<1>1. stack = << >> /\ UNCHANGED <<module, stack, alias_map>> /\ mode' # "ret"
  BY DEF NextMember, Finish, TakeMember, Reject, ChainInv, Chained, Eval, Fail
<1>2. QED
  BY <1>1, StayForetold

(* A type that is translated without a call.                               *)
LEMMA PlainForetold ==
  ASSUME EntryInv, mode = "eval", UNCHANGED <<module, stack, alias_map>>, mode' \in {"ret", "err"},
         mode' = "ret" => OwnRef(value'),
         stack # << >> /\ CalmCall(Calm(ReferenceGraph), Top) =>
           /\ ~Calls(module.decls, focus)
           /\ mode' = "ret" => value' = Plain(module.decls, focus) /\ value'.refs = {}
           /\ mode' = "err" => Plain(module.decls, focus) = None,
         stack # << >> => Top \in CallSet
  PROVE  EntryInv'
<1> DEFINE d == module.decls
           K == Calm(ReferenceGraph)
<1> SUFFICES ASSUME stack # << >>, CalmCall(K, Top)
             PROVE  /\ mode' = "ret" => /\ AtPart(d, Top) /\ PartGives(d, ComesTo(d), Top, value')
                                        /\ value'.refs \subseteq K
                    /\ mode' = "err" => <<Top, Failed(Top)>> \in ComesTo(d)
  BY StayForetold DEF Given
<1>1. AtPart(d, Top) /\ ~AtBase(Top) /\ focus = Part(Top)
  BY ForetoldParts DEF Given
<1>2. PartGives(d, ComesTo(d), Top, Plain(d, focus))
  BY <1>1 DEF PartGives, PartCalls
<1>3. CASE mode' = "ret"
  BY <1>1, <1>2, <1>3
<1>4. CASE mode' = "err"
  <2>1. PartGives(d, ComesTo(d), Top, None)
    BY <1>2, <1>4
  <2> HIDE DEF d
  <2>2. Rule(d, ComesTo(d), Top, Failed(Top))
    BY <1>1, <2>1 DEF Rule, AtPart
  <2>3. Failed(Top) \in Results
    BY AnnotationType DEF Failed, Result, Results, Tags
  <2>4. QED
    BY <1>4, <2>2, <2>3, ComesToRules
<1>5. QED
  BY <1>3, <1>4

(* a type that is passed to translate_type,                                *)
LEMMA EvalForetold ==
  ASSUME IInv, ChainInv, EntryInv, EvalLeaf \/ EvalParts \/ EvalAlias \/ EvalBuiltIn \/ EvalNamed
  PROVE  EntryInv'
<1> DEFINE d == module.decls
           K == Calm(ReferenceGraph)
<1>1. /\ mode = "eval" /\ focus \in Types /\ UNCHANGED <<module, alias_map>>
      /\ focus.op \in Ops /\ focus.args \in Seq(Types)
      /\ focus.op \in {"ref", "qualified"} => focus.name \in Names
      /\ stack # << >> => Top \in CallSet
  <2>1. mode = "eval" /\ focus \in Types /\ UNCHANGED <<module, alias_map>> /\ stack \in Seq(CallSet)
    BY DEF EvalLeaf, EvalParts, EvalAlias, EvalBuiltIn, EvalNamed, IInv, TypeOK
  <2>2. QED
    BY <2>1, TopType, TypesAssumption
<1>2. stack # << >> => AtPart(d, Top) /\ ~AtBase(Top) /\ focus = Part(Top)
  BY <1>1, ForetoldParts DEF Given
<1>3. ASSUME stack # << >>, Calls(d, focus)
      PROVE  AtPart(d, Top) /\ PartCalls(d, Top) /\ PartCall(d, Top) = CallFor(d, focus)
  BY <1>2, <1>3 DEF PartCalls, PartCall
<1>4. stack # << >> /\ CalmCall(K, Top) /\ focus.op = "ref" => focus.name \notin resolving_aliases
  BY <1>1, CalmFocus
<1> HIDE DEF K
<1>5. ASSUME NEW v, Give(v), v.refs = {}, v.tag # "alias", UNCHANGED stack, v = Plain(d, focus),
             stack # << >> /\ CalmCall(K, Top) => ~Calls(d, focus)
      PROVE  EntryInv'
  BY <1>1, <1>5, PlainForetold DEF Give, OwnRef, K
<1>6. ASSUME Fail, UNCHANGED stack, stack # << >> => Plain(d, focus) = None /\ ~Calls(d, focus)
      PROVE  EntryInv'
  BY <1>1, <1>6, PlainForetold DEF Fail, K
<1>7. /\ \A tag : Annotation(tag, {}).refs = {} /\ Annotation(tag, {}).tag = tag
      /\ [Annotation("void", {}) EXCEPT !.nullable = TRUE].refs = {}
      /\ [Annotation("void", {}) EXCEPT !.nullable = TRUE].tag = "void"
  BY DEF Annotation
<1>8. ASSUME NEW n \in Names, focus.op = "ref", n = focus.name,
             \/ ResolveAlias(n) /\ d[n].kind = "alias"
             \/ ResolveInterface(n) /\ d[n].kind = "interface" /\ n \notin BuiltIns
      PROVE  EntryInv'
  <2>1. module.decls[n].parts \in Seq(Types) /\ module.decls[n].bases \in Seq(Names)
    BY DeclType DEF IInv, TypeOK
  <2>2. << >> \in Seq(Names)
    BY EmptySeq
  <2>3. stack # << >> => AtPart(d, Top) /\ PartCalls(d, Top) /\ PartCall(d, Top) = DeclCall(d, n)
    <3>1. Calls(d, focus) /\ CallFor(d, focus) = DeclCall(d, n)
      BY <1>8 DEF Calls, CallFor
    <3>2. QED
      BY <1>3, <3>1
  <2>4. CASE ResolveAlias(n) /\ d[n].kind = "alias"
    <3>1. DeclCall(d, n) = Call("alias", n, module.decls[n].parts, << >>)
      BY <1>8, <2>4 DEF DeclCall
    <3>2. Call("alias", n, module.decls[n].parts, << >>) \in CallSet
      BY <2>1, <2>2, CallType
    <3>3. Push(Call("alias", n, module.decls[n].parts, << >>), resolving_aliases \cup {n})
      BY <2>4 DEF ResolveAlias
    <3>4. QED
      BY <1>1, <2>3, <3>1, <3>2, <3>3, PushForetold
  <2>5. CASE ResolveInterface(n) /\ d[n].kind = "interface"
    <3>1. DeclCall(d, n) = Call("interface", n, module.decls[n].parts, module.decls[n].bases)
      BY <1>8, <2>5 DEF DeclCall
    <3>2. Call("interface", n, module.decls[n].parts, module.decls[n].bases) \in CallSet
      BY <2>1, CallType
    <3>3. Push(Call("interface", n, module.decls[n].parts, module.decls[n].bases), resolving_aliases)
      BY <2>5 DEF ResolveInterface
    <3>4. QED
      BY <1>1, <2>3, <3>1, <3>2, <3>3, PushForetold
  <2>6. QED
    BY <1>8, <2>4, <2>5
<1>9. CASE EvalLeaf
  <2>1. \/ focus.op = "prim"   /\ Give(Annotation("value", {}))
        \/ focus.op = "buffer" /\ Give(Annotation("buffer", {}))
        \/ focus.op = "void"   /\ Give(Annotation("void", {}))
        \/ focus.op = "null"   /\ Give([Annotation("void", {}) EXCEPT !.nullable = TRUE])
    BY <1>9 DEF EvalLeaf
  <2>2. Give(Plain(d, focus)) /\ Plain(d, focus).refs = {} /\ Plain(d, focus).tag # "alias"
    BY <1>7, <2>1 DEF Plain
  <2>3. ~Calls(d, focus)
    BY <2>1 DEF Calls, Atoms
  <2>4. UNCHANGED stack
    BY <1>9 DEF EvalLeaf
  <2>5. QED
    BY <1>5, <2>2, <2>3, <2>4
<1>10. CASE EvalParts
  <2>1. CASE focus.op \in {"event", "method"} /\ stack # << >>
    <3>1. Fail /\ UNCHANGED stack
      BY <1>10, <2>1 DEF EvalParts
    <3>2. Plain(d, focus) = None /\ ~Calls(d, focus)
      BY <2>1 DEF Plain, Calls
    <3>3. QED
      BY <1>6, <3>1, <3>2
  <2>2. CASE ~(focus.op \in {"event", "method"} /\ stack # << >>)
    <3>1. Push(Call(focus.op, None, focus.args, << >>), resolving_aliases) /\ focus.op \notin Atoms
      BY <1>10, <2>2 DEF EvalParts
    <3>2. Call(focus.op, None, focus.args, << >>) \in CallSet /\ focus.op \notin Named
      BY <1>1, <3>1, PartsCallType DEF Ops, Atoms, Unary, Many, Named
    <3>3. stack # << >> => /\ AtPart(d, Top) /\ PartCalls(d, Top)
                           /\ PartCall(d, Top) = Call(focus.op, None, focus.args, << >>)
      <4>1. CallFor(d, focus) = Call(focus.op, None, focus.args, << >>)
        BY <3>1 DEF CallFor, TypeCall, Atoms
      <4>2. stack # << >> => Calls(d, focus)
        BY <2>2, <3>1 DEF Calls
      <4>3. QED
        BY <1>3, <4>1, <4>2
    <3>4. QED
      BY <1>1, <3>1, <3>2, <3>3, PushForetold
  <2>3. QED
    BY <2>1, <2>2
<1>11. CASE EvalAlias
  BY <1>1, <1>8, <1>11 DEF EvalAlias, Kind
<1>12. CASE EvalBuiltIn
  <2>1. Plain(d, focus) = Annotation("value", {})
    BY <1>12 DEF EvalBuiltIn, Plain
  <2>2. stack # << >> /\ CalmCall(K, Top) => ~Calls(d, focus)
    BY <1>4, <1>12 DEF EvalBuiltIn, Calls, Kind, Atoms
  <2>3. QED
    BY <1>5, <1>7, <1>12, <2>1, <2>2 DEF EvalBuiltIn
<1>13. CASE EvalNamed
  <2> DEFINE n == focus.name
             k == IF focus.op = "ref" THEN Kind(n) ELSE "none"
  <2>1. /\ focus.op \in {"ref", "qualified"} /\ n \notin BuiltIns
        /\ focus.op = "ref" /\ Kind(n) = "alias" => n \in resolving_aliases
        /\ \/ k = "enum"  /\ Give(Annotation("value", {})) /\ UNCHANGED stack
           \/ k = "interface" /\ ResolveInterface(n)
           \/ k = "alias" /\ Give(AliasOf(n)) /\ UNCHANGED stack
           \/ k \in {"badEnum", "none"} /\ Fail /\ UNCHANGED stack
    BY <1>13 DEF EvalNamed
  <2>2. CASE k = "enum"  /\ Give(Annotation("value", {})) /\ UNCHANGED stack
    <3>1. focus.op = "ref" /\ d[n].kind = "enum"
      BY <2>2 DEF Kind
    <3>2. ~Calls(d, focus) /\ Plain(d, focus) = Annotation("value", {})
      BY <3>1 DEF Calls, Plain, Atoms
    <3>3. QED
      BY <1>5, <1>7, <2>2, <3>2
  <2>3. CASE k = "interface" /\ ResolveInterface(n)
    <3>1. focus.op = "ref" /\ d[n].kind = "interface"
      BY <2>3 DEF Kind
    <3>2. QED
      BY <1>1, <1>8, <2>1, <2>3, <3>1
  <2>4. CASE k = "alias" /\ Give(AliasOf(n)) /\ UNCHANGED stack
    <3>1. ~(stack # << >> /\ CalmCall(K, Top))
      BY <1>4, <2>1, <2>4
    <3>2. OwnRef(AliasOf(n)) /\ mode' = "ret" /\ value' = AliasOf(n)
      BY <2>4 DEF Give, OwnRef, AliasOf
    <3>3. QED
      BY <1>1, <2>4, <3>1, <3>2, PlainForetold DEF K
  <2>5. CASE k \in {"badEnum", "none"} /\ Fail /\ UNCHANGED stack
    <3>1. focus.op = "qualified" \/ (focus.op = "ref" /\ d[n].kind \in {"badEnum", "none"})
      BY <2>1, <2>5 DEF Kind
    <3>2. ~Calls(d, focus) /\ Plain(d, focus) = None
      BY <2>1, <3>1 DEF Calls, Plain, Atoms
    <3>3. QED
      BY <1>6, <2>5, <3>2
  <2>6. QED
    BY <2>1, <2>2, <2>3, <2>4, <2>5
<1>14. QED
  BY <1>9, <1>10, <1>11, <1>12, <1>13

(* a call that goes on,                                                    *)
LEMMA StepForetold ==
  ASSUME IInv, ChainInv, EntryInv, StepBase \/ StepPart \/ Absorb PROVE EntryInv'
<1> DEFINE d == module.decls
           K == Calm(ReferenceGraph)
<1>1. stack \in Seq(CallSet) /\ stack # << >> /\ UNCHANGED <<module, alias_map>> /\ module \in Modules
  BY DEF StepBase, StepPart, Absorb, IInv, TypeOK
<1>2. Top \in CallSet /\ Top.next \in Nat \ {0} /\ Len(Top.bases) \in Nat /\ Len(Top.args) \in Nat
  <2>1. Top \in CallSet
    BY <1>1, TopType
  <2>2. QED
    BY <2>1 DEF CallSet
<1>3. /\ OwnRef(Top.last)
      /\ CalmCall(K, Top) => Top.refs \cup Top.last.refs \subseteq K
  <2>1. Len(stack) \in DOMAIN stack /\ Top = stack[Len(stack)]
    BY <1>1 DEF Top
  <2>2. QED
    BY <2>1, ForetoldParts DEF CalmRefs
<1>4. /\ Moved(Top) \in CallSet /\ Moved(Top).op = Top.op /\ Moved(Top).name = Top.name
      /\ Moved(Top).args = Top.args /\ Moved(Top).bases = Top.bases
      /\ Moved(Top).refs = Top.refs /\ Moved(Top).last = Top.last
  BY <1>2, MovedType DEF Moved, CallSet
<1>5. \A x, y, z \in Nat : /\ x <= y => x <= y + z /\ ~(x > y + z)
                           /\ x > y => ~(x <= y)
                           /\ x <= y + z => ~(x > y + z)
  OBVIOUS
<1>6. \A c \in CallSet, r \in Results : Rule(d, ComesTo(d), c, r) => <<c, r>> \in ComesTo(d)
  BY ComesToRules
<1> HIDE DEF d, K
<1>7. CASE StepBase
  <2> DEFINE b == Base(Top)
  <2>1. AtBase(Top) /\ ~Finished(Top) /\ Top.next <= Parts(Top)
    BY <1>2, <1>5, <1>7 DEF StepBase, AtBase, Finished, Parts
  <2>2. b \in Names /\ b \in CallNames(Top)
    BY <1>2, <2>1, NextPart DEF AtBase, Base
  <2>3. \/ d[b].kind = "interface" /\ ResolveInterface(b)
        \/ d[b].kind = "alias" /\ ResolveAlias(b)
        \/ d[b].kind = "alias" /\ b \in resolving_aliases /\ Give(AliasOf(b)) /\ UNCHANGED stack
        \/ d[b].kind \notin Named /\ Advance /\ stack' = [stack EXCEPT ![Len(stack)] = Moved(Top)]
    BY <1>1, <1>7 DEF StepBase, Base, Top, Kind, Named, d
  <2>4. PartCalls(d, Top) /\ PartCall(d, Top) = DeclCall(d, b)
    BY <2>1 DEF PartCalls, PartCall
  <2>5. module.decls[b].parts \in Seq(Types) /\ module.decls[b].bases \in Seq(Names) /\ << >> \in Seq(Names)
    BY <1>1, <2>2, DeclType, EmptySeq
  <2>6. CASE d[b].kind = "interface" /\ ResolveInterface(b)
    <3>1. DeclCall(d, b) = Call("interface", b, module.decls[b].parts, module.decls[b].bases)
      BY <2>6 DEF DeclCall, d
    <3>2. Call("interface", b, module.decls[b].parts, module.decls[b].bases) \in CallSet
      BY <2>2, <2>5, CallType
    <3>3. Push(Call("interface", b, module.decls[b].parts, module.decls[b].bases), resolving_aliases)
      BY <2>6 DEF ResolveInterface
    <3>4. AtPart(d, Top)
      BY <2>1, <2>6 DEF AtPart, Skips, Named
    <3>5. QED
      BY <1>1, <2>4, <3>1, <3>2, <3>3, <3>4, PushForetold DEF d
  <2>7. CASE d[b].kind = "alias" /\ ResolveAlias(b)
    <3>1. DeclCall(d, b) = Call("alias", b, module.decls[b].parts, << >>)
      BY <2>7 DEF DeclCall, d
    <3>2. Call("alias", b, module.decls[b].parts, << >>) \in CallSet
      BY <2>2, <2>5, CallType
    <3>3. Push(Call("alias", b, module.decls[b].parts, << >>), resolving_aliases \cup {b})
      BY <2>7 DEF ResolveAlias
    <3>4. AtPart(d, Top)
      BY <2>1, <2>7 DEF AtPart, Skips, Named
    <3>5. QED
      BY <1>1, <2>4, <3>1, <3>2, <3>3, <3>4, PushForetold DEF d
  <2>8. CASE b \in resolving_aliases /\ Give(AliasOf(b)) /\ UNCHANGED stack
    <3>1. ~CalmCall(K, Top)
      <4> SUFFICES ASSUME CalmCall(K, Top) PROVE FALSE
        OBVIOUS
      <4>1. b \in K
        BY <2>2 DEF CalmCall
      <4>2. Beneath(ReferenceGraph, stack, {b})
        BY <1>1, <2>2, TopBeneath
      <4>3. QED
        BY <2>8, <4>1, <4>2, NotMet DEF K
    <3>2. mode' = "ret" /\ OwnRef(value')
      BY <2>8 DEF Give, AliasOf, OwnRef
    <3>3. QED
      BY <1>1, <2>8, <3>1, <3>2, StayForetold DEF Given, K
  <2>9. CASE d[b].kind \notin Named /\ Advance /\ stack' = [stack EXCEPT ![Len(stack)] = Moved(Top)]
    <3>1. Skips(d, Top) /\ Skipped(Top) = Moved(Top)
      BY <2>1, <2>9 DEF Skips, Skipped
    <3>2. \A r \in Results : <<Moved(Top), r>> \in ComesTo(d) => <<Top, r>> \in ComesTo(d)
      BY <1>2, <1>6, <2>1, <3>1 DEF Rule
    <3>3. QED
      BY <1>1, <1>3, <1>4, <2>9, <3>2, MoveForetold DEF d, K
  <2>10. QED
    BY <2>3, <2>6, <2>7, <2>8, <2>9
<1>8. CASE StepPart
  <2> DEFINE c == [Moved(Top) EXCEPT !.nullable = TRUE]
  <2>1. ~AtBase(Top) /\ ~Finished(Top)
    BY <1>2, <1>5, <1>8 DEF StepPart, AtBase, Finished, Parts
  <2>2. \/ /\ Top.op = "union" /\ Nullish(Part(Top))
           /\ stack' = [stack EXCEPT ![Len(stack)] = c] /\ Advance
        \/ /\ ~(Top.op = "union" /\ Nullish(Part(Top)))
           /\ Eval(Part(Top)) /\ UNCHANGED stack
    BY <1>1, <1>8 DEF StepPart, Part, Top
  <2>3. CASE Top.op = "union" /\ Nullish(Part(Top)) /\ stack' = [stack EXCEPT ![Len(stack)] = c] /\ Advance
    <3>1. Skips(d, Top) /\ Skipped(Top) = c
      BY <2>1, <2>3 DEF Skips, Skipped
    <3>2. /\ c \in CallSet /\ c.op = Top.op /\ c.name = Top.name /\ c.args = Top.args /\ c.bases = Top.bases
          /\ c.refs = Top.refs /\ c.last = Top.last
      BY <1>4 DEF CallSet
    <3> HIDE DEF c
    <3>3. \A r \in Results : <<c, r>> \in ComesTo(d) => <<Top, r>> \in ComesTo(d)
      BY <1>2, <1>6, <2>1, <3>1 DEF Rule
    <3>4. QED
      BY <1>1, <1>3, <2>3, <3>2, <3>3, MoveForetold DEF d, K
  <2>4. CASE ~(Top.op = "union" /\ Nullish(Part(Top))) /\ Eval(Part(Top)) /\ UNCHANGED stack
    <3>1. AtPart(d, Top)
      BY <2>1, <2>4 DEF AtPart, Skips
    <3>2. QED
      BY <1>1, <2>1, <2>4, <3>1, StayForetold DEF Given, Eval, d
  <2>5. QED
    BY <2>2, <2>3, <2>4
<1>9. CASE Absorb
  <2>1. mode = "ret" /\ value \in Ann /\ value # None /\ OwnRef(value)
    BY <1>9, NoneAssumption, ForetoldParts DEF Absorb, IInv, TypeOK
  <2>2. CalmCall(K, Top) => /\ AtPart(d, Top) /\ PartGives(d, ComesTo(d), Top, value)
                            /\ value.refs \subseteq K
    BY <1>1, <2>1, ForetoldParts DEF Given, d, K
  <2>3. CASE Accepts(Top, value) /\ Advance /\ stack' = [stack EXCEPT ![Len(stack)] = Taken(Top, value)]
    <3> DEFINE c == Taken(Top, value)
    <3>1. c \in CallSet /\ c.op = Top.op /\ c.name = Top.name
      BY <1>2, <2>1, TakenType
    <3>2. c.args = Top.args /\ c.bases = Top.bases
      BY <1>4 DEF Taken, CallSet
    <3>3. OwnRef(c.last) /\ (CalmCall(K, Top) => c.refs \cup c.last.refs \subseteq K)
      <4>1. CASE c = Moved(Top)
        BY <1>3, <1>4, <4>1
      <4>2. CASE c = [Moved(Top) EXCEPT !.last = Annotation("value", {})]
        <5>1. c.refs = Top.refs /\ c.last = Annotation("value", {})
          BY <1>4, <4>2 DEF CallSet
        <5>2. OwnRef(Annotation("value", {})) /\ Annotation("value", {}).refs = {}
          BY DEF OwnRef, Annotation
        <5>3. QED
          BY <1>3, <5>1, <5>2
      <4>3. CASE c = [Moved(Top) EXCEPT !.last = value, !.refs = @ \cup value.refs, !.kept = @ + 1,
                                        !.nullable = @ \/ (Top.op = "union" /\ value.nullable)]
        <5>1. c.refs = Top.refs \cup value.refs /\ c.last = value
          BY <1>4, <4>3 DEF CallSet
        <5> HIDE DEF c
        <5>2. QED
          BY <1>3, <2>1, <2>2, <5>1
      <4>4. QED
        BY <4>1, <4>2, <4>3 DEF Taken
    <3> HIDE DEF c
    <3>4. ASSUME CalmCall(K, Top), NEW r \in Results, <<c, r>> \in ComesTo(d) PROVE <<Top, r>> \in ComesTo(d)
      <4>1. Rule(d, ComesTo(d), Top, r)
        BY <2>1, <2>2, <2>3, <3>4 DEF Rule, AtPart, c
      <4>2. QED
        BY <1>2, <1>6, <4>1
    <3>5. stack' = [stack EXCEPT ![Len(stack)] = c] /\ Advance
      BY <2>3 DEF c
    <3>6. QED
      BY <1>1, <3>1, <3>2, <3>3, <3>4, <3>5, MoveForetold DEF d, K
  <2>4. CASE ~Accepts(Top, value) /\ Fail /\ UNCHANGED stack
    <3>1. ASSUME CalmCall(K, Top) PROVE <<Top, Failed(Top)>> \in ComesTo(d)
      <4>1. Rule(d, ComesTo(d), Top, Failed(Top))
        BY <2>1, <2>2, <2>4, <3>1 DEF Rule, AtPart
      <4>2. Failed(Top) \in Results
        BY AnnotationType DEF Failed, Result, Results, Tags
      <4>3. QED
        BY <1>2, <1>6, <4>1, <4>2
    <3>2. QED
      BY <1>1, <2>4, <3>1, StayForetold DEF Given, Fail, d, K
  <2>5. QED
    BY <1>1, <1>9, <2>3, <2>4 DEF Absorb, Top
<1>10. QED
  BY <1>7, <1>8, <1>9

(* Results are results.                                                    *)
LEMMA ReturnedType ==
  ASSUME NEW c \in CallSet, c.op # "partial"
  PROVE  Returned(c) \in Results /\ (Returned(c).value \in Ann)
<1>1. c.refs \in SUBSET Names /\ c.last \in Ann /\ c.nullable \in BOOLEAN /\ (c.op \in Named => c.name \in Names)
  BY DEF CallSet, Named
<1>2. \A v \in Ann, e \in Ann \cup {None} : Result(v, e) \in Results /\ Result(v, e).value = v
  BY DEF Result, Results
<1>3. \A n \in Names : AliasOf(n) \in Ann
  BY AnnotationType
<1>4. \A tag \in Tags \ {"alias"} : Annotation(tag, c.refs) \in Ann /\ Annotation(tag, {}) \in Ann
  BY <1>1, AnnotationType
<1>5. CASE c.op = "interface"
  BY <1>1, <1>2, <1>3, <1>4, <1>5 DEF Returned, Named, Tags
<1>6. CASE c.op = "alias"
  <2>1. Returned(c) = IF c.last.tag = "object" THEN Result(AliasOf(c.name), c.last) ELSE Result(c.last, None)
    BY <1>6 DEF Returned
  <2>2. QED
    BY <1>1, <1>2, <1>3, <1>6, <2>1 DEF Named
<1>7. CASE c.op = "union"
  <2>1. Union(c) \in Ann
    BY <1>1, <1>4 DEF Union, Tags
  <2>2. [Union(c) EXCEPT !.nullable = c.nullable] \in Ann
    BY <1>1, <2>1, AnnotationType
  <2>3. QED
    BY <1>2, <1>7, <2>2 DEF Returned
<1>8. CASE c.op \notin {"interface", "alias", "union"}
  <2> DEFINE tag == CASE c.op \in {"object", "inter"} -> "object"
                      [] c.op \in {"array", "dict"}   -> "value"
                      [] c.op \in {"fn", "method"}    -> "fn"
                      [] OTHER                        -> c.op
  <2>1. Returned(c) = Result(Annotation(tag, c.refs), None)
    BY <1>8 DEF Returned
  <2>2. c.op \in {"object", "inter", "array", "dict", "fn", "method", "promise", "event"}
    BY <1>8 DEF CallSet, Ops, Atoms, Unary, Many
  <2>3. tag \in Tags \ {"alias"}
    BY <2>2 DEF Tags
  <2> HIDE DEF tag
  <2>4. QED
    BY <1>2, <1>4, <2>1, <2>3
<1>9. QED
  BY <1>5, <1>6, <1>7, <1>8

(* A call at its end comes to what it returns.                             *)
LEMMA EndFacts ==
  ASSUME IInv, EntryInv, stack # << >>
  PROVE  /\ Top \in CallSet /\ Top \in CallSet /\ OwnRef(Top.last)
         /\ CalmCall(Calm(ReferenceGraph), Top) =>
              /\ Top.refs \subseteq Calm(ReferenceGraph) /\ Top.last.refs \subseteq Calm(ReferenceGraph)
              /\ Promise(module.decls, Top)
         /\ Top.op \in Named => Origin(Top) = DeclCall(module.decls, Top.name)
         /\ Finished(Top) /\ Top.op # "partial" => <<Top, Returned(Top)>> \in ComesTo(module.decls)
<1>1. stack \in Seq(CallSet) /\ Len(stack) \in DOMAIN stack /\ Top = stack[Len(stack)] /\ Top \in CallSet
  BY TopType DEF IInv, TypeOK
<1>2. /\ OwnRef(Top.last)
      /\ CalmCall(Calm(ReferenceGraph), Top) =>
           Top.refs \cup Top.last.refs \subseteq Calm(ReferenceGraph) /\ Promise(module.decls, Top)
      /\ Top.op \in Named => Origin(Top) = DeclCall(module.decls, Top.name)
  BY <1>1, ForetoldParts DEF CalmRefs, Kept, Linked
<1>3. ASSUME Finished(Top), Top.op # "partial" PROVE <<Top, Returned(Top)>> \in ComesTo(module.decls)
  <2>1. Rule(module.decls, ComesTo(module.decls), Top, Returned(Top))
    BY <1>3 DEF Rule
  <2>2. QED
    BY <1>1, <1>3, <2>1, ComesToRules, ReturnedType
<1>4. QED
  BY <1>1, <1>2, <1>3

(* The object behind a reference, or the annotation itself.                *)
LEMMA PartialForetold ==
  ASSUME IInv, RefInv, EntryInv, Complete, Top.op = "partial", CalmCall(Calm(ReferenceGraph), Top)
  PROVE  LET e == PartialOf(Top.last)
         IN  /\ e \in Ann \cup {None} /\ (e # None => e.refs \subseteq Calm(ReferenceGraph))
             /\ <<Top, PartialGives(e)>> \in ComesTo(module.decls)
<1> DEFINE d == module.decls
           K == Calm(ReferenceGraph)
           v == Top.last
           e == PartialOf(v)
<1>1. stack # << >> /\ Finished(Top) /\ alias_map \in [Names -> Ann \cup {None}]
  BY DEF Complete, IInv, TypeOK, Finished
<1>2. Top \in CallSet /\ v \in Ann /\ OwnRef(v) /\ v.refs \subseteq K
  <2>1. Top \in CallSet /\ OwnRef(v) /\ v.refs \subseteq K
    BY <1>1, EndFacts
  <2>2. QED
    BY <2>1 DEF CallSet
<1>3. e \in Ann \cup {None} /\ (e # None => e.refs \subseteq K) /\ ObjectGives(d, ComesTo(d), v, e)
  <2>1. CASE v.tag = "alias"
    <3>1. v.name \in K /\ v.name \in Names
      BY <1>2, <2>1 DEF OwnRef, Ann
    <3>2. ~OnCycle(ReferenceGraph, v.name)
      BY <3>1, CalmBelow, GraphStays
    <3>3. v.name \in Settled(ReferenceGraph, alias_map)
      BY <1>1, <1>2, <2>1, TopRefs DEF OwnRef
    <3>4. alias_map[v.name] # None
      BY <3>2, <3>3 DEF Settled
    <3>5. /\ \E r \in Results : <<DeclCall(d, v.name), r>> \in ComesTo(d) /\ r.entry = alias_map[v.name]
          /\ alias_map[v.name].refs \subseteq K
      BY <3>1, <3>4, ForetoldParts DEF Entered
    <3>6. e = alias_map[v.name] /\ e \in Ann \cup {None}
      BY <1>1, <2>1, <3>1 DEF PartialOf
    <3> HIDE DEF e, d, K, v
    <3>7. QED
      BY <2>1, <3>5, <3>6 DEF ObjectGives
  <2>2. CASE v.tag # "alias"
    BY <1>2, <2>2 DEF PartialOf, ObjectGives
  <2>3. QED
    BY <2>1, <2>2
<1>4. PartialGives(e) \in Results
  <2>1. e # None => Annotation("object", e.refs) \in Ann
    BY <1>3, AnnotationType DEF Tags
  <2> HIDE DEF e
  <2>2. QED
    BY <2>1 DEF PartialGives, Result, Results
<1> HIDE DEF e, d, v
<1>5. Rule(d, ComesTo(d), Top, PartialGives(e))
  BY <1>1, <1>3 DEF Rule, v
<1>6. <<Top, PartialGives(e)>> \in ComesTo(d)
  BY <1>2, <1>4, <1>5, ComesToRules
<1>7. QED
  BY <1>3, <1>6 DEF e, d, v

(* a call that returns,                                                    *)
LEMMA ReturnsForetold ==
  ASSUME IInv, RefInv, EntryInv, ReturnPlain \/ ReturnUnion \/ ReturnPartial \/ Unwind PROVE EntryInv'
<1> DEFINE d == module.decls
           K == Calm(ReferenceGraph)
<1>1. /\ stack # << >> /\ Return /\ UNCHANGED <<module, alias_map>>
  BY DEF ReturnPlain, ReturnUnion, ReturnPartial, Unwind, Complete, IInv, TypeOK
<1>2. Top \in CallSet /\ Top.last \in Ann /\ Top.refs \in SUBSET Names /\ Top.nullable \in BOOLEAN
  <2>1. Top \in CallSet
    BY <1>1, EndFacts
  <2>2. QED
    BY <2>1 DEF CallSet
<1>3. Entered(d, K, alias_map')
  BY <1>1, ForetoldParts
<1>4. ASSUME Complete, Top.op \notin Named \cup {"partial"}, Give(Returned(Top).value),
             Returned(Top).value.refs \subseteq Top.refs \cup Top.last.refs, OwnRef(Returned(Top).value)
      PROVE  EntryInv'
  <2>1. Finished(Top)
    BY <1>4 DEF Complete, Finished
  <2>2. Returned(Top) \in Results /\ Returned(Top).value \in Ann
    BY <1>2, <1>4, ReturnedType
  <2>3. <<Top, Returned(Top)>> \in ComesTo(d)
    BY <1>1, <1>4, <2>1, EndFacts
  <2>4. mode' = "ret" /\ value' = Returned(Top).value
    BY <1>4 DEF Give
  <2>5. CalmCall(K, Top) => value'.refs \subseteq K
    BY <1>1, <1>4, <2>4, EndFacts
  <2>6. QED
    BY <1>1, <1>3, <1>4, <2>2, <2>3, <2>4, <2>5, ReturnForetold
<1>5. CASE ReturnPlain
  <2> DEFINE tag == CASE Top.op \in {"object", "inter"} -> "object"
                      [] Top.op \in {"array", "dict"}   -> "value"
                      [] Top.op \in {"fn", "method"}    -> "fn"
                      [] OTHER                          -> Top.op
  <2>1. /\ Complete /\ Top.op \in {"object", "inter", "array", "promise", "dict", "event", "fn", "method"}
        /\ Give(Annotation(tag, Top.refs))
    BY <1>5 DEF ReturnPlain
  <2>2. Returned(Top) = Result(Annotation(tag, Top.refs), None) /\ tag # "alias"
    BY <2>1 DEF Returned
  <2> HIDE DEF tag
  <2>3. /\ Returned(Top).value = Annotation(tag, Top.refs)
        /\ Annotation(tag, Top.refs).refs = Top.refs /\ OwnRef(Annotation(tag, Top.refs))
    BY <2>2 DEF Result, Annotation, OwnRef
  <2>4. Top.op \notin Named \cup {"partial"}
    BY <2>1 DEF Named
  <2>5. QED
    BY <1>4, <2>1, <2>3, <2>4
<1>6. CASE ReturnUnion
  <2>1. Complete /\ Top.op = "union" /\ Give([Union(Top) EXCEPT !.nullable = Top.nullable])
    BY <1>6 DEF ReturnUnion, Union
  <2>2. Returned(Top).value = [Union(Top) EXCEPT !.nullable = Top.nullable]
    BY <2>1 DEF Returned, Result
  <2>3. Union(Top) \in Ann /\ OwnRef(Union(Top)) /\ Union(Top).refs \subseteq Top.refs \cup Top.last.refs
    <3>1. /\ Annotation("void", {}) \in Ann /\ Annotation("value", Top.refs) \in Ann
          /\ Annotation("void", {}).refs = {} /\ Annotation("value", Top.refs).refs = Top.refs
          /\ OwnRef(Annotation("void", {})) /\ OwnRef(Annotation("value", Top.refs))
      BY <1>2, AnnotationType DEF Annotation, Tags, OwnRef
    <3>2. OwnRef(Top.last)
      BY <1>1, EndFacts
    <3>3. Union(Top) \in {Annotation("void", {}), Top.last, Annotation("value", Top.refs)}
      BY DEF Union
    <3>4. QED
      BY <1>2, <3>1, <3>2, <3>3
  <2>4. /\ [Union(Top) EXCEPT !.nullable = Top.nullable].refs = Union(Top).refs
        /\ OwnRef([Union(Top) EXCEPT !.nullable = Top.nullable])
    BY <2>3 DEF Ann, OwnRef
  <2>5. QED
    BY <1>4, <2>1, <2>2, <2>3, <2>4 DEF Named
<1>7. CASE ReturnPartial
  <2> DEFINE e == PartialOf(Top.last)
             r == PartialGives(e)
  <2>1. Complete /\ Top.op = "partial"
    BY <1>7 DEF ReturnPartial
  <2>2. \/ e # None /\ ~e.nullable /\ Give(Annotation("object", e.refs))
        \/ ~(e # None /\ ~e.nullable) /\ Fail
    BY <1>7 DEF ReturnPartial
  <2>3. e \in Ann \cup {None}
    BY <1>2 DEF PartialOf, IInv, TypeOK, Ann
  <2>4. e # None => Annotation("object", e.refs) \in Ann /\ Annotation("object", e.refs).refs = e.refs
                    /\ OwnRef(Annotation("object", e.refs))
    <3>1. e # None => e.refs \in SUBSET Names
      BY <2>3, AnnotationType
    <3>2. QED
      BY <3>1, AnnotationType DEF Tags, Annotation, OwnRef
  <2>5. CalmCall(K, Top) => <<Top, r>> \in ComesTo(d) /\ (e # None => e.refs \subseteq K)
    BY <2>1, PartialForetold
  <2> HIDE DEF e, d, K
  <2>6. /\ r \in Results /\ (e # None /\ ~e.nullable => r.value = Annotation("object", e.refs))
        /\ ~(e # None /\ ~e.nullable) => r.value = None
    BY <2>4 DEF PartialGives, Result, Results
  <2> HIDE DEF r
  <2>7. CASE e # None /\ ~e.nullable /\ Give(Annotation("object", e.refs))
    <3>1. mode' = "ret" /\ value' = r.value /\ OwnRef(value') /\ value' \in Ann /\ value'.refs = e.refs
      BY <2>4, <2>6, <2>7 DEF Give
    <3>2. QED
      BY <1>1, <1>3, <2>5, <2>6, <2>7, <3>1, ReturnForetold DEF d, K
  <2>8. CASE ~(e # None /\ ~e.nullable) /\ Fail
    <3>1. mode' = "err" /\ r.value = None
      BY <2>6, <2>8 DEF Fail
    <3>2. QED
      BY <1>1, <1>3, <2>5, <2>6, <3>1, ReturnForetold DEF d, K
  <2>9. QED
    BY <2>2, <2>7, <2>8
<1>8. CASE Unwind
  <2>1. mode = "err" /\ (IF Top.op = "array" THEN Give(Annotation("value", {})) ELSE Fail)
    BY <1>8 DEF Unwind
  <2>2. CalmCall(K, Top) => <<Top, Failed(Top)>> \in ComesTo(d)
    BY <1>1, <2>1, ForetoldParts DEF Given
  <2>3. /\ Annotation("value", {}) \in Ann /\ OwnRef(Annotation("value", {})) /\ Annotation("value", {}).refs = {}
        /\ Failed(Top) \in Results
        /\ Failed(Top).value = IF Top.op = "array" THEN Annotation("value", {}) ELSE None
    BY AnnotationType DEF Failed, Result, Results, Tags, OwnRef, Annotation
  <2> HIDE DEF d, K
  <2>4. CASE Top.op = "array"
    <3>1. mode' = "ret" /\ value' = Annotation("value", {})
      BY <2>1, <2>4 DEF Give
    <3>2. QED
      BY <1>1, <1>3, <2>2, <2>3, <2>4, <3>1, ReturnForetold DEF d, K
  <2>5. CASE Top.op # "array"
    <3>1. mode' = "err"
      BY <2>1, <2>5 DEF Fail
    <3>2. QED
      BY <1>1, <1>3, <2>2, <2>3, <2>5, <3>1, ReturnForetold DEF d, K
  <2>6. QED
    BY <2>4, <2>5
<1>9. QED
  BY <1>5, <1>6, <1>7, <1>8

(* and one that makes an entry: it is what the call enters from its start. *)
LEMMA EntriesForetold ==
  ASSUME IInv, RefInv, EntryInv, ReturnInterface \/ ReturnAlias PROVE EntryInv'
<1> DEFINE d == module.decls
           K == Calm(ReferenceGraph)
           r == Returned(Top)
           n == Top.name
<1>1. /\ stack # << >> /\ Return /\ UNCHANGED module /\ Finished(Top)
      /\ Top.op \in Named /\ Top.op # "partial"
      /\ alias_map \in [Names -> Ann \cup {None}]
  BY DEF ReturnInterface, ReturnAlias, Complete, IInv, TypeOK, Finished, Named
<1>2. Top \in CallSet /\ n \in Names /\ Top.last \in Ann /\ Top.refs \in SUBSET Names /\ OwnRef(Top.last)
  <2>1. Top \in CallSet /\ OwnRef(Top.last)
    BY <1>1, EndFacts
  <2>2. QED
    BY <1>1, <2>1 DEF CallSet, Named
<1>3. r \in Results /\ r.value \in Ann /\ <<Top, r>> \in ComesTo(d)
  BY <1>1, <1>2, ReturnedType, EndFacts
<1>4. Origin(Top) = DeclCall(d, n)
  BY <1>1, EndFacts
<1>5. n \in K <=> CalmCall(K, Top)
  <2>1. n \in K => CalmCall(K, DeclCall(d, n))
    BY CalmDecl
  <2>2. Origin(Origin(Top)) = Origin(Top)
    BY OriginOfCall DEF Origin
  <2>3. CalmCall(K, DeclCall(d, n)) <=> CalmCall(K, Top)
    BY <1>4, <2>2, CalmOrigin
  <2>4. CalmCall(K, Top) => n \in K
    BY <1>1 DEF CalmCall
  <2>5. QED
    BY <2>1, <2>3, <2>4
<1>6. n \in K => /\ Top.refs \subseteq K /\ Top.last.refs \subseteq K
                 /\ <<DeclCall(d, n), r>> \in ComesTo(d)
  BY <1>1, <1>3, <1>4, <1>5, EndFacts DEF Promise
<1>7. AliasOf(n).refs = {n} /\ OwnRef(AliasOf(n)) /\ AliasOf(n) \in Ann
  BY <1>2, AnnotationType DEF AliasOf, OwnRef
<1>8. Entered(d, K, alias_map) /\ K \subseteq Names
  BY ForetoldParts DEF Calm
<1> HIDE DEF d, K, n
<1>9. ASSUME NEW e \in Ann, alias_map' = [alias_map EXCEPT ![n] = e], Give(AliasOf(n)),
             r = Result(AliasOf(n), e), n \in K => e.refs \subseteq K
      PROVE  EntryInv'
  <2>1. r.value = AliasOf(n) /\ r.entry = e
    BY <1>9 DEF Result
  <2> HIDE DEF r
  <2>2. Entered(d, K, alias_map')
    <3> SUFFICES ASSUME NEW m \in K, alias_map'[m] # None
                 PROVE  /\ \E q \in Results : <<DeclCall(d, m), q>> \in ComesTo(d) /\ q.entry = alias_map'[m]
                        /\ alias_map'[m].refs \subseteq K
      BY DEF Entered
    <3>1. CASE m = n
      <4>1. alias_map'[m] = e
        BY <1>1, <1>2, <1>9, <3>1 DEF n
      <4>2. QED
        BY <1>3, <1>6, <1>9, <2>1, <3>1, <4>1
    <3>2. CASE m # n
      <4>1. alias_map'[m] = alias_map[m]
        BY <1>1, <1>8, <1>9, <3>2
      <4>2. QED
        BY <1>8, <4>1 DEF Entered
    <3>3. QED
      BY <3>1, <3>2
  <2>3. mode' = "ret" /\ value' = AliasOf(n)
    BY <1>9 DEF Give
  <2>4. CalmCall(K, Top) => value'.refs \subseteq K
    BY <1>5, <1>7, <2>3
  <2>5. QED
    BY <1>1, <1>3, <1>7, <2>1, <2>2, <2>3, <2>4, ReturnForetold DEF d, K
<1>10. CASE ReturnInterface
  <2> DEFINE e == Annotation("object", Top.refs)
  <2>1. e \in Ann /\ e.refs = Top.refs
    BY <1>2, AnnotationType DEF Tags, Annotation
  <2>2. alias_map' = [alias_map EXCEPT ![n] = e] /\ Give(AliasOf(n))
    BY <1>10 DEF ReturnInterface, n
  <2>3. r = Result(AliasOf(n), e)
    BY <1>10 DEF ReturnInterface, Returned, n
  <2> HIDE DEF e, r
  <2>4. QED
    BY <1>6, <1>9, <2>1, <2>2, <2>3
<1>11. CASE ReturnAlias
  <2> DEFINE v == Top.last
  <2>1. Top.op = "alias" /\ resolving_aliases' = resolving_aliases \ {n}
    BY <1>11 DEF ReturnAlias, n
  <2>2. \/ v.tag = "object" /\ alias_map' = [alias_map EXCEPT ![n] = v] /\ Give(AliasOf(n))
        \/ v.tag = "alias" /\ alias_map[v.name] = None /\ Fail /\ UNCHANGED alias_map
        \/ v.tag # "object" /\ Give(v) /\ UNCHANGED alias_map
    BY <1>11 DEF ReturnAlias, n
  <2>3. v.tag = "object" => r = Result(AliasOf(n), v)
    BY <2>1 DEF Returned, n
  <2>4. v.tag # "object" => r.value = v
    BY <2>1 DEF Returned, Result
  <2> HIDE DEF r
  <2>5. CASE v.tag = "object" /\ alias_map' = [alias_map EXCEPT ![n] = v] /\ Give(AliasOf(n))
    BY <1>2, <1>6, <1>9, <2>3, <2>5
  <2>6. CASE v.tag = "alias" /\ alias_map[v.name] = None /\ Fail /\ UNCHANGED alias_map
    <3>1. ~CalmCall(K, Top)
      <4> SUFFICES ASSUME CalmCall(K, Top) PROVE FALSE
        OBVIOUS
      <4>1. v.name \in v.refs /\ v.name \in K
        BY <1>2, <1>5, <1>6, <2>6 DEF OwnRef
      <4>2. ~OnCycle(ReferenceGraph, v.name)
        BY <4>1, CalmBelow, GraphStays DEF K
      <4>3. v.name \in Settled(ReferenceGraph, alias_map)
        BY <1>1, <4>1, TopRefs
      <4>4. QED
        BY <2>6, <4>2, <4>3 DEF Settled
    <3>2. mode' = "err" /\ Entered(d, K, alias_map')
      BY <1>8, <2>6 DEF Fail
    <3>3. QED
      BY <1>1, <1>3, <3>1, <3>2, ReturnForetold DEF d, K
  <2>7. CASE v.tag # "object" /\ Give(v) /\ UNCHANGED alias_map
    <3>1. mode' = "ret" /\ value' = v /\ Entered(d, K, alias_map')
      BY <1>8, <2>7 DEF Give
    <3>2. CalmCall(K, Top) => v.refs \subseteq K
      BY <1>5, <1>6
    <3>3. QED
      BY <1>1, <1>2, <1>3, <2>4, <2>7, <3>1, <3>2, ReturnForetold DEF d, K
  <2>8. QED
    BY <2>2, <2>5, <2>6, <2>7
<1>12. QED
  BY <1>10, <1>11

(* The invariant holds at the start.                                       *)
LEMMA InitForetold == Init => EntryInv
<1> SUFFICES ASSUME Init PROVE EntryInv
  OBVIOUS
<1>1. /\ stack = << >> /\ mode = "next"
      /\ \A n \in Calm(ReferenceGraph) : alias_map[n] = None
  BY DEF Init, Calm
<1>2. QED
  BY <1>1 DEF EntryInv, Foretold, Linked, Kept, CalmRefs, Entered

(* The invariant holds at every moment.                                    *)
LEMMA AlwaysForetold == Spec => []EntryInv
<1>1. ASSUME IInv, ChainInv, RefInv, EntryInv, [Next]_vars PROVE EntryInv'
  <2>1. CASE Step
    BY <1>1, <2>1, MemberForetold, EvalForetold, StepForetold, ReturnsForetold, EntriesForetold DEF Step
  <2>2. CASE UNCHANGED vars
    BY <1>1, <2>2, GraphStays DEF EntryInv, vars
  <2>3. QED
    BY <1>1, <2>1, <2>2 DEF Next, Terminated
<1>2. QED
  BY <1>1, InitForetold, Inductive, AlwaysChained, AlwaysRefs, PTL DEF Spec

(* An entry is never taken out of the alias map.                           *)
LEMMA EntriesRemain ==
  ASSUME IInv, [Next]_vars, NEW n \in Names, alias_map[n] # None
  PROVE  alias_map'[n] # None /\ UNCHANGED module
<1>1. alias_map \in [Names -> Ann \cup {None}] /\ stack \in Seq(CallSet)
  BY DEF IInv, TypeOK
<1>2. UNCHANGED module
  BY DEF Next, Step, Terminated, vars, NextMember, Finish, TakeMember, Reject, EvalLeaf, EvalParts,
         EvalAlias, EvalBuiltIn, EvalNamed, StepBase, StepPart, Absorb, ReturnPlain, ReturnUnion,
         ReturnPartial, ReturnInterface, ReturnAlias, Unwind
<1>3. CASE ReturnInterface \/ ReturnAlias
  <2>1. stack # << >> /\ Top \in CallSet
    <3>1. stack # << >>
      BY <1>3 DEF ReturnInterface, ReturnAlias, Complete, IInv, TypeOK
    <3>2. QED
      BY <1>1, <3>1, TopType
  <2>2. Annotation("object", Top.refs) \in Ann /\ Top.last \in Ann
    BY <2>1, AnnotationType DEF CallSet, Tags
  <2>3. UNCHANGED alias_map \/ \E m, e : e \in Ann /\ alias_map' = [alias_map EXCEPT ![m] = e]
    BY <1>3, <2>2 DEF ReturnInterface, ReturnAlias
  <2>4. QED
    BY <1>1, <1>2, <2>3, NoneAssumption
<1>4. CASE ~(ReturnInterface \/ ReturnAlias)
  <2>1. UNCHANGED alias_map
    BY <1>4 DEF Next, Step, Terminated, vars, NextMember, Finish, TakeMember, Reject, EvalLeaf, EvalParts,
         EvalAlias, EvalBuiltIn, EvalNamed, StepBase, StepPart, Absorb, ReturnPlain, ReturnUnion,
         ReturnPartial, Unwind
  <2>2. QED
    BY <1>2, <2>1
<1>5. QED
  BY <1>3, <1>4

(* However often a declaration that leads to no cycle is translated, in    *)
(* whatever order and beside whatever errors that arrays swallow, its      *)
(* entry comes out the same.                                               *)
THEOREM EntriesAlwaysStable == Spec => EntriesStable
<1> DEFINE P == \A n \in Names : alias_map[n] # None /\ ~ReachesCycle(ReferenceGraph, n)
                                   => alias_map'[n] = alias_map[n]
<1>1. ASSUME IInv, EntryInv, EntryInv', [Next]_vars PROVE P
  <2> SUFFICES ASSUME NEW n \in Names, alias_map[n] # None, ~ReachesCycle(ReferenceGraph, n)
               PROVE  alias_map'[n] = alias_map[n]
    OBVIOUS
  <2>1. n \in Calm(ReferenceGraph)
    BY DEF Calm
  <2>2. alias_map'[n] # None /\ UNCHANGED module /\ Calm(ReferenceGraph') = Calm(ReferenceGraph)
    BY <1>1, EntriesRemain, GraphStays
  <2> DEFINE d == module.decls
  <2>3. PICK r \in Results : <<DeclCall(d, n), r>> \in ComesTo(d) /\ r.entry = alias_map[n]
    BY <1>1, <2>1, ForetoldParts DEF Entered
  <2>4. Entered(d, Calm(ReferenceGraph), alias_map')
    BY <1>1, <2>2 DEF EntryInv, Foretold
  <2>5. PICK q \in Results : <<DeclCall(d, n), q>> \in ComesTo(d) /\ q.entry = alias_map'[n]
    BY <2>1, <2>2, <2>4 DEF Entered
  <2>6. r = q
    BY <2>3, <2>5, ComesToOne
  <2>7. QED
    BY <2>3, <2>5, <2>6
<1>2. ASSUME IInv, EntryInv, EntryInv', [Next]_vars PROVE [P]_vars
  BY <1>1, <1>2
<1>3. QED
  BY <1>2, Inductive, AlwaysForetold, PTL DEF Spec, EntriesStable
=============================================================================
