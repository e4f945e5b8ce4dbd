-------------------------- MODULE NativeModuleTypes --------------------------
(***************************************************************************)
(* NativeModuleParser (swc-react-native-codegen, native_modules.rs): from  *)
(* the TypeScript types of a NativeModule spec to the schema, with its     *)
(* alias map.                                                              *)
(*                                                                         *)
(* The parser is a set of mutually recursive functions over types.  Here a *)
(* step is a call or a return of one of them: the stack holds the calls    *)
(* that have not returned, focus the type just passed to translate_type,   *)
(* value the annotation just returned.  A type is an operator applied to   *)
(* types.  Of an annotation only what the parser itself inspects is kept:  *)
(* its kind, whether it is nullable, and the names of the aliases it       *)
(* refers to.                                                              *)
(***************************************************************************)
EXTENDS Naturals, Sequences, FiniteSets, SequencesExt

CONSTANTS
  Names,      \* names that a module may declare
  BuiltIns,   \* those that are also built in, like Double
  Types,      \* the types that occur in the modules
  Modules,    \* the modules to parse
  MaxStack,   \* bound: calls that fit on the thread's stack
  None        \* no value

Atoms  == {"prim", "void", "null", "buffer", "ref", "qualified"}
Unary   == {"array", "promise", "partial", "dict", "event"}
Many    == {"object", "inter", "union", "fn", "method"}
Ops     == Atoms \cup Unary \cup Many

(* A declaration: an alias has one part, its type; an interface has base   *)
(* names and members.                                                      *)
Kinds == {"alias", "interface", "enum", "badEnum", "none"}
Decl  == [kind : Kinds, parts : Seq(Types), bases : Seq(Names)]

ASSUME NamesAssumption   == IsFiniteSet(Names) /\ BuiltIns \subseteq Names /\ None \notin Names
ASSUME TypesAssumption   ==
  \A t \in Types : /\ t \in [op : Ops, name : Names \cup {None}, args : Seq(Types)]
                   /\ t.op \in {"ref", "qualified"} => t.name \in Names
                   /\ t.op \in Unary => Len(t.args) = 1
                   /\ t.op \in {"fn", "method"} => t.args # << >>
ASSUME ModulesAssumption ==
  \A m \in Modules : /\ m \in [decls : [Names -> Decl], members : Seq(Types)]
                     /\ \A n \in Names : m.decls[n].kind = "alias" => Len(m.decls[n].parts) = 1
ASSUME StackAssumption   == MaxStack \in Nat \ {0}

Tags == {"value", "void", "promise", "fn", "object", "alias", "event", "buffer"}

VARIABLES
  module,             \* NativeModuleParser::module, and the members of its Spec
  alias_map,          \* NativeModuleParser::alias_map
  resolving_aliases,  \* NativeModuleParser::resolving_aliases
  stack,              \* the calls that have not returned, innermost last
  mode,               \* "next" | "eval" | "step" | "ret" | "err" | how it ended
  focus,              \* "eval": the type to translate
  value,              \* "ret": the annotation returned
  parsed,             \* how many members of Spec have been parsed
  mentioned           \* the aliases that their annotations refer to

vars == <<module, alias_map, resolving_aliases, stack, mode, focus, value, parsed, mentioned>>

Kind(n) == module.decls[n].kind
Top     == stack[Len(stack)]

(* An annotation.  The name is that of a TypeAliasTypeAnnotation.          *)
Annotation(tag, refs) == [tag |-> tag, name |-> None, nullable |-> FALSE, refs |-> refs]
AliasOf(n)            == [tag |-> "alias", name |-> n, nullable |-> FALSE, refs |-> {n}]

(* A call: what it translates, how far it has come, and what it has seen.  *)
Call(op, name, args, bases) ==
  [op |-> op, name |-> name, args |-> args, bases |-> bases, next |-> 1,
   refs |-> {}, last |-> Annotation("void", {}), kept |-> 0, nullable |-> FALSE]

Init ==
  /\ module \in Modules
  /\ alias_map = [n \in Names |-> None]
  /\ resolving_aliases = {}
  /\ stack = << >>
  /\ mode = "next"
  /\ focus = None
  /\ value = None
  /\ parsed = 0
  /\ mentioned = {}

-----------------------------------------------------------------------------
(* Steps of the machine.  Each says where control goes and nothing else.   *)

Eval(t) == mode' = "eval" /\ focus' = t /\ value' = None
Give(v) == mode' = "ret" /\ value' = v /\ focus' = None
Fail    == mode' = "err" /\ value' = None /\ focus' = None
Advance == mode' = "step" /\ value' = None /\ focus' = None

(* A call that no longer fits on the stack aborts the process.             *)
Push(call, resolving) ==
  \/ /\ Len(stack) < MaxStack /\ Advance
     /\ stack' = Append(stack, call)
     /\ resolving_aliases' = resolving
  \/ /\ Len(stack) >= MaxStack
     /\ mode' = "overflow" /\ value' = None /\ focus' = None
     /\ UNCHANGED <<stack, resolving_aliases>>

(* Mutant: resolve_type_alias does not enter the name.                     *)
ResolveAliasUnmarked(n) ==
  Push(Call("alias", n, module.decls[n].parts, << >>), resolving_aliases)

(* resolve_type_alias of a name that is not being resolved.                *)
ResolveAlias(n) ==
  Push(Call("alias", n, module.decls[n].parts, << >>), resolving_aliases \cup {n})

(* translate_interface_object, whose callers enter the result in alias_map.*)
ResolveInterface(n) ==
  Push(Call("interface", n, module.decls[n].parts, module.decls[n].bases), resolving_aliases)

-----------------------------------------------------------------------------
(* build_schema: the members of Spec one after the other.                  *)
NextMember ==
  /\ mode = "next" /\ parsed < Len(module.members)
  /\ Eval(module.members[parsed + 1])
  /\ UNCHANGED <<module, alias_map, resolving_aliases, stack, parsed, mentioned>>

Finish ==
  /\ mode = "next" /\ parsed = Len(module.members)
  /\ mode' = "done"
  /\ UNCHANGED <<module, alias_map, resolving_aliases, stack, focus, value, parsed, mentioned>>

(* parse_spec_member: a member must be a function or an event emitter.     *)
TakeMember ==
  /\ mode = "ret" /\ stack = << >>
  /\ IF value.tag \in {"fn", "event"}
     THEN /\ mode' = "next" /\ focus' = None /\ value' = None
          /\ parsed' = parsed + 1
          /\ mentioned' = mentioned \cup value.refs
     ELSE Fail /\ UNCHANGED <<parsed, mentioned>>
  /\ UNCHANGED <<module, alias_map, resolving_aliases, stack>>

(* An error leaves build_schema.                                           *)
Reject ==
  /\ mode = "err" /\ stack = << >>
  /\ mode' = "failed"
  /\ UNCHANGED <<module, alias_map, resolving_aliases, stack, focus, value, parsed, mentioned>>

-----------------------------------------------------------------------------
(* translate_type_inner on a type without parts.                           *)
EvalLeaf ==
  /\ mode = "eval"
  /\ \/ focus.op = "prim"   /\ Give(Annotation("value", {}))
     \/ focus.op = "buffer" /\ Give(Annotation("buffer", {}))
     \/ focus.op = "void"   /\ Give(Annotation("void", {}))
     \/ focus.op = "null"   /\ Give([Annotation("void", {}) EXCEPT !.nullable = TRUE])
  /\ UNCHANGED <<module, alias_map, resolving_aliases, stack, parsed, mentioned>>

(* translate_type_inner on a type with parts.  EventEmitter is recognised  *)
(* only as the type of a member of Spec.                                   *)
EvalParts ==
  /\ mode = "eval" /\ focus.op \notin Atoms
  /\ IF focus.op \in {"event", "method"} /\ stack # << >>
     THEN Fail /\ UNCHANGED <<stack, resolving_aliases>>
     ELSE Push(Call(focus.op, None, focus.args, << >>), resolving_aliases)
  /\ UNCHANGED <<module, alias_map, parsed, mentioned>>

(* translate_type_ref: a local alias that is not being resolved comes      *)
(* before a built-in type of that name.                                    *)
EvalAlias ==
  /\ mode = "eval" /\ focus.op = "ref" /\ Kind(focus.name) = "alias"
  /\ focus.name \notin resolving_aliases
  /\ ResolveAlias(focus.name)
  /\ UNCHANGED <<module, alias_map, parsed, mentioned>>

EvalBuiltIn ==
  /\ mode = "eval" /\ focus.op \in {"ref", "qualified"} /\ focus.name \in BuiltIns
  /\ focus.op = "ref" /\ Kind(focus.name) = "alias" => focus.name \in resolving_aliases
  /\ Give(Annotation("value", {}))
  /\ UNCHANGED <<module, alias_map, resolving_aliases, stack, parsed, mentioned>>

(* resolve_named_type, in its order: an enum, an interface, an alias (one  *)
(* that is being resolved: a reference is all there is to return), or an   *)
(* error.  A qualified name never reaches local declarations.              *)
EvalNamed ==
  /\ mode = "eval" /\ focus.op \in {"ref", "qualified"} /\ focus.name \notin BuiltIns
  /\ focus.op = "ref" /\ Kind(focus.name) = "alias" => focus.name \in resolving_aliases
  /\ LET n == focus.name
         k == IF focus.op = "ref" THEN Kind(n) ELSE "none"
     IN \/ k = "enum"  /\ Give(Annotation("value", {})) /\ UNCHANGED <<stack, resolving_aliases>>
        \/ k = "interface" /\ ResolveInterface(n)
        \/ k = "alias" /\ Give(AliasOf(n)) /\ UNCHANGED <<stack, resolving_aliases>>
        \/ k \in {"badEnum", "none"} /\ Fail /\ UNCHANGED <<stack, resolving_aliases>>
  /\ UNCHANGED <<module, alias_map, parsed, mentioned>>

-----------------------------------------------------------------------------
(* The innermost call goes on with its next part: the bases of an          *)
(* interface, then its members.                                            *)
Nullish(t) == t.op \in {"null", "void"}
Parts(c)   == Len(c.bases) + Len(c.args)
Moved(c)   == [c EXCEPT !.next = @ + 1]

StepBase ==
  /\ mode = "step" /\ Top.next <= Len(Top.bases)
  /\ LET b == Top.bases[Top.next]
     IN \/ Kind(b) = "interface" /\ ResolveInterface(b)
        \/ Kind(b) = "alias" /\ b \notin resolving_aliases /\ ResolveAlias(b)
        \/ /\ Kind(b) = "alias" /\ b \in resolving_aliases /\ Give(AliasOf(b))
           /\ UNCHANGED <<stack, resolving_aliases>>
        \/ /\ Kind(b) \notin {"interface", "alias"} /\ Advance
           /\ stack' = [stack EXCEPT ![Len(stack)] = Moved(@)]
           /\ UNCHANGED resolving_aliases
  /\ UNCHANGED <<module, alias_map, parsed, mentioned>>

(* translate_union_type skips null, undefined and void.                    *)
StepPart ==
  /\ mode = "step" /\ Top.next > Len(Top.bases) /\ Top.next <= Parts(Top)
  /\ LET t == Top.args[Top.next - Len(Top.bases)]
     IN IF Top.op = "union" /\ Nullish(t)
        THEN /\ stack' = [stack EXCEPT ![Len(stack)] = [Moved(@) EXCEPT !.nullable = TRUE]]
             /\ Advance
        ELSE Eval(t) /\ UNCHANGED stack
  /\ UNCHANGED <<module, alias_map, resolving_aliases, parsed, mentioned>>

-----------------------------------------------------------------------------
(* The innermost call takes the annotation of a part.                      *)

NotAMember == {"fn", "promise", "void", "buffer"}

IsReturnType(c) == \/ c.op = "fn" /\ c.next = Len(c.args)
                   \/ c.op = "method" /\ c.next = 1

(* translate_object_member, validate_function_param_type,                  *)
(* validate_function_return_type and translate_intersection_type.          *)
Accepts(c, v) ==
  CASE c.next <= Len(c.bases)                              -> TRUE
    [] c.op \in {"object", "interface"}                    -> v.tag \notin NotAMember
    [] c.op \in {"fn", "method"} /\ IsReturnType(c)        -> v.tag \notin {"fn", "event"}
    [] c.op \in {"fn", "method"}                           -> v.tag \notin {"void", "promise", "event"}
    [] c.op = "inter"                                      -> v.tag = "object"
    [] OTHER                                               -> TRUE

(* Mutant: an array of something unsupported remembers no element type.    *)
TakenNothing(c, v) ==
  IF c.next <= Len(c.bases) THEN Moved(c)
  ELSE IF c.op = "array" /\ v.tag \in NotAMember
       THEN [Moved(c) EXCEPT !.last = None]
       ELSE [Moved(c) EXCEPT !.last = v, !.refs = @ \cup v.refs, !.kept = @ + 1,
                             !.nullable = @ \/ (c.op = "union" /\ v.nullable)]

(* What the call knows afterwards.  A base leaves nothing behind, and an   *)
(* array of something it does not support is an array of Any.              *)
Taken(c, v) ==
  IF c.next <= Len(c.bases) THEN Moved(c)
  ELSE IF c.op = "array" /\ v.tag \in NotAMember
       THEN [Moved(c) EXCEPT !.last = Annotation("value", {})]
       ELSE [Moved(c) EXCEPT !.last = v, !.refs = @ \cup v.refs, !.kept = @ + 1,
                             !.nullable = @ \/ (c.op = "union" /\ v.nullable)]

Absorb ==
  /\ mode = "ret" /\ stack # << >>
  /\ IF Accepts(Top, value)
     THEN stack' = [stack EXCEPT ![Len(stack)] = Taken(@, value)] /\ Advance
     ELSE Fail /\ UNCHANGED stack
  /\ UNCHANGED <<module, alias_map, resolving_aliases, parsed, mentioned>>

-----------------------------------------------------------------------------
(* The innermost call has translated its parts and returns.                *)

Complete == mode = "step" /\ Top.next > Parts(Top)
Return   == stack' = Front(stack)

ReturnPlain ==
  /\ Complete /\ Top.op \in {"object", "inter", "array", "promise", "dict", "event", "fn", "method"}
  /\ Return
  /\ Give(Annotation(CASE Top.op \in {"object", "inter"} -> "object"
                       [] Top.op \in {"array", "dict"}   -> "value"
                       [] Top.op \in {"fn", "method"}    -> "fn"
                       [] OTHER                          -> Top.op, Top.refs))
  /\ UNCHANGED <<module, alias_map, resolving_aliases, parsed, mentioned>>

ReturnUnion ==
  /\ Complete /\ Top.op = "union"
  /\ Return
  /\ Give([(CASE Top.kept = 0 -> Annotation("void", {})
              [] Top.kept = 1 -> Top.last
              [] OTHER        -> Annotation("value", Top.refs)) EXCEPT !.nullable = Top.nullable])
  /\ UNCHANGED <<module, alias_map, resolving_aliases, parsed, mentioned>>

(* translate_partial_type: an object, or a reference to one in alias_map.  *)
PartialOf(v) ==
  IF v.tag = "alias" THEN alias_map[v.name]
  ELSE IF v.tag = "object" THEN v ELSE None

ReturnPartial ==
  /\ Complete /\ Top.op = "partial"
  /\ Return
  /\ LET object == PartialOf(Top.last)
     IN IF object # None /\ ~object.nullable
        THEN Give(Annotation("object", object.refs))
        ELSE Fail
  /\ UNCHANGED <<module, alias_map, resolving_aliases, parsed, mentioned>>

ReturnInterface ==
  /\ Complete /\ Top.op = "interface"
  /\ Return
  /\ alias_map' = [alias_map EXCEPT ![Top.name] = Annotation("object", Top.refs)]
  /\ Give(AliasOf(Top.name))
  /\ UNCHANGED <<module, resolving_aliases, parsed, mentioned>>

(* Mutant: an alias of an object is not entered in alias_map.              *)
ReturnAliasUnmapped ==
  /\ Complete /\ Top.op = "alias"
  /\ Return
  /\ resolving_aliases' = resolving_aliases \ {Top.name}
  /\ IF Top.last.tag = "object" THEN Give(AliasOf(Top.name)) ELSE Give(Top.last)
  /\ UNCHANGED <<module, alias_map, parsed, mentioned>>

(* The end of resolve_type_alias: an object is entered in alias_map under  *)
(* the alias's name; a reference to an alias that has no entry and is not  *)
(* being resolved is an error; anything else stands for the alias.         *)
ReturnAlias ==
  /\ Complete /\ Top.op = "alias"
  /\ Return
  /\ resolving_aliases' = resolving_aliases \ {Top.name}
  /\ LET v == Top.last
     IN \/ /\ v.tag = "object"
           /\ alias_map' = [alias_map EXCEPT ![Top.name] = v]
           /\ Give(AliasOf(Top.name))
        \/ /\ v.tag = "alias" /\ alias_map[v.name] = None /\ v.name \notin resolving_aliases'
           /\ Fail /\ UNCHANGED alias_map
        \/ /\ v.tag # "object"
           /\ v.tag = "alias" => (alias_map[v.name] # None \/ v.name \in resolving_aliases')
           /\ Give(v) /\ UNCHANGED alias_map
  /\ UNCHANGED <<module, parsed, mentioned>>

-----------------------------------------------------------------------------
(* Mutant: an error leaves the name among those being resolved.            *)
UnwindMarked ==
  /\ mode = "err" /\ stack # << >>
  /\ Return
  /\ UNCHANGED resolving_aliases
  /\ IF Top.op = "array" THEN Give(Annotation("value", {})) ELSE Fail
  /\ UNCHANGED <<module, alias_map, parsed, mentioned>>

(* An error leaves the innermost call: the name of an alias is removed     *)
(* from resolving_aliases on the way, and translate_array_type turns the   *)
(* error into an array of Any.                                             *)
Unwind ==
  /\ mode = "err" /\ stack # << >>
  /\ Return
  /\ resolving_aliases' = IF Top.op = "alias" THEN resolving_aliases \ {Top.name}
                                             ELSE resolving_aliases
  /\ IF Top.op = "array" THEN Give(Annotation("value", {})) ELSE Fail
  /\ UNCHANGED <<module, alias_map, parsed, mentioned>>

Ended == mode \in {"done", "failed", "overflow"}

Terminated == Ended /\ UNCHANGED vars

Step ==
  \/ NextMember \/ Finish \/ TakeMember \/ Reject
  \/ EvalLeaf \/ EvalParts \/ EvalAlias \/ EvalBuiltIn \/ EvalNamed
  \/ StepBase \/ StepPart \/ Absorb
  \/ ReturnPlain \/ ReturnUnion \/ ReturnPartial \/ ReturnInterface \/ ReturnAlias
  \/ Unwind

Next == Step \/ Terminated

Spec == Init /\ [][Next]_vars /\ WF_vars(Step)

-----------------------------------------------------------------------------
(* Types of all variables, and which of them a mode needs.                 *)
Ann     == {v \in [tag : Tags, name : Names \cup {None}, nullable : BOOLEAN, refs : SUBSET Names] :
              v.tag = "alias" => v.name \in Names}
ASSUME NoneAssumption == None \notin Ann
CallSet == {c \in [op : (Ops \ Atoms) \cup {"alias", "interface"}, name : Names \cup {None},
                   args : Seq(Types), bases : Seq(Names), next : Nat \ {0}, refs : SUBSET Names,
                   last : Ann, kept : Nat, nullable : BOOLEAN] :
              c.op \in {"alias", "interface"} => c.name \in Names}

TypeOK ==
  /\ module \in Modules
  /\ alias_map \in [Names -> Ann \cup {None}]
  /\ resolving_aliases \in SUBSET Names
  /\ stack \in Seq(CallSet)
  /\ mode \in {"next", "eval", "step", "ret", "err", "done", "failed", "overflow"}
  /\ mode = "eval" => focus \in Types
  /\ mode = "ret" => value \in Ann
  /\ mode = "step" => stack # << >>
  /\ parsed \in Nat
  /\ mentioned \in SUBSET Names

-----------------------------------------------------------------------------
(* Properties.                                                             *)

AliasCalls == {i \in DOMAIN stack : stack[i].op = "alias"}

(* The names being resolved are those of the resolve_type_alias calls on   *)
(* the stack, each there once, after any number of errors that arrays      *)
(* swallowed: an alias is never resolved inside itself, and a later member *)
(* of Spec starts with none.                                               *)
ResolvingOnStack ==
  /\ resolving_aliases = {stack[i].name : i \in AliasCalls}
  /\ \A i, j \in AliasCalls : stack[i].name = stack[j].name => i = j
=============================================================================
