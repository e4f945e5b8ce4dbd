---------------------------- MODULE ReanimatedPass ----------------------------
(***************************************************************************)
(* One run of the Reanimated 3 visitor (swc-react-native-worklets,         *)
(* compat/ra3/worklet_pass.rs) over one program, with its                  *)
(* make_worklet_factory (compat/ra3/worklet_factory.rs).                   *)
(*                                                                         *)
(* Reanimated 3 serializes the body of a worklet as it was written: unless *)
(* process_nested_worklets is set, the visitor keeps the body of a marked  *)
(* function, under the span of the function, before it visits the          *)
(* children, and takes it out when it makes the factory.  The parameters   *)
(* are always serialized with their children processed.  A context object  *)
(* gets a generated factory function, which has no span of its own.        *)
(*                                                                         *)
(* As in WorkletPass the traversal chooses the program while it walks it,  *)
(* and <<h, n>> is the n-th identifier for the init data of hash h.        *)
(***************************************************************************)
EXTENDS Naturals, Sequences, FiniteSets, Functions, SequencesExt

CONSTANTS
  Hashes,      \* values worklet_hash may give to a worklet's code
  UserNames,   \* names of init data that the program already binds
  Options,     \* options a build may be run with
  Programs,    \* families of programs: see Family
  None         \* no value

Name == Hashes \X (Nat \ {0})

(* "arrow" has a block body, "exprArrow" an expression; "accessor" and     *)
(* "classAccessor" stand for getters and setters; "context" is an object   *)
(* literal with the marker, "contextFactory" the function generated for it.*)
FnKinds  == {"fnDecl", "exportFn", "exportDefaultFn", "fnExpr", "method", "accessor", "classMethod",
             "classAccessor", "arrow", "exprArrow", "contextFactory"}
Kinds    == FnKinds \cup {"stmt", "stmts", "context"}

(* Nodes that are a Function, which visit_mut_function sees.               *)
FunctionKinds == FnKinds \ {"arrow", "exprArrow"}

(* Kinds whose handler goes on to make_worklet_factory.                    *)
WorkletKinds == FnKinds \ {"exprArrow", "accessor", "classAccessor"}

ASSUME HashesAssumption  == Hashes # {} /\ Hashes \subseteq Nat
ASSUME NamesAssumption   == UserNames \subseteq Name /\ IsFiniteSet(UserNames)
ASSUME OptionAssumption  ==
  Options \subseteq [process_nested_worklets : BOOLEAN, omit_native_only_data : BOOLEAN]

(* A family of programs: the kinds of node they are built of, whether they *)
(* are scripts, and bounds on their nodes and their nesting.               *)
Family == [shapes : SUBSET Kinds, script : BOOLEAN, nodes : Nat, depth : Nat]
ASSUME ProgramAssumption == Programs \subseteq Family

Errors == {"options", "callbacks", "accessor", "shadows", "print"}
ASSUME NoneAssumption == None \notin Errors \cup Nat

ItemKinds == {"stmt", "fnDecl", "exportFn", "exportDefaultFn"}
ListKinds == {"stmt", "fnDecl"}
ExprKinds == {"fnExpr", "method", "accessor", "classMethod", "classAccessor", "arrow", "exprArrow",
              "context"}

(* Where the traversal is inside a node: a function has its parameters and *)
(* its body, a context object its properties and the generated one.        *)
Parts == {"params", "body"}

(* An identifier is a name in a context: fresh_init_id makes one for the   *)
(* init datum, and a generated factory others for its parameters.          *)
Ident == Name \X {"data", "factory"}

(* The init data that code mentions, but for what its own scopes bind, and *)
(* the identifiers that are bound anywhere inside of it.                   *)
Code   == [mentions : SUBSET Name, binds : SUBSET Ident]
NoCode == [mentions |-> {}, binds |-> {}]

(* code is what the node consists of so far, params what of that is in its *)
(* parameters.                                                             *)
Node == [id : Nat, span : Nat, kind : Kinds, marked : BOOLEAN, part : Parts, old : BOOLEAN,
         code : Code, params : Code, shared : BOOLEAN, below : SUBSET Kinds]

ChildKinds(n) ==
  CASE n.kind = "stmts"                                       -> ListKinds
    [] n.kind = "stmt"                                        -> ExprKinds \cup {"stmt", "stmts", "fnDecl"}
    [] n.kind = "contextFactory"                              -> IF n.part = "body" THEN ExprKinds ELSE {}
    [] n.kind \in FnKinds \ {"exprArrow"} /\ n.part = "body"  -> ListKinds
    [] n.kind = "context" /\ n.part = "body"                  -> {}
    [] OTHER                                                  -> ExprKinds

InList(n) == n.kind = "stmts" \/
             (n.kind \in FnKinds \ {"exprArrow", "contextFactory"} /\ n.part = "body")

(* DUMMY_SP, the span of generated functions.                              *)
Dummy == 0

VARIABLES
  program,             \* the family that the program belongs to
  options,             \* ReanimatedOptions
  phase,               \* "start" | "module" | "walk" | "item" | "end" | "done"
  stack,               \* the nodes the traversal is inside of, innermost last
  nodes,               \* how many nodes the program has so far
  parent_is_scopable,  \* WorkletsVisitor::parent_is_scopable
  unprocessed_bodies,  \* WorkletsVisitor::unprocessed_bodies: span -> whose body
  pending_prepends,    \* WorkletsVisitor::pending_prepends
  worklet_number,      \* WorkletsVisitor::worklet_number
  used_names,          \* WorkletsVisitor::used_names (init data names only)
  error,               \* WorkletsVisitor::error
  escaped,             \* names that the current item mentions
  out,                 \* the items of the rewritten program
  result,              \* "open", then which program the caller gets
  worklets,            \* history: the worklets that became factories
  missed               \* history: kinds of marked functions left as they were

kept    == <<program, options>>
names   == <<pending_prepends, worklet_number, used_names>>
walk    == <<stack, nodes, parent_is_scopable>>
rest    == <<escaped, out, result>>
vars    == <<kept, phase, walk, unprocessed_bodies, names, error, rest, worklets, missed>>

Top == stack[Len(stack)]

Nested     == options.process_nested_worklets
OmitNative == options.omit_native_only_data

NoBodies == [s \in {} |-> Dummy]

Init ==
  /\ program \in Programs /\ options \in Options
  /\ phase = "start"
  /\ stack = << >> /\ nodes = 0 /\ parent_is_scopable = TRUE
  /\ unprocessed_bodies = NoBodies
  /\ pending_prepends = << >> /\ worklet_number = 1 /\ used_names = {}
  /\ error = None
  /\ escaped = {} /\ out = << >> /\ result = "open"
  /\ worklets = {} /\ missed = {}

Reported(e) == IF error = None THEN e ELSE error

-----------------------------------------------------------------------------
(* visit_mut_module and visit_mut_script up to their loops: options of     *)
(* another version are refused before anything is touched, a generated     *)
(* file is skipped, and an error among the known callbacks does not stop   *)
(* the walk.                                                               *)
Begin ==
  /\ phase = "start"
  /\ \/ /\ phase' = "done" /\ result' = "original"
        /\ error' \in {error, Reported("options")}
        /\ UNCHANGED used_names
     \/ /\ phase' = "module" /\ used_names' = UserNames
        /\ error' \in {error, Reported("callbacks")}
        /\ UNCHANGED result
  /\ UNCHANGED <<kept, walk, unprocessed_bodies, pending_prepends, worklet_number, escaped, out,
                 worklets, missed>>

BeginModule == ~program.script /\ Begin
BeginScript == program.script /\ Begin

(* Mutant: the body is kept once its children have been visited.           *)
KeptBodies(n) == unprocessed_bodies

(* visit_mut_function: the body of a marked function is kept before the    *)
(* children are visited.                                                   *)
WithBody(n) ==
  IF ~Nested /\ n.marked /\ n.kind \in FunctionKinds
  THEN [s \in DOMAIN unprocessed_bodies \cup {n.span} |->
          IF s = n.span THEN n.id ELSE unprocessed_bodies[s]]
  ELSE unprocessed_bodies

(* The bound leaves room for the factories of the open context objects.    *)
Room(k) ==
  /\ nodes + Cardinality({i \in DOMAIN stack : stack[i].kind = "context" /\ stack[i].part = "params"})
       + (CASE k = "context" -> 2 [] k = "contextFactory" -> 0 [] OTHER -> 1) <= program.nodes
  /\ Len(stack) + (IF k = "context" THEN 2 ELSE 1) <= program.depth

(* What the open nodes learn of a new node n: shared, that a function with *)
(* their span was entered inside; below, what the properties of a context  *)
(* object are built of.  After the properties comes the generated one.     *)
Above(n) ==
  [i \in DOMAIN stack |->
     [stack[i] EXCEPT !.shared = @ \/ stack[i].span = n.span,
                      !.below = IF stack[i].kind = "context" THEN @ \cup {n.kind} ELSE @,
                      !.part = IF n.kind = "contextFactory" /\ i = Len(stack) THEN "body" ELSE @]]

Push(k, marked, scopable) ==
  LET n == [id |-> nodes + 1, span |-> IF k = "contextFactory" THEN Dummy ELSE nodes + 1,
            kind |-> k, marked |-> marked,
            part |-> IF k \in FnKinds \cup {"context"} THEN "params" ELSE "body",
            old |-> scopable, code |-> NoCode, params |-> NoCode, shared |-> FALSE, below |-> {}]
  IN /\ Room(k)
     /\ marked => k \in FnKinds \ {"exprArrow"}
     /\ nodes' = nodes + 1
     /\ stack' = Append(Above(n), n)
     /\ unprocessed_bodies' = WithBody(n)
     /\ parent_is_scopable' = CASE k = "stmt" -> FALSE [] k = "stmts" -> TRUE [] OTHER -> scopable

Items == IF program.script THEN ListKinds ELSE ItemKinds

(* The loops of visit_mut_module and visit_mut_script: the next item.      *)
OpenItem(k, marked) ==
  /\ phase = "module" /\ k \in Items
  /\ Push(k, marked, TRUE)
  /\ phase' = "walk"
  /\ UNCHANGED <<kept, names, error, rest, worklets, missed>>

(* The visitor descends into a child; a marked accessor of an object is    *)
(* refused instead.  The generated factory returns a copy of its object,   *)
(* which is built of what the object is built of.                          *)
Enter(k, marked) ==
  /\ phase = "walk"
  /\ k \in ChildKinds(Top)
  /\ ~(k = "accessor" /\ marked)
  /\ \A i \in DOMAIN stack : stack[i].kind = "context" /\ stack[i].part = "body" => k \in stack[i].below
  /\ Push(k, marked, parent_is_scopable)
  /\ UNCHANGED <<kept, phase, names, error, rest, worklets, missed>>

(* Mutant: the error of RejectAccessor is not reported.                    *)
IgnoreAccessor ==
  /\ phase = "walk" /\ "accessor" \in ChildKinds(Top) \cap program.shapes
  /\ Room("accessor")
  /\ nodes' = nodes + 1
  /\ missed' = missed \cup {"accessor"}
  /\ UNCHANGED <<kept, phase, stack, parent_is_scopable, unprocessed_bodies, names, error, rest, worklets>>

(* visit_mut_prop on a marked getter or setter: its children are not       *)
(* visited.                                                                *)
RejectAccessor ==
  /\ phase = "walk" /\ "accessor" \in ChildKinds(Top) \cap program.shapes
  /\ Room("accessor")
  /\ nodes' = nodes + 1
  /\ error' = Reported("accessor")
  /\ missed' = missed \cup {"accessor"}
  /\ UNCHANGED <<kept, phase, stack, parent_is_scopable, unprocessed_bodies, names, rest, worklets>>

(* Mutant: a block body does not set parent_is_scopable.                   *)
EnterBodyAsIs ==
  /\ phase = "walk" /\ Top.kind \in FnKinds /\ Top.part = "params"
  /\ stack' = [stack EXCEPT ![Len(stack)].part = "body", ![Len(stack)].params = Top.code,
                            ![Len(stack)].old = parent_is_scopable]
  /\ UNCHANGED <<kept, phase, nodes, parent_is_scopable, unprocessed_bodies, names, error, rest,
                 worklets, missed>>

(* From the parameters to the body; a block body is a statement list.  The *)
(* generated factory has one return statement, in that list.               *)
EnterBody ==
  /\ phase = "walk" /\ Top.kind \in FnKinds /\ Top.part = "params"
  /\ stack' = [stack EXCEPT ![Len(stack)].part = "body", ![Len(stack)].params = Top.code,
                            ![Len(stack)].old = parent_is_scopable]
  /\ parent_is_scopable' = CASE Top.kind = "contextFactory" -> FALSE
                             [] Top.kind = "exprArrow"      -> parent_is_scopable
                             [] OTHER                       -> TRUE
  /\ UNCHANGED <<kept, phase, nodes, unprocessed_bodies, names, error, rest, worklets, missed>>

(* process_context_object has put the factory after the other properties.  *)
EnterFactory ==
  /\ phase = "walk"
  /\ Top.kind = "context" /\ Top.part = "params"
  /\ Push("contextFactory", TRUE, parent_is_scopable)
  /\ UNCHANGED <<kept, phase, names, error, rest, worklets, missed>>

-----------------------------------------------------------------------------
Leaving == phase = "walk" /\ Top.part = "body"

Joined(a, b) == [mentions |-> a.mentions \cup b.mentions, binds |-> a.binds \cup b.binds]

(* Mutant: every node left ends the item.                                  *)
ReturnToItem(code) ==
  /\ stack' = Front(stack)
  /\ phase' = "item" /\ escaped' = code.mentions
  /\ parent_is_scopable' = Top.old

(* The code around the node left now contains code.                        *)
Return(code) ==
  LET outer == Front(stack)
  IN /\ stack' = IF outer = << >> THEN << >>
                 ELSE [outer EXCEPT ![Len(outer)].code = Joined(@, code)]
     /\ phase' = IF outer = << >> THEN "item" ELSE phase
     /\ escaped' = IF outer = << >> THEN code.mentions ELSE escaped
     /\ parent_is_scopable' = IF Top.kind = "exprArrow" THEN parent_is_scopable ELSE Top.old

(* transform_function, and the arrow's handler, go on to the factory only  *)
(* for a marked function and while no error has been reported.             *)
Due(n) == n.kind \in WorkletKinds /\ n.marked /\ error = None

LeavePlain ==
  /\ Leaving /\ ~Due(Top)
  /\ Return(Top.code)
  /\ missed' = IF Top.marked THEN missed \cup {Top.kind} ELSE missed
  /\ UNCHANGED <<kept, nodes, unprocessed_bodies, names, error, out, result, worklets>>

(* A function without a body: a TypeScript overload or declaration.        *)
LeaveBodiless ==
  /\ phase = "walk" /\ Top.part = "params" /\ ~Top.marked /\ Top.code = NoCode
  /\ Top.kind \in FunctionKinds \ {"contextFactory"}
  /\ Return(NoCode)
  /\ UNCHANGED <<kept, nodes, unprocessed_bodies, names, error, out, result, worklets, missed>>

-----------------------------------------------------------------------------
(* make_worklet_factory on the node being left.                            *)

(* Whose body is serialized: an arrow keeps its own in a local, any other  *)
(* function takes what is stored under its span; None stands for the body  *)
(* with its children processed.                                            *)
Serialized(n) ==
  IF n.kind = "arrow" THEN IF Nested THEN None ELSE n.id
  ELSE IF n.span \in DOMAIN unprocessed_bodies THEN unprocessed_bodies[n.span]
  ELSE None

(* Mutant: the body is left in the map.                                    *)
LeftStored(n) == UNCHANGED unprocessed_bodies

Taken(n) ==
  unprocessed_bodies' = IF n.kind = "arrow" THEN unprocessed_bodies
                        ELSE Restrict(unprocessed_bodies, DOMAIN unprocessed_bodies \ {n.span})

(* What is serialized: the parameters have their children processed in any *)
(* case, and a body as it was written has no part in init data.            *)
SerializedCode(n) == IF Serialized(n) = None THEN n.code ELSE n.params

(* Mutant: only the body is looked at.                                     *)
ClosureOfBody(n) == SerializedCode(n).mentions \ n.params.mentions

(* get_closure over the parameters and the body that is serialized: the    *)
(* identifiers in them that are bound nowhere in them.  Globals, which are *)
(* left out, are not named like init data.                                 *)
Closure(n) == {name \in SerializedCode(n).mentions : <<name, "data">> \notin SerializedCode(n).binds}

(* Mutant: the parameters are the identifiers that they stand for.         *)
SameIdentifiers(captured) == captured \X {"data"}

(* factory_bindings: a parameter for each name, in a context of its own.   *)
FactoryBindings(captured) == captured \X {"factory"}

(* The call of the factory that takes the place of a worklet: its init     *)
(* datum and what it captures are its arguments.                           *)
FactoryCall(n, inits) ==
  Joined(n.code, [mentions |-> inits, binds |-> FactoryBindings(Closure(n) \cup inits)])

Replaced(init) ==
  worklets' = worklets \cup
    {[number |-> worklet_number, init |-> init, id |-> Top.id, kind |-> Top.kind, shared |-> Top.shared,
      body |-> Serialized(Top), open |-> SerializedCode(Top).mentions \ Closure(Top)]}

(* The worklet's name is that of a captured binding, or its code cannot be *)
(* printed: the number and the stored body are gone by then.               *)
LeaveUnserialized(e) ==
  /\ Leaving /\ Due(Top)
  /\ Return(Top.code)
  /\ Taken(Top)
  /\ worklet_number' = worklet_number + 1
  /\ error' = Reported(e)
  /\ missed' = missed \cup {Top.kind}
  /\ UNCHANGED <<kept, nodes, pending_prepends, used_names, out, result, worklets>>

LeaveWithoutData ==
  /\ Leaving /\ Due(Top) /\ OmitNative
  /\ Return(FactoryCall(Top, {}))
  /\ Taken(Top)
  /\ worklet_number' = worklet_number + 1
  /\ Replaced(None)
  /\ UNCHANGED <<kept, nodes, pending_prepends, used_names, error, out, result, missed>>

(* Mutant: the name is not looked up in used_names.                        *)
IsPlainInitId(name) == name[2] = 1

(* fresh_init_id: the first name for this hash that is not in used_names.  *)
IsFreshInitId(name) ==
  /\ name \notin used_names
  /\ \A m \in 1..(name[2] - 1) : <<name[1], m>> \in used_names

(* The init datum gets a fresh name and always goes before the item.  The  *)
(* function that stays in the module has its children processed, whatever  *)
(* was serialized.                                                         *)
LeaveHoisting(name) ==
  /\ Leaving /\ Due(Top) /\ ~OmitNative
  /\ IsFreshInitId(name)
  /\ Return(FactoryCall(Top, {name}))
  /\ Taken(Top)
  /\ worklet_number' = worklet_number + 1
  /\ used_names' = used_names \cup {name}
  /\ pending_prepends' = Append(pending_prepends, name)
  /\ Replaced(name)
  /\ UNCHANGED <<kept, nodes, error, out, result, missed>>

Candidates == Hashes \X (1..(Cardinality(used_names) + 1))

LeaveWorklet ==
  \/ LeaveWithoutData
  \/ \E e \in {"shadows", "print"} : LeaveUnserialized(e)
  \/ \E name \in Candidates : LeaveHoisting(name)

-----------------------------------------------------------------------------
(* Mutant: what is pending is put after the item.                          *)
EndItemLate ==
  /\ phase = "item" /\ phase' = "module"
  /\ out' = out \o <<[prepends |-> << >>, mentions |-> escaped],
                    [prepends |-> pending_prepends, mentions |-> {}]>>
  /\ pending_prepends' = << >> /\ escaped' = {}
  /\ UNCHANGED <<kept, walk, unprocessed_bodies, worklet_number, used_names, error, result,
                 worklets, missed>>

(* The rest of the loop: what is pending is put before the item.           *)
EndItem ==
  /\ phase = "item" /\ phase' = "module"
  /\ out' = Append(out, [prepends |-> pending_prepends, mentions |-> escaped])
  /\ pending_prepends' = << >> /\ escaped' = {}
  /\ UNCHANGED <<kept, walk, unprocessed_bodies, worklet_number, used_names, error, result,
                 worklets, missed>>

(* The end of visit_mut_module: an error gives back the original.          *)
Finish ==
  /\ phase = "module" /\ phase' = "done"
  /\ result' = IF error = None THEN "rewritten" ELSE "original"
  /\ UNCHANGED <<kept, walk, unprocessed_bodies, names, error, escaped, out, worklets, missed>>

Terminated == phase = "done" /\ UNCHANGED vars

Next ==
  \/ BeginModule \/ BeginScript
  \/ \E k \in program.shapes, marked \in BOOLEAN : OpenItem(k, marked) \/ Enter(k, marked)
  \/ RejectAccessor \/ EnterBody \/ EnterFactory
  \/ LeavePlain \/ LeaveBodiless \/ LeaveWorklet
  \/ EndItem \/ Finish \/ Terminated

Spec == Init /\ [][Next]_vars

-----------------------------------------------------------------------------
(* Types of all variables.                                                 *)
Item    == [prepends : Seq(Name), mentions : SUBSET Name]
Worklet == [number : Nat, init : Name \cup {None}, id : Nat, kind : WorkletKinds, shared : BOOLEAN,
            body : Nat \cup {None}, open : SUBSET Name]

TypeOK ==
  /\ program \in Programs /\ options \in Options
  /\ phase \in {"start", "module", "walk", "item", "done"}
  /\ stack \in Seq(Node)
  /\ (phase = "walk") <=> (stack # << >>)
  /\ nodes \in Nat
  /\ parent_is_scopable \in BOOLEAN
  /\ IsFiniteSet(DOMAIN unprocessed_bodies) /\ DOMAIN unprocessed_bodies \subseteq Nat
  /\ unprocessed_bodies \in [DOMAIN unprocessed_bodies -> Nat]
  /\ pending_prepends \in Seq(Name)
  /\ worklet_number \in Nat \ {0}
  /\ used_names \in SUBSET Name
  /\ error \in Errors \cup {None}
  /\ escaped \in SUBSET Name
  /\ out \in Seq(Item)
  /\ result \in {"open", "rewritten", "original"}
  /\ worklets \in SUBSET Worklet
  /\ missed \in SUBSET Kinds

-----------------------------------------------------------------------------
(* Properties.                                                             *)

(* The body stored under a span is taken out by the function that stored   *)
(* it: no worklet is serialized from the body of another function, even    *)
(* when generated functions share a span.  Unless process_nested_worklets  *)
(* is set, that body is also as it was before its children were processed, *)
(* whatever became of the parameters; the only exception is a generated    *)
(* factory that contains another one, which uses up its entry.             *)
SerializesOwnBody ==
  \A w \in worklets :
    /\ w.body \in {None, w.id}
    /\ ~Nested /\ w.body = None => w.kind = "contextFactory" /\ w.shared

(* "Transform nested worklets before serializing their parent.", as the    *)
(* option process_nested_worklets says: a build without it never serializes*)
(* the body of a parent whose nested worklets have been transformed.       *)
NestedOnlyOnRequest == ~Nested => \A w \in worklets : w.body # None

(* A function declaration in a statement list keeps its binding.           *)
ScopableInLists ==
  phase = "walk" => /\ InList(Top) => parent_is_scopable
                    /\ Top.kind = "stmt" => ~parent_is_scopable

(* The lists of init data declared so far: one for each finished item, and *)
(* what is pending.                                                        *)
ItemPrepends(items) == [i \in DOMAIN items |-> items[i].prepends]
Declarations == Append(ItemPrepends(out), pending_prepends)

Distinct(lists) ==
  \A i, j \in DOMAIN lists : \A a \in DOMAIN lists[i], b \in DOMAIN lists[j] :
     lists[i][a] = lists[j][b] => i = j /\ a = b

(* Every mention of init data finds one declaration.  No two declarations  *)
(* share a name, and none takes a name the program already binds; a        *)
(* finished item mentions only data declared before it, also in functions  *)
(* that stay in the module and mention the data of nested worklets that    *)
(* their serialized code does not know; and serialized code captures what  *)
(* the nested worklets mention that were processed before it: those in its *)
(* body when process_nested_worklets is set, and those in the defaults of  *)
(* its parameters always.                                                  *)
InitDataInScope ==
  /\ Distinct(Declarations)
  /\ \A i \in DOMAIN Declarations : ToSet(Declarations[i]) \cap UserNames = {}
  /\ \A i \in DOMAIN out : out[i].mentions \subseteq UNION {ToSet(out[j].prepends) : j \in 1..i}
  /\ \A w \in worklets : w.open = {}

(* Without an error every marked function of a kind that has a handler is  *)
(* replaced, and with one the caller gets the program it gave.             *)
ReplacedOrRefused ==
  /\ error = None => missed \cap (WorkletKinds \cup {"accessor"}) = {}
  /\ phase = "done" => (result = "rewritten" => error = None)
=============================================================================
