---------------------------- MODULE KnownCallbacks ----------------------------
(***************************************************************************)
(* How functions of a program become worklets before the walk              *)
(* (swc-react-native-worklets): by the directive of their file, as the     *)
(* factory of a class, or because an argument of a known hook leads to     *)
(* them (add_directives_to_known_callbacks, over Definitions).  Current    *)
(* Worklets, Bundle Mode and Reanimated 3 do the same with other tables.   *)
(*                                                                         *)
(* The recursion of Callbacks::collect is a stack of the calls still to be *)
(* made, first one on top.                                                 *)
(***************************************************************************)
EXTENDS FileDirective

CONSTANTS
  Inputs   \* families of programs, sequences of items, with options to build them with

Build == [rules : {"current", "bundle", "ra3"}, disable_worklet_classes : BOOLEAN]

ASSUME NamesAssumption == IsFiniteSet(Names) /\ None \notin Names
ASSUME InputAssumption ==
  \A family \in Inputs : /\ family.builds \subseteq Build
                         /\ \A items \in family.bodies : IsProgram(items)

VARIABLES
  build,        \* the options
  source,       \* the program as it was written
  body,         \* the program
  phase,        \* "file" | "classes" | "definitions" | "callbacks" | "inject" | "done"
  at,           \* the item that is visited next
  definitions,  \* Definitions
  args,         \* arguments of the call that are still to be collected
  work,         \* calls of collect still to be made, the next one first
  seen,         \* names followed from the current argument
  sites,        \* Callbacks::sites: spans of functions to mark
  error,        \* Callbacks::error
  directives    \* functions with a worklet directive

callbacks == <<args, work, seen, sites, error>>
vars      == <<build, source, body, phase, at, definitions, callbacks, directives>>

RA3         == build.rules = "ra3"
Legacy      == build.rules # "bundle"
WithClasses == RA3 \/ (Legacy /\ ~build.disable_worklet_classes)

NoDefinitions ==
  [hand_written          |-> {},
   function_declarations |-> << >>,
   declarators           |-> << >>,
   assignments           |-> << >>,
   rebound               |-> {},
   declarations          |-> {}]

Init ==
  /\ \E family \in Inputs : build \in family.builds /\ source \in family.bodies
  /\ body = source
  /\ phase = "file" /\ at = 1
  /\ definitions = NoDefinitions
  /\ args = << >> /\ work = << >> /\ seen = {} /\ sites = {} /\ error = FALSE
  /\ directives = {}

-----------------------------------------------------------------------------
(* file_directive::process_module and process_script.                      *)
ProcessFile ==
  /\ phase = "file"
  /\ IF HasFileDirective(body)
     THEN /\ body' = ProcessedFile(body, Legacy, RA3)
          /\ directives' = UNION {InjectedIn(body[i], RA3) : i \in 1..Len(body)}
     ELSE UNCHANGED <<body, directives>>
  /\ phase' = "classes"
  /\ UNCHANGED <<build, source, at, definitions, callbacks>>

(* legacy_classes::process_module and process_script.                      *)
ProcessClasses ==
  /\ phase = "classes"
  /\ IF WithClasses
     THEN /\ body' = ProcessedClasses(body)
          /\ directives' = directives \cup
                           {<<body[i].id, 0, 0>> : i \in {i \in 1..Len(body) : IsWorkletClass(body[i])}}
     ELSE UNCHANGED <<body, directives>>
  /\ phase' = "definitions"
  /\ UNCHANGED <<build, source, at, definitions, callbacks>>

-----------------------------------------------------------------------------
(* Definitions: one visit of the whole program, item by item.              *)
With(f, x, y) == [z \in DOMAIN f \cup {x} |-> IF z = x THEN y ELSE f[z]]

Binding(d, name) ==
  [d EXCEPT !.declarations = @ \cup {name},
            !.rebound      = IF name \in d.declarations THEN @ \cup {name} ELSE @]

Visit(kind) ==
  /\ phase = "definitions" /\ at <= Len(body) /\ body[at].is = kind
  /\ at' = at + 1
  /\ UNCHANGED <<build, source, body, phase, callbacks, directives>>

(* visit_fn_decl: what "export default function" declares is an expression *)
(* of its own to swc, which no visit of Definitions sees.                  *)
IsFnDecl(item) == item.is = "fnDecl" /\ item.export # "default"

VisitFnDecl ==
  /\ Visit("fnDecl")
  /\ definitions' =
       IF IsFnDecl(body[at])
       THEN [definitions EXCEPT !.function_declarations = With(@, body[at].name, <<body[at].id, 0, 0>>)]
       ELSE definitions

VisitVarDeclarator ==
  LET bound == Binding(definitions, body[at].name)
      shape == Describe(body[at].value, body[at].id, 0)
  IN /\ Visit("var")
     /\ definitions' = IF shape = None THEN bound
                       ELSE [bound EXCEPT !.declarators = With(@, body[at].name, shape)]

(* Mutant: an assigned name is not rebound by that.                        *)
AssignedOnly(d, name, shape) ==
  IF shape = None THEN Binding(d, name)
  ELSE [Binding(d, name) EXCEPT !.assignments = With(@, name, <<shape>>)]

Assigned(d, name, shape) ==
  LET before == IF name \in DOMAIN d.assignments THEN d.assignments[name] ELSE << >>
      bound  == [Binding(d, name) EXCEPT !.rebound = @ \cup {name}]
  IN  IF shape = None THEN bound
      ELSE [bound EXCEPT !.assignments = With(@, name, Append(before, shape))]

VisitAssignExpr ==
  /\ Visit("assign")
  /\ definitions' =
       Assigned(definitions, body[at].name, Describe(body[at].value, body[at].id, 0))

VisitUpdateExpr ==
  /\ Visit("update")
  /\ definitions' = [definitions EXCEPT !.rebound = @ \cup {body[at].name}]

(* A mention of name.__workletHash.                                        *)
VisitMemberExpr ==
  /\ Visit("hash")
  /\ definitions' = [definitions EXCEPT !.hand_written = @ \cup {body[at].name}]

VisitOther ==
  /\ \E kind \in ItemKinds \ {"fnDecl", "var", "assign", "update", "hash"} : Visit(kind)
  /\ UNCHANGED definitions

EndDefinitions ==
  /\ phase = "definitions" /\ at > Len(body)
  /\ phase' = "callbacks" /\ at' = 1
  /\ UNCHANGED <<build, source, body, definitions, callbacks, directives>>

-----------------------------------------------------------------------------
(* The tables: for each hook the positions of its callbacks, and the hooks *)
(* that take an object of callbacks.                                       *)
FunctionHooks(ra3) ==
  [hook \in {"useAnimatedStyle", "useAnimatedReaction", "useAnimatedScrollHandler",
             IF ra3 THEN "useWorkletCallback" ELSE "runOnRuntime"} |->
     CASE hook = "useAnimatedReaction" -> <<1, 2>>
       [] hook = "runOnRuntime"        -> <<2>>
       [] OTHER                        -> <<1>>]

ObjectHooks(ra3) ==
  {"useAnimatedScrollHandler", IF ra3 THEN "useAnimatedGestureHandler" ELSE "useTapGesture"}

(* contains_gesture_obj and is_layout_anim_chain look this far back along  *)
(* a chain of calls.                                                       *)
ChainDepth == 64

FUNCTION == [function |-> TRUE, object |-> FALSE]
BOTH     == [function |-> TRUE, object |-> TRUE]

Call(shape, kinds, follow) == [shape |-> shape, kinds |-> kinds, follow |-> follow]

HookPositions(item, ra3) ==
  IF item.callee \in DOMAIN FunctionHooks(ra3) THEN FunctionHooks(ra3)[item.callee]
  ELSE IF item.callee \in ObjectHooks(ra3) THEN <<1>> ELSE << >>

HookKinds(item, ra3) ==
  [function |-> item.callee \in DOMAIN FunctionHooks(ra3), object |-> item.callee \in ObjectHooks(ra3)]

AllPositions(item) == [k \in 1..Len(item.args) |-> k]

(* The arguments of a call that are collected: positions, kinds and        *)
(* whether names are followed.                                             *)
Positions(item, ra3) ==
  CASE item.callee = "onUpdate" /\ item.links < ChainDepth     -> AllPositions(item)
    [] item.callee = "withCallback" /\ item.links < ChainDepth -> AllPositions(item)
    [] OTHER -> LET hook == HookPositions(item, ra3)
                IN  Only(hook, {n \in 1..Len(hook) : hook[n] <= Len(item.args)})

KindsOf(item, ra3) == CASE item.callee = "onUpdate"     -> BOTH
                        [] item.callee = "withCallback" -> FUNCTION
                        [] OTHER                        -> HookKinds(item, ra3)

Arguments(item, ra3) ==
  LET positions == Positions(item, ra3)
      calls == [n \in 1..Len(positions) |->
                  Call(Describe(item.args[positions[n]], item.id, positions[n]),
                       KindsOf(item, ra3), item.callee # "withCallback")]
  IN  Only(calls, {n \in 1..Len(calls) : calls[n].shape # None})

(* visit_call_expr.                                                        *)
VisitCall ==
  /\ phase = "callbacks" /\ args = << >> /\ work = << >> /\ at <= Len(body)
  /\ at' = at + 1
  /\ args' = IF body[at].is = "call" THEN Arguments(body[at], RA3) ELSE << >>
  /\ UNCHANGED <<build, source, body, phase, definitions, work, seen, sites, error, directives>>

(* collect_argument: a seen set of its own for each argument.              *)
CollectArgument ==
  /\ phase = "callbacks" /\ work = << >> /\ args # << >>
  /\ work' = <<Head(args)>> /\ args' = Tail(args) /\ seen' = {}
  /\ UNCHANGED <<build, source, body, phase, at, definitions, sites, error, directives>>

-----------------------------------------------------------------------------
(* Callbacks::collect, by the shape of the call on top.                    *)
Top == Head(work)

Collect(shape) ==
  /\ phase = "callbacks" /\ work # << >> /\ Top.shape.is = shape
  /\ UNCHANGED <<build, source, body, phase, at, definitions, args, directives>>

CollectFunction ==
  /\ Collect("function")
  /\ sites' = IF Top.kinds.function THEN sites \cup {Top.shape.span} ELSE sites
  /\ work' = Tail(work)
  /\ UNCHANGED <<seen, error>>

CollectObject ==
  LET properties == Top.shape.properties
      OfKind(kind) == Only(properties, {n \in 1..Len(properties) : properties[n].is = kind})
  IN
  /\ Collect("object")
  /\ IF Top.kinds.object
     THEN /\ sites' = sites \cup {p.span : p \in ToSet(OfKind("method"))}
          /\ error' = (error \/ OfKind("unsupported") # << >>)
          /\ work' = [n \in 1..Len(OfKind("value")) |->
                        Call(OfKind("value")[n].shape, FUNCTION, TRUE)] \o Tail(work)
     ELSE work' = Tail(work) /\ UNCHANGED <<sites, error>>
  /\ UNCHANGED seen

(* Mutants: names are followed however often they were, or although the    *)
(* program sets their __workletHash itself.                                *)
StopsNever(name)        == name \in definitions.hand_written
StopsOnlyAtSeen(name)   == name \in seen

StopsAt(name) == name \in seen \/ name \in definitions.hand_written

HasShape(shape, kinds) == \/ shape.is = "function" /\ kinds.function
                          \/ shape.is = "object" /\ kinds.object

Fitting(name, kinds) ==
  IF name \in DOMAIN definitions.assignments
  THEN LET assigned == definitions.assignments[name]
       IN  Only(assigned, {n \in 1..Len(assigned) : HasShape(assigned[n], kinds)})
  ELSE << >>

(* Mutant: the first one is taken.                                         *)
FirstAssignment(name, kinds) ==
  IF Fitting(name, kinds) = << >> THEN None ELSE Head(Fitting(name, kinds))

(* The last assignment with a shape that the call looks for.               *)
LastAssignment(name, kinds) ==
  IF Fitting(name, kinds) = << >> THEN None ELSE Last(Fitting(name, kinds))

(* What a name leads to: the calls that collect makes of it.               *)
Followed(name, kinds) ==
  LET definition == IF name \in definitions.rebound THEN LastAssignment(name, kinds)
                    ELSE IF name \in DOMAIN definitions.declarators
                         THEN definitions.declarators[name] ELSE None
  IN  IF definition = None THEN << >>
      ELSE <<Call(definition, kinds, name \notin definitions.rebound)>>

CollectAlias ==
  LET name == Top.shape.name
      IsFunction == Top.kinds.function /\ name \in DOMAIN definitions.function_declarations
  IN
  /\ Collect("alias")
  /\ seen' = IF Top.follow THEN seen \cup {name} ELSE seen
  /\ IF ~Top.follow \/ StopsAt(name)
     THEN work' = Tail(work) /\ UNCHANGED sites
     ELSE /\ sites' = IF IsFunction THEN sites \cup {definitions.function_declarations[name]} ELSE sites
          /\ work' = (IF IsFunction THEN << >> ELSE Followed(name, Top.kinds)) \o Tail(work)
  /\ UNCHANGED error

EndCallbacks ==
  /\ phase = "callbacks" /\ at > Len(body) /\ args = << >> /\ work = << >>
  /\ phase' = "inject"
  /\ UNCHANGED <<build, source, body, at, definitions, callbacks, directives>>

(* DirectiveInjector: every function with one of the spans.                *)
Inject ==
  /\ phase = "inject"
  /\ directives' = directives \cup
                   UNION {{f \in FunctionsIn(body[i]) : SpanIn(body[i], f) \in sites} : i \in 1..Len(body)}
  /\ phase' = "done"
  /\ UNCHANGED <<build, source, body, at, definitions, callbacks>>

Terminated == phase = "done" /\ UNCHANGED vars

Next ==
  \/ ProcessFile \/ ProcessClasses
  \/ VisitFnDecl \/ VisitVarDeclarator \/ VisitAssignExpr \/ VisitUpdateExpr \/ VisitMemberExpr
  \/ VisitOther \/ EndDefinitions
  \/ VisitCall \/ CollectArgument \/ CollectFunction \/ CollectObject \/ CollectAlias \/ EndCallbacks
  \/ Inject \/ Terminated

Spec == Init /\ [][Next]_vars /\ WF_vars(Next)
===============================================================================
