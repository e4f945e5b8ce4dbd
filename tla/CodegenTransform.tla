-------------------------- MODULE CodegenTransform ---------------------------
(***************************************************************************)
(* The codegen pass as a whole: the visitor of CodegenVisitor, which asks  *)
(* the parser of ComponentParser for the schema where CodegenVisitor only  *)
(* knows whether there is one.  It implements CodegenVisitor for the       *)
(* modules whose component is valid iff its declarations are.              *)
(***************************************************************************)
EXTENDS ComponentParser

CONSTANTS
  Inputs   \* families of modules: bodies, declarations and component calls

ASSUME InputAssumption == \A family \in Inputs : family.sources \subseteq Sources

-----------------------------------------------------------------------------
(* Valid declarations, told without an order of visits.                    *)

(* All that the members of S lead to by f, themselves included.            *)
Closure(f, S) ==
  LET within[n \in 0..Cardinality(DOMAIN declarations)] ==
        IF n = 0 THEN S
        ELSE LET nearer == within[n - 1] IN nearer \cup UNION {f[m] : m \in nearer \cap DOMAIN f}
  IN  within[Cardinality(DOMAIN declarations)]

(* The aliases that a type mentions where its summary looks.               *)
RECURSIVE Mentions(_)
Mentions(type) ==
  CASE type.is = "ref" /\ IsAlias(type.name)  -> {type.name}
    [] type.is = "ref" /\ ~IsAlias(type.name) -> UNION {Mentions(t) : t \in ToSet(type.params)}
    [] type.is = "union"                      -> UNION {Mentions(t) : t \in ToSet(type.types)}
    [] OTHER                                  -> {}

AliasMentions == [n \in {n \in DOMAIN declarations : IsAlias(n)} |-> Mentions(declarations[n].type)]

OnCycle(type) ==
  \E n \in Closure(AliasMentions, Mentions(type)) : n \in Closure(AliasMentions, AliasMentions[n])

(* The types whose properties a type includes, and their properties.       *)
Members(n) ==
  IF IsAlias(n) THEN ToSet(ObjectMembers(declarations[n].type)) ELSE ToSet(declarations[n].members)

Inherits ==
  [n \in DOMAIN declarations |->
     {m.name : m \in {m \in Members(n) : m.is = "spread"}} \cup
     (IF IsAlias(n) THEN {} ELSE ToSet(declarations[n].extends))]

Included == Closure(Inherits, {call.props})

Properties ==
  UNION {{m \in Members(n) : m.is = "property"} : n \in Included \cap DOMAIN declarations}

Acceptable ==
  /\ None \notin {call.name, call.props} /\ Declared(call.props)
  /\ \A m \in Properties : ~OnCycle(m.type)

(* A type leads to a function by aliases that do.                          *)
RECURSIVE LeadsToFunction(_, _)
LeadsToFunction(type, known) ==
  LET types == IF type.is = "union" THEN SelectSeq(type.types, LAMBDA t : t # Keyword("null")) ELSE << >>
  IN
  CASE type.is = "function" -> TRUE
    [] type.is = "ref"      -> IF type.name \in Wrappers
                               THEN type.params # << >> /\ LeadsToFunction(Head(type.params), known)
                               ELSE type.name \in known
    [] type.is = "union"    -> Len(types) = 1 /\ LeadsToFunction(Head(types), known)
    [] OTHER                -> FALSE

CommandAliases ==
  LET known[n \in 0..Cardinality(DOMAIN declarations)] ==
        IF n = 0 THEN {}
        ELSE LET nearer == known[n - 1]
             IN  {a \in DOMAIN AliasMentions : LeadsToFunction(declarations[a].type, nearer)}
  IN  known[Cardinality(DOMAIN declarations)]

CommandsOf(t) ==
  IF ~Declared(t) \/ IsAlias(t) THEN "error"
  ELSE IF \E m \in ToSet(declarations[t].members) :
            m.is = "property" /\ ~LeadsToFunction(m.type, CommandAliases) THEN "error"
  ELSE IF declarations[t].members = << >> THEN "empty" ELSE "commands"

-----------------------------------------------------------------------------
(* The pass.                                                               *)
transformVars == <<vars, parserVars>>

TransformInit ==
  /\ \E family \in Inputs :
       source \in family.sources /\ declarations \in family.declarations /\ call \in family.calls
  /\ \A i \in Indices(source) : source[i].kind = "component" => source[i].valid = Acceptable
  /\ interfaces = [t \in Types |-> CommandsOf(t)]
  /\ Init /\ ParserInit

Scan ==
  /\ FindComponent \/ FindCommands \/ RefuseOtherName \/ RefuseReserved \/ Pass \/ EndScan
  /\ UNCHANGED parserVars

(* generate_and_replace, when the parser has failed or has a schema.       *)
ParserFailed == pc = "generate" /\ step = "failed" /\ Abandon /\ UNCHANGED parserVars

SchemaBuilt ==
  /\ pc = "generate" /\ step = "built"
  /\ ReplaceBy(Statements(commands # << >>))
  /\ UNCHANGED parserVars

Terminated == pc = "done" /\ UNCHANGED transformVars

TransformNext == Scan \/ ParserNext \/ ParserFailed \/ SchemaBuilt \/ Terminated

TransformSpec == TransformInit /\ [][TransformNext]_transformVars /\ WF_transformVars(TransformNext)

-----------------------------------------------------------------------------
(* Properties.                                                             *)

(* The pass does what CodegenVisitor says, which knows beforehand whether  *)
(* the component and its commands are valid: whichever way the parser goes *)
(* through the declarations, it refuses a component iff one of its types   *)
(* is on a circle of aliases or missing, and generates commands iff each   *)
(* of them leads to a function.                                            *)
ImplementsVisitor == Spec

(* A type with its aliases replaced by what they stand for.                *)
RECURSIVE Expanded(_)
Expanded(type) ==
  LET All(types) == [n \in 1..Len(types) |-> Expanded(types[n])]
  IN  CASE type.is = "ref" /\ IsAlias(type.name)  -> Expanded(declarations[type.name].type)
        [] type.is = "ref" /\ ~IsAlias(type.name) -> [type EXCEPT !.params = All(@)]
        [] type.is = "union"                      -> [type EXCEPT !.types = All(@)]
        [] OTHER                                  -> type

Summary(m) == InfoOf(Expanded(m.type))

NamesOf(list) == {list[n].name : n \in 1..Len(list)}

(* The schema has each property of the props type and of everything that   *)
(* it extends or spreads, by whatever path and however often, once, as an  *)
(* event or a prop, and processed by the type that its aliases stand for;  *)
(* ViewProps counts as extended iff one of them extends it.                *)
SchemaComplete ==
  step \in {"commands", "built"} =>
    LET eventful == {m \in Properties : IsEvent(Summary(m))} IN
    /\ NamesOf(events) = {m.name : m \in eventful}
    /\ NamesOf(props)  = {m.name : m \in Properties \ eventful}
    /\ Cardinality(NamesOf(events)) = Len(events) /\ Cardinality(NamesOf(props)) = Len(props)
    /\ \A p \in ToSet(props) :
         \E m \in Properties \ eventful :
           /\ m.name = p.name /\ p.type = ResolvePropType(Summary(m))
           /\ p.optional = (m.optional \/ Summary(m).optional)
    /\ \A e \in ToSet(events) :
         \E m \in eventful :
           /\ m.name = e.name /\ e.bubbling_type = BubblingType(Summary(m))
           /\ m.optional \/ Summary(m).optional => e.optional
    /\ extends_props # << >> <=> "ViewProps" \in Included /\ ~Declared("ViewProps")

(* Types may extend and spread each other in a circle; the pass ends all   *)
(* the same.                                                               *)
Terminates == <>(pc = "done")
===============================================================================
