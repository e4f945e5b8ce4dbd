--------------------------- MODULE ComponentTypes ----------------------------
(***************************************************************************)
(* The types of a component's declarations and what the codegen parser     *)
(* makes of one of them: components/type_info.rs, and the functions of     *)
(* components/mod.rs and commands.rs that look at one type.                *)
(*                                                                         *)
(* Types are records: a reference with its parameters (of "Array" also for *)
(* T[]), a union, an intersection, an object type, a function, a literal,  *)
(* a nullish or another keyword.  Parentheses and the readonly operator,   *)
(* which the code passes over, are not there.                              *)
(***************************************************************************)
EXTENDS Naturals, Sequences, FiniteSets, SequencesExt

VARIABLES
  declarations   \* the type aliases and interfaces of the module, by name

Ref(name, params)  == [is |-> "ref", name |-> name, params |-> params]
Union(types)       == [is |-> "union", types |-> types]
Intersection(types) == [is |-> "intersection", types |-> types]
Object(members)    == [is |-> "object", members |-> members]
Literal(name)      == [is |-> "literal", name |-> name]
Keyword(name)      == [is |-> "keyword", name |-> name]
Function           == [is |-> "function"]

(* Members: properties, methods, and Flow's spreads.                       *)
Property(name, optional, type) == [is |-> "property", name |-> name, optional |-> optional, type |-> type]
Method(name)                   == [is |-> "method", name |-> name]
Spread(name)                   == [is |-> "spread", name |-> name]

Alias(type)                 == [is |-> "alias", type |-> type]
Interface(extends, members) == [is |-> "interface", extends |-> extends, members |-> members]

Declared(name) == name \in DOMAIN declarations
IsAlias(name)  == Declared(name) /\ declarations[name].is = "alias"

Wrappers  == {"Readonly", "$ReadOnly"}

-----------------------------------------------------------------------------
(* extract_type_info: a summary of a type with its aliases resolved, and   *)
(* the set of aliases that are being resolved as the call leaves it.  The  *)
(* results of a call are a set, with no result when there is an error.     *)
TypeInfo(name, params) == [name |-> name, params |-> params, optional |-> FALSE, is_literal |-> FALSE]

Unknown == TypeInfo("unknown", << >>)

IsNullish(info) == ~info.is_literal /\ info.name = "null"

(* Of a union the first type that is known and not nullish.                *)
Selected(infos) ==
  LET known    == SelectSeq(infos, LAMBDA i : ~IsNullish(i) /\ (i.is_literal \/ i.name # "unknown"))
      optional == \E n \in 1..Len(infos) : infos[n].optional \/ IsNullish(infos[n])
  IN  [(IF known = << >> THEN Unknown ELSE Head(known)) EXCEPT !.optional = optional]

(* Mutant: a resolved alias stays in the set.                              *)
KeepsAlias(aliases, name) == aliases

Removed(aliases, name) == aliases \ {name}

RECURSIVE ExtractTypeInfo(_, _), ExtractAll(_, _)

ExtractAll(types, aliases) ==
  IF types = << >> THEN {[infos |-> << >>, aliases |-> aliases]}
  ELSE UNION {{[infos |-> <<first.info>> \o rest.infos, aliases |-> rest.aliases] :
                 rest \in ExtractAll(Tail(types), first.aliases)} :
                first \in ExtractTypeInfo(Head(types), aliases)}

ExtractTypeInfo(type, aliases) ==
  LET Result(info)       == {[info |-> info, aliases |-> aliases]}
      Of(types, Make(_)) == {[info |-> Make(all.infos), aliases |-> all.aliases] :
                               all \in ExtractAll(types, aliases)}
  IN
  CASE type.is = "ref" /\ IsAlias(type.name) ->
         IF type.name \in aliases THEN {}
         ELSE {[inner EXCEPT !.aliases = Removed(@, type.name)] :
                 inner \in ExtractTypeInfo(declarations[type.name].type, aliases \cup {type.name})}
    [] type.is = "ref" /\ ~IsAlias(type.name) ->
         Of(type.params, LAMBDA infos : TypeInfo(type.name, infos))
    [] type.is = "union"   -> Of(type.types, Selected)
    [] type.is = "keyword" -> Result(TypeInfo(type.name, << >>))
    [] type.is = "literal" -> Result([TypeInfo(type.name, << >>) EXCEPT !.is_literal = TRUE])
    [] OTHER               -> Result(Unknown)

Infos(type)  == {result.info : result \in ExtractTypeInfo(type, {})}
InfoOf(type) == CHOOSE info \in Infos(type) : TRUE

-----------------------------------------------------------------------------
(* What a property is, by its summary: an event (try_extract_event), or a  *)
(* prop with the way its values are processed (resolve_prop_type, followed *)
(* by get_react_diff_process_value).                                       *)
RECURSIVE BubblingType(_), EventOptional(_, _), ResolvePropType(_)

IsWrapped(info) == ~info.is_literal /\ info.name \in Wrappers /\ info.params # << >>

BubblingType(info) ==
  CASE IsWrapped(info)                     -> BubblingType(Head(info.params))
    [] info.is_literal                     -> "no event"
    [] info.name = "DirectEventHandler"    -> "direct"
    [] info.name = "BubblingEventHandler"  -> "bubble"
    [] OTHER                               -> "no event"

IsEvent(info) == BubblingType(info) # "no event"

EventOptional(info, optional) ==
  IF IsWrapped(info)
  THEN LET inner == Head(info.params) IN EventOptional(inner, optional \/ inner.optional)
  ELSE optional

ResolvePropType(info) ==
  LET Inner == IF info.params = << >> THEN "true" ELSE ResolvePropType(Head(info.params))
  IN  CASE info.is_literal                               -> "true"
        [] info.name \in Wrappers \cup {"WithDefault"} -> Inner
        [] info.name = "Array"                           -> IF Inner = "color" THEN "colors" ELSE "true"
        [] info.name = "ColorValue"                      -> "color"
        [] OTHER                                         -> "true"

-----------------------------------------------------------------------------
(* extract_object_properties: the members of an object type, through       *)
(* Readonly and the parts of an intersection; a reference has none.        *)
RECURSIVE ObjectMembers(_)

ObjectMembers(type) ==
  CASE type.is = "object"       -> SelectSeq(type.members, LAMBDA m : m.is # "method")
    [] type.is = "intersection" -> FlattenSeq([n \in 1..Len(type.types) |-> ObjectMembers(type.types[n])])
    [] type.is = "ref" /\ type.name \in Wrappers /\ type.params # << >> -> ObjectMembers(Head(type.params))
    [] OTHER                    -> << >>

(* resolve_command_params: whether a type leads to a function.             *)
RECURSIVE IsCommandType(_, _)

IsCommandType(type, visited) ==
  LET types == SelectSeq(type.types, LAMBDA t : t # Keyword("null"))
  IN
  \/ type.is = "function"
  \/ /\ type.is = "ref" /\ type.name \in Wrappers /\ type.params # << >>
     /\ IsCommandType(Head(type.params), visited)
  \/ /\ type.is = "ref" /\ type.name \notin Wrappers \cup visited /\ IsAlias(type.name)
     /\ IsCommandType(declarations[type.name].type, visited \cup {type.name})
  \/ type.is = "union" /\ Len(types) = 1 /\ IsCommandType(Head(types), visited)
===============================================================================
