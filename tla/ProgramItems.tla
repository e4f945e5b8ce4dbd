----------------------------- MODULE ProgramItems -----------------------------
(***************************************************************************)
(* What the passes before the walk see of a program                        *)
(* (swc-react-native-worklets): its top-level items, the functions in      *)
(* them, and what an expression is to them (Definitions::describe).        *)
(*                                                                         *)
(* An item keeps its id wherever it is moved.  The function at <<i, k, j>> *)
(* is in item i: in its k-th argument, or in its value for k = 0, and in   *)
(* the j-th property of that, or that itself for j = 0.                    *)
(***************************************************************************)
EXTENDS Naturals, Sequences, FiniteSets, SequencesExt, TLC

CONSTANTS
  Names,         \* names the program binds at its top level
  ClassFactory,  \* for each name, that name with the suffix of class factories
  None           \* no value

ASSUME FactoryAssumption ==
  \A n \in Names : /\ ClassFactory[n] \notin Names \cup {None}
                   /\ \A m \in Names \ {n} : ClassFactory[m] # ClassFactory[n]

(* The elements of s at these places, in their order.                      *)
Only(s, places) ==
  LET upTo[n \in 0..Len(s)] == IF n = 0 THEN << >>
                               ELSE IF n \in places THEN Append(upTo[n - 1], s[n]) ELSE upTo[n - 1]
  IN  upTo[Len(s)]

(* "paren" is a function in parentheses or under a TypeScript cast,        *)
(* "generated" one that an earlier pass made, without a span of its own.   *)
ValueKinds == {"fn", "paren", "generated", "object", "name", "other"}

(* "thisMethod" is a method, getter or setter that uses this, "nested" an  *)
(* object that holds one function, "marker" the mark of a context object.  *)
PropKinds == {"method", "thisMethod", "fn", "nested", "name", "spread", "marker"}

(* "worklet" and "directive" are string statements, "hash" a statement     *)
(* that mentions name.__workletHash, "cjs" an assignment to exports or     *)
(* module.exports, "call" the call of a callback's receiver.               *)
ItemKinds == {"worklet", "directive", "fnDecl", "var", "exportDefault", "assign", "update", "hash",
              "cjs", "class", "call"}

Exports == {"no", "named", "default"}

Value(kind, name, props) == [is |-> kind, name |-> name, props |-> props]
Other                    == Value("other", None, << >>)
Prop(kind, name)         == [is |-> kind, name |-> name]

Item(kind, name, value)  ==
  [is |-> kind, name |-> name, value |-> value, export |-> "no", marked |-> FALSE,
   callee |-> None, links |-> 0, args |-> << >>]

Props  == {p \in [is : PropKinds, name : Names \cup {None}] : p.is = "name" => p.name \in Names}
Values == {v \in [is : ValueKinds, name : Names \cup {None}, props : Seq(Props)] :
             /\ v.is = "name" => v.name \in Names
             /\ v.is # "object" => v.props = << >>}

(* What a program may consist of: some items bind a name, some have a      *)
(* value, some are exported, and only the call of a hook has arguments.    *)
Items ==
  {item \in [id : Nat \ {0}, is : ItemKinds, name : Names \cup {None}, value : Values,
             export : Exports, marked : BOOLEAN, callee : STRING \cup {None}, links : Nat,
             args : Seq(Values)] :
     /\ item.is \in {"fnDecl", "var", "assign", "update", "hash"} => item.name \in Names
     /\ item.is \notin {"var", "assign", "exportDefault", "cjs"}  => item.value = Other
     /\ item.export # "no" => item.is \in {"fnDecl", "var", "class"}
     /\ item.is # "call" => item.args = << >>}

IsProgram(items) == items \in Seq(Items) /\ \A m \in 1..Len(items) : items[m].id = m

(* The items of a program, each with the place it was written at.          *)
Numbered(items) == [m \in 1..Len(items) |-> ("id" :> m) @@ items[m]]

Dummy == <<0, 0, 0>>

SpanAt(v, f) == IF v.is = "generated" THEN Dummy ELSE f

-----------------------------------------------------------------------------
(* Definitions::describe: the shape of an expression, None if it has none. *)
AFunction(span)  == [is |-> "function", span |-> span]
AnAlias(name)    == [is |-> "alias", name |-> name]
AnObject(props)  == [is |-> "object", properties |-> props]

AMethod(span)    == [is |-> "method", span |-> span]
AValue(shape)    == [is |-> "value", shape |-> shape]
Unsupported      == [is |-> "unsupported"]

(* The shapes that describe finds in values and properties of this model;  *)
(* to find none is something else.                                         *)
Spans        == Nat \X Nat \X Nat
SimpleShapes == [is : {"function"}, span : Spans] \cup [is : {"alias"}, name : Names]
NestedShapes == [is : {"object"}, properties : Seq([is : {"value"}, shape : SimpleShapes])]
PropShapes   == [is : {"method"}, span : Spans] \cup
                [is : {"value"}, shape : SimpleShapes \cup NestedShapes] \cup {Unsupported}
Shapes       == SimpleShapes \cup [is : {"object"}, properties : Seq(PropShapes)]

ASSUME NoneAssumption == None \notin Shapes \cup PropShapes

(* Mutant: a spread is no property at all.                                 *)
DescribeKnownProp(p, f) ==
  CASE p.is \in {"method", "thisMethod"} -> AMethod(f)
    [] p.is = "fn"                       -> AValue(AFunction(f))
    [] p.is = "name"                     -> AValue(AnAlias(p.name))
    [] OTHER                             -> None

DescribeProp(p, f) ==
  CASE p.is \in {"method", "thisMethod"} -> AMethod(f)
    [] p.is = "fn"                       -> AValue(AFunction(f))
    [] p.is = "nested"                   -> AValue(AnObject(<<AValue(AFunction(f))>>))
    [] p.is = "name"                     -> AValue(AnAlias(p.name))
    [] p.is = "spread"                   -> Unsupported
    [] p.is = "marker"                   -> None

Describe(v, i, k) ==
  CASE v.is \in {"fn", "paren", "generated"} -> AFunction(SpanAt(v, <<i, k, 0>>))
    [] v.is = "name"   -> AnAlias(v.name)
    [] v.is = "object" ->
         LET props == [j \in 1..Len(v.props) |-> DescribeProp(v.props[j], <<i, k, j>>)]
         IN  AnObject(Only(props, {j \in 1..Len(props) : props[j] # None}))
    [] OTHER           -> None

-----------------------------------------------------------------------------
(* The functions of an item, and the span that each one has.               *)
FunctionsOf(v, i, k) ==
  CASE v.is \in {"fn", "paren", "generated"} -> {<<i, k, 0>>}
    [] v.is = "object" ->
         {<<i, k, j>> : j \in {j \in 1..Len(v.props) :
                                 v.props[j].is \in {"method", "thisMethod", "fn", "nested"}}}
    [] OTHER           -> {}

FunctionsIn(item) ==
  IF item.is = "fnDecl" THEN {<<item.id, 0, 0>>}
  ELSE FunctionsOf(item.value, item.id, 0) \cup
       UNION {FunctionsOf(item.args[k], item.id, k) : k \in 1..Len(item.args)}

ValueOf(item, k) == IF k = 0 THEN item.value ELSE item.args[k]

SpanIn(item, f) == IF item.is = "fnDecl" THEN f ELSE SpanAt(ValueOf(item, f[2]), f)
===============================================================================
