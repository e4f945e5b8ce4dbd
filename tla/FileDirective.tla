---------------------------- MODULE FileDirective -----------------------------
(***************************************************************************)
(* The two rewrites of the top level that come before anything is marked   *)
(* by name: the 'worklet' directive of a file (file_directive.rs, and      *)
(* compat/ra3/file.rs for Reanimated 3) and the factories of worklet       *)
(* classes (legacy_classes.rs).                                            *)
(***************************************************************************)
EXTENDS ProgramItems

IsStringStatement(item) == item.is \in {"worklet", "directive"}

(* The length of the prologue: the string statements the file begins with. *)
Prologue(body) ==
  CHOOSE n \in 0..Len(body) :
    /\ \A i \in 1..n : IsStringStatement(body[i])
    /\ n < Len(body) => ~IsStringStatement(body[n + 1])

HasFileDirective(body) == \E i \in 1..Prologue(body) : body[i].is = "worklet"

(* The items that stay when the directive is removed.                      *)
Kept(body) == {i \in 1..Len(body) : body[i].is = "worklet" => i > Prologue(body)}

(* Mutant: the exports stay where they are.                                *)
ExportsInPlace(body, kept) == Only(body, kept)

(* The CommonJS exports go to the end of the file.                         *)
ExportsLast(body, kept) ==
  LET exports == {i \in kept : body[i].is = "cjs"}
  IN  Only(body, kept \ exports) \o Only(body, exports)

-----------------------------------------------------------------------------
(* Reanimated 3 takes an object of a 'worklet' file whose methods use this *)
(* for a context object: it gets the marker and its functions do not       *)
(* become worklets.                                                        *)
IsContextObject(v) ==
  v.is = "object" /\ \E j \in 1..Len(v.props) : v.props[j].is \in {"thisMethod", "marker"}

WithMarker(v) ==
  IF IsContextObject(v) /\ ~\E j \in 1..Len(v.props) : v.props[j].is = "marker"
  THEN [v EXCEPT !.props = Append(@, Prop("marker", None))]
  ELSE v

(* inject_expression does not look through parentheses or casts.           *)
Injected(v, i, ra3) ==
  IF v.is = "paren" \/ (ra3 /\ IsContextObject(v)) THEN {} ELSE FunctionsOf(v, i, 0)

(* Mutant: exported declarations are forgotten.                            *)
InjectedInStatement(item, ra3) ==
  IF item.export = "no" /\ item.is = "fnDecl" THEN {<<item.id, 0, 0>>}
  ELSE IF item.export = "no" /\ item.is = "var" THEN Injected(item.value, item.id, ra3) ELSE {}

(* The functions of an item that get the worklet directive.                *)
InjectedIn(item, ra3) ==
  CASE item.is = "fnDecl"                  -> {<<item.id, 0, 0>>}
    [] item.is \in {"var", "exportDefault"} -> Injected(item.value, item.id, ra3)
    [] OTHER                               -> {}

(* What the directive does to an item itself: a class becomes a worklet    *)
(* class, except in Bundle Mode.                                           *)
Marked(item, legacy, ra3) ==
  CASE item.is = "class" /\ legacy               -> [item EXCEPT !.marked = TRUE]
    [] item.is \in {"var", "exportDefault"} /\ ra3 -> [item EXCEPT !.value = WithMarker(@)]
    [] OTHER                                     -> item

ProcessedFile(body, legacy, ra3) ==
  LET ordered == ExportsLast(body, Kept(body))
  IN  [i \in 1..Len(ordered) |-> Marked(ordered[i], legacy, ra3)]

-----------------------------------------------------------------------------
(* class_factory: a function that builds the class, and the call of it.    *)
Factory(class)   == [class EXCEPT !.is = "fnDecl", !.name = ClassFactory[class.name], !.export = "no"]
CallOf(class, export) == [class EXCEPT !.is = "var", !.export = export]
DefaultOf(class) ==
  [class EXCEPT !.is = "exportDefault", !.name = None, !.value = Value("name", class.name, << >>)]

IsWorkletClass(item) == item.is = "class" /\ item.marked /\ item.name # None

(* Mutant: the class is exported by its factory's name alone.              *)
LoweredUnexported(item) ==
  IF IsWorkletClass(item) THEN <<Factory(item), CallOf(item, "no")>> ELSE <<item>>

Lowered(item) ==
  IF ~IsWorkletClass(item) THEN <<item>>
  ELSE CASE item.export = "no"      -> <<Factory(item), CallOf(item, "no")>>
         [] item.export = "named"   -> <<Factory(item), CallOf(item, "named")>>
         [] item.export = "default" -> <<Factory(item), CallOf(item, "no"), DefaultOf(item)>>

ProcessedClasses(body) == FlattenSeq([i \in 1..Len(body) |-> Lowered(body[i])])
===============================================================================
