-------------------------- MODULE MCCodegenTransform --------------------------
(***************************************************************************)
(* Small modules for TLC, in four families: every arrangement of up to     *)
(* MaxItems items (no name is exported twice, which the parser of the      *)
(* language refuses); a component whose props types extend and spread each *)
(* other; one whose props have types over two aliases; and one with        *)
(* commands over two aliases.                                              *)
(***************************************************************************)
EXTENDS CodegenTransform

CONSTANTS MaxItems

CommandTypes == {"WithCommands", "NoCommands"}
SomeNames    == {"Commands", "Other", "constant", "helper", "alias", "local", "public"}

Component == [kind |-> "component", valid |-> TRUE]
Components == {[Component EXCEPT !.valid = v] : v \in BOOLEAN}

Var(name, init, type, rest) ==
  [kind |-> "var", name |-> name, init |-> init, type |-> type, rest |-> rest]
CommandsItem(type) == Var("Commands", "commands", type, {})

SomeItems ==
  Components
  \cup {[kind |-> "default"], [kind |-> "private"]}
  \cup {Var(n, "commands", t, r) :
          n \in {"Commands", "Other"}, t \in CommandTypes \cup {None}, r \in {{}, {"helper"}}}
  \cup {Var(n, i, None, {}) : n \in {"Commands", "Other"}, i \in {"other", "missing"}}
  \cup {Var("constant", "other", None, {"Commands"}),
        [kind |-> "named", orig |-> "Commands", as |-> "alias"],
        [kind |-> "named", orig |-> "local", as |-> "Commands"],
        [kind |-> "named", orig |-> "local", as |-> "public"]}

ShortSources ==
  {s \in SeqOf(SomeItems, MaxItems) :
     \A i, j \in 1..Len(s) : i < j => Exports(s[i]) \cap Exports(s[j]) = {}}

OnlyComponent == {<<c>> : c \in Components}
WithCommands  == {<<CommandsItem("WithCommands"), c>> : c \in Components}
SmallSources  == ShortSources \cup OnlyComponent \cup WithCommands

Call(name, type) == [name |-> name, props |-> type]
PlainCall == {Call("View", "Props")}

-----------------------------------------------------------------------------
Boolean == Keyword("boolean")
Null    == Keyword("null")
Event   == Ref("DirectEventHandler", <<Null>>)
Plain   == Interface(<<"ViewProps">>, <<Property("a", FALSE, Boolean)>>)

(* The commands interface has a function, is missing, or is an alias.      *)
ItemDeclarations ==
  {[n \in {"Props", "NoCommands"} |-> IF n = "Props" THEN p ELSE Interface(<< >>, << >>)] @@ d :
     p \in {Plain, Alias(Ref("Props", << >>)), Interface(<< >>, <<Property("a", FALSE, Ref("Loop", << >>))>>)},
     d \in {"Loop" :> Alias(Ref("Loop", << >>)) @@ "WithCommands" :> Interface(<< >>, <<Method("focus")>>),
            "Loop" :> Alias(Ref("Loop", << >>))}}

(* What a type may extend: every order of at most two others.              *)
Parents(n) == SeqOf({"Props", "Base", "Mixin", "ViewProps"} \ (IF n = "Mixin" THEN {"ViewProps"} ELSE {}), 2)

Own(n) == CASE n = "Props" -> <<Property("a", FALSE, Boolean)>>
            [] n = "Base"  -> <<Property("a", TRUE, Event), Property("b", FALSE, Ref("ColorValue", << >>))>>
            [] n = "Mixin" -> <<Property("b", TRUE, Boolean), Property("e", FALSE, Event)>>

(* Interfaces take what they extend first, these types take it last.       *)
Forms(n) ==
  {Interface(s, Own(n)) : s \in Parents(n)}
  \cup {Alias(Ref("Readonly", <<Object(Own(n) \o [i \in 1..Len(s) |-> Spread(s[i])])>>)) : s \in Parents(n)}

InheritanceDeclarations ==
  {("Props" :> p) @@ b @@ m :
     p \in Forms("Props"),
     b \in {"Base" :> f : f \in Forms("Base")},
     m \in {"Mixin" :> f : f \in Forms("Mixin")} \cup {<< >>}}

-----------------------------------------------------------------------------
A == Ref("A", << >>)
B == Ref("B", << >>)

TypesOver(t, u) ==
  {t, Boolean, Event, Literal("auto"), Function, Object(<< >>),
   Ref("ColorValue", << >>), Ref("Array", <<t>>), Ref("Array", <<Ref("ColorValue", << >>)>>),
   Ref("Readonly", <<t>>), Ref("Readonly", << >>), Ref("WithDefault", <<t, u>>),
   Union(<<Null, t>>), Union(<<t, u>>), Union(<<Null>>), Union(<<Literal("auto"), u>>),
   Union(<<Function, Event>>), Ref("Array", <<Union(<<Null, t>>)>>)}

PropTypeDeclarations ==
  {"Props" :> Interface(<< >>, <<Property("first", FALSE, t), Property("second", TRUE, A)>>)
     @@ "A" :> Alias(a) @@ "B" :> Alias(b) :
     t \in TypesOver(A, A) \cup TypesOver(A, B), a \in TypesOver(B, B) \cup {A},
     b \in {A, Event, Ref("ColorValue", << >>), Union(<<Null, Boolean>>), Literal("auto"), Ref("Array", <<A>>)}}
  \cup
  {"Props" :> Alias(t) :
     t \in {Intersection(<<Object(Own("Base")), Ref("Readonly", <<Object(Own("Mixin"))>>)>>),
            Intersection(<<Object(Own("Props")), Ref("Base", << >>)>>), Object(<<Method("m")>>),
            Ref("Readonly", << >>), Union(<<Null, Object(Own("Props"))>>)}}

CommandTypesOver(t) ==
  {t, Boolean, Function, Ref("Readonly", <<t>>), Ref("Readonly", << >>), Union(<<Null, t>>),
   Union(<<Null>>), Union(<<t, Function>>)}

CommandDeclarations ==
  {"Props" :> Plain @@ "WithCommands" :> c @@ "A" :> Alias(a) @@ "B" :> b :
     c \in {Interface(<< >>, <<Method("focus"), Property("blur", FALSE, t)>>) : t \in CommandTypesOver(A)}
             \cup {Interface(<< >>, << >>), Alias(Object(<<Method("focus")>>))},
     a \in CommandTypesOver(B),
     b \in {Alias(t) : t \in CommandTypesOver(A)} \cup {Plain}}

-----------------------------------------------------------------------------
Family(sources, decls, calls) == [sources |-> sources, declarations |-> decls, calls |-> calls]

Families ==
  {Family(ShortSources, ItemDeclarations, PlainCall),
   Family(OnlyComponent, InheritanceDeclarations, PlainCall),
   Family(OnlyComponent, PropTypeDeclarations,
          PlainCall \cup {Call(None, "Props"), Call("View", None), Call("View", "Missing")}),
   Family(WithCommands, CommandDeclarations, PlainCall)}
===============================================================================
