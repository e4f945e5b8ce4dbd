--------------------------- MODULE MCKnownCallbacks ---------------------------
(* Small instances of KnownCallbacks for TLC.                              *)
EXTENDS CallbackProperties

ThreeNames == {"a", "b", "c"}
Factories  == [a |-> "a__classFactory", b |-> "b__classFactory", c |-> "c__classFactory"]

Current      == [rules |-> "current", disable_worklet_classes |-> FALSE]
NoClasses    == [rules |-> "current", disable_worklet_classes |-> TRUE]
BundleMode   == [rules |-> "bundle", disable_worklet_classes |-> FALSE]
Reanimated3  == [rules |-> "ra3", disable_worklet_classes |-> FALSE]

Named(n)      == Value("name", n, << >>)
AFn           == Value("fn", None, << >>)
APlain(kind)  == Value(kind, None, << >>)
Obj(props)    == Value("object", None, props)
P(kind)       == Prop(kind, None)
PName(n)      == Prop("name", n)

Exported(item, export)           == [item EXCEPT !.export = export]
CallOfHook(callee, links, passed) == [Item("call", None, Other) EXCEPT !.callee = callee,
                                                                      !.links = links, !.args = passed]
Class(name, export, marked)      == [Item("class", name, Other) EXCEPT !.export = export,
                                                                       !.marked = marked]

(* Programs that parse: one default export, and in a module or next to a   *)
(* class no name declared twice.                                           *)
Declares(item, n) == item.is \in {"fnDecl", "var", "class"} /\ item.name = n
Parses(items) ==
  LET exported == {m \in 1..Len(items) : items[m].export # "no" \/ items[m].is = "exportDefault"}
      declared(n) == {m \in 1..Len(items) : Declares(items[m], n)}
  IN  /\ Cardinality({m \in exported : items[m].is = "exportDefault" \/ items[m].export = "default"}) <= 1
      /\ \A n \in Names :
           \/ Cardinality(declared(n)) <= 1
           \/ exported = {} /\ \A m \in declared(n) : items[m].is # "class"

Calls ==
  {CallOfHook(callee, 0, <<arg>>) :
     callee \in {"useAnimatedStyle", "useAnimatedScrollHandler", "useTapGesture", "withCallback"},
     arg \in {Named("a"), Obj(<<P("method"), PName("a")>>)}} \cup
  {CallOfHook("onUpdate", links, <<Named("a")>>) : links \in {0, 63, 64}} \cup
  {CallOfHook("useAnimatedReaction", 0, <<Named("a"), Named("b")>>),
   CallOfHook("useWorkletCallback", 0, <<AFn>>), CallOfHook("runOnRuntime", 0, <<Named("b"), Named("a")>>)}

FewCalls ==
  {CallOfHook(callee, 0, <<Named("a")>>) :
     callee \in {"useAnimatedStyle", "useAnimatedScrollHandler", "useTapGesture"}}

(* Every definition of two names, before or after the call of a hook.      *)
Definitions2 ==
  {Item("fnDecl", n, Other) : n \in {"a", "b"}} \cup
  {Exported(Item("fnDecl", "a", Other), e) : e \in {"named", "default"}} \cup
  {Item(kind, "a", v) : kind \in {"var", "assign"},
                        v \in {AFn, APlain("generated"), Other, Named("b"), Obj(<<P("method"), PName("b")>>),
                               Obj(<<P("spread"), P("fn")>>)}} \cup
  {Item("var", "b", v) : v \in {AFn, APlain("paren"), APlain("generated"), Named("a"),
                                Obj(<<P("nested"), P("thisMethod"), PName("a")>>)}} \cup
  {Item("update", "a", Other), Item("hash", "a", Other), Item("hash", "b", Other)}

TwoDefinitions ==
  {<<d[1], d[2], c>> : d \in Definitions2 \X Definitions2, c \in Calls} \cup
  {<<d[1], c, d[2]>> : d \in Definitions2 \X Definitions2, c \in FewCalls}

(* Chains and circles of three names.                                      *)
Links ==
  {Item("fnDecl", n, Other) : n \in {"b", "c"}} \cup
  {Item("var", n, v) : n \in ThreeNames, v \in {AFn} \cup {Named(m) : m \in ThreeNames}} \cup
  {Item("assign", "b", AFn), Item("assign", "a", Named("c")),
   Item("var", "b", Obj(<<PName("c"), PName("c")>>))}

Chains == {<<d[1], d[2], d[3], c>> : d \in Links \X Links \X Links, c \in FewCalls}

(* Files with their directive, exports and classes.                        *)
FileItems ==
  {Item("worklet", None, Other), Item("directive", None, Other)} \cup
  {Exported(Item("fnDecl", "a", Other), e) : e \in {"no", "named", "default"}} \cup
  {Exported(Item("var", "b", v), "named") :
     v \in {AFn, APlain("paren"), Named("a"), Obj(<<P("thisMethod"), P("fn")>>),
            Obj(<<P("nested"), P("method")>>)}} \cup
  {Item("assign", "b", AFn)} \cup
  {Item("exportDefault", None, v) : v \in {Named("a"), AFn}} \cup
  {Item("cjs", None, v) : v \in {Named("a"), Named("b"), AFn}} \cup
  {Class("c", e, m) : e \in Exports, m \in BOOLEAN} \cup {Class(None, "default", TRUE)}

Files == {<<d[1], d[2], d[3]>> : d \in FileItems \X FileItems \X FileItems} \cup
         {<<Item("worklet", None, Other), d[1], d[2], d[3]>> : d \in FileItems \X FileItems \X FileItems}

Family(programs, builds) ==
  [builds |-> builds, bodies |-> {Numbered(items) : items \in {p \in programs : Parses(p)}}]

AllInputs == {Family(TwoDefinitions, {Current, Reanimated3}), Family(Chains, {Current, Reanimated3}),
              Family(Files, {Current, NoClasses, BundleMode, Reanimated3})}
===============================================================================
