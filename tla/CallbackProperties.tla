-------------------------- MODULE CallbackProperties --------------------------
(***************************************************************************)
(* What KnownCallbacks should achieve, told by what the program does when  *)
(* it runs: its items are executed in order, with function declarations    *)
(* hoisted.                                                                *)
(***************************************************************************)
EXTENDS KnownCallbacks

(* Values at run time: a function, an object by the functions that are its *)
(* properties, or None.                                                    *)
AnObjectOf(functions, spread) == [is |-> "object", functions |-> functions, spread |-> spread]

Evaluate(v, i, k, env) ==
  CASE v.is = "name"  -> env[v.name]
    [] v.is = "other" -> None
    [] v.is = "object" ->
         AnObjectOf({<<i, k, j>> : j \in {j \in 1..Len(v.props) :
                                            v.props[j].is \in {"method", "thisMethod", "fn"}}} \cup
                    {env[v.props[j].name].span :
                       j \in {j \in 1..Len(v.props) : /\ v.props[j].is = "name"
                                                      /\ env[v.props[j].name] # None
                                                      /\ env[v.props[j].name].is = "function"}},
                    \E j \in 1..Len(v.props) : v.props[j].is = "spread")
    [] OTHER          -> AFunction(<<i, k, 0>>)

Indices(items, kind, name) == {m \in 1..Len(items) : items[m].is = kind /\ items[m].name = name}

Hoisted(items) ==
  [n \in Names |->
     LET declared == Indices(items, "fnDecl", n)
         last == CHOOSE m \in declared : \A o \in declared : o <= m
     IN  IF declared = {} THEN None ELSE AFunction(<<items[last].id, 0, 0>>)]

Execute(item, env) ==
  CASE item.is \in {"var", "assign"} -> [env EXCEPT ![item.name] = Evaluate(item.value, item.id, 0, env)]
    [] item.is = "update"            -> [env EXCEPT ![item.name] = None]
    [] OTHER                         -> env

(* The values of the names after the first m items have been executed.     *)
Environments(items) ==
  LET after[m \in 0..Len(items)] == IF m = 0 THEN Hoisted(items) ELSE Execute(items[m], after[m - 1])
  IN  after

-----------------------------------------------------------------------------
(* Names that a name may be followed from: defined once, or assigned       *)
(* functions and objects before it is used at all; not counted up, and not *)
(* written as a worklet by hand.                                           *)
NamesIn(v) == IF v.is = "name" THEN {v.name}
              ELSE {v.props[j].name : j \in {j \in 1..Len(v.props) : v.props[j].is = "name"}}

Uses(items, n) == {m \in 1..Len(items) :
                     \/ n \in NamesIn(items[m].value)
                     \/ \E k \in 1..Len(items[m].args) : n \in NamesIn(items[m].args[k])}

Traceable(items, n) ==
  LET declared == Indices(items, "fnDecl", n)
      bound    == Indices(items, "var", n)
      assigned == Indices(items, "assign", n)
      definers == declared \cup bound \cup assigned
  IN  /\ Indices(items, "hash", n) = {} /\ Indices(items, "update", n) = {}
      /\ \A m \in assigned : items[m].value.is \notin {"name", "other"}
      /\ \/ Cardinality(definers) <= 1
         \/ /\ declared = {} /\ Cardinality(bound) <= 1
            /\ \A m \in definers, u \in Uses(items, n) : m < u
            /\ \A m \in bound, a \in assigned : m < a

PlainProgram(items) == \A n \in Names : Traceable(items, n)

CallIndices == {i \in 1..Len(body) : body[i].is = "call"}

(* The callback arguments of a call, with what they are when it is made.   *)
Callbacks(i) ==
  {[value |-> Evaluate(body[i].args[k], body[i].id, k, Environments(body)[i - 1]),
    kinds |-> KindsOf(body[i], RA3),
    named |-> body[i].args[k].is = "name"] : k \in ToSet(Positions(body[i], RA3))}

(* The functions of "export default function", whose names the search for  *)
(* callbacks does not know.                                                *)
DefaultFunctions(items) ==
  {<<items[m].id, 0, 0>> : m \in {m \in 1..Len(items) : items[m].is = "fnDecl" /\ items[m].export = "default"}}

(* Whatever function a hook gets as a callback, itself or as a property of *)
(* the object it takes, was marked before: an unmarked one would be called *)
(* on the UI runtime, which does not have it.  An object with a spread,    *)
(* whose functions cannot be told, is refused.  The code does not manage   *)
(* this for one kind of function, which is left out here: a module's       *)
(* "export default function", passed on by its name, stays unmarked.       *)
CallbacksMarked ==
  phase = "done" /\ PlainProgram(body) =>
    \A i \in CallIndices : \A c \in Callbacks(i) :
      c.value # None /\ (c.named => body[i].callee # "withCallback") =>
        /\ c.value.is = "function" /\ c.kinds.function =>
             c.value.span \in directives \cup DefaultFunctions(body)
        /\ c.value.is = "object" /\ c.kinds.object =>
             c.value.functions \subseteq directives \cup DefaultFunctions(body)
        /\ c.value.is = "object" /\ c.kinds.object /\ c.value.spread => error

-----------------------------------------------------------------------------
(* The values that may flow into a callback along names, whenever they are *)
(* assigned: <<what is wanted of it, value, item, argument>>.              *)
Definers(items, n) ==
  {m \in 1..Len(items) : items[m].is \in {"fnDecl", "var", "assign"} /\ items[m].name = n}

Wanted(kinds) == {w \in {"function", "object"} : IF w = "function" THEN kinds.function ELSE kinds.object}

HandWritten(items, n) == \E m \in 1..Len(items) : items[m].is = "hash" /\ items[m].name = n

(* <<w, n>>: name n may be what a callback of sort w is.                   *)
FromValue(w, v) ==
  CASE v.is = "name"                   -> {<<w, v.name>>}
    [] v.is = "object" /\ w = "object" -> {<<"function", n>> : n \in NamesIn(v)}
    [] OTHER                           -> {}

FromName(items, r) ==
  IF HandWritten(items, r[2]) THEN {}
  ELSE UNION {FromValue(r[1], items[m].value) : m \in Definers(items, r[2])}

ReachableNames(items, ra3, i, k) ==
  LET start == UNION {FromValue(w, items[i].args[k]) : w \in Wanted(KindsOf(items[i], ra3))}
      after[n \in 0..2 * Cardinality(Names)] ==
        IF n = 0 THEN start ELSE after[n - 1] \cup UNION {FromName(items, r) : r \in after[n - 1]}
  IN  after[2 * Cardinality(Names)]

(* The spans of the functions that a value of sort w consists of.          *)
SpansOf(w, v, i, k) ==
  IF w = "object" /\ v.is = "object"
  THEN {f \in FunctionsOf(v, i, k) : v.props[f[3]].is # "nested"}
  ELSE IF w = "function" /\ v.is # "object"
  THEN {SpanAt(v, f) : f \in FunctionsOf(v, i, k)} ELSE {}

SpansOfName(items, r) ==
  IF HandWritten(items, r[2]) THEN {}
  ELSE UNION {IF items[m].is = "fnDecl" THEN {<<items[m].id, 0, 0>>}
              ELSE SpansOf(r[1], items[m].value, items[m].id, 0) : m \in Definers(items, r[2])}

CalledThrough(items, ra3, i, k) ==
  (UNION {SpansOf(w, items[i].args[k], items[i].id, k) : w \in Wanted(KindsOf(items[i], ra3))}) \cup
  (UNION {SpansOfName(items, r) : r \in ReachableNames(items, ra3, i, k)})

MayBeCalled(items, ra3) ==
  UNION {UNION {CalledThrough(items, ra3, i, k) : k \in ToSet(Positions(items[i], ra3))} :
           i \in {i \in 1..Len(items) : items[i].is = "call"}}

(* Nothing else becomes a worklet: a marked function is in a 'worklet'     *)
(* file, is the factory of a class, or may reach a callback without going  *)
(* through a hand-written worklet - or has the span of one that may, which *)
(* functions without a span all share.                                     *)
OnlyCallbacksMarked ==
  phase = "done" /\ ~HasFileDirective(source) =>
    \A i \in 1..Len(body) : \A f \in FunctionsIn(body[i]) \cap directives :
      SpanIn(body[i], f) \in MayBeCalled(body, RA3) \/ body[i].name \notin Names \cup {None}

-----------------------------------------------------------------------------
(* What leaves the module: under a name, as the default export, or as what *)
(* a CommonJS export assigns.                                              *)
ExportedValues ==
  LET end == Environments(body)[Len(body)]
  IN  {end[body[i].name] : i \in {i \in 1..Len(body) :
                                    body[i].export # "no" /\ body[i].is \in {"fnDecl", "var"}}} \cup
      {Evaluate(body[i].value, body[i].id, 0, end) :
         i \in {i \in 1..Len(body) : body[i].is \in {"exportDefault", "cjs"}}}

(* The functions that the directive of a file passes over: inject_statement*)
(* looks at declarations only, so neither at a function that a name is     *)
(* assigned later nor at "exports.f = () => ...", and inject_expression not*)
(* into parentheses or casts.                                              *)
PassedOver(f) ==
  \E i \in 1..Len(body) : body[i].id = f[1] /\ (body[i].is \in {"assign", "cjs"} \/ body[i].value.is = "paren")

(* In a 'worklet' file the functions that leave the module are worklets,   *)
(* whichever of the forms of a declaration or an export they are in: all   *)
(* but the functions in parentheses or casts, those that a name is assigned*)
(* later, and those that a CommonJS export assigns without a name.         *)
ExportedFunctionsMarked ==
  phase = "done" /\ HasFileDirective(source) =>
    \A v \in ExportedValues \ {None} :
      v.is = "function" /\ ~PassedOver(v.span) => v.span \in directives

(* A function declaration that becomes a worklet is no longer hoisted: in  *)
(* a 'worklet' file no CommonJS export comes before a declaration that it  *)
(* may need, the other items keep their order, and nothing is lost but the *)
(* directive.                                                              *)
ItemsInOrder ==
  phase = "done" =>
    /\ {body[m].id : m \in 1..Len(body)} =
         {source[m].id : m \in {m \in 1..Len(source) :
                                  source[m].is = "worklet" => m > Prologue(source)}}
    /\ \A m, n \in 1..Len(body) :
         m < n /\ (body[m].is = "cjs" <=> body[n].is = "cjs") => body[m].id <= body[n].id
    /\ HasFileDirective(source) =>
         \A m, n \in 1..Len(body) : body[m].is = "cjs" /\ body[n].is # "cjs" => n < m

(* A worklet class is replaced by a marked factory and, after it, a        *)
(* constant that calls it, and the module exports what it exported before. *)
ExportedNames(items) ==
  {<<items[m].export, IF items[m].export = "named" THEN items[m].name ELSE None>> :
     m \in {m \in 1..Len(items) : items[m].export # "no"}} \cup
  {<<"default", None>> : m \in {m \in 1..Len(items) : items[m].is = "exportDefault"}}

ClassesReplaced ==
  phase = "done" =>
    /\ ExportedNames(body) = ExportedNames(source)
    /\ WithClasses =>
         \A m \in 1..Len(source) :
           /\ source[m].is = "class" /\ source[m].name # None
           /\ source[m].marked \/ HasFileDirective(source)
           => \E f, c \in 1..Len(body) :
                /\ f < c /\ body[f].id = source[m].id /\ body[c].id = source[m].id
                /\ body[f].is = "fnDecl" /\ <<body[f].id, 0, 0>> \in directives
                /\ body[c].is = "var" /\ body[c].name = source[m].name
                /\ \A n \in 1..Len(body) :
                     body[n].is = "exportDefault" /\ body[n].id = source[m].id => c < n

-----------------------------------------------------------------------------
TypeOK ==
  /\ build \in Build /\ \A m \in 1..Len(source) : source[m].is \in ItemKinds
  /\ phase \in {"file", "classes", "definitions", "callbacks", "inject", "done"}
  /\ at \in 1..(Len(body) + 1)
  /\ \A m \in 1..Len(body) : body[m].is \in ItemKinds
  /\ definitions.rebound \subseteq Names /\ definitions.hand_written \subseteq Names
  /\ DOMAIN definitions.assignments \subseteq definitions.rebound
  /\ seen \subseteq Names /\ error \in BOOLEAN
  /\ \A n \in 1..Len(work) : work[n].shape.is \in {"function", "object", "alias"}
  /\ directives \subseteq UNION {FunctionsIn(body[m]) : m \in 1..Len(body)}

(* The names of a program may lead to each other in a circle; collect      *)
(* stops all the same.                                                     *)
Terminates == <>(phase = "done")
===============================================================================
