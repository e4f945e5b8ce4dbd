# A TLA+ development of swc-react-native

swc-react-native is a set of SWC passes, written in Rust, that compile React Native code: the
Worklets transform, React Native Codegen and the fixes for Hermes v1. This directory holds TLA+
models of their control, the TLC runs that check them on small instances, and TLAPS proofs of the
properties that matter most. Paths below are relative to `src/crates/`; `worklets/`, `codegen/` and
`hermes/` stand for `swc-react-native-worklets/src/`, `swc-react-native-codegen/src/` and
`swc-react-native-hermes-v1-fixes/src/`.

* [The system](#the-system)
* [The modules](#the-modules)
* [The runs](#the-runs)
* [Disagreements between the code and what is said of it](#disagreements-between-the-code-and-what-is-said-of-it)
* [The proofs](#the-proofs)
* [What is not modelled](#what-is-not-modelled)
* [Plan](#plan)

## The system

Three compilers, each a pass over the syntax tree of one file. They do not call each other; the
umbrella crate re-exports them and a bundler runs the ones it needs, on many files at a time. What
they have in common, and what makes them hard, is the shape of a visitor: a walk over a tree whose
state is changed by hooks on the way in and restored by hooks on the way out, while the tree is being
rewritten under it. There are no threads and no messages inside a pass. Several passes meet on one
disk, in Bundle Mode.

| Component | State | Operations | Hard behaviour | What makes it correct |
| --- | --- | --- | --- | --- |
| **Worklets pass** `worklets/worklet_pass.rs` | stack of frames (`function_prepends`), `pending_prepends`, `parent_is_scopable`, `worklet_number`, `used_names`, `bindings`, `emitted_files`, `error` | a handler for each kind of node: functions, arrows, methods, accessors, statements, lists, items; at the end the writes and the rollback | pushes and pops by hand in handlers that branch; the inner worklet is rewritten before the outer one; only the first error is kept, and the walk goes on after it | frames follow functions; each worklet is rewritten or an error is reported; init data is declared once, in scope of what mentions it; on error the module is the original |
| **Worklet factory** `worklets/worklet_factory.rs`, `closure.rs`, `naming.rs`, `hash.rs` | none; changes the pass | `make_worklet_factory`: captures, names, serializes, hashes, hoists, emits | failures after the pass has already been changed; captured code contains earlier rewritings | the serialized code mentions nothing that is not captured |
| **Bundle Mode files** `worklets/worklet_file.rs`, `imports.rs` | the `.worklets` directory | `write_worklet_file`: create the directory, truncate, write | transforms of several files at a time; failures between two writes; names that are the hash of only a part of the content | a transform that says Ok has left files that can be required; no file is half-written for long without an error |
| **Autoworkletization** `worklets/autoworkletization.rs`, `referenced_worklets.rs` and the tables | definitions by name, sites by span, names seen | finds the functions passed to known hooks, through aliases | chains of aliases, rebinding, circles; spans that are not unique | a function that a hook calls on the UI runtime is marked, and no other is; the search ends |
| **File directive, legacy classes, inline styles** `worklets/file_directive.rs`, `legacy_classes.rs`, `inline_style.rs` | none | rewrite the program before the walk | reordering of exports; function declarations that lose their hoisting; three ways to replace a class | what is exported stays exported, and is a worklet; a class is replaced by its factory and a call of it |
| **Runtime compatibility** `worklets/compat/` | as the Worklets pass, and `unprocessed_bodies` by span | the Reanimated 3 visitor with its context objects; the capture rules of Worklets 0.4 to 0.8 | a body is stored before its children are visited and taken out after, by a span that is not unique | as the Worklets pass, and a worklet serializes its own body in the state the option asks for |
| **Hermes fixes** `hermes/hooks/`, `hermes/visitors/` | depth of finalizers, saved depths, addresses of finalizers; stacks of accessors | classes in `finally`, `super` in accessors, async arrow parameters; each as a hook of a combined traversal and as a pass of its own | balance of conditional enter and exit calls; identity by address; generated nodes are walked again | the right nodes are rewritten, and the two forms agree |
| **Codegen visitor** `codegen/visitor.rs` | two indices, the command type, `error` | scan, generate, replace | early exits; an index that is stale after a removal | a refused module is unchanged; a transformed one keeps its other items and exports |
| **Component schema** `codegen/codegen/parsers/` | the types collected, the aliases in progress, the props and events so far | from the call, its props type and its commands to a schema | inheritance by several paths and in circles; circles of aliases | every inherited property once, with the processor of the type it stands for; circles of aliases refused; it ends |
| **NativeModule schema** `codegen/codegen/parsers/native_modules.rs` | `alias_map`, `enum_map`, `resolving_aliases` | mutually recursive translation of types | recursion through aliases and interfaces, errors that are thrown away | it ends; a name in the schema has an entry |
| **Generation** `codegen/codegen/generators/`, `schema_validator.rs` | none | formats a schema as JavaScript | none beyond the text | which statements, and which processor for a prop; the rest is not modelled |

`PROJECT.json` has the same list with the source files of each component and what is modelled of it,
and the hazards: every place where this code can go wrong in a way that a test would hardly reach,
with the properties that would notice.

## The modules

An action is one handler, or one of the places where a handler gives control to another: before and
after its children. The program that a pass walks is not fixed: **the traversal chooses the tree
while it walks it**, so a behaviour is a depth-first walk of some program and the behaviours together
cover every program within the bounds.

### Worklets

* **`WorkletPass`** models `WorkletsVisitor::visit_mut_module` and its handlers, with what
  `make_worklet_factory` does to the visitor. `stack` holds the open nodes; `Enter`, `EnterBody` and
  the `Leave...` actions are the two halves of the `visit_mut_*` handlers. `LeavePlain` is a node that
  is no worklet, or comes after an error; `LeaveUnserialized`, `LeaveUnhoistable` and the second branch
  of `LeaveToFile` are the error exits of the factory; `LeaveWithoutData`, `LeaveHoisting` and
  `LeaveToFile` are its three ways to succeed (native-only data omitted, legacy, Bundle Mode).
  `EndItem`, `WriteFile` and `Finish` are the rest of the module handler. Code is abstracted to the set
  of init data names that it mentions: that is what hoisting and capture are about. The options a build is
  run with are chosen at the start, from the set `Options`, and the kind of program from `Programs`; neither
  changes. `BeginScript` is the start of `visit_mut_script`, which builds no index of imports.
* **`ReanimatedPass`** models the second visitor, `compat/ra3/worklet_pass.rs`, on a walk of the same
  kind. It has no frames; it has `unprocessed_bodies`, keyed by span, which `Enter` fills and `LeaveWorklet` empties. What is kept
  there is the body alone: the parameters are serialized as processed in any case, so a worklet in the default of a parameter
  is mentioned even when nested worklets are not processed (`SerializedCode`, from `code` and `params` of a node). The parameters of a generated
  factory are named like the init data that they stand for and are other identifiers (`Ident`); `Closure` tells them
  apart, as the code does by their syntax contexts. A context object is two nodes: the object, and the factory that `process_context_object`
  generates for it, with the dummy span that all generated code shares.
* **`ProgramItems`** describes the top level of a program: declarations, assignments, updates, calls of
  hooks, exports, classes. **`FileDirective`** has the rewritings before the walk as operators:
  `ProcessedFile` (`file_directive.rs`), and `ProcessedClasses` (`legacy_classes.rs`).
  **`KnownCallbacks`** is `visit_mut_module` from its start to the walk: the file directive, the classes,
  `Definitions`, the calls with `Callbacks::collect`, and `DirectiveInjector`. `collect` is recursive; `work` is the
  stack of its calls still to be made and `seen` its argument. The rules of current Worklets, Bundle
  Mode and Reanimated 3 are chosen by `build`. **`CallbackProperties`** judges the result by an
  evaluation of the program: its items are executed in order, with hoisting, and `Environments(body)[m]` is what the
  names stand for after `m` items.
* **`BundleFiles`** models several transforms that run `finish_bundle_files` on the same package.
  `fs::write` is two steps, the truncation and the write, and any call may fail or the process end.
  A file is a name (the hash) and a content; two modules may give one name different contents, because
  the hash covers neither the imports nor the rebased requires, and of the path only its last part.

### Hermes fixes

* **`ProgramWalk`** is the walk: the path of open nodes and what may stand below each kind of node.
* **`HermesFixes`** is the abstract promise, stated on the path and without any counter: a class is
  wrapped iff a finalizer is open around it and no scope in between; an accessor is rewritten iff its
  own body uses `super`.
* **`HermesHooks`** is the combined hook of `hermes/hooks/`, with its counters, stacks and addresses.
  `Fixes == INSTANCE HermesFixes WITH ...` maps its state to the abstract one, and `ImplementsFixes` says
  that each behaviour of the hook is one of the promise.
* **`HermesVisitors`** is the separate class pass, with the state that it saves around scopes, and
  **`HermesPasses`** runs it beside the hook on the same walk, to compare them.

### Codegen

* **`CodegenVisitor`** models `visit_mut_module` of the codegen pass: one action for each arm of its
  scan, then generation, and the replacement with the index adjustment. Here the outcome of the generation is
  given: `valid` of the component and `interfaces` of the commands.
* **`ComponentTypes`** has the declarations of a component and the functions that look at one type:
  `ExtractTypeInfo` (with the set of aliases that is threaded through the parameters and alternatives of a
  type), `BubblingType`, `ResolvePropType`, `ObjectMembers`, `IsCommandType`. **`ComponentParser`** is `build_schema`:
  the call, `collect_props_and_events` with what is still to be handled in `work`, and `extract_commands`.
  **`CodegenTransform`** puts the parser where `CodegenVisitor` has a given outcome, and shows that it implements
  `CodegenVisitor` when `valid` and `interfaces` are what the declarations deserve (`Acceptable`,
  `CommandsOf`), which is told by closures of relations and without an order of visits.
* **`NativeModuleTypes`** models the recursive translation as a machine: `stack` holds the calls that
  have not returned, a step is a call or a return. `resolve_type_alias`, `resolve_named_type`,
  `translate_type` and the functions for objects, interfaces, arrays, unions and enums are the actions,
  their error paths included. `Unwind` is an error passing through a call, up to the array that drops it.
* **`NativeModuleSchema`** adds what a finished schema refers to, and which entries there are.

The `MC...` modules give the constants small values. Definitions marked *Mutant* are plausible bugs in the
definition that follows them; `PROJECT.json` pairs them with the property that they break, which shows
that the property depends on the code.

## The runs

| Run | Instance | What it shows |
| --- | --- | --- |
| `walk` | every kind of node, 3 nodes; functions, arrows, expression arrows, constructors and accessors, 4 nodes; scripts; every set of directives; legacy builds with and without native-only data, and Bundle Mode with failing writes, with and without a package directory; two hashes, the plain name of one taken | `FramesMatchFunctions`: the stack of frames has one entry for each open function, so the `expect` in `function_body_prepends` holds; `ScopableInLists`: a function declaration in a statement list is replaced by a declaration; `NoWorkletMissed`: without an error, no marked function is left as it was, class accessors apart; `FreshInitData`: no two data have one name; `InitDataInScope`: a name is declared where its mentions see it, but for a worklet directly in an expression-bodied arrow; `SerializedCodeClosed`: what a serialized worklet mentions is captured; `DiskClosed`: whatever write failed, a whole file on disk finds the files it requires; `ResultUsable`: the caller gets the rewritten module with its files or the original with none |
| `reanimated` | the Reanimated 3 visitor on every kind of node, 3 nodes; worklets four deep; context objects in context objects, 7 nodes; scripts; both options | `SerializesOwnBody`: a worklet is serialized from its own body, and from the body as it was written iff nested worklets are not processed, but for nested context objects; `ScopableInLists`; `InitDataInScope`: init data has a name of its own, is declared before its mentions and captured by serialized code that mentions it, in its parameters as in its body; `ReplacedOrRefused`: without an error no marked function is left as it was |
| `callbacks` | two definitions of two names and a call before or after them; three definitions that lead to each other and a call; files of up to four items; the three sets of rules | `CallbacksMarked`: what a hook gets when the program runs is marked, or refused because of a spread (but for a default-exported function declaration, see below); `OnlyCallbacksMarked`: a marked function may reach a hook; `ExportedFunctionsMarked`: in a worklet file an exported function is a worklet, but for the three forms named below; `ItemsInOrder`: CommonJS exports move behind the declarations and nothing else moves; `ClassesReplaced`: a class gives a factory, then a constant, and the module exports what it did; `Terminates`: circles of names end |
| `shared_directory` | two transforms at a time, four modules, shared hashes | `TornFilesExplained`: a file that is nobody's whole content has a writer, a failed writer or claimants of different content; `ServedFilesReadable`: the files of a module whose transform returned Ok exist and are whole, unless another writer or claimant is there |
| `hermes_fixes` | the combined hook and the separate pass on finalizers, blocks, classes and scopes, nine levels; the hook on accessors, functions and classes, six levels | `DepthCountsFinalizers`: the depth is the number of finalizers open in the innermost scope, and nothing is left when the program has been walked; `ImplementsFixes`: the hook wraps the classes and rewrites the accessors that `HermesFixes` says, at every node of every program; `VisitorWrapsOutermost`: what the pass wraps is the outermost of what the hook wraps, and elsewhere the two count alike |
| `aliases` | every pair of aliases, interfaces and enums that refer to each other; every form of type nested once with a local name that is also built in; an alias that leads to a circle of two others | `ResolvingOnStack`: `resolving_aliases` is the set of the names being resolved by a call on the stack; `OnlyCyclesUnresolved`: a reference without an entry is to an alias on a cycle; `EntriesStable`: the entry of an alias that leads to no circle is not changed; `AliasCyclesStop`: the parser ends, or overflows by a recursive interface |
| `codegen_scan` | every module of at most three items that exports no name twice; a component whose three props types extend or spread each other in every order; props of 18 forms of type over two aliases of any such form; commands over two aliases | `ErrorLeavesModule`: a refused module is unchanged; `OtherItemsKept`: the other items stay in order around the generated code; `ExportsPreserved`: no name is exported twice, and none is lost but those that are declared with the commands, or commands without a typed interface; `ImplementsVisitor`: a component is refused iff a type is missing or on a circle of aliases, and commands are generated iff each is a function; `SchemaComplete`: every property, by whatever path it is inherited, is there once, as an event or a prop with the processor of what its aliases stand for; `Terminates`: types that include each other end |
| `lost_data`, `nested_context`, `hermes_passes_differ`, `unresolved_alias`, `interface_cycle` | a part of `walk`, of `reanimated`, of `hermes_fixes` and, for the last two, the pairs of `aliases` | violated: see below |

Each run also checks the type invariant of its modules (`TypeOK`, `PassTypeOK`).

**Bounds.** A program is bounded by the families in `Programs`: three nodes are enough for a worklet, the
function around it and one more inside or beside it, in each combination of kinds; the families with
fewer kinds have a fourth so that a worklet can be inside two others, and the context objects have seven because
each takes two and stands in a statement. A taken name makes the first worklet of a hash collide, and a second
one of the same hash collides again; two hashes make files that require each other. In `HermesHooks`, nine
levels hold a finalizer in a class in a finalizer with the lists and bodies between them (each try and each class
takes two or three levels), and a hook reads only the top of its stacks. `KnownCallbacks` needs two names for an alias and
a circle, and a third for a chain through an object or an assignment; a call has the callee of each sort of table, and
the length of a gesture chain is 0, 63 or 64, on both sides of the limit in the code. `NativeModuleTypes` has two names
for cycles of length one and two, each through every way of referring to a name, and a third that is
built in; `MaxStack` is the thread's stack, and longer than any parse that ends. `CodegenVisitor` needs three
items: a component, commands and one other, in every order. Three props types give circles of every length, and two
paths to one type; properties with the same name and different types stand in all of them. `Transforms` are
two at a time: a third could only do what one of them does later, as each writes one file at a time.

**Fairness.** `NativeModuleTypes`, `KnownCallbacks` and `CodegenTransform` assume weak fairness of their next step, for
`AliasCyclesStop` and the two `Terminates`. Each is a sequential Rust function whose thread is run until it returns (or
overflows), so that a step that can be taken is taken. These are the parts of the code whose recursion follows names and
not the tree. The passes over a tree have no liveness property: they visit each node of a finite tree
once. `BundleFiles` has none, because nothing makes a bundler transform a module again after a failure.

**Deadlock** is checked in every run. The modules have an explicit step for the end, or never end: a walk of
`ProgramWalk` goes on to the next program, and a transform of `BundleFiles` to the next module.

**What `CallbacksMarked` does not say.** The code follows names by their definitions and not by their values,
so it is right only for names that are written as people write them: `Traceable` asks for one definition, or
for functions and objects assigned before the name is used. A name that is assigned another name, counted up,
or assigned after its use is left out (`PlainProgram`), because there the code gives up or takes the last
assignment, as it says it does. One function is excused by its form (`DefaultFunctions`): that of `export default function a() {}`, passed
to a hook as `a`. It is an expression to the parser, `visit_fn_decl` is not called for it, and it stays unmarked
(`referenced_worklets.rs:79`). Without the exception TLC finds the property violated. `OnlyCallbacksMarked` has no such condition: it allows any definition of a name at any time,
and excuses functions that share the span of a callback.

**What `ExportedFunctionsMarked` does not say.** `inject_declaration` and `inject_expression` go by the form of an item, and
pass over three forms in which a function can still leave the module (`PassedOver`): in parentheses or a cast, assigned to a name after its
declaration, and assigned in place by a CommonJS export, `exports.f = () => ...`. The program
items have these forms, the functions in them stay unmarked, and the property excuses them by name.
No doc of the repository says that the directive of a file reaches them.

**What the runs do not tell apart.** `TornFilesExplained` and `ServedFilesReadable` excuse a path claimed for
two different contents; `ExportsPreserved` the names declared beside a removed commands export (`visitor.rs:137`); and
`SchemaComplete` does not say which of two properties of one name wins. These hazards stay open.
`OnlyCyclesUnresolved` counts the references inside types; the names that an interface extends, kept in `base_types`, are not among them.

## Disagreements between the code and what is said of it

Each is a run that TLC must find violated, with the line of the repository that it contradicts.

* `lost_data`: a worklet marked `limit-init-data-hoisting` in an expression-bodied arrow. The handler
  pops the arrow's frame and drops the declarations in it, so the rewritten program mentions init data
  that nothing declares (`worklets/worklet_pass.rs:434`).
* `nested_context`: a context object in a context object. Both generated factories have the dummy span, the
  inner one's body replaces the outer one's in `unprocessed_bodies` and is taken out, and the outer factory is serialized from
  its processed body although nested worklets are not to be processed (`worklets/compat/ra3/worklet_pass.rs:239`).
* `hermes_passes_differ`: the separate pass does not visit a class that it has wrapped, and the combined
  hook does; a class in a finalizer inside it is wrapped by one of them only
  (`hermes/visitors/class_in_finally.rs:45`).
* `unresolved_alias`: an alias that refers to itself inside an array or through another alias gives a
  schema with a reference that has no entry (`codegen/codegen/parsers/native_modules.rs:352`).
* `interface_cycle`: an interface that refers to itself is translated without end
  (`codegen/codegen/parsers/native_modules.rs:297`).

## The proofs

TLC checks small instances; the theorems hold for every value of the constants that the named
assumptions allow. `tlapm` checks them to the last leaf.

* **`WorkletPass_proofs`**: `TypeCorrect` and `FramesAlwaysMatch`. The inductive invariant is `IInv ==
  TypeOK /\ FramesMatchFunctions`. Neither part is inductive alone: the pop needs the stack of frames to
  be non-empty, which is what the correspondence says, and the correspondence needs the types. The lemmas
  `FramesAppend`, `FramesFront` and `FramesSameKinds` say how the number of open functions changes when a
  node is opened, closed or changed; `PushFacts`, `ReturnFacts` and `LeaveFrames` say it of the parts that the
  actions share; `NextIInv` has one case for each action.
  Then `AlwaysScopable` and `NeverMissed`, the other two safety properties of the walk. `ScopableInLists`
  speaks of the last node only, and leaving a node uncovers the flag that was saved at it: `WalkInv` says of *every*
  open node that the flag it saved is the one of the node around it (`FlagsSaved`), and that no accessor with a
  worklet directive is open (`PlainAccessors`), as such a one is refused when it is met.
* **`WorkletResults_proofs`**: what the pass leaves behind, so all other properties of `walk`.
  *Files*: `DiskAlwaysClosed` and `ResultAlwaysUsable`. `FilesInv` says that a file needs only files emitted before it
  (`EmittedFirst`), which holds because code mentions nothing but emitted files while the module is walked
  (`MentionsFiles`), and that the disk holds a prefix of the emitted files with only the last one truncated, after
  an error (`WrittenFirst`). So a whole file has all it requires on disk, at whichever write the pass fails.
  *Names*: `AlwaysFresh`. `FreshInv` says that the declared names are in `used_names` and none is the
  user's, and that a body keeps the names bound in it out of what is declared later; a
  declaration moves from a frame to a body, to the pending list or to an item, and is in one of the lists at any time
  (`Lists`, `DistinctParts`).
  *Scope*: `InitDataAlwaysInScope` and `SerializedAlwaysClosed`. `DataInv` says where every mention in every open
  node is declared: before the item or the one being visited (`Hoisted`), in the frame of the innermost function around
  the node, if the mention is in the function's block body (`Visible`), or nowhere, for a worklet that limits
  hoisting and stands in an expression-bodied arrow or in the parameters of a function (`LostIn`). Leaving a function turns what was visible in its frame
  into what its serialized code must capture. `HoistedUnlimited` says that nothing that limits hoisting is hoisted,
  which is what distinguishes the two properties.
  Assumptions of both modules: `ProgramAssumption`, `PrologueAssumption`, `NamesAssumption`, `NoneAssumption`, the types of
  the constants; no bound on the depth or length of the program, the hashes or the user's names is used.
* **`ReanimatedPass_proofs`**: all that `reanimated` checks of the second visitor. `Steps` reduces each step to entering a node,
  going on to its body, leaving it, or none of these, and each invariant is proved along these four.
  `TypeCorrect`. *Flags*: `AlwaysScopable` and `AlwaysReplacedOrRefused`, from `FlagsSaved` and `PlainAccessors` as in `WorkletPass_proofs`.
  *Bodies*: `AlwaysSerializesOwnBody`. `BodiesInv` says that open nodes have numbers of their own and share a span only when both are
  generated (`Ids`), that every open marked function with a span of its own has its body stored (`Stored`), and that
  what is stored under the dummy span is the body of the innermost generated function, present unless another one was
  entered inside (`Generated`). That is false after an error, when no body is taken out any more, and need not hold then:
  nothing is serialized.
  *Init data*: `InitDataAlwaysInScope`. `ScopeInv` says that the names declared are in `used_names`, so that a fresh one is new and
  not the program's, and that what the open nodes mention is declared already. It also says that code binds only the identifiers
  of generated factories (`Clean`): whatever code is serialized, no init data that it mentions is hidden from
  `get_closure` by a parameter of the same name. Assumptions: `ProgramAssumption`,
  `NamesAssumption`, `HashesAssumption`, `NoneAssumption`; no bound on the nodes of a program or their nesting is used.
* **`HermesPasses_proofs`**: first, of the combined hook alone, `HookTypeCorrect`, `DepthFollowsPath`, and `HooksImplementFixes`: it
  implements `HermesFixes`, at every step of the walk of any program. The hook has five stacks and counters that it
  pushes and pops under conditions; `HInv` says of each that its entries are those of the open nodes of certain
  kinds, in order (`Stacked`), and what the entries are: the number of finalizers open in the scope around each
  scope (`ScopeInv`), the address of the finalizer of each `try` until it is entered (`TryInv`), to what `super`
  belonged around each function, class and accessor (`SuperInv`), and whether each accessor has met `super` of its own
  (`AccessorInv`). `WellFormed` is what the walk itself gives: a list stands in its owner, the body in its accessor. A
  statement about the top of the stacks would not survive a pop. `StackedPush` and `StackedPop` are the two
  steps of all five stacks. Assumptions: `ProgramAssumption`, `NoneAssumption` (no address is the absence of one).
  Then, of both passes, `PassTypeCorrect` and `WrapsOutermost`. `VisitorInv` has two halves: outside wrapped classes
  the separate pass and the hook have the same depth and saved depths (`Together`); inside one the pass stands
  still at what the hook knew when it entered the outermost wrapped class, and its saved depths are a prefix of the hook's
  (`Apart`), so that they agree again when that class is left. Assumptions: the same.
* **`NativeModuleTypes_proofs`**: `ParserTypeCorrect` and `ResolvingMatchesStack`. `IInv == TypeOK /\
  ResolvingOnStack` is inductive: the set of names being resolved is that of the alias calls on the stack,
  each once, so that the removal at a return removes the name of that call only. `MatchesPush`,
  `MatchesPop` and `MatchesMove` are the three ways in which a step changes the stack; each group of actions
  is reduced to one of them. It holds for any number of declarations, any types and any depth, and across
  errors that an array drops.
  Then `OnlyCyclesAreUnresolved`, of the finished schema. Two more invariants lead to it. `ChainInv` (`AlwaysChained`): all
  that stands on top of a call that resolves a name, and the type in focus, has only names that the name leads to
  (`Beneath`); so a name that is met while it is being resolved is on a cycle. `RefInv` (`AlwaysRefs`): what has been
  translated so far, on the stack, in the entries and in the schema, refers only to names that have an entry or are on a
  cycle, since a name without an entry can be given away only when it is met again. `NamesInDef` is the equation of the recursive
  function `NamesIn`, proved from its types without induction.
  Then `EntriesAlwaysStable`: two translations of one declaration agree. `ComesTo` relates a call, at any point of it, to what it returns
  and enters, by one rule for each step and without the parser's state; it is the least such relation, so that types need
  not be well-founded, and it is a function (`ComesToOne`). `EntryInv` says of each call on the stack that
  leads to no cycle that what it has still to come to is what it comes to from its start (`Promise`), that it is the call for the part
  that the one below it is at (`Linked`), and of each such entry that it is what the declaration's call enters (`Entered`). The
  state does not interfere: what leads to no cycle is never met while it is being resolved (`NotMet`), and an alias that such a call refers to
  has an entry by `RefInv`. The first attempt had only the alias itself outside every circle; it failed where the alias led to one, the run then had a
  counterexample, and `EntriesStable` says now what is true. Assumptions of all: `NamesAssumption`,
  `TypesAssumption`, `ModulesAssumption`, `StackAssumption`, `NoneAssumption` (no translated type is the absence of one).
* **`KnownCallbacks_proofs`**: `CallbacksTypeCorrect`, `OrderAlwaysKept`, `ClassesAlwaysReplaced`, `ExportsAlwaysMarked`,
  `OnlyCallbacksAlwaysMarked` and `CallbacksAlwaysMarked`, so all that `callbacks` checks but for `Terminates`, for programs of any
  length with any names. *The rewrites*: `BodyInv` says what the program, the marks and the sites are in each phase, as a function of
  the source. `Placed` and `Ordered` say where `Only` puts the elements it keeps, `Joins` where the factories of each class are in the flattened
  program, so that order and exports can be read off. `EnvironmentsWritten` says that a value at run time is that of some
  item the program has, on which `ExportsAlwaysMarked` rests. *The search finds nothing else*: `SearchInv` says that the definitions
  say nothing that the program does not (`Defines`), that every name the program mentions by its hash is known (`KnowsHands`), and that
  whatever is still to be visited, and each site found, was reached from an argument of a hook (`Traced`). What was reached is
  followed one name further by the search, while `ReachableNames` follows names a fixed number of times: `Reaches` says that
  2·|Names| times are enough, as each time that is not the last adds a pair of a sort and a name. *The search misses nothing*:
  here the code, which reads definitions, is held against the program as it runs. `MarkInv` says what `Definitions` knows of
  the items visited (`Knows`), and that each argument of the calls visited is settled (`Done`), still to be collected, or
  *served* (`Serves`): a function is marked or awaited by a call of `collect` in `work` (`Awaits`), an object is about to be opened
  (`Opens`) or all of its functions are awaited (`AwaitsAll`). What makes this inductive is a measure: a call for a name leads
  to a function only if that name means the function when the program has run and is linked, by its one declaration,
  *before* every name in `seen` that means it (`LeadsTo`, `Link`). Following a name goes strictly down (`ResolveBound`), so `seen`
  never stops the search on its way to a function, whatever other circles there are. `Steady`, `UsedValue` and `BoundValue` say
  when the value of a name at its use is the one it ends with, and that this is what its last binding gives it. TLC
  checked `MarkInv` on the instance of the run before it was proved. Recursive functions over
  one sequence (`Only`, `FlattenSeq`, `Environments`, `ReachableNames`) are opened by `Throughout` and `Recursion`, induction over a set
  of numbers in the place of an operator. Assumptions: `NamesAssumption`, `InputAssumption` (the program is one that can be
  written), `FactoryAssumption` (the factories of two classes have two names, and the program binds neither),
  `NoneAssumption` (no shape is the absence of one). `CallbacksMarked` itself is about plain programs, and excuses default-exported
  functions, see above; the theorem adds no condition to it. Hence a function counts as
  settled (`Settled`) when it is marked or one of those. `ExportsAlwaysMarked` likewise proves
  the property with its exceptions and nothing more.
* **`CodegenVisitor_proofs`**: `VisitorTypeCorrect`, `RefusedUnchanged`, `OthersAlwaysKept` and `ExportsAlwaysPreserved`, so all
  that is checked of the visitor itself. `TypeOK` says also that the body is the source until the pass has succeeded, which is
  what `ErrorLeavesModule` rests on. For the others, `Found` says that the two indices are those of a component and of
  commands, hence not the same, and `Transformed` that the body is a splice after a removal. `WithoutAt` and `SplicedAt` say
  where each item goes in the two, `AdjustedOrder` that the corrected index keeps its place among the others, and `Places` puts
  them together; `CountRest` links the positions to the count by which `OtherItemsKept` states the order. Assumptions:
  `SourcesAssumption`, `NoneAssumption`, `ErrorAssumption`, and for the exports `ExportsAssumption`: the source exports no name
  twice, which the parser of the language refuses, and not the name that the generated code declares,
  `__INTERNAL_VIEW_CONFIG`. Without it the property is false: the pass adds the name whatever is there.
* **`BundleFiles_proofs`**: `FilesTypeCorrect`, `ServedAlwaysReadable` and `TornAlwaysExplained`, so all that the
  run `shared_directory` checks, for any number of transforms, modules and hashes and any lengths. `IInv ==
  TypeOK /\ OpenedPresent /\ ServedPresent /\ UniformFiles`. That a served module's files exist needs
  `OpenedPresent`: a transform's files up to the one it is at are there, and none is ever removed
  (`FilesStay`). That a file nobody writes is whole needs a bound while it *is* written: if all contents that
  claim its name have one length, it is never longer than that (`UniformFiles`), so a whole write leaves
  nothing of an older one behind it (`UniformWrite`, `OverwrittenFile`). `OtherWriters` and `SameFile` say
  that a step on another file changes nothing here. Assumptions: `FilesAssumption`, `SizeAssumption`,
  `AbsentAssumption`.

`FreshInitData`, and `InitDataInScope` of `ReanimatedPass`, are stated of a list of lists (`Declarations`: the frames, the pending list
and the items) and not of their concatenation, which is a recursive operator: each list has no name twice and no two share one.

**Only model-checked**: `CodegenTransform` with its
refinement and `SchemaComplete`; liveness (`AliasCyclesStop`, `Terminates`) and whatever needs `ENABLED`, which the provers
do not support. The induction theorems of the library take an operator as a parameter, which the backends cannot
instantiate; a function that is recursive over one sequence can still be opened by induction over a set of numbers, as
`KnownCallbacks_proofs` does, but what an operator computes over nested data cannot be proved here. `RECURSIVE` operators stand only in
`ComponentTypes` and `CodegenTransform`, which no theorem is about; elsewhere the recursion of the code is a stack.

## What is not modelled

* Text: printing, source maps, locations, error messages, generated JavaScript beyond what it exports.
* The inline style warnings; the web checks; the refusal of `hermesBytecode` is an error exit only. A visitor that is
  used for a second file.
* Worklet directives in nested scopes: `KnownCallbacks` sees the top level, where the tables and aliases of the code
  apply in the same way as in a nested scope. Classes in nested statement lists.
* Of components: the parameters of commands, deprecated event names, and the options of the call.
* SWC: the resolver, its transforms and the hook driver. The walk follows the order in which SWC visits
  the children that matter.
* The tables of hooks, globals, gestures and built-in types; the benchmarks and build files.
* What the plan below lists.

## Plan

Done, in this order: `WorkletPass` (the pass most of the repository is about), its proofs, the Hermes
fixes with their refinement, `NativeModuleTypes` and its proofs, `BundleFiles` and its proofs, `CodegenVisitor` and its
proofs, `ReanimatedPass`, `KnownCallbacks` with the file directive and the classes, and the component schema with its
refinement of `CodegenVisitor`; then the proofs of the other properties of `WorkletPass` and `CodegenVisitor`, of the Hermes
fixes with their refinement, of `ReanimatedPass`, of the references and entries of the NativeModule schema, and of `KnownCallbacks` with
the file directive and the classes.

Next, the model:

1. `AsyncArrowParams`: the rewrite of one arrow with fresh names, against the order in which JavaScript
   evaluates parameters; then the hook beside the others in `HermesHooks`.
2. Pure operators with a reference definition: `Paths` (normalization and difference of paths), `Closure`
   (captured names, with the rules of Worklets 0.4 to 0.8), `WorkletHash` over a small word, `Naming`.
3. The separate pass for `super` in accessors, which looks ahead.

Next, the proofs:

1. `CodegenTransform`: its refinement of `CodegenVisitor` and `SchemaComplete`, once the summary of a type is a machine and
   not a recursive operator.
2. What `CallbacksMarked` leaves out: names that are rebound, for which the code promises the last assignment only.
