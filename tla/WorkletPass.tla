----------------------------- MODULE WorkletPass -----------------------------
(***************************************************************************)
(* One run of WorkletsVisitor (swc-react-native-worklets, worklet_pass.rs) *)
(* over one program, with make_worklet_factory (worklet_factory.rs), the   *)
(* handler that replaces a worklet by its factory call.                    *)
(*                                                                         *)
(* The program is not fixed in advance: the traversal chooses the syntax   *)
(* tree while it walks it, so a behaviour is a depth-first walk of some    *)
(* program and the set of behaviours covers every program within the       *)
(* bounds.  What is kept of a node is what the pass looks at: its kind,    *)
(* the directives of its body, and which init data its code mentions.      *)
(*                                                                         *)
(* A name <<h, n>> stands for the identifier _worklet_<h>_init_data (n=1)  *)
(* or _worklet_<h>_init_data<n> (n > 1).                                   *)
(***************************************************************************)
EXTENDS Naturals, Sequences, FiniteSets, SequencesExt

CONSTANTS
  Hashes,        \* values worklet_hash may give to a worklet's code
  UserNames,     \* names of init data that the program already binds
  Prologues,     \* directive sets a function body may begin with
  Options,       \* options a build may be run with
  Programs,      \* families of programs: see Family
  None           \* no value

Directives == {"worklet", "no-worklet-closure", "limit-init-data-hoisting"}

ASSUME HashesAssumption   == Hashes # {} /\ Hashes \subseteq Nat
ASSUME NamesAssumption    == UserNames \subseteq Hashes \X (Nat \ {0}) /\ IsFiniteSet(UserNames)
ASSUME PrologueAssumption == Prologues \subseteq SUBSET Directives
ASSUME OptionAssumption   ==
  Options \subseteq [bundle_mode : BOOLEAN, omit_native_only_data : BOOLEAN, package_dir : BOOLEAN]

Errors == {"callbacks", "unsupported", "accessor", "shadows", "print", "no frame",
           "no package", "write"}
ASSUME NoneAssumption == None \notin Errors

Name == Hashes \X (Nat \ {0})

-----------------------------------------------------------------------------
(* The nodes of the program that the visitor treats specially.  "accessor" *)
(* is a getter or setter of an object literal, "classAccessor" a getter,   *)
(* setter or private method of a class, "stmt" any statement that is not a *)
(* function declaration, "stmts" a statement list.                         *)

FrameKinds == {"fnDecl", "exportFn", "exportDefaultFn", "fnExpr", "method", "accessor",
               "classMethod", "classAccessor", "arrow", "exprArrow"}
BodyKinds  == (FrameKinds \ {"exprArrow"}) \cup {"ctor"}
FnKinds    == FrameKinds \cup {"ctor"}
Kinds      == FnKinds \cup {"stmt", "stmts"}

(* A family of programs: the kinds of node they are built of, whether they *)
(* are scripts, and bounds on their nodes and their nesting.               *)
Family == [shapes : SUBSET Kinds, script : BOOLEAN, nodes : Nat, depth : Nat]

ASSUME ProgramAssumption == Programs \subseteq Family

(* Kinds whose handler calls make_worklet_factory.                         *)
WorkletKinds == FrameKinds \ {"exprArrow", "accessor", "classAccessor"}

ItemKinds  == {"stmt", "fnDecl", "exportFn", "exportDefaultFn"}
ListKinds  == {"stmt", "fnDecl"}
ExprKinds  == FnKinds \ {"fnDecl", "exportFn", "exportDefaultFn"}

Parts == {"params", "body"}
Node  == [kind : Kinds, dirs : SUBSET Directives, part : Parts, old : BOOLEAN,
          inParams : SUBSET Name, inBody : SUBSET Name, bound : SUBSET Name]

(* What may stand where the traversal is inside node n.                    *)
ChildKinds(n) ==
  CASE n.kind = "stmts"                          -> ListKinds
    [] n.kind = "stmt"                           -> ExprKinds \cup {"stmt", "stmts", "fnDecl"}
    [] n.kind \in BodyKinds /\ n.part = "body"   -> ListKinds
    [] OTHER                                     -> ExprKinds

(* The traversal is directly inside a Vec<Stmt> that visit_mut_stmts walks.*)
InList(n) == n.kind = "stmts" \/ (n.kind \in BodyKinds /\ n.part = "body")

(* Names that code of n mentions and no declaration inside n binds: init   *)
(* data spliced into the body is visible in the body, not in the params.   *)
Free(n, decls) == n.inParams \cup (n.inBody \ decls)

-----------------------------------------------------------------------------
VARIABLES
  program,             \* the family that the program belongs to
  options,             \* bundle_mode, omit_native_only_data, worklets_package_dir known
  phase,               \* "start" | "module" | "walk" | "item" | "write" | "done"
  stack,               \* the nodes the traversal is inside of, innermost last
  nodes,               \* how many nodes the program has so far
  parent_is_scopable,  \* WorkletsVisitor::parent_is_scopable
  function_prepends,   \* WorkletsVisitor::function_prepends
  pending_prepends,    \* WorkletsVisitor::pending_prepends
  worklet_number,      \* WorkletsVisitor::worklet_number
  used_names,          \* WorkletsVisitor::used_names (init data names only)
  emitted_files,       \* WorkletsVisitor::emitted_files
  error,               \* WorkletsVisitor::error
  escaped,             \* names that the current item mentions
  out,                 \* the items of the rewritten module
  result,              \* "open", then which module the caller gets
  disk,                \* files of this module in the .worklets directory
  worklets,            \* history: the worklets that became factories
  missed               \* history: kinds of marked functions left as they were

visitor == <<parent_is_scopable, function_prepends, pending_prepends, worklet_number,
             used_names, emitted_files, error>>
history == <<worklets, missed>>
vars    == <<program, options, phase, stack, nodes, visitor, escaped, out, result, disk, history>>

Top == stack[Len(stack)]

BundleMode == options.bundle_mode
OmitNative == options.omit_native_only_data
PackageDir == options.package_dir

Init ==
  /\ program \in Programs
  /\ options \in Options
  /\ phase = "start"
  /\ stack = << >>
  /\ nodes = 0
  /\ parent_is_scopable = TRUE
  /\ function_prepends = << >>
  /\ pending_prepends = << >>
  /\ worklet_number = 1
  /\ used_names = {}
  /\ emitted_files = << >>
  /\ error = None
  /\ escaped = {}
  /\ out = << >>
  /\ result = "open"
  /\ disk = << >>
  /\ worklets = {}
  /\ missed = {}

(* report_error keeps the first error only.                                *)
Reported(e) == IF error = None THEN e ELSE error

-----------------------------------------------------------------------------
(* visit_mut_module and visit_mut_script up to their loops: a generated    *)
(* file is skipped; the hermesBytecode option is refused in a legacy       *)
(* release build that keeps its data; otherwise the directives of known    *)
(* callbacks are added, an error there being reported without stopping.    *)
Begin ==
  /\ phase = "start"
  /\ \/ /\ phase' = "done" /\ result' = "original"
        /\ \/ UNCHANGED error
           \/ ~BundleMode /\ ~OmitNative /\ error' = Reported("unsupported")
        /\ UNCHANGED used_names
     \/ /\ phase' = "module" /\ used_names' = UserNames
        /\ error' \in {error, Reported("callbacks")}
        /\ UNCHANGED result
  /\ UNCHANGED <<program, options, stack, nodes, parent_is_scopable, function_prepends, pending_prepends,
                 worklet_number, emitted_files, escaped, out, disk, history>>

BeginModule == ~program.script /\ Begin
BeginScript == program.script /\ Begin

(* Enter a node of kind k: a function pushes its frame, a statement clears *)
(* parent_is_scopable and a statement list sets it.                        *)
Push(k, dirs, scopable) ==
  /\ nodes < program.nodes
  /\ nodes' = nodes + 1
  /\ stack' = Append(stack, [kind |-> k, dirs |-> dirs,
                             part |-> IF k \in FnKinds THEN "params" ELSE "body",
                             old |-> scopable, inParams |-> {}, inBody |-> {}, bound |-> {}])
  /\ function_prepends' = IF k \in FrameKinds THEN Append(function_prepends, << >>)
                                              ELSE function_prepends
  /\ parent_is_scopable' = CASE k = "stmt"  -> FALSE
                             [] k = "stmts" -> TRUE
                             [] OTHER       -> scopable
  /\ dirs = {} \/ (k \in BodyKinds /\ dirs \in Prologues)

(* A script has statements only.                                           *)
Items == IF program.script THEN ListKinds ELSE ItemKinds

(* The loop of visit_mut_module or visit_mut_script: the next item is taken*)
(* and visited.                                                            *)
OpenItem(k, dirs) ==
  /\ phase = "module"
  /\ k \in Items
  /\ Push(k, dirs, TRUE)
  /\ phase' = "walk"
  /\ UNCHANGED <<program, options, pending_prepends, worklet_number, used_names, emitted_files, error,
                 escaped, out, result, disk, history>>

(* The visitor descends into a child.  A getter or setter of an object     *)
(* literal that is marked "worklet" is not entered: see RejectAccessor.    *)
Enter(k, dirs) ==
  /\ phase = "walk" /\ Len(stack) < program.depth
  /\ k \in ChildKinds(Top)
  /\ ~(k = "accessor" /\ "worklet" \in dirs)
  /\ Push(k, dirs, parent_is_scopable)
  /\ UNCHANGED <<program, options, phase, pending_prepends, worklet_number, used_names, emitted_files, error,
                 escaped, out, result, disk, history>>

(* Mutant: the error of RejectAccessor is not reported.                    *)
IgnoreAccessor ==
  /\ phase = "walk" /\ "accessor" \in ChildKinds(Top) \cap program.shapes
  /\ nodes < program.nodes
  /\ nodes' = nodes + 1
  /\ missed' = missed \cup {"accessor"}
  /\ UNCHANGED <<program, options, phase, stack, visitor, escaped, out, result, disk, worklets>>

(* visit_mut_prop on a getter or setter marked "worklet": an error, and    *)
(* the children are not visited.                                           *)
RejectAccessor ==
  /\ phase = "walk" /\ "accessor" \in ChildKinds(Top) \cap program.shapes
  /\ nodes < program.nodes
  /\ nodes' = nodes + 1
  /\ error' = Reported("accessor")
  /\ missed' = missed \cup {"accessor"}
  /\ UNCHANGED <<program, options, phase, stack, parent_is_scopable, function_prepends, pending_prepends,
                 worklet_number, used_names, emitted_files, escaped, out, result, disk,
                 worklets>>

(* Mutant: a block body does not set parent_is_scopable.                   *)
EnterBodyAsIs ==
  /\ phase = "walk" /\ Top.kind \in FnKinds /\ Top.part = "params"
  /\ stack' = [stack EXCEPT ![Len(stack)].part = "body", ![Len(stack)].old = parent_is_scopable]
  /\ UNCHANGED <<program, options, phase, nodes, visitor, escaped, out, result, disk, history>>

(* From the parameters of a function to its body; a block body is a        *)
(* statement list, which visit_mut_stmts walks.                            *)
EnterBody ==
  /\ phase = "walk" /\ Top.kind \in FnKinds /\ Top.part = "params"
  /\ stack' = [stack EXCEPT ![Len(stack)].part = "body", ![Len(stack)].old = parent_is_scopable]
  /\ parent_is_scopable' = (Top.kind \in BodyKinds \/ parent_is_scopable)
  /\ UNCHANGED <<program, options, phase, nodes, function_prepends, pending_prepends, worklet_number,
                 used_names, emitted_files, error, escaped, out, result, disk, history>>

-----------------------------------------------------------------------------
(* Mutant: an expression body leaves its frame behind.                     *)
PoppedWithBody == IF Top.kind \in FrameKinds \ {"exprArrow"} THEN Front(function_prepends)
                                                            ELSE function_prepends

(* Leaving a node.  The frame of a function is popped: function_body_      *)
(* prepends splices it into a block body, an expression body drops it.     *)
Popped  == IF Top.kind \in FrameKinds THEN Front(function_prepends) ELSE function_prepends
Spliced == IF Top.kind \in FrameKinds \ {"exprArrow"} THEN ToSet(Last(function_prepends)) ELSE {}

(* The parent's code now mentions refs; it binds what the node bound.      *)
Mention(n, refs, bound) ==
  [n EXCEPT !.inParams = IF n.part = "params" THEN @ \cup refs ELSE @,
            !.inBody   = IF n.part = "body"   THEN @ \cup refs ELSE @,
            !.bound    = @ \cup bound]

(* Mutant: every node left ends the item.                                  *)
ReturnToItem(refs) ==
  LET bound == Top.bound \cup Spliced
      outer == Front(stack)
  IN /\ stack' = IF outer = << >> THEN << >>
                 ELSE [outer EXCEPT ![Len(outer)] = Mention(@, refs, bound)]
     /\ phase' = "item"
     /\ escaped' = refs
     /\ parent_is_scopable' = IF Top.kind = "exprArrow" THEN parent_is_scopable ELSE Top.old

Return(refs) ==
  LET bound == Top.bound \cup Spliced
      outer == Front(stack)
  IN /\ stack' = IF outer = << >> THEN << >>
                 ELSE [outer EXCEPT ![Len(outer)] = Mention(@, refs, bound)]
     /\ phase' = IF outer = << >> THEN "item" ELSE phase
     /\ escaped' = IF outer = << >> THEN refs ELSE escaped
     /\ parent_is_scopable' = IF Top.kind = "exprArrow" THEN parent_is_scopable ELSE Top.old

Leaving == phase = "walk" /\ Top.part = "body"

(* transform_function goes on to make_worklet_factory only for a body      *)
(* marked "worklet" and while no error has been reported.                  *)
Due(n) == n.kind \in WorkletKinds /\ "worklet" \in n.dirs /\ error = None

LeavePlain ==
  /\ Leaving /\ ~Due(Top)
  /\ Return(Free(Top, Spliced))
  /\ function_prepends' = Popped
  /\ missed' = IF "worklet" \in Top.dirs THEN missed \cup {Top.kind} ELSE missed
  /\ UNCHANGED <<program, options, nodes, pending_prepends, worklet_number, used_names, emitted_files, error,
                 out, result, disk, worklets>>

(* A function without a body (a TypeScript overload or declaration) only   *)
(* pops its frame.                                                         *)
LeaveBodiless ==
  /\ phase = "walk" /\ Top.part = "params"
  /\ Top.kind \in BodyKinds \ {"arrow"} /\ Top.dirs = {}
  /\ Top.inParams = {} /\ Top.bound = {} /\ Spliced = {}
  /\ Return({})
  /\ function_prepends' = Popped
  /\ UNCHANGED <<program, options, nodes, pending_prepends, worklet_number, used_names, emitted_files, error,
                 out, result, disk, history>>

-----------------------------------------------------------------------------
(* make_worklet_factory on the node being left.                            *)

(* Mutant: numbered init data is not captured, as if fresh_init_id did not *)
(* register it and only the plain name were recognised.                    *)
ClosureOfPlainNames(n, decls) ==
  IF BundleMode \/ "no-worklet-closure" \notin n.dirs
  THEN {m \in (n.inParams \cup n.inBody) \ (n.bound \cup decls) : m[2] = 1} ELSE {}

(* get_closure: the names mentioned that nothing inside the worklet binds. *)
Closure(n, decls) ==
  IF BundleMode \/ "no-worklet-closure" \notin n.dirs
  THEN (n.inParams \cup n.inBody) \ (n.bound \cup decls) ELSE {}

Limited(n) == "limit-init-data-hoisting" \in n.dirs

(* Where hoist_init_data puts limited data: the innermost function left,   *)
(* and which part of it the worklet stands in (empty at the top level).    *)
Site == LET outer  == Front(stack)
            frames == {i \in DOMAIN outer : outer[i].kind \in FrameKinds}
        IN {[kind |-> outer[i].kind, part |-> outer[i].part] :
              i \in {j \in frames : \A k \in frames : k <= j}}

(* Mutant: the name is not looked up in used_names.                        *)
IsPlainInitId(name) == name[2] = 1

(* fresh_init_id: the first name for this hash that is not in used_names.  *)
IsFreshInitId(name) ==
  /\ name \notin used_names
  /\ \A m \in 1..(name[2] - 1) : <<name[1], m>> \in used_names

(* The name of the worklet equals a captured binding's, or its code cannot *)
(* be printed.  worklet_number has been advanced by then.                  *)
LeaveUnserialized(e) ==
  /\ Leaving /\ Due(Top)
  /\ e \in {"shadows", "print"}
  /\ Return(Free(Top, Spliced))
  /\ function_prepends' = Popped
  /\ worklet_number' = worklet_number + 1
  /\ error' = Reported(e)
  /\ missed' = missed \cup {Top.kind}
  /\ UNCHANGED <<program, options, nodes, pending_prepends, used_names, emitted_files, out, result, disk, worklets>>

(* The record kept of a worklet that was replaced.                         *)
Replaced(init) ==
  LET free    == Free(Top, Spliced)
      closure == Closure(Top, Spliced)
  IN worklets' = worklets \cup
       {[number |-> worklet_number, init |-> init, dirs |-> Top.dirs, site |-> Site,
         open |-> free \ closure]}

(* Without native-only data there is no init datum to declare.             *)
LeaveWithoutData ==
  /\ Leaving /\ Due(Top) /\ ~BundleMode /\ OmitNative
  /\ Return(Free(Top, Spliced))
  /\ function_prepends' = Popped
  /\ worklet_number' = worklet_number + 1
  /\ Replaced(None)
  /\ UNCHANGED <<program, options, nodes, pending_prepends, used_names, emitted_files, error, out, result, disk,
                 missed>>

(* The init datum gets a fresh name and hoist_init_data declares it: at    *)
(* the head of the item, or in the enclosing function when limited.        *)
LeaveHoisting(name) ==
  /\ Leaving /\ Due(Top) /\ ~BundleMode /\ ~OmitNative
  /\ ~(Limited(Top) /\ Popped = << >>)
  /\ IsFreshInitId(name)
  /\ Return(Free(Top, Spliced) \cup {name})
  /\ used_names' = used_names \cup {name}
  /\ worklet_number' = worklet_number + 1
  /\ IF Limited(Top)
     THEN /\ function_prepends' = [Popped EXCEPT ![Len(Popped)] = Append(@, name)]
          /\ UNCHANGED pending_prepends
     ELSE /\ function_prepends' = Popped
          /\ pending_prepends' = Append(pending_prepends, name)
  /\ Replaced(name)
  /\ UNCHANGED <<program, options, nodes, emitted_files, error, out, result, disk, missed>>

(* hoist_init_data fails: limited hoisting with no enclosing function.  The*)
(* name has been taken by then.                                            *)
LeaveUnhoistable(name) ==
  /\ Leaving /\ Due(Top) /\ ~BundleMode /\ ~OmitNative
  /\ Limited(Top) /\ Popped = << >>
  /\ IsFreshInitId(name)
  /\ Return(Free(Top, Spliced))
  /\ function_prepends' = Popped
  /\ used_names' = used_names \cup {name}
  /\ worklet_number' = worklet_number + 1
  /\ error' = Reported("no frame")
  /\ missed' = missed \cup {Top.kind}
  /\ UNCHANGED <<program, options, nodes, pending_prepends, emitted_files, out, result, disk, worklets>>

(* Mutant: an outer file is emitted before the files it requires.          *)
LeaveToFirstFile(name) ==
  /\ Leaving /\ Due(Top) /\ BundleMode /\ PackageDir
  /\ name[2] = 1 /\ \A i \in DOMAIN emitted_files : emitted_files[i].file # name
  /\ Return({name})
  /\ function_prepends' = Popped
  /\ worklet_number' = worklet_number + 1
  /\ emitted_files' = <<[file |-> name, needs |-> Free(Top, Spliced)]>> \o emitted_files
  /\ Replaced(None)
  /\ UNCHANGED <<program, options, nodes, pending_prepends, used_names, error, out, result, disk, missed>>

(* Bundle Mode: the factory becomes a generated file, named after its hash,*)
(* and the code requires it.  <<h, 1>> names the file; the hashes of one   *)
(* program differ because the worklet's number is part of its code.        *)
LeaveToFile(name) ==
  /\ Leaving /\ Due(Top) /\ BundleMode
  /\ name[2] = 1 /\ \A i \in DOMAIN emitted_files : emitted_files[i].file # name
  /\ function_prepends' = Popped
  /\ worklet_number' = worklet_number + 1
  /\ IF PackageDir
     THEN /\ Return({name})
          /\ emitted_files' = Append(emitted_files,
                                     [file |-> name, needs |-> Free(Top, Spliced)])
          /\ Replaced(None)
          /\ UNCHANGED <<error, missed>>
     ELSE /\ Return(Free(Top, Spliced))
          /\ error' = Reported("no package")
          /\ missed' = missed \cup {Top.kind}
          /\ UNCHANGED <<emitted_files, worklets>>
  /\ UNCHANGED <<program, options, nodes, pending_prepends, used_names, out, result, disk>>

-----------------------------------------------------------------------------
(* Mutant: what is pending is put after the item.                          *)
EndItemLate ==
  /\ phase = "item"
  /\ out' = out \o <<[prepends |-> << >>, mentions |-> escaped],
                    [prepends |-> pending_prepends, mentions |-> {}]>>
  /\ pending_prepends' = << >>
  /\ escaped' = {}
  /\ phase' = "module"
  /\ UNCHANGED <<program, options, stack, nodes, parent_is_scopable, function_prepends, worklet_number,
                 used_names, emitted_files, error, result, disk, history>>

(* The rest of the loop of visit_mut_module: what is pending is put before *)
(* the item just visited.                                                  *)
EndItem ==
  /\ phase = "item"
  /\ out' = Append(out, [prepends |-> pending_prepends, mentions |-> escaped])
  /\ pending_prepends' = << >>
  /\ escaped' = {}
  /\ phase' = "module"
  /\ UNCHANGED <<program, options, stack, nodes, parent_is_scopable, function_prepends, worklet_number,
                 used_names, emitted_files, error, result, disk, history>>

EndModule ==
  /\ phase = "module"
  /\ phase' = "write"
  /\ UNCHANGED <<program, options, stack, nodes, visitor, escaped, out, result, disk, history>>

(* finish_bundle_files: the files are written in emission order; the first *)
(* failure is reported and ends the loop, and what fs::write leaves of the *)
(* file it failed on may be nothing or a truncated file.                   *)
WritesLeft == PackageDir /\ error = None /\ Len(disk) < Len(emitted_files)

(* Mutant: a failed write is not reported.                                 *)
WriteFileSilently ==
  /\ phase = "write" /\ WritesLeft
  /\ LET next == emitted_files[Len(disk) + 1]
     IN \E whole \in BOOLEAN :
          disk' = Append(disk, [file |-> next.file, needs |-> next.needs, whole |-> whole])
  /\ UNCHANGED <<program, options, phase, stack, nodes, visitor, escaped, out, result, history>>

WriteFile ==
  /\ phase = "write" /\ WritesLeft
  /\ LET next == emitted_files[Len(disk) + 1]
         Put(whole) == Append(disk, [file |-> next.file, needs |-> next.needs, whole |-> whole])
     IN \/ /\ disk' = Put(TRUE)
           /\ UNCHANGED error
        \/ /\ disk' \in {disk, Put(FALSE)}
           /\ error' = Reported("write")
  /\ UNCHANGED <<program, options, phase, stack, nodes, parent_is_scopable, function_prepends, pending_prepends,
                 worklet_number, used_names, emitted_files, escaped, out, result, history>>

(* The end of visit_mut_module: an error gives back the original module    *)
(* and forgets the emitted files.                                          *)
Finish ==
  /\ phase = "write" /\ ~WritesLeft
  /\ phase' = "done"
  /\ result' = IF error = None THEN "rewritten" ELSE "original"
  /\ emitted_files' = IF error = None THEN emitted_files ELSE << >>
  /\ UNCHANGED <<program, options, stack, nodes, parent_is_scopable, function_prepends, pending_prepends,
                 worklet_number, used_names, error, escaped, out, disk, history>>

(* The names fresh_init_id can give: one more than are in use suffices.    *)
Candidates == Hashes \X (1..(Cardinality(used_names) + 1))

LeaveWorklet ==
  \/ LeaveWithoutData
  \/ \E e \in {"shadows", "print"} : LeaveUnserialized(e)
  \/ \E name \in Candidates : LeaveHoisting(name) \/ LeaveUnhoistable(name) \/ LeaveToFile(name)

(* The program has been transformed: nothing more happens.                 *)
Terminated == phase = "done" /\ UNCHANGED vars

Next ==
  \/ BeginModule \/ BeginScript
  \/ \E k \in program.shapes, dirs \in Prologues \cup {{}} : OpenItem(k, dirs) \/ Enter(k, dirs)
  \/ RejectAccessor \/ EnterBody
  \/ LeavePlain \/ LeaveBodiless \/ LeaveWorklet
  \/ EndItem \/ EndModule \/ WriteFile \/ Finish \/ Terminated

Spec == Init /\ [][Next]_vars

-----------------------------------------------------------------------------
(* Types of all variables.                                                 *)
File    == [file : Name, needs : SUBSET Name]
Written == [file : Name, needs : SUBSET Name, whole : BOOLEAN]
Item    == [prepends : Seq(Name), mentions : SUBSET Name]
Place   == [kind : FrameKinds, part : Parts]
Worklet == [number : Nat, init : Name \cup {None}, dirs : SUBSET Directives,
            site : SUBSET Place, open : SUBSET Name]

TypeOK ==
  /\ program \in Programs
  /\ options \in Options
  /\ phase \in {"start", "module", "walk", "item", "write", "done"}
  /\ stack \in Seq(Node)
  /\ (phase = "walk") <=> (stack # << >>)
  /\ nodes \in Nat
  /\ parent_is_scopable \in BOOLEAN
  /\ function_prepends \in Seq(Seq(Name))
  /\ pending_prepends \in Seq(Name)
  /\ worklet_number \in Nat \ {0}
  /\ used_names \in SUBSET Name
  /\ emitted_files \in Seq(File)
  /\ error \in Errors \cup {None}
  /\ escaped \in SUBSET Name
  /\ out \in Seq(Item)
  /\ result \in {"open", "rewritten", "original"}
  /\ disk \in Seq(Written)
  /\ worklets \in SUBSET Worklet
  /\ missed \in SUBSET Kinds

-----------------------------------------------------------------------------
(* Properties.                                                             *)

FramesOf(s) == {i \in DOMAIN s : s[i].kind \in FrameKinds}

(* There is one frame for each function the visitor is inside of, so the   *)
(* expect("function frame was pushed") of function_body_prepends never     *)
(* fails, limited init data goes to the innermost function and no frame of *)
(* an item outlives it.                                                    *)
FramesMatchFunctions == Len(function_prepends) = Cardinality(FramesOf(stack))

(* A function declaration in a statement list is replaced by a const that  *)
(* keeps its binding: whatever was visited in between, the flag that       *)
(* decides it is set exactly in lists and cleared under other statements.  *)
ScopableInLists ==
  phase = "walk" => /\ InList(Top) => parent_is_scopable
                    /\ Top.kind = "stmt" => ~parent_is_scopable

(* The lists of init data declared so far: one for each frame, what is     *)
(* pending, and one for each finished item.                                *)
ItemPrepends(items) == [i \in DOMAIN items |-> items[i].prepends]
Declarations == function_prepends \o <<pending_prepends>> \o ItemPrepends(out)

Distinct(lists) ==
  \A i, j \in DOMAIN lists : \A a \in DOMAIN lists[i], b \in DOMAIN lists[j] :
     lists[i][a] = lists[j][b] => i = j /\ a = b

(* No two declarations of init data share a name, and none takes a name    *)
(* the program already binds, even when two worklets have the same hash.   *)
FreshInitData ==
  /\ Distinct(Declarations)
  /\ \A i \in DOMAIN Declarations : ToSet(Declarations[i]) \cap UserNames = {}

(* Limited init data whose declaration cannot be seen from its worklet:    *)
(* dropped with the frame of an expression-bodied arrow, or spliced into a *)
(* body although the worklet stands in the parameters.                     *)
Lost(w) == /\ "limit-init-data-hoisting" \in w.dirs
           /\ \E p \in w.site : p.kind = "exprArrow" \/ p.part = "params"

(* The code of a finished item mentions only init data declared before it  *)
(* at the top of the module; the data that Lost describes is the only      *)
(* exception.                                                              *)
HoistedBefore(i) == UNION {ToSet(out[j].prepends) : j \in 1..i}
InitDataInScope ==
  ~BundleMode => \A i \in DOMAIN out : \A m \in out[i].mentions :
     m \in HoistedBefore(i) \/ \E w \in worklets : w.init = m /\ Lost(w)

(* The code that is serialized for another runtime is closed: an init      *)
(* datum of a nested worklet is declared inside or captured, unless it is  *)
(* lost or the worklet asked for no closure and the nested one is not      *)
(* limited.                                                                *)
SerializedCodeClosed ==
  ~BundleMode => \A w \in worklets : \A m \in w.open : \E v \in worklets :
     /\ v.init = m
     /\ \/ Lost(v)
        \/ /\ "no-worklet-closure" \in w.dirs
           /\ "limit-init-data-hoisting" \notin v.dirs

(* While nothing has been reported no marked function of a kind the pass   *)
(* handles has been left as it was, so a worklet never serializes a nested *)
(* one that was not replaced, and a rewritten module has none left.        *)
NoWorkletMissed == error = None => missed \cap (WorkletKinds \cup {"accessor"}) = {}

(* Whatever was written before a write failed, every whole file on disk    *)
(* finds the files it requires whole on disk.                              *)
DiskClosed ==
  \A i \in DOMAIN disk : disk[i].whole =>
     disk[i].needs \subseteq {disk[j].file : j \in {k \in DOMAIN disk : disk[k].whole}}

(* The caller gets a rewritten module only when every file it requires is  *)
(* whole on disk; otherwise it gets the original and no emitted file.      *)
ResultUsable ==
  phase = "done" =>
    \/ /\ result = "original" /\ emitted_files = << >>
    \/ /\ result = "rewritten" /\ error = None
       /\ BundleMode => \A i \in DOMAIN out :
            out[i].mentions \subseteq {disk[j].file : j \in {k \in DOMAIN disk : disk[k].whole}}

(* "nested init data stays in enclosing function", as a regression test of *)
(* limit-init-data-hoisting is called: the declaration of a limited        *)
(* worklet in the body of a function stays where the worklet can see it.   *)
NestedInitDataStays ==
  \A i \in DOMAIN out : \A m \in out[i].mentions : \A w \in worklets :
     (w.init = m /\ \A p \in w.site : p.part = "body") => m \in HoistedBefore(i)
=============================================================================
