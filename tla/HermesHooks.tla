----------------------------- MODULE HermesHooks -----------------------------
(***************************************************************************)
(* ClassInFinallyHook and SuperInObjectAccessorHook                        *)
(* (swc-react-native-hermes-v1-fixes, hooks/), composed in one traversal.  *)
(* Each hook learns where it is from the enter and exit calls only, and    *)
(* keeps that in counters and stacks of its own.                           *)
(*                                                                         *)
(* A block that ends a try, and the body of an accessor, are recognised by *)
(* their addresses.  Both are stored in the node that owns them, so the    *)
(* position of the owner on the path stands for their address; that of any *)
(* other node is its own position.                                         *)
(***************************************************************************)
EXTENDS ProgramWalk

CONSTANT None   \* no address

ASSUME NoneAssumption == None \notin Nat

VARIABLES
  wrapped, left,     \* as in HermesFixes
  finalizer_depth,   \* ClassInFinallyHook
  scope_depths,
  finalizers,
  direct_super,      \* SuperInObjectAccessorHook: "none" | "false" | "true"
  scopes,
  accessors

classVars == <<finalizer_depth, scope_depths, finalizers>>
superVars == <<direct_super, scopes, accessors>>
hookVars  == <<program, path, wrapped, left, finalizer_depth, scope_depths, finalizers,
               direct_super, scopes, accessors>>

(* The promise, about the same walk: a class of the abstract program is     *)
(* wrapped when the hook has wrapped it, and a node left has been rewritten *)
(* when exit_accessor or the exit of a wrapped class changed it.            *)
Fixes == INSTANCE HermesFixes WITH
           program <- program, path <- path, wrapped <- wrapped, left <- left

HookInit ==
  /\ Fixes!WalkInit
  /\ finalizer_depth = 0 /\ scope_depths = << >> /\ finalizers = << >>
  /\ direct_super = "none" /\ scopes = << >> /\ accessors = << >>

(* Mutant: spans instead of addresses, which generated nodes share.        *)
SharedSpan(kind, i) == 1

Address(kind, i) ==
  CASE kind = "finalizer"    -> i - 1
    [] kind = "accessorBody" -> i - 2
    [] OTHER                 -> i

-----------------------------------------------------------------------------
(* ClassInFinallyHook.                                                     *)

EnterScope ==
  /\ scope_depths' = Append(scope_depths, finalizer_depth)
  /\ finalizer_depth' = 0
  /\ UNCHANGED finalizers

ExitScope ==
  /\ finalizer_depth' = Last(scope_depths)
  /\ scope_depths' = Front(scope_depths)
  /\ UNCHANGED finalizers

IsFinalizer(kind, i) == finalizers # << >> /\ Last(finalizers) = Address(kind, i)

BlockKinds == {"block", "finalizer"}
TryKinds   == {"try", "tryFinally"}
HookScopes == {"function", "method", "accessorFunction", "arrow", "methodProp",
               "getter", "setter", "computed", "members"}

(* enter_stmt and enter_expr: the class becomes the result of an arrow     *)
(* function that is called at once.  The traversal goes on in that         *)
(* function, where the depth is zero and the class is met again.           *)
Wraps(k) == k \in {"classDecl", "classExpr"} /\ finalizer_depth > 0

ClassEnter(k) ==
  \/ /\ k \in TryKinds
     /\ finalizers' = Append(finalizers, IF k = "tryFinally" THEN Address("finalizer", Depth + 2) ELSE None)
     /\ UNCHANGED <<finalizer_depth, scope_depths>>
  \/ /\ k \in BlockKinds
     /\ finalizer_depth' = finalizer_depth + IF IsFinalizer(k, Depth + 1) THEN 1 ELSE 0
     /\ UNCHANGED <<scope_depths, finalizers>>
  \/ (k \in HookScopes \/ Wraps(k)) /\ EnterScope
  \/ k \notin TryKinds \cup BlockKinds \cup HookScopes /\ ~Wraps(k) /\ UNCHANGED classVars

(* Mutant: the hook forgets the arrow function it generated.               *)
LeavesHookScopes(k) == k \in HookScopes

LeavesScope(k) == k \in HookScopes \/ Depth \in wrapped

(* Mutant: leaving a try keeps its finalizer.                              *)
TryLeftOpen == UNCHANGED finalizers

TryLeft == finalizers' = Front(finalizers)

ClassExit(k) ==
  \/ k \in TryKinds /\ TryLeft /\ UNCHANGED <<finalizer_depth, scope_depths>>
  \/ /\ k \in BlockKinds
     /\ finalizer_depth' = finalizer_depth - IF IsFinalizer(k, Depth) THEN 1 ELSE 0
     /\ UNCHANGED <<scope_depths, finalizers>>
  \/ LeavesScope(k) /\ ExitScope
  \/ k \notin TryKinds \cup BlockKinds /\ ~LeavesScope(k) /\ UNCHANGED classVars

-----------------------------------------------------------------------------
(* SuperInObjectAccessorHook.                                              *)

(* Mutant: a class does not hide super from the accessor around it.        *)
SuperScopesNoClass == {"function", "method", "accessorFunction", "methodProp"}

SuperScopes == {"function", "method", "accessorFunction", "methodProp"} \cup Classes
Bodies      == {"body", "accessorBody"}

IsAccessorBody(kind, i) ==
  accessors # << >> /\ Last(accessors).body_address = Address(kind, i)

(* Mutant: the scope around an accessor, function or class is not resumed.  *)
DropSuperScope == direct_super' = Last(scopes) /\ UNCHANGED scopes

EnterSuperScope == scopes' = Append(scopes, direct_super) /\ direct_super' = "none"
ExitSuperScope  == direct_super' = Last(scopes) /\ scopes' = Front(scopes)

SuperEnter(k) ==
  \/ /\ k \in Accessors /\ EnterSuperScope
     /\ accessors' = Append(accessors, [body_address |-> Address("accessorBody", Depth + 3), found |-> FALSE])
  \/ /\ k \in Bodies
     /\ direct_super' = IF IsAccessorBody(k, Depth + 1) THEN "false" ELSE direct_super
     /\ UNCHANGED <<scopes, accessors>>
  \/ k \in SuperScopes /\ EnterSuperScope /\ UNCHANGED accessors
  \/ k \notin Accessors \cup Bodies \cup SuperScopes /\ UNCHANGED superVars

SuperExit(k) ==
  \/ k \in Accessors /\ ExitSuperScope /\ accessors' = Front(accessors)
  \/ /\ k \in Bodies
     /\ IF IsAccessorBody(k, Depth)
        THEN /\ accessors' = [accessors EXCEPT ![Len(accessors)].found = direct_super = "true"]
             /\ direct_super' = "none"
        ELSE UNCHANGED <<accessors, direct_super>>
     /\ UNCHANGED scopes
  \/ k \in SuperScopes /\ ExitSuperScope /\ UNCHANGED accessors
  \/ k \notin Accessors \cup Bodies \cup SuperScopes /\ UNCHANGED superVars

-----------------------------------------------------------------------------
(* The composed hook, driven by the walk.                                  *)

HookEnter(k) ==
  /\ EnterNode(k)
  /\ ClassEnter(k) /\ SuperEnter(k)
  /\ wrapped' = IF Wraps(k) THEN wrapped \cup {Depth + 1} ELSE wrapped
  /\ left' = Fixes!Nothing

(* exit_accessor rewrites the key if the accessor's body was found to use  *)
(* super.                                                                  *)
HookLeave ==
  /\ LeaveNode
  /\ ClassExit(Inner.kind) /\ SuperExit(Inner.kind)
  /\ wrapped' = wrapped \ {Depth}
  /\ left' = [kind |-> Inner.kind,
              rewritten |-> \/ Depth \in wrapped
                            \/ Inner.kind \in {"getter", "setter"} /\ Last(accessors).found]

HookSuper ==
  /\ SuperProp
  /\ direct_super' = IF direct_super = "none" THEN "none" ELSE "true"
  /\ left' = Fixes!Nothing
  /\ UNCHANGED <<wrapped, finalizer_depth, scope_depths, finalizers, scopes, accessors>>

HookNext == (\E k \in program.kinds : HookEnter(k)) \/ HookLeave \/ HookSuper

HookSpec == HookInit /\ [][HookNext]_hookVars

-----------------------------------------------------------------------------
Positions == 1..Depth

HookTypeOK ==
  /\ program \in Programs
  /\ path \in Seq(Node) /\ Depth <= program.depth
  /\ wrapped \subseteq Positions
  /\ left \in [kind : AllKinds \cup {"none"}, rewritten : BOOLEAN]
  /\ finalizer_depth \in Nat
  /\ scope_depths \in Seq(Nat)
  /\ finalizers \in Seq(Positions \cup {None})
  /\ direct_super \in {"none", "false", "true"}
  /\ scopes \in Seq({"none", "false", "true"})
  /\ accessors \in Seq([body_address : Positions, found : BOOLEAN])

-----------------------------------------------------------------------------
(* Properties.                                                             *)

(* The hooks rewrite exactly what HermesFixes says, at every node of every *)
(* program: a class of a finalizer's own scope, and an accessor whose body *)
(* directly uses super.                                                    *)
ImplementsFixes == Fixes!FixSpec

(* Both hooks as they are made.                                            *)
CleanBetweenPrograms ==
  path = << >> => /\ finalizer_depth = 0 /\ scope_depths = << >> /\ finalizers = << >>
                  /\ direct_super = "none" /\ scopes = << >> /\ accessors = << >>

(* The counter and the stacks of ClassInFinallyHook follow the open nodes: *)
(* the depth counts the finalizers since the innermost scope, also after   *)
(* scopes, wrapped classes and trys without finalizer have come and gone.  *)
(* Between two programs both hooks are as new: no enter is left without    *)
(* its exit, so nothing of one program decides about the next.             *)
DepthCountsFinalizers ==
  /\ finalizer_depth = Cardinality({i \in Positions :
                          /\ path[i].kind = "finalizer"
                          /\ \A j \in i..Depth : ~Fixes!Boundary(j)})
  /\ Len(scope_depths) = Cardinality({i \in Positions : Fixes!Boundary(i)})
  /\ Len(finalizers) = Cardinality({i \in Positions : path[i].kind \in TryKinds})
  /\ CleanBetweenPrograms
=============================================================================
