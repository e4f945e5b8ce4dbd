----------------------------- MODULE ProgramWalk -----------------------------
(***************************************************************************)
(* A traversal of a JavaScript program in source order, as SWC drives a    *)
(* visitor or a VisitMutHook: nodes are entered and left, and the path     *)
(* holds those that are open.  The program is whatever the walk makes it:  *)
(* at every step any node the grammar allows may come next.  Only node     *)
(* types that the Hermes fixes look at have a kind.                        *)
(***************************************************************************)
EXTENDS Naturals, Sequences, FiniteSets, SequencesExt

CONSTANT Programs   \* families of programs: see Family

VARIABLES
  program,   \* the family that the programs belong to
  path       \* the open nodes, outermost first

(* A decorated class is a kind of its own, and so is an accessor whose key *)
(* is neither an identifier nor a string.                                  *)
Classes     == {"classDecl", "classExpr", "decorated"}
Accessors   == {"getter", "setter", "computed"}
Expressions == {"function", "arrow", "methodProp", "classExpr", "decorated"} \cup Accessors
Statements  == Expressions \cup {"classDecl", "try", "tryFinally", "block"}

(* The parts that a node has once: a finalizer, a body, the members of a   *)
(* class, the function of an accessor.                                     *)
Parts == {"finalizer", "members", "method", "accessorFunction", "accessorBody", "body"}

AllKinds == Statements \cup Parts

(* A family of programs: the kinds of nodes they are made of, and a bound  *)
(* on how deep nodes nest.                                                 *)
Family == [kinds : SUBSET AllKinds, depth : Nat]

ASSUME ProgramAssumption == Programs \subseteq Family

(* What may stand directly below a node of a kind.                         *)
Below(kind) ==
  CASE kind \in {"block", "finalizer", "body", "accessorBody"} -> Statements
    [] kind \in {"function", "arrow", "method"}                -> Expressions \cup {"body"}
    [] kind = "methodProp"                                     -> Expressions \cup {"method"}
    [] kind \in {"getter", "setter"}                           -> {"accessorFunction"}
    [] kind = "computed"                                       -> Expressions \cup {"accessorFunction"}
    [] kind = "accessorFunction"                               -> Expressions \cup {"accessorBody"}
    [] kind \in Classes                                        -> Expressions \cup {"members"}
    [] kind = "members"                                        -> Expressions \cup {"method", "block", "body"}
    [] kind = "try"                                            -> {"block"}
    [] kind = "tryFinally"                                     -> {"block", "finalizer"}

Depth == Len(path)
Inner == path[Depth]

(* complete: a part of the node has been walked; nothing follows the       *)
(* finalizer of a try.  super: see SuperProp.                              *)
Node == [kind : AllKinds, complete : BOOLEAN, super : BOOLEAN]

(* How many levels a node needs for itself and the parts it must have.     *)
Levels(k) ==
  CASE k \in Accessors                                            -> 3
    [] k \in Classes \cup {"tryFinally", "methodProp", "accessorFunction"} -> 2
    [] OTHER                                                       -> 1

MayEnter(k) ==
  /\ Depth + Levels(k) <= program.depth
  /\ k \in IF path = << >> THEN Statements ELSE Below(Inner.kind)
  /\ path # << >> /\ Inner.complete =>
       Inner.kind # "tryFinally" /\ (k \in Parts => Inner.kind = "members")

EnterNode(k) ==
  /\ MayEnter(k)
  /\ LET above == IF path # << >> /\ k \in Parts
                  THEN [path EXCEPT ![Depth].complete = TRUE] ELSE path
     IN path' = Append(above, [kind |-> k, complete |-> FALSE, super |-> FALSE])
  /\ UNCHANGED program

LeaveNode ==
  /\ path # << >>
  /\ Inner.kind \in {"tryFinally", "accessorFunction", "methodProp"} \cup Accessors \cup Classes
       => Inner.complete
  /\ path' = Front(path)
  /\ UNCHANGED program

(* DirectSuperMemberFinder: what hides the super of an accessor's body.    *)
Opaque == {"function", "method", "accessorFunction", "methodProp"} \cup Accessors \cup Classes

(* Positions of the accessors that directly contain what comes next.       *)
Owners ==
  {i \in 1..Depth :
     /\ path[i].kind \in Accessors
     /\ i + 2 <= Depth /\ path[i + 2].kind = "accessorBody"
     /\ \A j \in (i + 3)..Depth : path[j].kind \notin Opaque}

(* super is bound by the innermost method, accessor or class body; a plain *)
(* function has none.                                                      *)
SuperAllowed ==
  /\ path # << >> /\ Inner.kind \notin {"try", "tryFinally", "getter", "setter"}
  /\ \E i \in 1..Depth : /\ path[i].kind \in {"method", "accessorFunction", "members"}
                         /\ \A j \in i..Depth : path[j].kind # "function"

(* A reference to a member of super, remembered at the accessor whose body *)
(* directly contains it.                                                   *)
SuperProp ==
  /\ SuperAllowed
  /\ path' = [i \in 1..Depth |-> IF i \in Owners THEN [path[i] EXCEPT !.super = TRUE] ELSE path[i]]
  /\ UNCHANGED program
=============================================================================
