----------------------------- MODULE HermesFixes -----------------------------
(***************************************************************************)
(* What the Hermes v1 fixes promise for every node of a program: which     *)
(* classes are moved into an arrow function, and which accessors get a     *)
(* computed key.                                                           *)
(***************************************************************************)
EXTENDS ProgramWalk

VARIABLES
  wrapped,   \* positions on the path of the classes that have been wrapped
  left       \* the node left last, and whether it was rewritten

(* Nodes whose contents run later, or in a scope of their own.             *)
ScopeKinds == {"function", "method", "accessorFunction", "arrow", "methodProp", "members"}
                \cup Accessors

Unwrapped(k) == k \in {"classDecl", "classExpr"}

(* A wrapped class stands in the body of the generated arrow function.     *)
Boundary(i) == path[i].kind \in ScopeKinds \/ i \in wrapped

(* What comes next stands in a finalizer, in the same scope.               *)
InFinalizer ==
  \E i \in 1..Depth : /\ path[i].kind = "finalizer"
                      /\ \A j \in i..Depth : ~Boundary(j)

Nothing == [kind |-> "none", rewritten |-> FALSE]

WalkInit == program \in Programs /\ path = << >> /\ wrapped = {} /\ left = Nothing

Enter(k) ==
  /\ EnterNode(k)
  /\ wrapped' = IF Unwrapped(k) /\ InFinalizer THEN wrapped \cup {Depth + 1} ELSE wrapped
  /\ left' = Nothing

(* A key that is a string or an identifier is made a computed one.         *)
Leave ==
  /\ LeaveNode
  /\ wrapped' = wrapped \ {Depth}
  /\ left' = [kind |-> Inner.kind,
              rewritten |-> Depth \in wrapped \/ (Inner.kind \in {"getter", "setter"} /\ Inner.super)]

Super == SuperProp /\ wrapped' = wrapped /\ left' = Nothing

FixNext == (\E k \in program.kinds : Enter(k)) \/ Leave \/ Super

FixSpec == WalkInit /\ [][FixNext]_<<program, path, wrapped, left>>
=============================================================================
