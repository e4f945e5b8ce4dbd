---------------------------- MODULE MCHermesPasses ----------------------------
(* An instance of HermesPasses for TLC.                                    *)
EXTENDS HermesPasses

(* Nested finalizers, classes and scopes, deep enough for a finalizer      *)
(* within a class within a finalizer.                                      *)
Finalizers == [kinds |-> {"try", "tryFinally", "finalizer", "block", "classDecl", "decorated",
                          "members", "arrow"}, depth |-> 9]

(* Nested accessors and what hides their super.                            *)
Supers     == [kinds |-> {"getter", "setter", "computed", "accessorFunction", "accessorBody", "arrow",
                          "function", "methodProp", "method", "body", "classExpr", "members"},
               depth |-> 6]

FinallyPrograms == {Finalizers}
BothPrograms    == {Finalizers, Supers}
===============================================================================
