--------------------------- MODULE MCReanimatedPass ---------------------------
(* Small instances of ReanimatedPass for TLC.                              *)
EXTENDS ReanimatedPass

OneHash    == {1}
TakenName  == {<<1, 1>>}

AllOptions == [process_nested_worklets : BOOLEAN, omit_native_only_data : BOOLEAN]
AsWritten  == [process_nested_worklets : {FALSE}, omit_native_only_data : {FALSE}]

(* Every kind of node, three to a program; worklets nested four deep; a    *)
(* context object within another; and a script.                            *)
AllKinds   == [shapes |-> Kinds \ {"contextFactory"}, script |-> FALSE, nodes |-> 3, depth |-> 3]
Deep       == [shapes |-> {"fnDecl", "arrow", "method", "classAccessor"}, script |-> FALSE,
               nodes |-> 4, depth |-> 4]
Contexts   == [shapes |-> {"stmt", "context", "method"}, script |-> FALSE, nodes |-> 7, depth |-> 5]
Script     == [shapes |-> {"stmt", "fnDecl", "fnExpr"}, script |-> TRUE, nodes |-> 4, depth |-> 4]

AllPrograms     == {AllKinds, Deep, Contexts, Script}
ContextPrograms == {Contexts}
===============================================================================
