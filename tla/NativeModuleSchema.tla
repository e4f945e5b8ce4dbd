-------------------------- MODULE NativeModuleSchema --------------------------
(***************************************************************************)
(* What the schema of a NativeModule should be, in terms of the graph of   *)
(* references between the module's declarations, and how far the parser of *)
(* NativeModuleTypes gets.                                                 *)
(***************************************************************************)
EXTENDS NativeModuleTypes, Graphs

(* Names that a type refers to.                                            *)
NamesIn[t \in Types] ==
  (IF t.op = "ref" THEN {t.name} ELSE {}) \cup UNION {NamesIn[t.args[i]] : i \in DOMAIN t.args}

RefersTo(n) == LET d == module.decls[n]
               IN ToSet(d.bases) \cup UNION {NamesIn[t] : t \in ToSet(d.parts)}

ReferenceGraph == [node |-> Names, edge |-> {e \in Names \X Names : e[2] \in RefersTo(e[1])}]
InterfaceGraph == LET I == {n \in Names : Kind(n) = "interface"}
                  IN [node |-> I, edge |-> ReferenceGraph.edge \cap (I \X I)]

(* Names that n leads to by one or more references: they are in every set  *)
(* that holds what n refers to and whatever its own elements refer to.     *)
Below(G, n) ==
  {m \in G.node : \A S \in SUBSET G.node :
                    Successors(G, n) \cup AllSuccessors(G, S) \subseteq S => m \in S}

OnCycle(G, n)      == n \in Below(G, n)
ReachesCycle(G, n) == \E m \in {n} \cup Below(G, n) : OnCycle(G, m)

-----------------------------------------------------------------------------
(* Aliases that the schema refers to, from a method or from an entry.      *)
Referenced == mentioned \cup UNION {alias_map[n].refs : n \in {m \in Names : alias_map[m] # None}}

(* "cyclic aliases must not produce unresolved schema references", as a    *)
(* test of the parser says: every alias that a finished schema refers to   *)
(* has its entry in the alias map.                                         *)
NoUnresolvedReference == mode = "done" => \A n \in Referenced : alias_map[n] # None

(* An alias that is not part of a cycle of declarations is never left      *)
(* unresolved, whatever errors arrays swallowed and whichever other        *)
(* declarations are cyclic.  The names that an interface extends are kept  *)
(* beside its properties (base_types) and do not count as references.      *)
OnlyCyclesUnresolved ==
  mode = "done" => \A n \in Referenced : alias_map[n] = None => OnCycle(ReferenceGraph, n)

(* A declaration is translated anew each time it is referred to.  Its entry*)
(* comes out the same every time, unless the declaration leads to a cycle: *)
(* there, what is being resolved and which entries there are already       *)
(* decide which names appear in it.                                        *)
EntriesStable ==
  [][\A n \in Names : alias_map[n] # None /\ ~ReachesCycle(ReferenceGraph, n)
                        => alias_map'[n] = alias_map[n]]_vars

(* "Recursive object references get an alias-map entry; alias-only cycles  *)
(* do not.", as the parser says of itself: either way it stops.            *)
NeverOverflows == mode # "overflow"

(* The parser stops with a schema or an error unless interfaces alone form *)
(* a cycle: an alias anywhere on the cycle ends the recursion.             *)
AliasCyclesStop ==
  (\A n \in Names : Kind(n) = "interface" => ~OnCycle(InterfaceGraph, n))
     ~> (mode \in {"done", "failed"})
=============================================================================
