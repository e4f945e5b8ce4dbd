---------------------------- MODULE HermesVisitors ----------------------------
(***************************************************************************)
(* ClassInFinallyVisitor (visitors/class_in_finally.rs), the separate pass *)
(* for the same fix, on the same walk.  The depth it saves in a scope is a *)
(* local of the visitor's own recursion; a class that it wraps is not      *)
(* visited further.                                                        *)
(***************************************************************************)
EXTENDS ProgramWalk

VARIABLES
  visitor_wrapped,   \* positions of the open classes that it wrapped
  visitor_depth,     \* ClassInFinallyVisitor::finalizer_depth
  saved,             \* the locals `saved` of the calls that have not returned
  skipped            \* position of the open class it does not visit, or 0

visitorVars == <<visitor_wrapped, visitor_depth, saved, skipped>>

VisitorInit == visitor_wrapped = {} /\ visitor_depth = 0 /\ saved = << >> /\ skipped = 0

(* Mutant: an arrow function keeps the depth.                              *)
ResetKindsNoArrow == {"function", "method", "accessorFunction", "methodProp",
                      "getter", "setter", "computed", "members"}

ResetKinds == {"function", "method", "accessorFunction", "arrow", "methodProp",
               "getter", "setter", "computed", "members"}

VisitorWraps(k) == k \in {"classDecl", "classExpr"} /\ visitor_depth > 0

(* Mutant: the visitor goes on into a class it has wrapped.                *)
VisitorEnterAll(k) ==
  /\ visitor_wrapped' = IF VisitorWraps(k) THEN visitor_wrapped \cup {Depth + 1} ELSE visitor_wrapped
  /\ visitor_depth' = CASE k = "finalizer"  -> visitor_depth + 1
                        [] k \in ResetKinds -> 0
                        [] OTHER            -> visitor_depth
  /\ saved' = IF k \in ResetKinds THEN Append(saved, visitor_depth) ELSE saved
  /\ skipped' = 0

VisitorEnter(k) ==
  IF skipped # 0 THEN UNCHANGED visitorVars
  ELSE IF VisitorWraps(k)
  THEN /\ visitor_wrapped' = visitor_wrapped \cup {Depth + 1}
       /\ skipped' = Depth + 1
       /\ UNCHANGED <<visitor_depth, saved>>
  ELSE /\ visitor_depth' = CASE k = "finalizer"  -> visitor_depth + 1
                             [] k \in ResetKinds -> 0
                             [] OTHER            -> visitor_depth
       /\ saved' = IF k \in ResetKinds THEN Append(saved, visitor_depth) ELSE saved
       /\ UNCHANGED <<visitor_wrapped, skipped>>

(* Mutant: the visitor stays away after a class it has wrapped.            *)
NeverResume == UNCHANGED skipped

Resume == skipped' = 0

VisitorLeave(k) ==
  IF skipped \notin {0, Depth} THEN UNCHANGED visitorVars
  ELSE /\ visitor_wrapped' = visitor_wrapped \ {Depth}
       /\ Resume
       /\ visitor_depth' = CASE k = "finalizer"  -> visitor_depth - 1
                             [] k \in ResetKinds -> Last(saved)
                             [] OTHER            -> visitor_depth
       /\ saved' = IF k \in ResetKinds THEN Front(saved) ELSE saved
=============================================================================
