----------------------------- MODULE HermesPasses -----------------------------
(***************************************************************************)
(* The combined hook and the separate pass for classes in finalizers, side *)
(* by side on one program: lib.rs offers both, and hooks/tests.rs compares *)
(* their output.                                                           *)
(***************************************************************************)
EXTENDS HermesHooks, HermesVisitors

passVars == <<hookVars, visitorVars>>

PassInit == HookInit /\ VisitorInit

EnterBoth(k) == HookEnter(k) /\ VisitorEnter(k)
LeaveBoth    == HookLeave /\ VisitorLeave(Inner.kind)
SuperBoth    == HookSuper /\ UNCHANGED visitorVars

PassNext == (\E k \in program.kinds : EnterBoth(k)) \/ LeaveBoth \/ SuperBoth

PassSpec == PassInit /\ [][PassNext]_passVars

-----------------------------------------------------------------------------
PassTypeOK ==
  /\ HookTypeOK
  /\ visitor_wrapped \subseteq Positions
  /\ visitor_depth \in Nat
  /\ saved \in Seq(Nat)
  /\ skipped \in {0} \cup Positions

-----------------------------------------------------------------------------
(* Properties.                                                             *)

(* The separate pass wraps a class only where the hook does, and of those  *)
(* exactly the ones that are not inside another: the outermost.  Outside   *)
(* wrapped classes the two agree on the depth, and on what they have saved *)
(* for the scopes around.                                                  *)
VisitorWrapsOutermost ==
  /\ visitor_wrapped = {i \in wrapped : \A j \in wrapped : i <= j}
  /\ wrapped = {} => visitor_depth = finalizer_depth /\ saved = scope_depths

(* hooks/tests.rs: the combined hook and the separate passes give the same *)
(* program (matches_existing_passes_including_shared_generated_spans).     *)
SameClasses == visitor_wrapped = wrapped
=============================================================================
