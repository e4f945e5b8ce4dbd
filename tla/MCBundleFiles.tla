---------------------------- MODULE MCBundleFiles ----------------------------
(***************************************************************************)
(* An instance of BundleFiles for TLC.  Modules m1 and m2 are, say,        *)
(* a/index.ts and b/index.ts: the same worklet (hash 1) with different     *)
(* imports.  m1 has a second worklet that m3 shares in full, m4 has none.  *)
(***************************************************************************)
EXTENDS BundleFiles

CONSTANTS m1, m2, m3, m4, short, long, common

FourModules == {m1, m2, m3, m4}
ThreeContents == {short, long, common}

EmittedFiles ==
  [m \in FourModules |->
     CASE m = m1 -> <<[hash |-> 1, content |-> short], [hash |-> 2, content |-> common]>>
       [] m = m2 -> <<[hash |-> 1, content |-> long]>>
       [] m = m3 -> <<[hash |-> 2, content |-> common]>>
       [] OTHER  -> << >>]

Lengths == [c \in ThreeContents |-> IF c = short THEN 1 ELSE 2]
=============================================================================
