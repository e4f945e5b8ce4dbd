---- MODULE MCWorkletPass ----
(* Small instances of WorkletPass for TLC.                                 *)
EXTENDS WorkletPass

(* One hash whose plain name the program already binds: every worklet      *)
(* collides and needs a numbered name.  With two, files can be emitted.    *)
OneHash       == {1}
TwoHashes     == {1, 2}
TakenName     == {<<1, 1>>}
NoNames       == {}

AllPrologues  == { {}, {"worklet"}, {"worklet", "no-worklet-closure"},
                   {"worklet", "limit-init-data-hoisting"} }

Build(bundle, omit, dir) ==
  [bundle_mode |-> bundle, omit_native_only_data |-> omit, package_dir |-> dir]
Legacy        == {Build(FALSE, FALSE, FALSE)}
AllBuilds     == {Build(FALSE, omit, FALSE) : omit \in BOOLEAN}
                   \cup {Build(TRUE, FALSE, dir) : dir \in BOOLEAN}

Of(shapes, n) == [shapes |-> shapes, script |-> FALSE, nodes |-> n, depth |-> n]

(* Enough kinds to nest worklets in every way that matters to hoisting, to *)
(* emit files that require each other, and to fail.                        *)
NestingKinds  == {"fnDecl", "arrow", "exprArrow", "ctor"}
Nesting       == {Of(NestingKinds, 4)}

(* Every kind of node, three to a program; worklets nested in one another; *)
(* and a script.                                                           *)
AllPrograms   == {Of(Kinds, 3), Of(NestingKinds \cup {"accessor"}, 4),
                  [Of({"stmt", "fnDecl", "arrow"}, 4) EXCEPT !.script = TRUE]}
====
