------------------------ MODULE MCNativeModuleTypes ------------------------
(* Small instances of NativeModuleTypes for TLC.                           *)
EXTENDS NativeModuleSchema

CONSTANTS nameA, nameB, nameD

T(op, args) == [op |-> op, name |-> None, args |-> args]
Ref(n)      == [op |-> "ref", name |-> n, args |-> << >>]

Prim == T("prim", << >>)
Void == T("void", << >>)
Null == T("null", << >>)

TwoNames == {nameA, nameB}

(* Types of a declaration: what refers to a declaration in each way that   *)
(* the parser distinguishes.                                               *)
Around(N) == UNION {{Ref(n), T("array", <<Ref(n)>>), T("object", <<Ref(n)>>),
                     T("union", <<Ref(n), Null>>), T("partial", <<Ref(n)>>)} : n \in N}
AliasParts(N)  == {Prim, Void, T("object", <<Void>>)} \cup Around(N)
MemberParts(N) == {<<Prim>>} \cup UNION {{<<Ref(n)>>, <<T("array", <<Ref(n)>>)>>} : n \in N}

Decls(N) ==
  {[kind |-> "alias", parts |-> <<t>>, bases |-> << >>] : t \in AliasParts(N)}
    \cup {[kind |-> "interface", parts |-> p, bases |-> q] :
            p \in MemberParts(N), q \in {<< >>} \cup {<<n>> : n \in N}}
    \cup {[kind |-> k, parts |-> << >>, bases |-> << >>] : k \in {"enum", "badEnum", "none"}}

(* A method that returns one name and takes another, and then one that     *)
(* takes an array of the first.                                            *)
Members(N) == {<<T("method", <<Ref(m), Ref(n)>>), T("fn", <<T("array", <<Ref(m)>>), Void>>)>> :
                 m \in N, n \in N}

AllNames    == {nameA, nameB, nameD}
Declared(ds) == [n \in AllNames |-> IF n \in DOMAIN ds THEN ds[n]
                                    ELSE [kind |-> "none", parts |-> << >>, bases |-> << >>]]
PairModules == [decls : {Declared(ds) : ds \in [TwoNames -> Decls(TwoNames)]},
                members : Members(TwoNames)]
PairTypes   == AliasParts(TwoNames) \cup {Null} \cup UNION {ToSet(m) : m \in Members(TwoNames)}

(* Every form of type, and a name that is also built in.                 *)
FormNames == {nameA, nameD}
BuiltInD  == {nameD}
Qualified(n) == [op |-> "qualified", name |-> n, args |-> << >>]
Buffer    == T("buffer", << >>)
Object(t) == T("object", <<t>>)

FormTypes ==
  {Prim, Void, Null, Buffer, Ref(nameA), Ref(nameD), Qualified(nameA), Qualified(nameD), Object(Prim),
   Object(Ref(nameD)), T("object", << >>), T("union", <<Null, Void>>), T("union", <<Ref(nameD), Prim>>),
   T("union", <<Object(Prim), Null>>), T("fn", <<Ref(nameA), Void>>)}
FormParts ==
  FormTypes \cup UNION {{T("array", <<t>>), T("promise", <<t>>), T("partial", <<t>>),
                         T("dict", <<t>>), Object(t), T("inter", <<t, Object(Prim)>>)} :
                           t \in FormTypes}
FormMembers == {<<T("event", <<Ref(nameA)>>), T("method", <<T("promise", <<Ref(nameA)>>), Ref(nameD)>>)>>,
                <<T("fn", <<Qualified(nameD), T("array", <<Object(T("fn", <<Void>>))>>)>>), Ref(nameA)>>,
                <<T("fn", <<Ref(nameA), T("event", <<Prim>>)>>)>>}

FormDecls ==
  {[kind |-> "alias", parts |-> <<t>>, bases |-> << >>] : t \in FormParts}
    \cup {[kind |-> k, parts |-> << >>, bases |-> << >>] : k \in {"interface", "enum", "none"}}
FormModules ==
  [decls : {Declared(ds) : ds \in {f \in [FormNames -> FormDecls] :
              f[nameD].parts \in {<< >>, <<Ref(nameD)>>, <<Object(Ref(nameA))>>}}},
   members : FormMembers]
AllForms == FormParts \cup {Object(T("fn", <<Void>>)), T("fn", <<Void>>)}
              \cup UNION {ToSet(m) \cup UNION {ToSet(t.args) : t \in ToSet(m)} : m \in FormMembers}

(* An alias of part of a cyclic object, met before and after the cycle has *)
(* been entered by its other name: its own entry changes.                  *)
CyclePart    == T("array", <<T("partial", <<Ref(nameB)>>)>>)
CycleParts   == [n \in AllNames |->
                   IF n = nameA THEN Ref(nameB)
                   ELSE IF n = nameB THEN T("object", <<Ref(nameA), CyclePart>>)
                   ELSE T("partial", <<Ref(nameB)>>)]
CycleMembers == <<T("fn", <<Ref(nameD), Ref(nameA), Void>>), T("fn", <<Ref(nameD), Void>>)>>
CycleModules == {[decls |-> [n \in AllNames |-> [kind |-> "alias", parts |-> <<CycleParts[n]>>,
                                                 bases |-> << >>]],
                  members |-> CycleMembers]}
CycleTypes   == {Ref(n) : n \in AllNames} \cup {Void, CyclePart, CycleParts[nameB], CycleParts[nameD]}
                  \cup ToSet(CycleMembers)

SmallModules == PairModules \cup FormModules \cup CycleModules
SmallTypes   == PairTypes \cup AllForms \cup CycleTypes
=============================================================================
