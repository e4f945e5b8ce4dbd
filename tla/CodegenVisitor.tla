--------------------------- MODULE CodegenVisitor ---------------------------
(***************************************************************************)
(* The visitor of the codegen pass over one module: it scans the items for *)
(* the default export of a codegenNativeComponent call and the export of a *)
(* codegenNativeCommands call, generates the view config, removes the      *)
(* commands and puts the generated statements in the place of the default  *)
(* export.                                                                 *)
(*                                                                         *)
(* Items are records:                                                      *)
(*   [kind |-> "component", valid]  export default codegenNativeComponent  *)
(*       valid: the call and its props give a schema, and the code that is *)
(*       generated from it parses                                          *)
(*   [kind |-> "default"]           any other default export               *)
(*   [kind |-> "var", name, init, type, rest]  export const name = init,   *)
(*       where init is "commands" (a call, possibly in a sequence, a cast  *)
(*       or parentheses), "other" or "missing"; type is the call's type    *)
(*       argument; rest are the names of the further declarators           *)
(*   [kind |-> "named", orig, as]   export {orig as as}, where orig is not *)
(*       the result of a codegenNativeCommands call                        *)
(*   [kind |-> "private"]           anything that exports nothing          *)
(***************************************************************************)
EXTENDS Integers, Sequences, FiniteSets

CONSTANTS
  Sources,   \* the bodies of modules, sequences of items
  Names,     \* the names that they export
  Types,     \* the names of command interfaces
  None       \* no index, no type argument, no error

Items ==
  [kind : {"component"}, valid : BOOLEAN]
    \cup [kind : {"default", "private"}]
    \cup [kind : {"var"}, name : Names, init : {"commands", "other", "missing"},
          type : Types \cup {None}, rest : SUBSET Names]
    \cup [kind : {"named"}, orig : Names, as : Names]

ASSUME SourcesAssumption == Sources \subseteq Seq(Items)
ASSUME NoneAssumption    == None \notin Nat /\ None \notin Types
ASSUME ErrorAssumption   == None \notin {"other name", "reserved", "generation"}

VARIABLES
  source,                \* the body before the pass
  interfaces,            \* what extract_commands finds under each name
  pc,                    \* "scan" | "generate" | "done"
  idx,                   \* the item the scan is at
  default_export_idx,
  commands_export_idx,
  command_type_name,
  error,
  body                   \* module.body

vars == <<source, interfaces, pc, idx, default_export_idx, commands_export_idx,
          command_type_name, error, body>>

found == <<default_export_idx, commands_export_idx, command_type_name>>

Init ==
  /\ source \in Sources
  /\ interfaces \in [Types -> {"error", "empty", "commands"}]
  /\ pc = "scan" /\ idx = 1
  /\ default_export_idx = None
  /\ commands_export_idx = None
  /\ command_type_name = None
  /\ error = None
  /\ body = source

-----------------------------------------------------------------------------
(* The scan: one action for each arm of the match.                         *)
Item == body[idx]
AtItem(kind) == pc = "scan" /\ idx <= Len(body) /\ Item.kind = kind

IsCommands == Item.init = "commands"

FindComponent ==
  /\ AtItem("component")
  /\ default_export_idx' = idx
  /\ idx' = idx + 1
  /\ UNCHANGED <<source, interfaces, pc, commands_export_idx, command_type_name, error, body>>

FindCommands ==
  /\ AtItem("var") /\ IsCommands /\ Item.name = "Commands"
  /\ commands_export_idx' = idx
  /\ command_type_name' = Item.type
  /\ idx' = idx + 1
  /\ UNCHANGED <<source, interfaces, pc, default_export_idx, error, body>>

(* Mutant: an error does not end the scan.                                 *)
RefuseAndGoOn(message) ==
  /\ error' = message
  /\ pc' = "scan"
  /\ UNCHANGED <<source, interfaces, idx, found, body>>

Refuse(message) ==
  /\ error' = message
  /\ pc' = "done"
  /\ UNCHANGED <<source, interfaces, idx, found, body>>

RefuseOtherName ==
  AtItem("var") /\ IsCommands /\ Item.name # "Commands" /\ Refuse("other name")

RefuseReserved ==
  /\ \/ AtItem("var") /\ ~IsCommands /\ Item.name = "Commands"
     \/ AtItem("named") /\ Item.orig = "Commands"
  /\ Refuse("reserved")

Pass ==
  /\ \/ AtItem("default") \/ AtItem("private")
     \/ AtItem("var") /\ ~IsCommands /\ Item.name # "Commands"
     \/ AtItem("named") /\ Item.orig # "Commands"
  /\ idx' = idx + 1
  /\ UNCHANGED <<source, interfaces, pc, found, error, body>>

EndScan ==
  /\ pc = "scan" /\ idx > Len(body)
  /\ pc' = IF default_export_idx = None THEN "done" ELSE "generate"
  /\ UNCHANGED <<source, interfaces, idx, found, error, body>>

-----------------------------------------------------------------------------
(* generate_view_config and parse_generated_code.                          *)
Fails ==
  \/ ~body[default_export_idx].valid
  \/ command_type_name # None /\ interfaces[command_type_name] = "error"

HasCommands == command_type_name # None /\ interfaces[command_type_name] = "commands"

Statements(with_commands) ==
  <<[kind |-> "config"], [kind |-> "registered"]>>
    \o IF with_commands THEN <<[kind |-> "dispatch"]>> ELSE << >>

Generated == Statements(HasCommands)

(* Mutant: the index is corrected by an export on either side of it.       *)
AlwaysAdjusted(default, commands) ==
  IF commands # None /\ default > 1 THEN default - 1 ELSE default

(* Mutant: the index is not corrected.                                     *)
NeverAdjusted(default, commands) == default

(* The index of the default export once the commands are removed.          *)
AdjustedIndex(default, commands) ==
  IF commands # None /\ commands < default THEN default - 1 ELSE default

(* Mutant: the commands stay.                                              *)
WithAll(s, i) == s

Splice(s, i, items) == SubSeq(s, 1, i - 1) \o items \o SubSeq(s, i + 1, Len(s))

Without(s, i) == IF i = None THEN s ELSE SubSeq(s, 1, i - 1) \o SubSeq(s, i + 1, Len(s))

(* Mutant: the commands are removed before the view config is generated.   *)
AbandonAfterRemoval ==
  /\ error' = "generation"
  /\ pc' = "done"
  /\ body' = Without(body, commands_export_idx)
  /\ UNCHANGED <<source, interfaces, idx, found>>

Abandon ==
  /\ error' = "generation"
  /\ pc' = "done"
  /\ UNCHANGED <<source, interfaces, idx, found, body>>

GenerationFails == pc = "generate" /\ Fails /\ Abandon

ReplaceBy(statements) ==
  /\ body' = Splice(Without(body, commands_export_idx),
                    AdjustedIndex(default_export_idx, commands_export_idx), statements)
  /\ pc' = "done"
  /\ UNCHANGED <<source, interfaces, idx, found, error>>

Replace == pc = "generate" /\ ~Fails /\ ReplaceBy(Generated)

Next ==
  \/ FindComponent \/ FindCommands \/ RefuseOtherName \/ RefuseReserved \/ Pass
  \/ EndScan \/ GenerationFails \/ Replace

Spec == Init /\ [][Next]_vars

-----------------------------------------------------------------------------
(* Properties.                                                             *)
Indices(s) == 1..Len(s)

TypeOK ==
  /\ source \in Sources
  /\ interfaces \in [Types -> {"error", "empty", "commands"}]
  /\ pc \in {"scan", "generate", "done"}
  /\ idx \in 1..(Len(source) + 1)
  /\ default_export_idx \in Indices(source) \cup {None}
  /\ commands_export_idx \in Indices(source) \cup {None}
  /\ command_type_name \in Types \cup {None}
  /\ error \in {None, "other name", "reserved", "generation"}
  /\ pc # "done" => body = source /\ error = None
  /\ pc = "generate" => default_export_idx # None

(* The names an item exports.                                              *)
Exports(item) ==
  CASE item.kind \in {"component", "default", "registered"} -> {"default"}
    [] item.kind = "var"      -> {item.name} \cup item.rest
    [] item.kind = "named"    -> {item.as}
    [] item.kind = "config"   -> {"__INTERNAL_VIEW_CONFIG"}
    [] item.kind = "dispatch" -> {"Commands"}
    [] OTHER                  -> {}

AllExports(s) == UNION {Exports(s[i]) : i \in Indices(s)}

(* A module exports no name twice, which the parser of the language        *)
(* refuses, and not the name that the generated code declares itself.      *)
ExportsOnce(s) ==
  /\ \A i, j \in Indices(s) : i # j => Exports(s[i]) \cap Exports(s[j]) = {}
  /\ \A i \in Indices(s) : s[i].kind = "var" => s[i].name \notin s[i].rest

ASSUME ExportsAssumption ==
  \A s \in Sources : ExportsOnce(s) /\ "__INTERNAL_VIEW_CONFIG" \notin AllExports(s)

Succeeded == pc = "done" /\ error = None

(* When the pass has refused a module it has not changed it, whichever     *)
(* item or step refused it and whatever had been found before.             *)
ErrorLeavesModule == error # None => body = source

(* A module that is transformed keeps all its other items, in their order, *)
(* and has the generated statements where the component was.               *)
OtherItemsKept ==
  Succeeded /\ default_export_idx # None =>
    LET kept == {i \in Indices(source) : i \notin {default_export_idx, commands_export_idx}}
        NewIndex(i) ==
          Cardinality({j \in kept : j < i})
            + (IF default_export_idx < i THEN Len(Generated) ELSE 0)
            + 1
    IN /\ \A i \in kept : NewIndex(i) \in Indices(body) /\ body[NewIndex(i)] = source[i]
       /\ LET first == NewIndex(default_export_idx)
          IN SubSeq(body, first, first + Len(Generated) - 1) = Generated
       /\ Len(body) = Cardinality(kept) + Len(Generated)

(* The exports of a transformed module: those it had, and the view config, *)
(* each once, although the generated code exports default and may export   *)
(* Commands itself.  What is lost is what was declared together with the   *)
(* commands, and the commands if their call names no interface with one.   *)
ExportsPreserved ==
  Succeeded /\ default_export_idx # None =>
    LET lost ==
          IF commands_export_idx = None THEN {}
          ELSE source[commands_export_idx].rest \cup IF HasCommands THEN {} ELSE {"Commands"}
    IN /\ AllExports(body) = (AllExports(source) \ lost) \cup {"__INTERNAL_VIEW_CONFIG"}
       /\ \A i, j \in Indices(body) : i # j => Exports(body[i]) \cap Exports(body[j]) = {}
=============================================================================
