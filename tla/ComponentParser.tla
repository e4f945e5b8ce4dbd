--------------------------- MODULE ComponentParser ----------------------------
(***************************************************************************)
(* The schema of a component (codegen/parsers): the call of                *)
(* codegenNativeComponent, the properties of its props type with those     *)
(* that it inherits (collect_props_and_events), and the commands.          *)
(*                                                                         *)
(* The recursion of collect_props_and_events is a list of what is still to *)
(* be handled, the next one first.                                         *)
(***************************************************************************)
EXTENDS CodegenVisitor, ComponentTypes

VARIABLES
  call,          \* the call: its component name and the name of its props type
  step,          \* "call" | "props" | "commands" | "built" | "failed"
  work,          \* types, spreads, bodies and properties still to be handled
  visited,       \* types that have been collected
  extends_props, \* whether ViewProps is extended
  props,
  events,
  commands

lists      == <<extends_props, props, events>>
parserVars == <<declarations, call, step, work, visited, lists, commands>>

ParserInit ==
  /\ step = "call" /\ work = << >> /\ visited = {}
  /\ extends_props = << >> /\ props = << >> /\ events = << >> /\ commands = << >>

Unchanged == UNCHANGED <<vars, declarations, call>>

Bail == /\ step' = "failed"
        /\ Unchanged /\ UNCHANGED <<work, lists, commands>>

(* extract_component_info and extract_props_type_name.                     *)
ReadCall ==
  /\ pc = "generate" /\ step = "call"
  /\ IF call.name = None \/ call.props = None THEN Bail
     ELSE /\ step' = "props"
          /\ work' = <<[is |-> "type", name |-> call.props]>>
          /\ Unchanged /\ UNCHANGED <<lists, commands>>
  /\ UNCHANGED visited

-----------------------------------------------------------------------------
(* collect_props_and_events.                                               *)
Handling(kind) == step = "props" /\ work # << >> /\ Head(work).is = kind

(* The properties with their types extracted, all before the first one is  *)
(* handled.                                                                *)
IsCircular(m)   == m.is = "property" /\ Infos(m.type) = {}
WithInfo(m)     == IF m.is = "spread" THEN m
                   ELSE [is |-> "property", name |-> m.name, optional |-> m.optional, info |-> InfoOf(m.type)]
PropInfos(members) == [n \in 1..Len(members) |-> WithInfo(members[n])]

HandleMembers(members) ==
  IF \E n \in 1..Len(members) : IsCircular(members[n]) THEN Bail
  ELSE /\ work' = PropInfos(members) \o Tail(work)
       /\ Unchanged /\ UNCHANGED <<step, lists, commands>>

(* Mutant: a type is collected whenever it is met.                         *)
NeverVisited(name) == FALSE

Visited(name) == name \in visited

CollectVisited ==
  /\ Handling("type") /\ Visited(Head(work).name)
  /\ work' = Tail(work)
  /\ Unchanged /\ UNCHANGED <<step, visited, lists, commands>>

CollectAlias ==
  LET name == Head(work).name IN
  /\ Handling("type") /\ ~Visited(name) /\ IsAlias(name)
  /\ visited' = visited \cup {name}
  /\ HandleMembers(ObjectMembers(declarations[name].type))

(* Mutant: only the first of the types that an interface extends.          *)
FirstExtends(interface) ==
  IF interface.extends = << >> THEN << >> ELSE <<Spread(Head(interface.extends))>>

Extends(interface) == [n \in 1..Len(interface.extends) |-> Spread(interface.extends[n])]

CollectInterface ==
  LET name == Head(work).name IN
  /\ Handling("type") /\ ~Visited(name) /\ Declared(name) /\ ~IsAlias(name)
  /\ visited' = visited \cup {name}
  /\ work' = Extends(declarations[name]) \o <<[is |-> "body", name |-> name]>> \o Tail(work)
  /\ Unchanged /\ UNCHANGED <<step, lists, commands>>

(* extract_interface_body_properties.                                      *)
CollectBody ==
  /\ Handling("body")
  /\ HandleMembers(SelectSeq(declarations[Head(work).name].members, LAMBDA m : m.is = "property"))
  /\ UNCHANGED visited

CollectMissing ==
  /\ Handling("type") /\ ~Visited(Head(work).name) /\ ~Declared(Head(work).name)
  /\ Bail /\ UNCHANGED visited

(* handle_extends_name.                                                    *)
HandleExtendsName ==
  LET name == Head(work).name IN
  /\ Handling("spread")
  /\ work' = (IF Declared(name) THEN <<[is |-> "type", name |-> name]>> ELSE << >>) \o Tail(work)
  /\ extends_props' = IF ~Declared(name) /\ name = "ViewProps" /\ extends_props = << >>
                      THEN <<"ReactNativeCoreViewProps">> ELSE extends_props
  /\ Unchanged /\ UNCHANGED <<step, visited, props, events, commands>>

Named(list, name) == \E n \in 1..Len(list) : list[n].name = name

(* handle_prop_info: the first property of a name is kept.                 *)
HandlePropInfo ==
  LET p        == Head(work)
      optional == p.optional \/ p.info.optional
  IN
  /\ Handling("property")
  /\ IF IsEvent(p.info)
     THEN /\ events' = IF Named(events, p.name) THEN events
                       ELSE Append(events, [name |-> p.name, optional |-> EventOptional(p.info, optional),
                                            bubbling_type |-> BubblingType(p.info)])
          /\ UNCHANGED props
     ELSE /\ props' = IF Named(props, p.name) THEN props
                      ELSE Append(props, [name |-> p.name, optional |-> optional,
                                          type |-> ResolvePropType(p.info)])
          /\ UNCHANGED events
  /\ work' = Tail(work)
  /\ Unchanged /\ UNCHANGED <<step, visited, extends_props, commands>>

EndProps ==
  /\ step = "props" /\ work = << >>
  /\ step' = "commands"
  /\ Unchanged /\ UNCHANGED <<work, visited, lists, commands>>

-----------------------------------------------------------------------------
(* extract_commands.                                                       *)
CommandMembers == declarations[command_type_name].members

CommandsFail ==
  /\ command_type_name # None
  /\ \/ ~Declared(command_type_name) \/ IsAlias(command_type_name)
     \/ \E n \in 1..Len(CommandMembers) :
          CommandMembers[n].is = "property" /\ ~IsCommandType(CommandMembers[n].type, {})

ExtractCommands ==
  /\ step = "commands"
  /\ IF CommandsFail THEN Bail
     ELSE /\ step' = "built"
          /\ commands' = IF command_type_name = None THEN << >>
                         ELSE [n \in 1..Len(CommandMembers) |-> CommandMembers[n].name]
          /\ Unchanged /\ UNCHANGED <<work, lists>>
  /\ UNCHANGED visited

ParserNext ==
  \/ ReadCall \/ CollectVisited \/ CollectAlias \/ CollectInterface \/ CollectBody \/ CollectMissing
  \/ HandleExtendsName \/ HandlePropInfo \/ EndProps \/ ExtractCommands
===============================================================================
