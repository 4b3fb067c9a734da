---------------------------- MODULE ToolSchemas ----------------------------
(***************************************************************************)
(* The tools of a Responses request (openai-adapters.js): which            *)
(* declarations, choices and schemas are let through, what lowerSchema     *)
(* makes of the schemas that are not strict, which strict ones are         *)
(* refused, and which namespace a call is told to be of.                   *)
(*                                                                         *)
(* A schema is any, never, or a record of its keywords; `alts` stands for  *)
(* anyOf, oneOf and allOf, `pattern` for the keywords that are dropped, of *)
(* which patternProperties is one.  A reference names a definition.        *)
(***************************************************************************)
EXTENDS Integers, Sequences, FiniteSets, SequencesExt

CONSTANTS
    Requests,       \* [tools, choice, format, updates]
    Values,         \* instances, [type, is, fields, list]
    Patterned,      \* the property names that every patternProperties matches
    None            \* a keyword or field that is not there

VARIABLES
    request,
    status,         \* "given", "refused" or "out"
    adapted,        \* the tools that go out
    call            \* None, or a call of a custom tool with the namespace restored

vars == <<request, status, adapted, call>>

Anything == [kind |-> "any"]
Nothing == [kind |-> "never"]
Bare ==
    [kind |-> "object", ref |-> None, types |-> None, props |-> None, required |-> None,
     more |-> None, items |-> None, alts |-> None, defs |-> None, enum |-> None,
     const |-> None, pattern |-> FALSE]
EmptyObject == [Bare EXCEPT !.types = {"object"}, !.props = <<>>]

\* The keywords from which the type of a schema without one is inferred.
Types(s) ==
    CASE s.types # None -> s.types
      [] s.props # None \/ s.required # None \/ s.more # None -> {"object"}
      [] s.items # None -> {"array"}
      [] OTHER -> None

\* lowerSchema: what every provider understands, with the parts it asks for.
RECURSIVE LowerSchema(_, _)
LowerSchema(s, root) ==
    LET Each(f) == IF f = None THEN None ELSE [n \in DOMAIN f |-> LowerSchema(f[n], FALSE)]
        types == IF s.ref # None THEN s.types
                 ELSE IF root /\ Types(s) = None THEN {"object"} ELSE Types(s)
        Has(type) == types # None /\ type \in types
    IN IF s.kind # "object" THEN IF root THEN EmptyObject ELSE Bare
       ELSE [s EXCEPT
               !.types = types,
               !.props = IF @ = None /\ Has("object") THEN <<>> ELSE Each(@),
               !.items = IF @ # None THEN LowerSchema(@, FALSE)
                         ELSE IF Has("array") THEN Bare ELSE None,
               !.more = IF @ = None \/ @ \in {Anything, Nothing} THEN @ ELSE LowerSchema(@, FALSE),
               !.alts = Each(@), !.defs = Each(@),
               !.enum = IF s.const # None THEN {s.const} ELSE @,
               !.const = None, !.pattern = FALSE]

\* A namespace has its tools lowered.
LowerTool(tool) ==
    LET Lower(t) == IF t.type = "function" /\ t.strict # "true" /\ t.params # None
                      THEN [t EXCEPT !.params = LowerSchema(@, TRUE)] ELSE t
    IN IF tool.type # "namespace" THEN Lower(tool)
       ELSE [tool EXCEPT !.tools = [i \in DOMAIN @ |-> Lower(@[i])]]

\* validateTool, of a tool that was lowered; a null for strict goes.
AsyncIsValid(tool) == tool.async \in {"absent", "boolean"}
Declared(tool) ==
    CASE tool.type = "function" ->
           /\ tool.name # None
           /\ tool.strict # "true" => tool.params # None /\ tool.params.kind = "object"
           /\ tool.strict \in {"absent", "null", "true", "false"}
      [] tool.type = "custom" -> tool.name # None
      [] tool.type = "hosted" -> TRUE
      [] OTHER -> FALSE
ValidTool(tool) ==
    IF tool.type # "namespace" THEN Declared(tool) /\ AsyncIsValid(tool)
    ELSE /\ tool.name # None /\ tool.async = "absent"
         /\ tool.tools # <<>>
         /\ \A child \in ToSet(tool.tools) :
              child.type \in {"function", "custom"} /\ Declared(child) /\ AsyncIsValid(child)
Sent(tool) ==
    LET WithoutNull(t) == IF t.type = "function" /\ t.strict = "null"
                            THEN [t EXCEPT !.strict = "absent"] ELSE t
    IN IF tool.type # "namespace" THEN WithoutNull(tool)
       ELSE [tool EXCEPT !.tools = [i \in DOMAIN @ |-> WithoutNull(@[i])]]

LowerAndValidate(tools) == [i \in DOMAIN tools |-> LowerTool(tools[i])]

Flat(tools) ==
    FlattenSeq([i \in DOMAIN tools |->
                  IF tools[i].type = "namespace" THEN tools[i].tools ELSE <<tools[i]>>])

\* isAllowedToolDeclared: tools inside namespaces and deferred ones do not count.
AllowedToolDeclared(allowed, tools) ==
    \E tool \in ToSet(tools) :
        /\ tool.type = allowed.type
        /\ allowed.type \in {"function", "custom"} => tool.name = allowed.name /\ ~tool.deferred

ValidChoice(choice, tools) ==
    CASE choice.type = "allowed_tools" ->
           /\ choice.tools # {}
           /\ \A allowed \in choice.tools : AllowedToolDeclared(allowed, tools)
      [] choice.type \in {"function", "custom"} ->
           \E tool \in ToSet(Flat(tools)) : tool.type = choice.type /\ tool.name = choice.name
      [] choice.type = "programmatic" -> FALSE
      [] OTHER -> TRUE

\* validateStrictSchema: refs are those on the way here, which end a cycle.
RECURSIVE StrictSchema(_, _, _)
StrictSchema(s, root, refs) ==
    LET atRoot  == s = root
        object  == \/ Types(s) # None /\ "object" \in Types(s)
                   \/ s.props # None \/ s.required # None \/ s.more # None
        OfAll(f) == f # None => \A n \in DOMAIN f : StrictSchema(f[n], root, refs)
        target  == root.defs[s.ref]
    IN /\ s.kind = "object"
       /\ atRoot => s.ref = None /\ s.types = {"object"} /\ s.alts = None
       /\ IF s.ref # None
            THEN /\ s = [Bare EXCEPT !.ref = s.ref]
                 /\ s.ref \in refs
                    \/ /\ root.defs # None /\ s.ref \in DOMAIN root.defs
                       /\ StrictSchema(target, root, refs \cup {s.ref})
            ELSE /\ Types(s) # None
                 /\ object => /\ s.more = Nothing /\ s.required # None
                              /\ s.required = IF s.props = None THEN {} ELSE DOMAIN s.props
                              /\ OfAll(s.props)
                 /\ OfAll(s.defs) /\ OfAll(s.alts)
                 /\ s.items # None => StrictSchema(s.items, root, refs)

StrictTargets(format, tools) ==
    /\ format # None /\ format.strict => StrictSchema(format.schema, format.schema, {})
    /\ \A tool \in ToSet(Flat(tools)) :
         tool.type = "function" /\ tool.strict = "true" =>
            tool.params # None /\ StrictSchema(tool.params, tool.params, {})

\* validateInputUpdates: calls, tools found later, and changes of the effort.
ValidUpdate(item) ==
    CASE item.type = "configuration_update" -> item.effort = "string" /\ ~item.extra
      [] item.type = "call" -> AsyncIsValid(item)
      [] item.type = "additional_tools" ->
           \A tool \in ToSet(item.tools) :
               /\ tool.type = "namespace" => tool.async = "absent"
               /\ tool.type # "hosted" => AsyncIsValid(tool)
      [] OTHER -> TRUE

\* customToolNamespaces: names that are declared twice are nobody's.
CustomToolNamespaces(tools) ==
    LET named == SelectSeq(Flat(tools), LAMBDA t : t.type = "custom")
        Once(name) == Len(SelectSeq(named, LAMBDA t : t.name = name)) = 1
        spaces == {t \in ToSet(tools) : t.type = "namespace"}
        Of(name) == {t \in spaces : \E c \in ToSet(t.tools) : c.type = "custom" /\ c.name = name}
        names == {n \in {t.name : t \in ToSet(named)} : Once(n) /\ Of(n) # {}}
    IN [n \in names |-> (CHOOSE t \in Of(n) : TRUE).name]

-----------------------------------------------------------------------------
TypeOK ==
    /\ request \in Requests
    /\ status \in {"given", "refused", "out"}
    /\ DOMAIN adapted = IF status = "out" THEN DOMAIN request.tools ELSE {}
    /\ call # None => DOMAIN call = {"of", "name", "namespace"}

Init == request \in Requests /\ status = "given" /\ adapted = <<>> /\ call = None

\* adaptResponsesRequest: all of it is valid, or nothing goes out.
Adapt ==
    /\ status = "given"
    /\ LET tools == LowerAndValidate(request.tools)
           valid == /\ \A item \in ToSet(request.updates) : ValidUpdate(item)
                    /\ \A tool \in ToSet(tools) : ValidTool(tool)
                    /\ ValidChoice(request.choice, tools)
                    /\ request.format # None => request.format.schema.kind = "object"
                    /\ StrictTargets(request.format, tools)
       IN /\ status' = IF valid THEN "out" ELSE "refused"
          /\ adapted' = IF valid THEN [i \in DOMAIN tools |-> Sent(tools[i])] ELSE <<>>
    /\ UNCHANGED <<request, call>>

\* The provider calls a custom tool by its name only; repairItem adds what the
\* client declared it in.
Called ==
    /\ status = "out" /\ call = None
    /\ \E tool \in ToSet(adapted) : \E custom \in ToSet(Flat(<<tool>>)) :
         /\ custom.type = "custom"
         /\ LET spaces == CustomToolNamespaces(adapted)
            IN call' = [of |-> IF tool.type = "namespace" THEN tool.name ELSE None,
                        name |-> custom.name,
                        namespace |-> IF custom.name \in DOMAIN spaces THEN spaces[custom.name]
                                      ELSE None]
    /\ UNCHANGED <<request, status, adapted>>

Next == Adapt \/ Called

Spec == Init /\ [][Next]_vars

-----------------------------------------------------------------------------
\* A schema and all the schemas inside it.
RECURSIVE Nodes(_)
Nodes(s) ==
    LET Inside(f) == IF f = None THEN {} ELSE UNION {Nodes(f[n]) : n \in DOMAIN f}
        One(t) == IF t = None THEN {} ELSE Nodes(t)
    IN {s} \cup (IF s.kind # "object" THEN {}
                 ELSE Inside(s.props) \cup Inside(s.alts) \cup Inside(s.defs)
                        \cup One(s.items) \cup One(s.more))

\* Which instances a schema allows, references followed at most `fuel` times.
RECURSIVE Allows(_, _, _, _)
Allows(s, v, defs, fuel) ==
    LET Field(n) ==
            CASE s.props # None /\ n \in DOMAIN s.props -> s.props[n]
              [] s.pattern /\ n \in Patterned -> Anything
              [] OTHER -> IF s.more = None THEN Anything ELSE s.more
    IN CASE s.kind # "object" -> s.kind = "any"
         [] OTHER ->
            /\ s.ref # None => /\ fuel > 0 /\ s.ref \in DOMAIN defs
                               /\ Allows(defs[s.ref], v, defs, fuel - 1)
            /\ s.types # None => v.type \in s.types
            /\ s.enum # None => v.is \in s.enum
            /\ s.const # None => v.is = s.const
            /\ v.type = "object" =>
                 /\ s.required # None => s.required \subseteq DOMAIN v.fields
                 /\ \A n \in DOMAIN v.fields : Allows(Field(n), v.fields[n], defs, fuel)
            /\ v.type = "array" /\ s.items # None =>
                 \A i \in DOMAIN v.list : Allows(s.items, v.list[i], defs, fuel)
            /\ s.alts # None => \E i \in DOMAIN s.alts : Allows(s.alts[i], v, defs, fuel)

Definitions(s) == IF s.kind = "object" /\ s.defs # None THEN s.defs ELSE <<>>
Fits(s, v) == Allows(s, v, Definitions(s), 2)

\* The functions before and after, that went out.
Functions ==
    IF status # "out" THEN {}
    ELSE LET old == Flat(request.tools)
             new == Flat(adapted)
         IN {[before |-> old[i], after |-> new[i]] :
                i \in {k \in DOMAIN new : new[k].type = "function"}}

\* What goes out for a tool that is not strict has the parts that the provider
\* asks for, is not changed when it is lowered again on the native path
\* (proxy.js:2005), and allows every call that the client's schema allows.
LoweringOnlyWidens ==
    \A f \in Functions : f.before.strict # "true" =>
        LET old == f.before.params
            new == f.after.params
            Explicit(s) == s.kind # "object" \/ (~s.pattern /\ Types(s) = s.types)
        IN /\ \A s \in Nodes(new) : s.kind = "object" /\ s.types # None =>
                /\ "object" \in s.types => s.props # None
                /\ "array" \in s.types => s.items # None
           /\ new.ref = None => new.types # None
           /\ LowerSchema(new, TRUE) = new
           /\ (\A s \in Nodes(old) : Explicit(s)) =>
                \A v \in Values : v.type = "object" /\ Fits(old, v) => Fits(new, v)

\* A strict schema that goes out has no open end: every object in it, however it
\* is reached, lists all its properties and no others, and every reference leads
\* somewhere.
StrictIsClosed ==
    \A f \in Functions : f.before.strict = "true" =>
        LET root == f.after.params
        IN /\ f.after = f.before
           /\ root.types = {"object"}
           /\ \A s \in Nodes(root) \ {Nothing} :
                /\ s.kind = "object"
                /\ s.ref # None => s.ref \in DOMAIN Definitions(root)
                /\ s.props # None \/ s.required # None =>
                     /\ s.more = Nothing
                     /\ s.required = IF s.props = None THEN {} ELSE DOMAIN s.props

\* A call is said to be of the namespace it is of; a name that is declared once
\* in a namespace is always given back to it.
CallsReturnHome ==
    call # None =>
        /\ call.namespace # None => call.namespace = call.of
        /\ call.of # None /\ call.namespace = None =>
             Len(SelectSeq(Flat(adapted), LAMBDA t : t.type = "custom" /\ t.name = call.name)) > 1

\* What a request forces the model to call is there to be called.
ForcedIsThere ==
    status = "out" /\ request.choice.type \in {"function", "custom", "allowed_tools"} =>
        LET wanted == IF request.choice.type = "allowed_tools" THEN request.choice.tools
                      ELSE {request.choice}
        IN \A w \in wanted : \E tool \in ToSet(Flat(adapted)) :
              tool.type = w.type /\ (w.type # "hosted" => tool.name = w.name)

\* The tools of a request.
ToolsAreKept == LoweringOnlyWidens /\ StrictIsClosed /\ CallsReturnHome /\ ForcedIsThere

\* Observed: patternProperties goes and additionalProperties stays, so calls that
\* the client's schema allows are not allowed any more.
PatternsOnlyWiden ==
    \A f \in Functions : f.before.strict # "true" =>
        \A v \in Values : v.type = "object" /\ Fits(f.before.params, v) => Fits(f.after.params, v)

\* Observed: a tool in a namespace can be forced, and not be one of those allowed.
AllowedLikeForced ==
    status = "refused" /\ request.choice.type = "allowed_tools" =>
        \E w \in request.choice.tools : ~ValidChoice(w, request.tools)

=============================================================================
