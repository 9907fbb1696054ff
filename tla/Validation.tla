------------------------------ MODULE Validation ------------------------------
(***************************************************************************)
(* From a workflow document to its run: what parsing and analysis accept,  *)
(* and what the bindings of an accepted document find when it runs.        *)
(*                                                                         *)
(* A document has the nodes a, b, c; b may be a foreach whose body has the *)
(* nodes x, y.  A node has one input: a literal or a reference, written    *)
(* out or inside an expression, to the output of a node, to a variable or  *)
(* to a value of the scope.  Strings, ids, sizes and the configuration of  *)
(* node types are checked one by one by the code and are left out.         *)
(***************************************************************************)
EXTENDS Integers, FiniteSets, FiniteSetsExt, SequencesExt

CONSTANTS
  Links,       \* control edges an author may draw: node, route, node
  BodyLinks,
  Shapes,      \* types the author may give to the nodes
  Sources      \* what an input or output may refer to

VARIABLES
  doc,      \* the document
  stage,    \* how far it is: "source", "parsed", "analyzed", "running", ...
  state,    \* of each node when it runs
  chosen,   \* edges the routes of finished nodes selected
  early     \* references resolved while their source was still to come

validationVars == <<doc, stage, state, chosen, early>>

TopNodes == {"a", "b", "c"}
BodyNodes == {"x", "y"}
NodeIds == TopNodes \cup BodyNodes
ScopeIds(s) == IF s = "top" THEN TopNodes ELSE BodyNodes
Order(s) == IF s = "top" THEN <<"a", "b", "c">> ELSE <<"x", "y">>
ScopeOf(n) == IF n \in TopNodes THEN "top" ELSE "body"
DocScopes(d) == IF d.type["b"] = "foreach" /\ d.body THEN {"top", "body"} ELSE {"top"}
Given == {"$input", "$trigger"}
InBody == {"$item", "$index"}

Nowhere == [via |-> "none", ref |-> "none"]
Targets(d, n) == {e[3] : e \in {e \in d.on : e[1] = n}}
Sourcing(d, n) == {e[1] : e \in {e \in d.on : e[3] = n}}
Refers(binding) == binding.via \in {"from", "expr"}
IsNode(ref) == ref \in NodeIds \cup {"missing"}

-----------------------------------------------------------------------------
(* Parsing.                                                                *)

\* The depth-first search for a cycle.
RECURSIVE Visit(_, _, _)
Visit(d, n, walk) ==
  IF ~walk.ok \/ n \in walk.visited THEN walk
  ELSE IF n \in walk.visiting THEN [walk EXCEPT !.ok = FALSE]
  ELSE LET below == FoldSet(LAMBDA m, w : Visit(d, m, w),
                            [walk EXCEPT !.visiting = @ \cup {n}], Targets(d, n))
       IN [below EXCEPT !.visiting = @ \ {n}, !.visited = @ \cup {n}]

EnsureAcyclic(d, s) ==
  FoldLeft(LAMBDA w, n : Visit(d, n, w),
           [ok |-> TRUE, visiting |-> {}, visited |-> {}], Order(s)).ok

ValidateConvergences(d, s) ==
  \A n \in ScopeIds(s) : Cardinality({e \in d.on : e[3] = n}) > 1 => d.type[n] = "join"

\* A foreach has a body, and nothing else has one.
ValidateStructuredNode(d, n) ==
  /\ d.type[n] = "foreach" => d.body /\ d.input[n].via # "none"
  /\ d.type[n] = "set" => d.input[n].via # "none"
  /\ n = "b" /\ d.body => d.type[n] = "foreach"

\* A body may only name the values of its own scopes; variables are not known
\* here, and references in expressions are not looked at.
ValidateSubgraph(d, s) ==
  /\ d.entry[s] \in ScopeIds(s)
  /\ ValidateConvergences(d, s)
  /\ \A n \in ScopeIds(s) : ValidateStructuredNode(d, n)
  /\ \A binding \in {d.input[n] : n \in ScopeIds(s)} \cup d.outputs[s] :
       binding.via = "from" /\ ~IsNode(binding.ref) => binding.ref \in InBody \cup Given
  /\ EnsureAcyclic(d, s)

Validate(d) ==
  /\ d.entry["top"] \in TopNodes
  /\ EnsureAcyclic(d, "top") /\ ValidateConvergences(d, "top")
  /\ \A n \in TopNodes : ValidateStructuredNode(d, n)
  /\ "body" \in DocScopes(d) => ValidateSubgraph(d, "body")

-----------------------------------------------------------------------------
(* Analysis.                                                               *)

\* Of the catalog: the kind of the input and of the output, and the routes.
NodeDefinition(type) ==
  CASE type = "if" -> [takes |-> "boolean", gives |-> "none", routes |-> {"success", "other"}]
    [] type = "text" -> [takes |-> "string", gives |-> "string", routes |-> {"success"}]
    [] type = "set" -> [takes |-> "any", gives |-> "any", routes |-> {"success"}]
    [] OTHER -> [takes |-> "any", gives |-> "any", routes |-> {"success"}]

\* Structured nodes run without an entry in the catalog.
Catalogued(type) == type \notin {"foreach", "unknown"}

ValidateNode(d, n) ==
  LET takes == NodeDefinition(d.type[n]).takes IN
  Catalogued(d.type[n]) =>
    /\ d.type[n] \in {"if", "text", "set"} => d.input[n].via # "none"
    /\ d.input[n].via = "literal" => takes \in {"any", d.input[n].ref}

ValidateRoutes(d, n) ==
  Catalogued(d.type[n]) =>
    \A e \in d.on : e[1] = n => e[2] \in NodeDefinition(d.type[n]).routes

RECURSIVE Search(_, _, _)
Search(d, pending, found) ==
  IF pending = {} THEN found
  ELSE LET n == CHOOSE n \in pending : TRUE IN
       IF n \in found THEN Search(d, pending \ {n}, found)
       ELSE Search(d, (pending \ {n}) \cup Targets(d, n), found \cup {n})

ReachableNodes(d, s) == Search(d, {d.entry[s]}, {})

\* Mutant of ControlReaches: asked the wrong way round.
MutControlReaches(d, from, target) == from \in Search(d, {target}, {})

ControlReaches(d, from, target) == target \in Search(d, {from}, {})

RECURSIVE SearchBack(_, _, _)
SearchBack(d, pending, found) ==
  IF pending = {} THEN found
  ELSE LET n == CHOOSE n \in pending : TRUE IN
       IF n \in found THEN SearchBack(d, pending \ {n}, found)
       ELSE SearchBack(d, (pending \ {n}) \cup Sourcing(d, n), found \cup {n})

ControlAncestors(d, n) == SearchBack(d, Sourcing(d, n), {})

\* The values a scope gives to its nodes, without their variables.
ChildLexicalBindings(d, s) ==
  IF s = "top" THEN {}
  ELSE InBody \cup IF \E m \in ControlAncestors(d, "b") : d.type[m] = "set" THEN {"$v"} ELSE {}

LexicalBindingsBeforeNode(d, n) ==
  ChildLexicalBindings(d, ScopeOf(n))
    \cup IF \E m \in ControlAncestors(d, n) : d.type[m] = "set" THEN {"$v"} ELSE {}

LexicalBindingsForOutputs(d, s) ==
  ChildLexicalBindings(d, s) \cup IF \E m \in ScopeIds(s) : d.type[m] = "set" THEN {"$v"} ELSE {}

ValidateFromReference(d, n, ref) ==
  IF ~IsNode(ref) THEN ref \in Given \cup LexicalBindingsBeforeNode(d, n)
  ELSE /\ ref \in ScopeIds(ScopeOf(n)) /\ ControlReaches(d, ref, n)
       /\ LET gives == NodeDefinition(d.type[ref]).gives
              takes == NodeDefinition(d.type[n]).takes
          IN Catalogued(d.type[ref]) =>
               /\ gives # "none"
               /\ Catalogued(d.type[n]) => "any" \in {gives, takes} \/ gives = takes

ValidateBindingReference(d, n) ==
  Refers(d.input[n]) => ValidateFromReference(d, n, d.input[n].ref)

\* Only references that are written out.
ValidateOutputBinding(d, s, binding) ==
  binding.via = "from" =>
    IF ~IsNode(binding.ref) THEN binding.ref \in Given \cup LexicalBindingsForOutputs(d, s)
    ELSE /\ binding.ref \in ReachableNodes(d, s) \cap ScopeIds(s)
         /\ NodeDefinition(d.type[binding.ref]).gives # "none"

ValidateScopeSemantics(d, s) ==
  /\ ScopeIds(s) \subseteq ReachableNodes(d, s)
  /\ \A n \in ScopeIds(s) :
       /\ d.type[n] # "unknown"
       /\ ValidateNode(d, n) /\ ValidateRoutes(d, n) /\ ValidateBindingReference(d, n)
  /\ \A binding \in d.outputs[s] : ValidateOutputBinding(d, s, binding)

-----------------------------------------------------------------------------
(* The author and the stages.                                              *)

Binding == [via : {"from", "expr"}, ref : Sources]
           \cup [via : {"literal"}, ref : {"string", "boolean"}]
NoRun == [n \in NodeIds |-> "idle"]

\* A document with some edges and one binding that matters; other inputs that
\* are required are literals.
Drawn(types, body, on, entry) ==
  [type |-> types, body |-> body, on |-> on,
   entry |-> [s \in {"top", "body"} |-> IF s = "top" THEN entry ELSE "x"],
   input |-> [n \in NodeIds |->
                CASE types[n] = "if" -> [via |-> "literal", ref |-> "boolean"]
                  [] types[n] \in {"text", "set", "foreach"} -> [via |-> "literal", ref |-> "string"]
                  [] OTHER -> Nowhere],
   outputs |-> [s \in {"top", "body"} |-> {}]]

ValidationInit ==
  /\ \E types \in Shapes, body \in BOOLEAN, entry \in {"a", "b"} :
       /\ body => types["b"] = "foreach" /\ entry = "a"
       /\ \E on \in IF body THEN {{<<"a", "success", "b">>, <<"b", "success", "c">>} \cup more :
                                   more \in SUBSET BodyLinks}
                    ELSE SUBSET Links : doc = Drawn(types, body, on, entry)
  /\ stage = "source"
  /\ state = NoRun /\ chosen = {} /\ early = {}

Write(d) ==
  /\ stage = "source" /\ doc' = d /\ stage' = "written"
  /\ UNCHANGED <<state, chosen, early>>

Written ==
  \/ \E n \in NodeIds, b \in Binding : Write([doc EXCEPT !.input[n] = b])
  \/ \E s \in DocScopes(doc), b \in [via : {"from", "expr"}, ref : Sources] :
       Write([doc EXCEPT !.outputs[s] = {b}])
  \/ Write(doc)

Proceed(ok, next) ==
  /\ stage' = IF ok THEN next ELSE "refused"
  /\ UNCHANGED <<doc, state, chosen, early>>
Parse == stage = "written" /\ Proceed(Validate(doc), "parsed")
Analyze ==
  /\ stage = "parsed"
  /\ Proceed(\A s \in DocScopes(doc) : ValidateScopeSemantics(doc, s), "analyzed")
Compile == stage = "analyzed" /\ Proceed(TRUE, "running")

-----------------------------------------------------------------------------
(* The run: a node starts when everything before it is settled.            *)

Settled == {n \in NodeIds : state[n] \in {"done", "skipped"}}
Dependencies(n) == IF Refers(doc.input[n]) /\ IsNode(doc.input[n].ref)
                   THEN {doc.input[n].ref} ELSE {}
Open(s) == IF s = "top" THEN TRUE ELSE state["b"] = "running"
Activated(n) == doc.entry[ScopeOf(n)] = n \/ \E e \in chosen : e[3] = n
Ready(n) ==
  /\ stage = "running" /\ Open(ScopeOf(n)) /\ state[n] = "idle"
  /\ Sourcing(doc, n) \subseteq Settled

\* A value of the scope, a variable that was set, an output of a node that ran.
Available(s, ref) ==
  IF IsNode(ref) THEN state[ref] = "done"
  ELSE \/ ref \in Given \/ (ref \in InBody /\ s = "body")
       \/ ref = "$v" /\ \E m \in ScopeIds(s) \cup TopNodes : doc.type[m] = "set" /\ state[m] = "done"

\* What could still provide it.
ToCome(s, ref) ==
  {m \in ScopeIds(s) \cup TopNodes :
     /\ m \notin Settled /\ state[m] # "running"
     /\ IF IsNode(ref) THEN m = ref ELSE ref = "$v" /\ doc.type[m] = "set"}

Close(n) ==
  /\ Ready(n) /\ ~Activated(n)
  /\ state' = [state EXCEPT ![n] = "skipped"]
  /\ UNCHANGED <<doc, stage, chosen, early>>

\* A source that did not run makes the run fail.
RunNode(n, route) ==
  /\ Ready(n) /\ Activated(n) /\ Dependencies(n) \subseteq Settled
  /\ IF Refers(doc.input[n]) /\ ~Available(ScopeOf(n), doc.input[n].ref)
     THEN /\ stage' = "failed"
          /\ early' = early \cup ToCome(ScopeOf(n), doc.input[n].ref)
          /\ UNCHANGED <<doc, state, chosen>>
     ELSE /\ route = "other" => doc.type[n] = "if"
          /\ state' = [state EXCEPT ![n] =
                         IF n = "b" /\ doc.body THEN "running" ELSE "done"]
          /\ chosen' = chosen \cup {e \in doc.on : e[1] = n /\ e[2] = route}
          /\ UNCHANGED <<doc, stage, early>>

\* The outputs of a body are resolved with the values of its scope.
FinishBody ==
  /\ stage = "running" /\ state["b"] = "running" /\ BodyNodes \subseteq Settled
  /\ IF \A b \in doc.outputs["body"] :
          IF IsNode(b.ref) THEN b.ref \in BodyNodes /\ state[b.ref] = "done"
          ELSE b.ref \in Given \cup InBody \/ (b.ref = "$v" /\ Available("top", "$v"))
     THEN state' = [state EXCEPT !["b"] = "done"] /\ UNCHANGED stage
     ELSE stage' = "failed" /\ UNCHANGED state
  /\ UNCHANGED <<doc, chosen, early>>

\* The outputs of the workflow are resolved without any value of a scope.
FinishRun ==
  /\ stage = "running" /\ TopNodes \subseteq Settled
  /\ stage' = IF \A b \in doc.outputs["top"] : IsNode(b.ref) /\ b.ref # "missing" /\ state[b.ref] = "done"
              THEN "succeeded"
              ELSE IF \E b \in doc.outputs["top"] : ~IsNode(b.ref) THEN "lost" ELSE "failed"
  /\ UNCHANGED <<doc, state, chosen, early>>

NoProgress ==
  /\ stage = "running"
  /\ \E s \in DocScopes(doc) :
       /\ Open(s) /\ ~ScopeIds(s) \subseteq Settled /\ \A n \in ScopeIds(s) : state[n] # "running"
       /\ \A n \in ScopeIds(s) : Ready(n) => Activated(n) /\ ~Dependencies(n) \subseteq Settled
  /\ stage' = "stuck" /\ UNCHANGED <<doc, state, chosen, early>>

ValidationNext ==
  \/ Written \/ Parse \/ Analyze \/ Compile
  \/ \E n \in NodeIds : Close(n) \/ \E route \in {"success", "other"} : RunNode(n, route)
  \/ FinishBody \/ FinishRun \/ NoProgress

ValidationSpec == ValidationInit /\ [][ValidationNext]_validationVars

-----------------------------------------------------------------------------
\* The paths of a scope, by the least sets closed under its edges.
Path(n, m) == \A S \in SUBSET NodeIds :
  Targets(doc, n) \subseteq S /\ (\A k \in S : Targets(doc, k) \subseteq S) => m \in S

\* What the stages accept is what the run relies on, and no document is refused
\* for its control flow without cause: in every scope no node lies on a cycle,
\* only joins have two ways in, and every node is reached from the entry.
FlowAccepted ==
  LET Flow(s) ==
        /\ \A n \in ScopeIds(s) : ~Path(n, n)
        /\ \A n \in ScopeIds(s) : n = doc.entry[s] \/ Path(doc.entry[s], n)
  IN /\ stage = "running" => \A s \in DocScopes(doc) : Flow(s)
     /\ stage = "refused" /\ (\A s \in DocScopes(doc) : Flow(s)) =>
          \/ ~\A s \in DocScopes(doc) : ValidateConvergences(doc, s)
          \/ ~\A n \in NodeIds : ValidateStructuredNode(doc, n)
          \/ \E n \in NodeIds : doc.type[n] = "unknown" \/ ~ValidateRoutes(doc, n)
          \/ \E n \in NodeIds : doc.input[n] # Drawn(doc.type, doc.body, doc.on, "a").input[n]
          \/ \E s \in DocScopes(doc) : doc.outputs[s] # {}

\* A binding of an accepted document is resolved when its source is done or
\* left out for good, never while it is still to come, and the graph is not
\* stuck, unless a node refers to itself.
SourcesSettled ==
  /\ early = {}
  /\ stage = "stuck" => \E n \in NodeIds : doc.input[n].ref = n

\* A document that passes every stage runs without a binding that is not
\* there yet and without getting stuck, and none is refused for its flow
\* without a cause.
AcceptedRuns == FlowAccepted /\ SourcesSettled
=============================================================================
