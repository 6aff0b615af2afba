------------------------------ MODULE CodeFlow ------------------------------
(***************************************************************************)
(* Control flow and data flow of a Python function: what the adapter keeps *)
(* of a body (python_adapter.py), the graph of its statements              *)
(* (cfg/builder.py), and the graph of its values, with the calls the       *)
(* resolver bound (dfg/builder.py).                                        *)
(*                                                                         *)
(* A statement: id, kind, exprs, targets, body, orelse, handlers.          *)
(* An expression: id, kind (variable, call, other), name, children.  A     *)
(* function: id, parameters ([id, name]), body, method.  Ids are distinct. *)
(***************************************************************************)
EXTENDS Integers, FiniteSets, SequencesExt

Entry == 0
Exit  == -1

Concat(seqs) == FoldLeft(LAMBDA a, b : a \o b, <<>>, seqs)

---------------------------------------------------------------------------
(* CFGBuilder.  A block extends the graph so far and leaves the nodes that *)
(* flow into what comes next.                                              *)

Edge(source, target, type) == [source |-> source, target |-> target, type |-> type]
Into(open, target) == {Edge(n, target, "cfg_next") : n \in open}
To(source, block, type) == IF block = <<>> THEN {} ELSE {Edge(source, block[1].id, type)}

RECURSIVE Block(_, _)

Statement(s, open) ==
  [nodes |-> {s.id},
   edges |-> Into(open, s.id) \cup
             (IF s.kind \in {"return", "raise"}
              THEN {Edge(s.id, Exit, IF s.kind = "return" THEN "cfg_return" ELSE "cfg_next")} ELSE {}),
   open  |-> IF s.kind \in {"return", "raise"} THEN {} ELSE {s.id}]

Branch(s, open) ==
  LET body   == Block(s.body, {s.id})
      orelse == Block(s.orelse, {s.id})
  IN [nodes |-> {s.id} \cup body.nodes \cup orelse.nodes,
      edges |-> Into(open, s.id) \cup body.edges \cup orelse.edges
                \cup To(s.id, s.body, "cfg_true") \cup To(s.id, s.orelse, "cfg_false"),
      open  |-> body.open \cup orelse.open]

\* The else of a loop is not built.
Loop(s, open) ==
  LET body == Block(s.body, {s.id})
  IN [nodes |-> {s.id} \cup body.nodes,
      edges |-> Into(open, s.id) \cup body.edges \cup To(s.id, s.body, "cfg_loop_body")
                \cup {Edge(n, s.id, "cfg_loop_back") : n \in body.open},
      open  |-> {s.id}]

\* The bodies of all handlers are one block; else and finally are not kept.
Try(s, open) ==
  LET body     == Block(s.body, {s.id})
      handlers == IF s.handlers = <<>> THEN [nodes |-> {}, edges |-> {}, open |-> {}]
                  ELSE Block(s.handlers, {s.id})
  IN [nodes |-> {s.id} \cup body.nodes \cup handlers.nodes,
      edges |-> Into(open, s.id) \cup body.edges \cup handlers.edges
                \cup To(s.id, s.handlers, "cfg_exception"),
      open  |-> body.open \cup handlers.open]

Block(block, open) ==
  IF block = <<>> THEN [nodes |-> {}, edges |-> {}, open |-> open]
  ELSE LET s     == Head(block)
           first == CASE s.kind = "branch" -> Branch(s, open)
                      [] s.kind = "loop"   -> Loop(s, open)
                      [] s.kind = "try"    -> Try(s, open)
                      [] OTHER             -> Statement(s, open)
           rest  == Block(Tail(block), first.open)
       IN [nodes |-> first.nodes \cup rest.nodes, edges |-> first.edges \cup rest.edges, open |-> rest.open]

ControlFlow(f) ==
  LET body == Block(f.body, {Entry})
  IN [nodes |-> body.nodes \cup {Entry, Exit},
      edges |-> body.edges \cup Into(body.open, Exit)]

---------------------------------------------------------------------------
(* Expressions.  The first child of a call is what is called.              *)

Arguments(call) == IF call.children = <<>> THEN <<>> ELSE Tail(call.children)

RECURSIVE Uses(_), Calls(_), CallsIn(_)

\* _collect_variable_uses
Uses(exprs) ==
  Concat([i \in DOMAIN exprs |->
    IF exprs[i].kind = "call" THEN Uses(Arguments(exprs[i]))
    ELSE (IF exprs[i].kind = "variable" THEN <<exprs[i]>> ELSE <<>>) \o Uses(exprs[i].children)])

\* _calls_from_expressions
Calls(exprs) ==
  Concat([i \in DOMAIN exprs |->
    (IF exprs[i].kind = "call" THEN <<exprs[i]>> ELSE <<>>) \o Calls(exprs[i].children)])

\* _call_expressions
CallsIn(block) ==
  Concat([i \in DOMAIN block |->
    Calls(block[i].exprs \o block[i].targets) \o CallsIn(block[i].body)
      \o CallsIn(block[i].orelse) \o CallsIn(block[i].handlers)])

---------------------------------------------------------------------------
(* DFGBuilder.  Nodes are <<kind, id>>; definitions maps a name to the     *)
(* node that defined it last.                                              *)

Flow(source, target, type) == [source |-> source, target |-> target, type |-> type]
Argument(call, i) == <<"argument", call.id, i>>
Result(call)      == <<"call_result", call.id>>
Results(exprs)    == {Result(c) : c \in Range(Calls(exprs))}
UseNodes(exprs)   == {<<"use", u.id>> : u \in Range(Uses(exprs))}

\* Each use, and how its definition reaches it.
Reaching(exprs, definitions, type) ==
  {Flow(definitions[u.name], <<"use", u.id>>, type) :
     u \in {u \in Range(Uses(exprs)) : u.name \in DOMAIN definitions}}

\* _add_call_boundaries
CallBoundaries(exprs, definitions) ==
  LET calls == Range(Calls(exprs))
      places == UNION {{<<c, i>> : i \in DOMAIN Arguments(c)} : c \in calls}
      at(p) == <<Arguments(p[1])[p[2]]>>
  IN [nodes |-> {Result(c) : c \in calls} \cup {Argument(p[1], p[2]) : p \in places}
                \cup UNION {UseNodes(at(p)) : p \in places},
      edges |-> UNION {Reaching(at(p), definitions, "dfg_reaches")
                       \cup {Flow(n, Argument(p[1], p[2]), "dfg_argument") :
                               n \in UseNodes(at(p)) \cup Results(at(p))} : p \in places}]

\* One target after the other, each seeing the definitions before it.
Assigned(s, definitions) ==
  FoldLeft(LAMBDA g, t :
     [nodes |-> g.nodes \cup UseNodes(s.exprs) \cup {<<"definition", t.id>>},
      edges |-> g.edges \cup Reaching(s.exprs, g.defs, "dfg_reaches")
                \cup {Flow(n, <<"definition", t.id>>, "dfg_computed_from") : n \in UseNodes(s.exprs)}
                \cup {Flow(n, <<"definition", t.id>>, "dfg_call_result_to_definition") :
                        n \in Results(s.exprs)},
      defs  |-> [x \in {t.name} |-> <<"definition", t.id>>] @@ g.defs],
   [nodes |-> {}, edges |-> {}, defs |-> definitions], s.targets)

Returned(s, definitions) ==
  [nodes |-> UseNodes(s.exprs) \cup {<<"return", s.id>>},
   edges |-> Reaching(s.exprs, definitions, "dfg_returned")
             \cup {Flow(n, <<"return", s.id>>, "dfg_return") : n \in UseNodes(s.exprs) \cup Results(s.exprs)},
   defs  |-> definitions]

Used(s, definitions) ==
  [nodes |-> UseNodes(s.exprs \o s.targets),
   edges |-> Reaching(s.exprs \o s.targets, definitions, "dfg_uses"),
   defs  |-> definitions]

Joined(parts) == [nodes |-> UNION {p.nodes : p \in parts}, edges |-> UNION {p.edges : p \in parts}]

RECURSIVE Walk(_, _), WalkLeaking(_, _)

Here(s, definitions) ==
  CASE s.kind = "assignment" -> Assigned(s, definitions)
    [] s.kind = "return"     -> Returned(s, definitions)
    [] OTHER                 -> Used(s, definitions)

\* Mutant of Walk: what a nested block defines stays defined after it.
WalkLeaking(block, definitions) ==
  IF block = <<>> THEN [nodes |-> {}, edges |-> {}, defs |-> definitions]
  ELSE LET s      == Head(block)
           here   == Here(s, definitions)
           body   == WalkLeaking(s.body, here.defs)
           parts  == {here, CallBoundaries(s.exprs, definitions), body, WalkLeaking(s.orelse, here.defs),
                      WalkLeaking(s.handlers, here.defs), WalkLeaking(Tail(block), body.defs)}
       IN [nodes |-> UNION {p.nodes : p \in parts}, edges |-> UNION {p.edges : p \in parts}, defs |-> body.defs]

\* _walk_statements: a nested block starts from a copy of the definitions.
Walk(block, definitions) ==
  IF block = <<>> THEN Joined({})
  ELSE LET s     == Head(block)
           here  == Here(s, definitions)
       IN Joined({here, CallBoundaries(s.exprs, definitions), Walk(Tail(block), here.defs)}
                 \cup {Walk(b, here.defs) : b \in {s.body, s.orelse, s.handlers}})

DataFlow(f) ==
  LET parameter(p) == <<"parameter", p.id>>
      names == {p.name : p \in Range(f.parameters)}
      last(x) == CHOOSE p \in Range(f.parameters) : p.name = x
  IN Joined({Walk(f.body, [x \in names |-> parameter(last(x))]),
             [nodes |-> {parameter(p) : p \in Range(f.parameters)}, edges |-> {}]})

\* _bind_call: arguments by position, the self of a method's own call left out; the
\* callee's returns flow to the result of the call.
BoundParameters(callee, ownCall) ==
  IF ownCall /\ callee.parameters # <<>> /\ callee.parameters[1].name \in {"self", "cls"}
  THEN Tail(callee.parameters) ELSE callee.parameters

Bound(call, parameters, from, to) ==
  LET given == {i \in DOMAIN parameters \cap DOMAIN Arguments(call) :
                  Argument(call, i) \in from /\ <<"parameter", parameters[i].id>> \in to}
      returns == {n \in to : n[1] = "return" /\ Result(call) \in from}
  IN {Flow(Argument(call, i), <<"parameter", parameters[i].id>>, "dfg_argument_to_parameter") : i \in given}
     \cup {Flow(n, Result(call), "dfg_return_to_call_result") : n \in returns}

\* The calls in f, all bound to the callee, as its own calls or not.
BoundCalls(f, callee, from, to) ==
  UNION {Bound(call, BoundParameters(callee, own), from, to) : call \in Range(CallsIn(f.body)), own \in BOOLEAN}

---------------------------------------------------------------------------
(* A reference: what a run of a body may execute, one statement after the  *)
(* other.  A loop runs up to twice; an exception ends a try before its     *)
(* first statement.                                                        *)

Run(path, ended) == [path |-> path, ended |-> ended]

RECURSIVE Runs(_)

Then(first, second) ==
  {r \in first : r.ended}
  \cup {Run(r[1].path \o r[2].path, r[2].ended) : r \in {r \in first : ~r.ended} \X second}

RunsOf(s) ==
  LET here == {Run(<<s.id>>, s.kind \in {"return", "raise"})}
      once == Then(here, Runs(s.body))
  IN CASE s.kind = "branch" -> once \cup Then(here, Runs(s.orelse))
       [] s.kind = "loop"   -> here \cup Then(once, here) \cup Then(once, Then(once, here))
       [] s.kind = "try"    -> once \cup IF s.handlers = <<>> THEN {} ELSE Then(here, Runs(s.handlers))
       [] OTHER             -> here

Runs(block) == IF block = <<>> THEN {Run(<<>>, FALSE)} ELSE Then(RunsOf(Head(block)), Runs(Tail(block)))

Paths(f) == {<<Entry>> \o r.path \o <<Exit>> : r \in Runs(f.body)}

RECURSIVE Statements(_)
Statements(block) ==
  UNION {{s} \cup Statements(s.body) \cup Statements(s.orelse) \cup Statements(s.handlers) :
           s \in Range(block)}

\* The statement that executes a definition or a use; parameters are there at entry.
SiteOf(statements, node) ==
  IF node[1] = "parameter" THEN Entry
  ELSE (CHOOSE s \in statements :
          \/ node[1] = "definition" /\ \E t \in Range(s.targets) : t.id = node[2]
          \/ node[1] = "use" /\ \E u \in Range(Uses(s.exprs \o s.targets)) : u.id = node[2]).id

---------------------------------------------------------------------------
(* Properties, for every function without break, continue and the clauses  *)
(* the adapter drops.                                                      *)

Reachable(g) ==
  LET reached[k \in 0..Cardinality(g.nodes)] ==
        IF k = 0 THEN {Entry}
        ELSE LET before == reached[k - 1]
             IN before \cup {e.target : e \in {e \in g.edges : e.source \in before}}
  IN reached[Cardinality(g.nodes)]

\* Control flow is what can be executed: two statements are joined exactly when
\* some run executes one right after the other (build_function).
ControlFlowIsExecution(f) ==
  LET g == ControlFlow(f)
      live == Reachable(g)
  IN {<<e.source, e.target>> : e \in {e \in g.edges : e.source \in live}}
       = UNION {{<<p[i], p[i + 1]>> : i \in 1..(Len(p) - 1)} : p \in Paths(f)}

\* A definition that is said to reach a use has been executed before it, on every
\* run that gets to the use (_walk_statements).
DefinitionsDominateUses(f) ==
  LET paths      == Paths(f)
      statements == Statements(f.body)
      sites      == {<<SiteOf(statements, e.source), SiteOf(statements, e.target)>> :
                       e \in {e \in DataFlow(f).edges : e.type \in {"dfg_reaches", "dfg_uses", "dfg_returned"}}}
  IN \A x \in sites : \A p \in paths : \A i \in DOMAIN p :
       p[i] = x[2] => \E j \in 1..(i - 1) : p[j] = x[1]

\* Every edge of both graphs, and of a bound call, ends in nodes of the two
\* functions, so that none is dropped later as dangling (normalize_repository_graph).
FlowGraphsAreClosed(f, callee) ==
  LET inside(edges, nodes) == \A e \in edges : {e.source, e.target} \subseteq nodes
      closed(g) == inside(g.edges, g.nodes)
      apart(from, to) == inside(BoundCalls(f, callee, from, to), from \cup to)
  IN /\ closed(ControlFlow(f))
     /\ closed(DataFlow(f))
     /\ apart(DataFlow(f).nodes, DataFlow(callee).nodes)
=============================================================================
