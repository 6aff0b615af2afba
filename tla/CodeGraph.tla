----------------------------- MODULE CodeGraph -----------------------------
(***************************************************************************)
(* How parsed Python modules become the repository graph: references are   *)
(* resolved (resolver.py), turned into candidates and validated            *)
(* (graph_candidates.py), emitted (cpg/emitter.py), joined with files,     *)
(* folders, symbols and endpoints (graph_service.py) and normalized        *)
(* (graph_schema_service.py).                                              *)
(*                                                                         *)
(* A module: file (a path, as a tuple), functions in source order (records *)
(* [qualified, method, span, calls]), imports and endpoints.  A dotted     *)
(* name is a tuple: <<"C", "f">> is C.f.  repository: files, modules,      *)
(* clientCalls (the HTTP calls another parser found).                      *)
(***************************************************************************)
EXTENDS Integers, FiniteSets, SequencesExt

NoEntity == <<>>

\* Paths are not empty, a module is of a file of the repository and has its functions in
\* order.
IsRepository(repository) ==
  /\ \A p \in repository.files : p # <<>> /\ p \in Seq(Range(p))
  /\ \A m \in repository.modules : m.file \in repository.files /\ m.functions \in Seq(Range(m.functions))

\* A file is parsed into one module, and two definitions have two places.
IsParsed(repository) ==
  /\ \A m, n \in repository.modules : m.file = n.file => m = n
  /\ \A m \in repository.modules : \A i, j \in DOMAIN m.functions :
       i # j => m.functions[i].span # m.functions[j].span

---------------------------------------------------------------------------
(* PythonReferenceResolver *)

KindOf(f) == IF f.method THEN "method" ELSE "function"
KeyOf(m, f) == <<"symbol", m.file, f.qualified, KindOf(f)>>

\* _symbol_index: functions go by their own and by their qualified name.
Named(m, name) ==
  {KeyOf(m, f) : f \in {f \in Range(m.functions) : name \in {<<Last(f.qualified)>>, f.qualified}}}

\* _resolve_call
CallTargets(m, f, raw) ==
  Named(m, raw) \cup
  IF Len(raw) > 1 /\ raw[1] = "self" /\ Len(f.qualified) > 1
  THEN Named(m, Front(f.qualified) \o Tail(raw)) ELSE {}

\* _resolve_import: every file the module's path is the end of.
ImportTargets(repository, name) == {<<"file", p>> : p \in {p \in repository.files : IsSuffix(name, p)}}

Outcome(targets) ==
  IF Cardinality(targets) = 1 THEN "resolved" ELSE IF targets = {} THEN "unresolved" ELSE "ambiguous"

\* The n-th reference of one entity by one name has a key of its own.
CallReferences(m) ==
  LET places == UNION {{<<i, j>> : j \in DOMAIN m.functions[i].calls} : i \in DOMAIN m.functions}
      source(p) == KeyOf(m, m.functions[p[1]])
      raw(p) == m.functions[p[1]].calls[p[2]]
      before(q, p) == /\ source(q) = source(p) /\ raw(q) = raw(p)
                      /\ (q[1] < p[1] \/ (q[1] = p[1] /\ q[2] < p[2]))
  IN {[source |-> source(p), type |-> "call", raw |-> raw(p),
       ordinal |-> Cardinality({q \in places : before(q, p)}),
       targets |-> CallTargets(m, m.functions[p[1]], raw(p))] : p \in places}

ImportReferences(repository, m) ==
  {[source |-> NoEntity, type |-> "import", raw |-> name, ordinal |-> 0,
    targets |-> ImportTargets(repository, name)] : name \in m.imports}

References(repository, m) == CallReferences(m) \cup ImportReferences(repository, m)
Resolved(references) == {r \in references : Outcome(r.targets) = "resolved"}
TheTarget(r) == CHOOSE t \in r.targets : TRUE

---------------------------------------------------------------------------
(* ReferenceGraphCandidateBuilder and GraphCandidateNormalizer.  A node    *)
(* candidate carries the lines it was found at.                            *)

SourceKey(m, r) == IF r.source = NoEntity THEN <<"file", m.file>> ELSE r.source

NodeCandidates(m) ==
  [i \in DOMAIN m.functions |->
     [kind |-> "node", key |-> KeyOf(m, m.functions[i]), span |-> m.functions[i].span]]

EdgeCandidates(m, references) ==
  {[kind |-> "edge", relation |-> IF r.type = "call" THEN "calls" ELSE "imports",
    source |-> SourceKey(m, r), target |-> TheTarget(r), evidence |-> r] : r \in Resolved(references)}

KnownKeys(repository, m, references) ==
  {<<"file", p>> : p \in repository.files} \cup {KeyOf(m, f) : f \in Range(m.functions)}
  \cup {r.source : r \in references} \cup UNION {r.targets : r \in references}

\* One key, two contents: critical, and nothing of the module is active then.
Conflicts(m) ==
  {p \in (DOMAIN m.functions) \X (DOMAIN m.functions) :
     /\ p[1] < p[2]
     /\ NodeCandidates(m)[p[1]].key = NodeCandidates(m)[p[2]].key
     /\ NodeCandidates(m)[p[1]].span # NodeCandidates(m)[p[2]].span}

\* Mutant of Dangling: only symbols count as known.
DanglingFiles(repository, m, references) ==
  {c \in EdgeCandidates(m, references) : ~({c.source, c.target} \subseteq {KeyOf(m, f) : f \in Range(m.functions)})}

Dangling(repository, m, references) ==
  {c \in EdgeCandidates(m, references) :
     ~({c.source, c.target} \subseteq KnownKeys(repository, m, references))}

ActiveEvidence(repository, m, references) ==
  IF Conflicts(m) # {} \/ Dangling(repository, m, references) # {} THEN {}
  ELSE {c.evidence : c \in EdgeCandidates(m, references)}

---------------------------------------------------------------------------
(* CPGEmitter *)

FileNode(path) == <<"file", path>>

\* unique_definition_id: a repeated definition gets a number of its own.
SymbolNode(m, i) ==
  LET f == m.functions[i]
  IN <<"symbol", <<m.file, f.qualified>>, KindOf(f),
       1 + Cardinality({j \in 1..(i - 1) : KeyOf(m, m.functions[j]) = KeyOf(m, f)})>>

\* References mean the first definition.
NodeOfKey(key) == <<"symbol", <<key[2], key[3]>>, key[4], 1>>

GraphEdge(source, target, type) == [source |-> source, target |-> target, type |-> type]

\* What the emitter adds for one reference it projects.
CallPart(m, r) ==
  LET source == IF r.source = NoEntity THEN FileNode(m.file) ELSE NodeOfKey(r.source)
      site   == <<"call_site", m.file, r.source, r.raw, r.ordinal>>
      other  == <<"unresolved_call", <<m.file, r.raw>>>>
      target == IF Outcome(r.targets) = "resolved" THEN NodeOfKey(TheTarget(r)) ELSE other
  IN [nodes |-> {site} \cup IF target = other THEN {other} ELSE {},
      edges |-> {GraphEdge(source, target, IF target = other THEN "calls_unresolved" ELSE "calls"),
                 GraphEdge(source, site, "contains_call")}]

ImportPart(m, r) ==
  [nodes |-> {<<"module", r.raw>>},
   edges |-> {GraphEdge(FileNode(m.file), <<"module", r.raw>>, "imports")}
             \cup IF Outcome(r.targets) = "resolved"
                  THEN {GraphEdge(FileNode(m.file), TheTarget(r), "imports_internal")} ELSE {}]

Joined(parts) == [nodes |-> UNION {p.nodes : p \in parts}, edges |-> UNION {p.edges : p \in parts}]

\* apply
Emitted(repository, m) ==
  LET references == References(repository, m)
      active == ActiveEvidence(repository, m, references)
      projected == {r \in references : Outcome(r.targets) # "resolved" \/ r \in active}
  IN Joined({IF r.type = "call" THEN CallPart(m, r) ELSE ImportPart(m, r) : r \in projected})

---------------------------------------------------------------------------
(* GraphService.build_graph and GraphSchemaService                         *)

Folders(path) == {SubSeq(path, 1, n) : n \in 1..(Len(path) - 1)}
FolderNode(path) == <<"folder", path>>

\* Folders from the root to a file, and the file.
FilePart(path) ==
  [nodes |-> {FolderNode(<<>>), FileNode(path)} \cup {FolderNode(d) : d \in Folders(path)},
   edges |-> {GraphEdge(FolderNode(Front(d)), FolderNode(d), "contains") : d \in Folders(path)}
             \cup {GraphEdge(FolderNode(Front(path)), FileNode(path), "contains")}]

EndpointNode(e) == <<"endpoint", e.method, e.route>>
ClientNode(c)   == <<"api_call", c.method, c.route>>

SymbolPart(m) ==
  [nodes |-> {SymbolNode(m, i) : i \in DOMAIN m.functions},
   edges |-> {GraphEdge(FileNode(m.file), SymbolNode(m, i), "defines") : i \in DOMAIN m.functions}]

\* The handler is the last definition of that name in the file.
EndpointPart(m) ==
  LET handlers(e) == {i \in DOMAIN m.functions : Last(m.functions[i].qualified) = e.handler}
  IN [nodes |-> {EndpointNode(e) : e \in m.endpoints},
      edges |-> {GraphEdge(EndpointNode(e), SymbolNode(m, Max(handlers(e))), "exposes_endpoint") :
                   e \in {e \in m.endpoints : handlers(e) # {}}}]

\* A route that ends in the endpoint's will do if no endpoint has the route.
Served(repository, call) ==
  LET all   == UNION {m.endpoints : m \in repository.modules}
      exact == {e \in all : e.method = call.method /\ e.route = call.route}
  IN IF exact # {} THEN exact
     ELSE {e \in all : e.method = call.method /\ e.route # <<>> /\ IsSuffix(e.route, call.route)}

ClientPart(repository) ==
  [nodes |-> {ClientNode(c) : c \in repository.clientCalls},
   edges |-> {GraphEdge(ClientNode(c), EndpointNode(CHOOSE e \in Served(repository, c) : TRUE), "calls_api") :
                c \in {c \in repository.clientCalls : Cardinality(Served(repository, c)) = 1}}]

\* Everything joined; equal edges are one.
Assembled(repository, emitted) ==
  Joined({emitted, ClientPart(repository)} \cup {FilePart(p) : p \in repository.files}
         \cup UNION {{SymbolPart(m), EndpointPart(m)} : m \in repository.modules})

AllEmitted(repository) == Joined({Emitted(repository, m) : m \in repository.modules})

Built(repository) == Assembled(repository, AllEmitted(repository))

\* normalize_repository_graph drops an edge that lacks an end.
Normalized(graph) ==
  [graph EXCEPT !.edges = {e \in graph.edges : {e.source, e.target} \subseteq graph.nodes}]

---------------------------------------------------------------------------
(* Properties, for every repository.                                       *)

\* Normalization has nothing to drop: whatever is repeated, ambiguous, recursive
\* or imported, each edge an earlier stage adds ends in nodes that some stage adds.
NothingDangles(repository) == Normalized(Built(repository)) = Built(repository)

\* A reference that resolves to one definition is an edge of the graph, unless its
\* module defines a name twice (GraphCandidateNormalizer, CPGEmitter.apply); then
\* none of the module's is, because the whole module counts as invalid.
ResolvedReferencesAreDrawn(repository) ==
  LET graph == Normalized(Built(repository))
      drawn(m, r) == \E e \in graph.edges :
        /\ e.source = IF r.source = NoEntity THEN FileNode(m.file) ELSE NodeOfKey(r.source)
        /\ e.target = IF r.type = "call" THEN NodeOfKey(TheTarget(r)) ELSE TheTarget(r)
        /\ e.type = IF r.type = "call" THEN "calls" ELSE "imports_internal"
      repeats(m) == \E i, j \in DOMAIN m.functions :
        i # j /\ m.functions[i].qualified = m.functions[j].qualified /\ KindOf(m.functions[i]) = KindOf(m.functions[j])
  IN \A m \in repository.modules : \A r \in Resolved(References(repository, m)) :
       drawn(m, r) <=> ~repeats(m)
=============================================================================
