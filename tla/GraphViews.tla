----------------------------- MODULE GraphViews -----------------------------
(***************************************************************************)
(* Bounded projections of the repository graph                             *)
(* (graph_projection_service.py): the views, the traversal from roots, the *)
(* pages of a node's neighbours, and the seeds an explorer starts from.    *)
(*                                                                         *)
(* g: node (id -> [type, file, region, entrypoint, role]), edges (records  *)
(* [source, target, type, confidence, support]), handlers (files with an   *)
(* endpoint), version.  Identifiers are numbers in the order of ids.       *)
(* request: version, roots, types (of nodes), links (types of edges),      *)
(* direction, depth, nodes, edges, confidence, support, mode, scope,       *)
(* seeds, offset.  server: the service's own limits, nodes and edges.      *)
(***************************************************************************)
EXTENDS Integers, FiniteSets, SequencesExt, Ordering

NoNode == 0
AnyFile == "any"

\* The types a normalized graph has, in the order of their names.
NodeTypes == <<"api_call", "builtin_call", "call_site", "cfg_node", "class", "component", "dfg_node",
               "endpoint", "external_call", "file", "folder", "framework_call", "function", "method",
               "model", "module", "schema", "stdlib_call", "unknown", "unresolved_call">>
CallTypes == {"calls", "calls_builtin", "calls_stdlib", "calls_framework", "calls_external",
              "calls_unresolved"}
ValueTypes == {"dfg_argument", "dfg_argument_to_parameter", "dfg_call_result_to_definition",
               "dfg_computed_from", "dfg_defines", "dfg_parameter", "dfg_reaches", "dfg_return",
               "dfg_return_to_call_result", "dfg_returned", "dfg_uses"}
EdgeTypes == <<"calls", "calls_api", "calls_builtin", "calls_external", "calls_framework", "calls_stdlib",
               "calls_unresolved", "cfg_false", "cfg_next", "cfg_return", "cfg_true", "contains",
               "contains_call", "defines", "dfg_argument", "dfg_argument_to_parameter",
               "dfg_call_result_to_definition", "dfg_computed_from", "dfg_defines", "dfg_parameter",
               "dfg_reaches", "dfg_return", "dfg_return_to_call_result", "dfg_returned", "dfg_uses",
               "documents", "exposes_endpoint", "imports", "imports_internal", "reads_config", "related_to",
               "tested_by", "uses_model", "uses_schema">>
Position(seq, x) == CHOOSE i \in DOMAIN seq : seq[i] = x

Ends(edges) == UNION {{e.source, e.target} : e \in edges}
Between(edges, nodes) == {e \in edges : {e.source, e.target} \subseteq nodes}

\* One step along the edges.
Step(edges, nodes, direction) ==
  (IF direction \in {"outgoing", "both"} THEN {e.target : e \in {e \in edges : e.source \in nodes}} ELSE {})
  \cup
  (IF direction \in {"incoming", "both"} THEN {e.source : e \in {e \in edges : e.target \in nodes}} ELSE {})

LayersFrom(edges, roots, direction, depth) ==
  LET reached[k \in 0..depth] ==
        IF k = 0 THEN roots
        ELSE LET before == reached[k - 1] IN before \cup Step(edges, before, direction)
  IN reached

---------------------------------------------------------------------------
(* The views: which nodes and edges a projection may choose from.          *)

EdgesOf(g, types) == {e \in g.edges : e.type \in types}
NodesOf(g, types) == {n \in DOMAIN g.node : g.node[n].type \in types}

\* A request for a node's neighbours takes one step, in every view of a kind of edge.
OneStep(request) == [request EXCEPT !.depth = IF request.mode = "neighbors" THEN 1 ELSE @]

\* Edges with an end near the symbol, when one is asked for.
EdgesNear(edges, symbol, depth) ==
  IF symbol = NoNode THEN edges
  ELSE LET related == LayersFrom(edges, {symbol}, "both", depth)[depth]
       IN {e \in edges : e.source \in related \/ e.target \in related}

DependencyScope(g, request) ==
  IF request.scope # "adaptive" THEN request.scope
  ELSE IF EdgesOf(g, {"imports_internal"}) # {} THEN "internal" ELSE "detected"

\* all, project_map: every node and edge of some types.
TypedView(g, types, links) ==
  [nodes |-> NodesOf(g, types), edges |-> Between(EdgesOf(g, links), NodesOf(g, types)),
   unknown |-> FALSE]

Dependencies(g, file, request) ==
  LET all   == EdgesOf(g, IF DependencyScope(g, request) = "internal"
                          THEN {"imports_internal"} ELSE {"imports"})
      edges == {e \in all : file = AnyFile \/ \E n \in {e.source, e.target} : g.node[n].file = file}
  IN [nodes |-> Ends(edges), edges |-> edges,
      unknown |-> DependencyScope(g, request) = "internal" /\ all = {}]

ApiFlow(g, endpoint) ==
  LET all   == EdgesOf(g, {"calls_api", "exposes_endpoint", "contains_call", "calls"})
      edges == {e \in all : endpoint = NoNode \/ endpoint \in {e.source, e.target}}
  IN [nodes |-> NodesOf(g, {"endpoint", "api_call", "call_site"}) \cup Ends(edges), edges |-> edges,
      unknown |-> FALSE]

FunctionFlow(g, symbol) ==
  LET edges == EdgesNear(EdgesOf(g, CallTypes), symbol, 2)
  IN [nodes |-> NodesOf(g, {"function", "method"}) \cup Ends(edges), edges |-> edges, unknown |-> FALSE]

DataFlow(g, symbol) ==
  LET edges == EdgesOf(g, ValueTypes)
      nodes == {n \in NodesOf(g, {"dfg_node"}) :
                  symbol = NoNode \/ n \in LayersFrom(edges, {symbol}, "both", 3)[3]}
  IN [nodes |-> nodes, edges |-> Between(EdgesNear(edges, symbol, 3), nodes), unknown |-> FALSE]

Everything(g) == TypedView(g, Range(NodeTypes), Range(EdgeTypes))
ProjectMap(g) ==
  TypedView(g, {"folder", "file", "endpoint", "component", "class", "function", "method", "schema", "model"},
            {"contains", "defines", "exposes_endpoint"})

ViewKinds == {"all", "project-map", "dependencies", "api-flow", "function-flow", "data-flow"}

\* focus: the file, endpoint or symbol the view is about, if it is about one.
View(kind, g, focus, request) ==
  CASE kind = "all"           -> Everything(g)
    [] kind = "project-map"   -> ProjectMap(g)
    [] kind = "dependencies"  -> Dependencies(g, focus, request)
    [] kind = "api-flow"      -> ApiFlow(g, focus)
    [] kind = "function-flow" -> FunctionFlow(g, focus)
    [] kind = "data-flow"     -> DataFlow(g, focus)

Supported(edges, request) ==
  {e \in edges : /\ request.links = {} \/ e.type \in request.links
                 /\ e.confidence >= request.confidence
                 /\ request.support = {} \/ e.support \in request.support}

\* _filter_projection, and the same filters in _project.
Filtered(g, view, request) ==
  LET nodes == {n \in view.nodes : request.types = {} \/ g.node[n].type \in request.types}
  IN [nodes |-> nodes, edges |-> Supported(Between(view.edges, nodes), request)]

---------------------------------------------------------------------------
(* _bounded_traversal *)

Traversed(kept, request) ==
  IF request.roots = {}
  THEN [nodes |-> kept.nodes, edges |-> kept.edges, distance |-> [n \in kept.nodes |-> 0]]
  ELSE LET roots  == request.roots \cap kept.nodes
           layers == LayersFrom(kept.edges, roots, request.direction, request.depth)
           nodes  == layers[request.depth]
       IN [nodes    |-> nodes,
           edges    |-> Between(kept.edges, nodes),
           distance |-> [n \in nodes |-> Min({k \in DOMAIN layers : n \in layers[k]})]]

\* Nearest first; without roots by type.
OrderedNodes(g, nodes, found, request) ==
  SortedBy(nodes,
    [n \in nodes |->
       <<found.distance[n],
         IF request.roots = {} THEN Position(NodeTypes, g.node[n].type) ELSE 0, n>>])

OrderedEdges(edges) ==
  SortedBy(edges, [e \in edges |-> <<Position(EdgeTypes, e.type), e.source, e.target,
                                     -e.confidence, e.support>>])

OneRoot(request) == request.mode = "neighbors" /\ Cardinality(request.roots) = 1
RootOf(request)  == CHOOSE r \in request.roots : TRUE

\* The root of a neighbour request leads every page and takes a place of it.
Included(g, found, request, limit) ==
  LET offset == IF OneRoot(request) THEN request.offset ELSE 0
      root   == RootOf(request)
  IN IF OneRoot(request) /\ root \in found.nodes
     THEN <<root>> \o Slice(OrderedNodes(g, found.nodes \ {root}, found, request), offset, limit - 1)
     ELSE Slice(OrderedNodes(g, found.nodes, found, request), offset, limit)

\* Mutant of Expansion: the next page starts behind the root as well.
ExpansionBehindRoot(kept, request, nodes) ==
  LET available == Step(kept.edges, {RootOf(request)}, request.direction)
      remaining == Max({0, Cardinality(available) - request.offset - Cardinality(nodes) + 1})
  IN [remaining |-> remaining, leaf |-> available = {},
      next      |-> IF remaining > 0 THEN request.offset + Cardinality(nodes) ELSE -1]

\* _expansion_metadata: what is left to load, from all edges of the root.
Expansion(kept, request, nodes) ==
  LET root      == RootOf(request)
      available == Step(kept.edges, {root}, request.direction)
      included  == Cardinality((nodes \ {root}) \cap available)
      remaining == Max({0, Cardinality(available) - request.offset - included})
  IN [remaining |-> remaining,
      next      |-> IF remaining > 0 THEN request.offset + included ELSE -1,
      leaf      |-> available = {}]

\* _project.  A request for another version than the active one is refused.
VersionMismatch(g, request) == request.version \notin {0, g.version}

Project(g, view, request, server) ==
  LET kept     == Filtered(g, view, request)
      found    == Traversed(kept, request)
      ordered  == OrderedNodes(g, found.nodes, found, request)
      nodes    == Included(g, found, request, Min({request.nodes, server.nodes}))
      eligible == OrderedEdges(Between(found.edges, Range(nodes)))
      edges    == Slice(eligible, 0, Min({request.edges, server.edges}))
      root     == IF OneRoot(request) /\ request.roots \subseteq found.nodes THEN 1 ELSE 0
      \* what lies before the offset was on an earlier page
      moreNodes == IF OneRoot(request)
                   THEN Len(ordered) - root > request.offset + Len(nodes) - root
                   ELSE Len(ordered) > Len(nodes)
      moreEdges == Len(eligible) > Len(edges)
      lost      == request.roots \ kept.nodes
  IN [nodes     |-> nodes,
      edges     |-> edges,
      available |-> [nodes |-> Len(ordered), edges |-> Cardinality(found.edges)],
      truncated |-> moreNodes \/ moreEdges,
      reason    |-> {r \in {"node", "edge"} : IF r = "node" THEN moreNodes ELSE moreEdges},
      state     |-> IF moreNodes \/ moreEdges \/ lost # {} \/ view.unknown
                   THEN "limited" ELSE "ready",
      canExpand |-> \/ moreNodes /\ request.nodes < server.nodes
                    \/ moreEdges /\ request.edges < server.edges,
      expansion |-> IF OneRoot(request) THEN Expansion(kept, request, Range(nodes))
                    ELSE [remaining |-> 0, next |-> -1, leaf |-> TRUE]]

---------------------------------------------------------------------------
(* Seeds *)

In(edges, n)  == Cardinality({e \in edges : e.target = n})
Out(edges, n) == Cardinality({e \in edges : e.source = n})
Degree(edges, n) == In(edges, n) + Out(edges, n)

SeedLimit(request, server) == Min({request.seeds, request.nodes, server.nodes})

\* One page of a ranking: request, call and value seeds.
SeedPage(ranked, request, server) ==
  [seeds |-> Slice(ranked, request.offset, SeedLimit(request, server)),
   additional |-> Max({0, Len(ranked) - request.offset
                         - Len(Slice(ranked, request.offset, SeedLimit(request, server)))})]

\* The degree three quarters of the nodes do not exceed.
DegreeThreshold(kept) ==
  LET size == Cardinality(kept.nodes)
      sorted == SortedBy(kept.nodes, [n \in kept.nodes |-> <<Degree(kept.edges, n), n>>])
  IN IF size = 0 THEN 0 ELSE Degree(kept.edges, sorted[Max({1, (3 * size + 3) \div 4})])

\* _dependency_seeds: nodes worth starting from, by score.
StartingPoints(g, kept) ==
  LET threshold == DegreeThreshold(kept)
      enough    == IF Cardinality(kept.nodes) <= 3 THEN Max({1, threshold}) ELSE Max({2, threshold})
      strong(n) == g.node[n].entrypoint \/ g.node[n].file \in g.handlers
      score(n)  == (IF g.node[n].entrypoint THEN 8 ELSE 0)
                   + (IF g.node[n].file \in g.handlers THEN 6 ELSE 0)
                   + (IF In(kept.edges, n) > 0 /\ Out(kept.edges, n) > 0 THEN 4 ELSE 0)
                   + 2 * In(kept.edges, n) + Out(kept.edges, n)
      worth     == {n \in kept.nodes : strong(n) \/ Degree(kept.edges, n) >= enough}
  IN SortedBy(worth, [n \in worth |-> <<-score(n), g.node[n].region, n>>])

\* One node of every region first, then the rest by rank.
DependencySeeds(g, kept, request, server) ==
  LET ranked == StartingPoints(g, kept)
      again(i) == \E j \in 1..(i - 1) : g.node[ranked[j]].region = g.node[ranked[i]].region
      order  == SortedBy(DOMAIN ranked, [i \in DOMAIN ranked |-> <<IF again(i) THEN 1 ELSE 0, i>>])
  IN Slice([i \in DOMAIN order |-> ranked[order[i]]], 0, SeedLimit(request, server))

\* _request_flow_seeds: resolved endpoints, matched calls, then the others.
EntryRanking(g, view, request) ==
  LET asked   == request.types \cap {"endpoint", "api_call"}
      entries == {n \in view.nodes :
                    g.node[n].type \in IF asked = {} THEN {"endpoint", "api_call"} ELSE asked}
      linked(n, type) == \E e \in Supported(view.edges, request) : e.source = n /\ e.type = type
      priority(n) == IF g.node[n].type = "endpoint"
                     THEN IF linked(n, "exposes_endpoint") THEN 0 ELSE 2
                     ELSE IF linked(n, "calls_api") THEN 1 ELSE 3
  IN SortedBy(entries, [n \in entries |-> <<priority(n), n>>])

\* _call_flow_seeds
CallableRanking(g, view, request) ==
  LET edges == Supported(view.edges, request)
      callables == {n \in view.nodes : g.node[n].type \in {"function", "method"}}
      recursive(n) == \E e \in edges : e.source = n /\ e.target = n
      score(n) == (IF g.node[n].file \in g.handlers THEN 10 ELSE 0) + (IF recursive(n) THEN 8 ELSE 0)
                  + 2 * In(edges, n) + Out(edges, n)
  IN SortedBy(callables, [n \in callables |-> <<-score(n), n>>])

\* _data_flow_seeds: values in the context of a root; a context (a token, a
\* range of lines) stands for the nodes it matches.
ValueRanking(g, view, request) ==
  LET kept   == Filtered(g, view, request)
      values == kept.nodes \cap request.roots
      priority(n) == CASE g.node[n].role = "parameter" -> 0 [] g.node[n].role = "definition" -> 1
                       [] g.node[n].role = "use" -> 2 [] OTHER -> 3
  IN SortedBy(values, [n \in values |-> <<priority(n), -Degree(kept.edges, n), n>>])

Rankings(g, request) ==
  {EntryRanking(g, Everything(g), request), CallableRanking(g, Everything(g), request),
   ValueRanking(g, Everything(g), request)}

---------------------------------------------------------------------------
(* Properties, for every graph and every request.                          *)

\* The graph of a repository: finite and closed.
IsViewGraph(g) ==
  /\ DOMAIN g.node \subseteq Nat /\ IsFiniteSet(DOMAIN g.node) /\ IsFiniteSet(g.edges)
  /\ \A n \in DOMAIN g.node : g.node[n].type \in Range(NodeTypes) /\ g.node[n].region \in Int
  /\ g.edges \subseteq [source : DOMAIN g.node, target : DOMAIN g.node, type : Range(EdgeTypes),
                        confidence : Int, support : Int]

\* GraphProjectionRequest, and the limits of a service.  The routes bound the numbers
\* of a request further.
IsViewRequest(request) ==
  /\ request \in [version : Nat, roots : SUBSET Nat, types : SUBSET STRING, links : SUBSET STRING,
                  direction : {"incoming", "outgoing", "both"}, depth : Nat, nodes : Nat \ {0}, edges : Nat,
                  confidence : Int, support : SUBSET Int, mode : {"full", "seeds", "neighbors"},
                  scope : {"adaptive", "internal", "detected"}, seeds : Nat \ {0}, offset : Nat]
  /\ IsFiniteSet(request.roots)
IsServer(server) == server.nodes \in Nat \ {0} /\ server.edges \in Nat

HonestProjection(p, kept, request) ==
  LET steps(n) == {k \in 0..request.depth :
                     \E path \in [0..k -> kept.nodes] :
                       /\ path[0] \in request.roots /\ path[k] = n
                       /\ \A i \in 1..k : path[i] \in Step(kept.edges, {path[i - 1]}, request.direction)}
      wanted == {n \in kept.nodes : request.roots = {} \/ steps(n) # {}}
      shown  == Range(p.nodes)
      drawn  == Range(p.edges)
  IN /\ shown \subseteq wanted /\ drawn \subseteq Between(kept.edges, shown)
     /\ \A n \in shown, m \in wanted \ shown : request.roots # {} => Min(steps(n)) <= Min(steps(m))
     /\ ~p.truncated <=> shown = wanted /\ drawn = Between(kept.edges, wanted)
     /\ p.canExpand => p.truncated

\* A projection holds the nodes within the depth of a root and no others, nearer
\* ones before farther ones, edges only between nodes it shows, and says that it
\* is truncated exactly when it leaves something out.  Of a node's neighbours this is
\* their first page (_project).
ProjectionIsHonest(g, view, request, server) ==
  (OneRoot(request) => request.offset = 0) =>
    HonestProjection(Project(g, view, request, server), Filtered(g, view, request), request)

\* at: the projection from each offset.
PagesCover(at, all, root) ==
  LET page(o) == Range(at[o].nodes) \ {root}
      offset[k \in 0..(Cardinality(all) + 1)] ==
        IF k = 0 THEN 0
        ELSE IF offset[k - 1] = -1 THEN -1 ELSE at[offset[k - 1]].expansion.next
      used   == {offset[k] : k \in DOMAIN offset} \ {-1}
  IN /\ UNION {page(o) : o \in used} = all
     /\ \A o, p \in used : o # p => page(o) \cap page(p) = {}
     /\ offset[Cardinality(all) + 1] = -1

\* Following next_neighbor_offset from page to page loads every neighbour of a
\* node once and then ends, if a page has room for a neighbour beside the root and
\* the node is no neighbour of itself (_project, _expansion_metadata).
PagesCoverNeighbours(g, view, request, server) ==
  LET kept == Filtered(g, view, request)
      root == RootOf(request)
      all  == Step(kept.edges, {root}, request.direction)
      at   == [o \in 0..Cardinality(all) |-> Project(g, view, [OneStep(request) EXCEPT !.offset = o], server)]
  IN OneRoot(request) /\ root \in kept.nodes /\ root \notin all /\ Min({request.nodes, server.nodes}) > 1
       => PagesCover(at, all, root)

\* The pages of a seed ranking, one after the other, are the ranking, and each
\* counts what is left behind it.
SeedPagesPartition(ranked, request, server) ==
  LET limit   == SeedLimit(request, server)
      page(i) == SeedPage(ranked, [request EXCEPT !.offset = i * limit], server)
      pages   == 0..Len(ranked)
      read[k \in 0..(Len(ranked) + 1)] == IF k = 0 THEN <<>> ELSE read[k - 1] \o page(k - 1).seeds
  IN /\ read[Len(ranked) + 1] = ranked
     /\ \A i \in pages : page(i).additional = Len(ranked) - Min({Len(ranked), (i + 1) * limit})

\* Dependency seeds show as many regions as fit, and the best node of each
\* (_dependency_seeds).
SeedsSpanRegions(g, view, request, server) ==
  LET kept   == Filtered(g, view, request)
      seeds  == DependencySeeds(g, kept, request, server)
      ranked == StartingPoints(g, kept)
      regions(seq) == {g.node[n].region : n \in Range(seq)}
  IN /\ Cardinality(regions(seeds)) = Min({SeedLimit(request, server), Cardinality(regions(ranked))})
     /\ Cardinality(Range(seeds)) = Len(seeds)
     /\ Len(seeds) = Min({SeedLimit(request, server), Len(ranked)})
=============================================================================
