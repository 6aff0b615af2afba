--------------------------- MODULE MC_Algorithms ---------------------------
(***************************************************************************)
(* The pure algorithms, each on every input of a small family.  A run      *)
(* picks an algorithm and gives it its inputs one after the other; the     *)
(* invariants judge what it makes of the complete input.                   *)
(***************************************************************************)
EXTENDS Algorithms

Flow      == INSTANCE CodeFlow
Rebuild   == INSTANCE IncrementalIndexing
Overview  == INSTANCE ArchitectureOverview

\* Sequences over S of up to n elements.
UpTo(S, n) == UNION {[1..k -> S] : k \in 0..n}

---------------------------------------------------------------------------
(* plan: three files; each may use the next one and the current ones may   *)
(* be edited, moved, added or deleted.                                     *)

NextOf == [a |-> "b", b |-> "c", c |-> "a"]
Fingerprint(content, used) ==
  [content |-> content, documentation |-> 1, structure |-> content, public_api |-> 1, dependency |-> used]
OwnContent == [a |-> 1, b |-> 2, c |-> 3]

PreviousSnapshots ==
  UNION {{[f \in S |-> Fingerprint(OwnContent[f], IF f \in using THEN {NextOf[f]} ELSE {})] :
            using \in SUBSET S} : S \in {{"a", "b"}, {"a", "b", "c"}}}
CurrentSnapshots ==
  UNION {[S -> {Fingerprint(n, used) : n \in 1..4, used \in {{}, {"a"}, {"b"}}}] : S \in {{"a", "c"}, {"a", "b", "c"}}}
PlanLimits == {[files |-> n, depth |-> d, fraction |-> <<1, 1>>] : n \in {2, 3}, d \in {1, 3}}

---------------------------------------------------------------------------
(* rank: three chunks of two files.                                        *)

RankIndex == [files |-> <<"f", "g", "f">>, kinds |-> <<"function", "function", "method">>,
              edges |-> {<<"f", "g">>}]
Seeds(S) == [c \in S |-> {2}]
LexicalSeeds == {[c \in {c \in 1..3 : s[c] # 0} |-> {s[c]}] : s \in {s \in [1..3 -> 0..2] : s[3] < 2}}
Found(lexical, symbol, graph, semantic) ==
  [exact |-> Seeds({}), endpoint |-> Seeds({}), metadata |-> Seeds({}), lexical |-> lexical,
   symbol |-> Seeds(symbol), graph |-> Seeds(graph), semantic |-> Seeds(semantic)]
Answered ==
  {Found(l, s, g, d) : l \in LexicalSeeds, s \in SUBSET {2, 3}, g \in SUBSET (1..3), d \in SUBSET {2}}
RankPolicies ==
  {[enabled |-> [r \in Retrievers |-> r # p[1]], limit |-> p[2], support |-> 0..2, k |-> 2, final |-> 3] :
     p \in {<<"none", 2>>, <<"none", 3>>, <<"semantic", 2>>}}

\* select: three blocks of two files, which the disk has as indexed or not.
BlocksAt(c) ==
  {[file |-> f, coverage |-> cov, named |-> FALSE, support |-> (c % 2), tokens |-> n,
    last |-> m, intact |-> TRUE] : f \in {"f", "g"}, cov \in {FALSE, c = 3}, n \in {1, 2, IF c = 1 THEN 3 ELSE 1},
    m \in {1, IF c = 2 THEN 3 ELSE 1}}
BlockLists == {<<a, b, c>> : a \in BlocksAt(1), b \in BlocksAt(2), c \in BlocksAt(3)}
SelectRequests == {[stale |-> FALSE, required |-> 1], [stale |-> TRUE, required |-> 2]}
SelectPolicies ==
  {[budget |-> b, maxEvidence |-> 2, support |-> s] : b \in {3, 9}, s \in {{0, 1}, {1}}}
Source(blocked, indexed, disk) == [blocked |-> blocked, indexed |-> indexed, disk |-> disk, lines |-> 2]
SourceStates ==
  {[f |-> Source(FALSE, "old", "old"), g |-> g] :
     g \in {Source(TRUE, "old", "old")} \cup {Source(FALSE, i, d) : i \in {"old", "absent"}, d \in {"old", "new", "absent"}}}

---------------------------------------------------------------------------
(* view, page, seed: three nodes with edges of the kind the view is about, *)
(* or a root with up to three neighbours, or files of several regions.     *)

Node(type, file, region, entrypoint, role) ==
  [type |-> type, file |-> file, region |-> region, entrypoint |-> entrypoint, role |-> role]
Edge(p, type) == [source |-> p[1], target |-> p[2], type |-> type, confidence |-> p[1], support |-> 1]

NodesFor(kind) ==
  CASE kind \in {"dependencies", "all", "project-map"} -> [i \in 1..3 |-> Node("file", <<"a", "b", "c">>[i], i, FALSE, "use")]
    [] kind = "api-flow"      -> [i \in 1..3 |-> Node(<<"api_call", "endpoint", "function">>[i], "a", 1, FALSE, "use")]
    [] kind = "function-flow" -> [i \in 1..3 |-> Node("function", <<"a", "a", "b">>[i], 1, FALSE, "use")]
    [] kind = "data-flow"     -> [i \in 1..3 |-> Node("dfg_node", "a", 1, FALSE, <<"use", "definition", "parameter">>[i])]
LinkFor(kind, p) ==
  CASE kind \in {"dependencies", "all"} -> "imports" [] kind = "project-map" -> "contains" [] kind = "function-flow" -> "calls" [] kind = "data-flow" -> "dfg_uses"
    [] kind = "api-flow" -> <<"calls_api", "exposes_endpoint", "calls">>[p[1]]
GraphFor(kind, pairs) ==
  [node |-> NodesFor(kind), edges |-> {Edge(p, LinkFor(kind, p)) : p \in pairs}, handlers |-> {"b"}, version |-> 1]
Pairs == {<<1, 2>>, <<2, 1>>, <<2, 3>>, <<3, 1>>, <<1, 1>>, <<3, 2>>}
ViewGraphs(kinds) == {GraphFor(kind, pairs) : kind \in kinds, pairs \in SUBSET Pairs}
ViewNames == {"dependencies", "api-flow", "function-flow", "data-flow"}
Subjects ==
  UNION {{[kind |-> kind, graph |-> GraphFor(kind, pairs), focus |-> f] :
            pairs \in SUBSET Pairs, f \in IF kind = "dependencies" THEN {AnyFile, "a"} ELSE {NoNode, 1}} : kind \in ViewNames}
  \cup {[kind |-> kind, graph |-> GraphFor(kind, {<<1, 2>>}), focus |-> NoNode] : kind \in {"all", "project-map"}}

Request ==
  [version |-> 0, roots |-> {1}, types |-> {}, links |-> {}, direction |-> "both", depth |-> 2, nodes |-> 9,
   edges |-> 9, confidence |-> 0, support |-> {}, mode |-> "full", scope |-> "adaptive", seeds |-> 9, offset |-> 0]
Server == [nodes |-> 9, edges |-> 9]
Directions == {"incoming", "outgoing", "both"}
ViewRequests ==
  {[Request EXCEPT !.direction = d, !.depth = k, !.nodes = n, !.edges = e, !.confidence = c, !.roots = r] :
     d \in Directions, k \in 0..2, n \in {2, 3}, e \in {1, 9}, c \in {0, 2}, r \in {{}, {1}}}

Star == {<<1, 2>>, <<1, 3>>, <<1, 4>>, <<2, 1>>, <<3, 1>>, <<4, 1>>, <<1, 1>>}
StarGraph(pairs) ==
  [node |-> [i \in 1..4 |-> Node("function", "a", 1, FALSE, "use")], edges |-> {Edge(p, "calls") : p \in pairs},
   handlers |-> {}, version |-> 1]
PageRequests ==
  {[Request EXCEPT !.direction = d, !.nodes = n, !.mode = "neighbors"] : d \in Directions, n \in 2..4}

SeedGraphs ==
  {[node |-> <<Node("file", "a", 1, entry, "use"), Node("file", "b", 1, FALSE, "use"),
               Node("file", "c", 2, FALSE, "use"), Node("file", "d", 3, FALSE, "use")>>,
    edges |-> {Edge(p, "imports") : p \in pairs}, handlers |-> {"b"}, version |-> 1] :
     entry \in BOOLEAN,
     pairs \in SUBSET {<<1, 2>>, <<2, 1>>, <<1, 3>>, <<3, 4>>, <<4, 2>>, <<2, 3>>, <<4, 4>>}}
SeedRequests == {[Request EXCEPT !.seeds = n, !.mode = "seeds", !.roots = 1..3] : n \in 1..4}

---------------------------------------------------------------------------
(* impact: up to three edges between four nodes, cycles and doubles        *)
(* included; lists of at most one, and as the service cuts them.           *)

ImpactEdges ==
  {[source |-> p[1], target |-> p[2], type |-> t, confidence |-> IF t = "calls" THEN 9000 ELSE 5000] :
     p \in {<<1, 2>>, <<2, 3>>, <<3, 1>>, <<3, 4>>, <<4, 2>>, <<2, 2>>}, t \in {"calls", "contains"}}
ImpactNode(type, file, label, parts) ==
  [id |-> <<type, label>>, type |-> type, file |-> file, scope |-> file, label |-> label, parts |-> {label} \cup parts,
   test |-> label = "t"]
ImpactGraph(edges) ==
  [node |-> <<ImpactNode("file", "a", "a", {}), ImpactNode("function", "a", "f", {}),
              ImpactNode("endpoint", "b", "get e", {"e"}), ImpactNode("file", "t", "t", {})>>,
   edges |-> edges]
ImpactRef(text, base, file) ==
  [text |-> text, base |-> base, id |-> <<"none", text>>, pair |-> <<file, base>>]
ImpactTargets ==
  {<<"file", ImpactRef("a", "a", "")>>, <<"file", ImpactRef("old/t", "t", "old")>>,
   <<"symbol", ImpactRef("a:f", "f", "a")>>, <<"endpoint", ImpactRef("e", "e", "")>>,
   <<"other", ImpactRef("a", "a", "")>>, <<"file", ImpactRef("z", "z", "")>>}

---------------------------------------------------------------------------
(* flow: three statements, the second one compound and nested up to twice. *)
(* The name is always x.  No raise inside a try.                           *)

X(id) == [id |-> id, kind |-> "variable", name |-> "x", children |-> <<>>]
Call(id) == [id |-> id, kind |-> "call", name |-> "g", children |-> <<X(id + 1), X(id + 2)>>]
Stmt(id, kind, exprs, targets) ==
  [id |-> id, kind |-> kind, exprs |-> exprs, targets |-> targets, body |-> <<>>, orelse |-> <<>>, handlers |-> <<>>]
Leaves(id) ==
  {Stmt(id, "assignment", <<>>, <<X(id + 1)>>), Stmt(id, "assignment", <<Call(id + 2)>>, <<X(id + 1)>>),
   Stmt(id, "statement", <<X(id + 1)>>, <<>>), Stmt(id, "return", <<X(id + 1)>>, <<>>)}
Raise(id) == Stmt(id, "raise", <<>>, <<>>)
One(id) == {<<l>> : l \in Leaves(id)}
Branches(id, bodies, others) ==
  {[Stmt(id, "branch", <<X(id + 1)>>, <<>>) EXCEPT !.body = b, !.orelse = e] : b \in bodies, e \in {<<>>} \cup others}
Loops(id, bodies) == {[Stmt(id, "loop", <<X(id + 1)>>, <<>>) EXCEPT !.body = b] : b \in bodies}
Tries(id, bodies) ==
  {[Stmt(id, "try", <<>>, <<>>) EXCEPT !.body = b, !.handlers = h] : b \in bodies, h \in One(id + 50)}
Nested(id) == Branches(id, One(id + 100), One(id + 130)) \cup Loops(id, One(id + 100))
Compounds(id) ==
  LET two   == {<<l, m>> : l \in Leaves(id + 10), m \in Leaves(id + 20)}
      inner == {<<s>> : s \in Nested(id + 10)}
      flat  == One(id + 10) \cup two
  IN UNION {Branches(id, B, One(id + 50) \cup {<<Raise(id + 50)>>}) \cup Loops(id, B) \cup Tries(id, B) :
              B \in {flat, inner}}
Program(given3) ==
  [id |-> 1, parameters |-> <<[id |-> 2, name |-> "x"]>>, body |-> given3, method |-> FALSE]
Callee ==
  [id |-> 3, parameters |-> <<[id |-> 4, name |-> "self"], [id |-> 5, name |-> "x"]>>,
   body |-> <<Stmt(400, "return", <<X(401)>>, <<>>)>>, method |-> TRUE]

---------------------------------------------------------------------------
(* code: a module of up to three functions, methods and repetitions, and   *)
(* another one, in three files of which two have the same name.            *)

CallLists == {<<>>, <<<<"f">>>>, <<<<"self", "f">>>>, <<<<"f">>, <<"f">>>>, <<<<"x", "f">>>>}
Definition(qualified, calls) == [qualified |-> qualified, method |-> Len(qualified) > 1, span |-> 0, calls |-> calls]
Definitions(lists) == {Definition(q, c) : q \in {<<"f">>, <<"C", "f">>, <<"C", "g">>}, c \in lists}
FunctionLists ==
  {<<>>} \cup {<<d>> : d \in Definitions(CallLists)}
  \cup {<<d, e>> : d \in Definitions(CallLists), e \in Definitions(CallLists)}
  \cup {<<d, e, h>> : d \in Definitions(CallLists), e \in Definitions({<<>>}), h \in Definitions(CallLists)}
Spanned(functions) == [i \in DOMAIN functions |-> [functions[i] EXCEPT !.span = i]]

EndpointSets ==
  {{}, {[method |-> "GET", route |-> <<"v1", "x">>, handler |-> "f"]},
   {[method |-> "GET", route |-> <<"x">>, handler |-> "g"], [method |-> "GET", route |-> <<"v1", "x">>, handler |-> "none"]}}
Surroundings ==
  {[imports |-> i, endpoints |-> e, clientCalls |-> c] :
     i \in {{}, {<<"b">>}, {<<"pkg", "b">>, <<"os">>}}, e \in EndpointSets,
     c \in {{}, {[method |-> "GET", route |-> <<"api", "v1", "x">>]}}}
RepositoryOf(functions, s) ==
  [files |-> {<<"a">>, <<"pkg", "b">>, <<"lib", "b">>},
   modules |-> {[file |-> <<"a">>, functions |-> Spanned(functions), imports |-> s.imports, endpoints |-> s.endpoints],
                [file |-> <<"pkg", "b">>, functions |-> Spanned(<<Definition(<<"f">>, <<<<"f">>>>)>>),
                 imports |-> {<<"a">>}, endpoints |-> {}]},
   clientCalls |-> s.clientCalls]

\* rebuild: the same three files, in up to three versions each.
EditionsOf(file) ==
  LET module(functions, imports, endpoints) ==
        [file |-> file, functions |-> Spanned(functions), imports |-> imports, endpoints |-> endpoints]
      f == Definition(<<"f">>, <<<<"f">>>>)
      g == Definition(<<"g">>, <<<<"x", "f">>>>)
      endpoint(route) == [method |-> "GET", route |-> route, handler |-> "f"]
  IN CASE file = <<"a">> -> <<module(<<f>>, {<<"b">>}, {endpoint(<<"v1", "x">>)}), module(<<f, g>>, {<<"os">>}, {})>>
       [] file = <<"pkg", "b">> -> <<module(<<f>>, {<<"a">>}, {endpoint(<<"x">>)}), module(<<g>>, {}, {})>>
       [] file = <<"lib", "b">> -> <<module(<<>>, {<<"a">>}, {})>>
\* Version 3 of a file cannot be parsed.
Snapshot(version) ==
  LET broken == {f \in DOMAIN version : version[f] = 3}
  IN [files |-> DOMAIN version, content |-> version, failing |-> broken,
      modules |-> {EditionsOf(f)[version[f]] : f \in DOMAIN version \ broken},
      clientCalls |-> {[method |-> "GET", route |-> <<"api", "v1", "x">>]}]
Numbers == <<{<<"a">>, <<"pkg", "b">>, <<"lib", "b">>}, {<<"a">>, <<"pkg", "b">>}, {<<"a">>}>>
Snapshots(files) ==
  {Snapshot(v) : v \in UNION {{v \in [S -> 1..3] : \A f \in S : f \in Numbers[v[f]]} : S \in (SUBSET files) \ {{}}}}

---------------------------------------------------------------------------
(* ready: three capabilities, the first with one artifact, which may use    *)
(* each other or a name without a spec; what is made and what is required. *)

Spec3(needs, uses, mandatory) == [needs |-> needs, uses |-> uses, mandatory |-> mandatory, provider |-> FALSE]
Evidence(states, successful) ==
  [artifacts |-> states, total |-> 2, successful |-> successful, unresolved |-> 0, critical |-> FALSE,
   stale |-> FALSE, supported |-> TRUE, provided |-> TRUE]
UseSets == {{}, {1}, {2}, {3}, {2, 3}, {4}}
SpecSets ==
  {<<Spec3({"t"}, u[1], m = 1), Spec3({}, u[2], m = 2), Spec3({"v"}, u[3], m = 3)>> :
     u \in [1..3 -> UseSets], m \in {1, 2}}
EvidenceSets ==
  {<<Evidence(a, 2), Evidence(<<>>, b), [Evidence([v |-> "ready"], c) EXCEPT !.critical = (c = 1)]>> :
     a \in {<<>>} \cup {[t |-> x] : x \in {"ready", "failed", "stale"}}, b \in 0..2, c \in 1..2}
Artifacts == {<<made, required>> \in (SUBSET {"t", "v"}) \X (SUBSET {"t", "v"}) : required \subseteq made}

\* dense: chunks of two contents, at build time and later.
ChunkSets(n) == UNION {[S -> 1..n] : S \in SUBSET {1, 2, 3}}
Answers == {[model |-> m, dimension |-> d, complete |-> c] : m \in {"m", "n"}, d \in {8}, c \in {TRUE}}
           \cup {[model |-> "n", dimension |-> 9, complete |-> TRUE], [model |-> "m", dimension |-> 8, complete |-> FALSE]}

Providers == {<<identity, a, b, b>> : identity \in {a \in Answers : a.dimension = 8 /\ a.complete}, a \in Answers, b \in Answers}
Loads == {[version |-> 1, model |-> "m"], [version |-> 1, model |-> "n"], [version |-> 2, model |-> "m"]}

\* architecture: three files of two domains.
RoleOf(role, domain) == [role |-> role, domain |-> domain, marker |-> domain = 1]
RoleSets ==
  {<<RoleOf(a, 1), RoleOf(b, d), RoleOf(c, e)>> :
     a \in {"api", "application"}, b \in {"api", "application", "data_model", "presentation"},
     c \in {"domain", "data_access", "messaging", "api"}, d \in {1, 2}, e \in {1, 2}}
EndpointLists == SUBSET {[file |-> 1, domain |-> 1], [file |-> 1, domain |-> 2], [file |-> 2, domain |-> 0]}
ArchitectureEdges ==
  SUBSET {[source |-> 1, target |-> 2, label |-> "calls", support |-> "inferred"],
          [source |-> 2, target |-> 3, label |-> "calls", support |-> "confirmed"],
          [source |-> 1, target |-> 3, label |-> "uses", support |-> "confirmed"],
          [source |-> 3, target |-> 1, label |-> "calls", support |-> "inferred"]}
ArchitectureLimits ==
  {[candidates |-> 20, domains |-> n, files |-> n, components |-> 28, flows |-> 3, steps |-> n + 1] : n \in {1, 3}}
Architecture(roles, endpoints, edges) ==
  [roles |-> roles, endpoints |-> endpoints, edges |-> edges, framework |-> TRUE, package |-> [f \in 1..3 |-> 1],
   technologies |-> [t \in {1} |-> [category |-> "database", files |-> {2, 3}]]]

---------------------------------------------------------------------------
(* The inputs, one after the other.                                        *)

FamilyOf ==
  [plan    |-> <<PreviousSnapshots, CurrentSnapshots, PlanLimits>>,
   rank    |-> <<{RankIndex}, Answered, SUBSET {<<"symbol", 2, 2>>}, RankPolicies, {3}>>,
   select  |-> <<BlockLists, SelectPolicies, SourceStates, SelectRequests>>,
   view    |-> <<{Server}, Subjects, ViewRequests>>,
   page    |-> <<{Server}, {StarGraph(pairs) : pairs \in SUBSET Star}, PageRequests>>,
   seed    |-> <<{Server}, SeedGraphs, SeedRequests>>,
   order   |-> <<{Server}, ViewGraphs(ViewNames), SeedRequests>>,
   impact  |-> <<{ImpactGraph(edges) : edges \in UpTo(ImpactEdges, 3)}, ImpactTargets, {1, 2, 9},
               {[list \in Lists |-> 1], ResponseCaps}>>,
   flow    |-> <<{l \in Leaves(10) : l.exprs # <<Call(12)>> /\ l.kind # "return"}, Compounds(100),
                 {l \in Leaves(300) : l.kind # "return" /\ l.exprs # <<>>}>>,
   code    |-> <<{RepositoryOf(f, s) : f \in FunctionLists, s \in Surroundings}>>,
   ready   |-> <<SpecSets, EvidenceSets, Artifacts>>,
   dense   |-> <<ChunkSets(1), Providers, ChunkSets(2), {1, 2}, Loads>>,
   arch    |-> <<RoleSets, EndpointLists, ArchitectureEdges, ArchitectureLimits>>,
   rebuild |-> <<{s \in Snapshots(Numbers[1]) : <<"a">> \in s.files}, Snapshots(Numbers[1]), Snapshots(Numbers[2])>>,
   upgrade |-> <<UpTo(LocalEvents, 4), UpTo(LocalEvents, 2)>>]
MCFamilies == [name \in DOMAIN FamilyOf |-> FamilyOf[name]]

OverviewIsWhole(r, o, limits) ==
  /\ Overview!FilesAreShown(r, o, limits)
  /\ Overview!EdgesAreDrawn(r, o)
  /\ Overview!FlowsAreWalks(o, limits)
RebuildIsLocal(index, snapshot) ==
  /\ Rebuild!FilesAreAsInFull(index, snapshot)
  /\ Rebuild!ImportsStayApart(index, snapshot)

---------------------------------------------------------------------------
\* Both flow graphs agree with execution (CFGBuilder, DFGBuilder), the graph that the
\* local profile's re-indexing makes agrees with a full one up to the imports that cross
\* between the changed and the other files (_prepare_incremental_repository,
\* _merge_incremental_parse), and the architecture leaves no file, edge or step out unseen
\* (RuleBasedArchitectureEngine.build).
GraphsAreExact ==
  /\ Complete("flow") =>
       LET f == Program(given)
       IN /\ Flow!ControlFlowIsExecution(f)
          /\ Flow!DefinitionsDominateUses(f)
          /\ Flow!FlowGraphsAreClosed(f, Callee)
  /\ Complete("rebuild") =>
       /\ RebuildIsLocal(Rebuild!Reindexed(Rebuild!Reindexed(Rebuild!Unindexed, given[1], FALSE), given[2], FALSE),
                         given[3])
       /\ Rebuild!SeparateChangesAreExact(given[2], given[3])
  /\ Complete("arch") =>
       LET r == Architecture(given[1], given[2], given[3])
       IN OverviewIsWhole(r, Overview!Overview(r, given[4]), given[4])
=============================================================================
