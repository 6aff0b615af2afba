--------------------------- MODULE ImpactAnalysis ---------------------------
(***************************************************************************)
(* What a change may affect (impact_analysis_service.py): a breadth-first  *)
(* search of the graph in both directions, and the risk it adds up to.     *)
(*                                                                         *)
(* g: node (place in the list of nodes -> [id, type, file, scope, label,   *)
(* parts, test], parts being the texts that its label contains; a file or  *)
(* a scope that is not there is ""), edges (a sequence of records [source, *)
(* target, type, confidence], confidence in ten thousandths).              *)
(***************************************************************************)
EXTENDS Ordering

\* The graph of a repository is finite and closed.
IsGraph(g) ==
  /\ IsFiniteSet(DOMAIN g.node) /\ DOMAIN g.node \subseteq Nat
  /\ g.edges \in Seq(Range(g.edges))
  /\ \A e \in Range(g.edges) : {e.source, e.target} \subseteq DOMAIN g.node /\ e.confidence \in Nat

SymbolTypes == {"function", "method", "class", "schema", "model", "component"}
HighRisk == {"calls", "calls_api", "exposes_endpoint", "imports_internal"}

\* _resolve_targets: the nodes that a file, an endpoint or a symbol is.  ref is the text
\* of the request and what it reads as: base, the last component of a path, id, that of a
\* node, and pair, <<file, label>>.  Texts are compared as if all were in lower case.
Roots(g, type, ref) ==
  {n \in DOMAIN g.node :
     LET node  == g.node[n]
         named == ref.id = node.id \/ ref.text = node.label
     IN CASE type = "file" ->
               \/ node.id = <<"file", ref.text>>
               \/ node.type = "file" /\ (ref.text \in {node.file, node.scope} \/ ref.base = node.label)
          [] type = "endpoint" -> node.type = "endpoint" /\ (ref.id = node.id \/ ref.text \in node.parts)
          [] type \in SymbolTypes \cup {"symbol"} ->
               /\ node.type \in IF type = "symbol" THEN SymbolTypes ELSE {type}
               /\ named \/ ref.pair = <<node.file, node.label>>
          [] OTHER -> named \/ ref.text = node.file}

\* _adjacency: <<edge, neighbour>>, in the order of the edges.
Adjacent(g, n) ==
  LET adjacent[k \in 0..Len(g.edges)] ==
        IF k = 0 THEN <<>>
        ELSE LET e == g.edges[k]
             IN adjacent[k - 1] \o (IF e.source = n THEN <<<<e, e.target>>>> ELSE <<>>)
                                \o (IF e.target = n THEN <<<<e, e.source>>>> ELSE <<>>)
  IN adjacent[Len(g.edges)]

\* Mutant of Follow: the depth of a node is that of the last visit.
FollowAgain(state, from, a, g, roots) ==
  IF a[2] \in roots \/ (\E i \in DOMAIN state.hits : state.hits[i].node = a[2] /\ state.hits[i].depth > from.depth + 1)
  THEN state
  ELSE LET hit == [node |-> a[2], depth |-> from.depth + 1, via |-> a[1].type,
                   confidence |-> (from.confidence * a[1].confidence + 5000) \div 10000]
       IN [state EXCEPT !.hits = Append(@, hit), !.queue = Append(@, hit)]

\* One neighbour of the node being visited: a hit, unless it is a root or was
\* reached in as few steps before.
Follow(state, from, a, g, roots) ==
  IF \/ a[2] \in roots
     \/ \E i \in DOMAIN state.hits : state.hits[i].node = a[2] /\ state.hits[i].depth <= from.depth + 1
  THEN state
  ELSE LET hit == [node |-> a[2], depth |-> from.depth + 1, via |-> a[1].type,
                   confidence |-> (from.confidence * a[1].confidence + 5000) \div 10000]
       IN [state EXCEPT !.hits = Append(@, hit), !.queue = Append(@, hit)]

FollowAll(state, from, g, roots) ==
  LET adjacent == Adjacent(g, from.node)
      after[i \in 0..Len(adjacent)] ==
        IF i = 0 THEN state ELSE Follow(after[i - 1], from, adjacent[i], g, roots)
  IN after[Len(adjacent)]

\* One round of the loop.
Visit(state, depth, g, roots) ==
  LET from == Head(state.queue)
      rest == [queue |-> Tail(state.queue), hits |-> state.hits]
  IN IF from.depth >= depth THEN rest ELSE FollowAll(rest, from, g, roots)

Start(roots) ==
  [queue |-> SetToSeq({[node |-> r, depth |-> 0, via |-> "none", confidence |-> 10000] : r \in roots}), hits |-> <<>>]

\* _traverse: the queue is worked off, at most as often as there are nodes.
Hits(g, roots, depth) ==
  LET rounds == 2 * Cardinality(DOMAIN g.node)
      state[k \in 0..rounds] ==
        IF k = 0 THEN Start(roots)
        ELSE LET before == state[k - 1]
             IN IF before.queue = <<>> THEN before ELSE Visit(before, depth, g, roots)
  IN state[rounds].hits

BoundedDepth(depth) == Max({1, Min({depth, 4})})

\* _risk_score: direct, further, endpoints; no test and a strong edge add to it.
RiskScore(g, hits) ==
  LET all      == Range(hits)
      direct   == {h \in all : h.depth = 1}
      endpoint == {h \in all : g.node[h.node].type = "endpoint"}
      tested   == \E h \in all : g.node[h.node].test
      base     == Min({100, 8 * Cardinality(direct) + 3 * Cardinality(all \ direct) + 14 * Cardinality(endpoint)})
  IN Min({100, base + (IF ~tested /\ all # {} THEN 12 ELSE 0)
                    + (IF \E h \in direct : h.via \in HighRisk THEN 10 ELSE 0)})

RiskLevel(score) ==
  IF score >= 70 THEN "high" ELSE IF score >= 35 THEN "medium" ELSE IF score > 0 THEN "low" ELSE "unknown"

\* What an item of the affected files and tests stands for: a file, or a node that has none.
FileOrNode(g) == [n \in DOMAIN g.node |-> IF g.node[n].file = "" THEN <<"", n>> ELSE <<g.node[n].file, 0>>]

\* Hits in the order in which they are shown: the nearest first, and the most certain of
\* those.  Type and label, which come next, are left to the order of the search.
Merits(hits) == [i \in DOMAIN hits |-> <<hits[i].depth, -hits[i].confidence, i>>]

\* _unique_items: the first hit of each thing.
Unique(hits, I, thing) ==
  {i \in I : ~\E j \in I : thing[hits[j].node] = thing[hits[i].node] /\ Before(Merits(hits)[j], Merits(hits)[i])}

Lists == {"direct", "indirect", "files", "endpoints", "tests", "symbols"}
ResponseCaps == [list \in Lists |-> CASE list = "indirect" -> 30 [] list = "symbols" -> 25 [] OTHER -> 20]

\* The nodes that each list is about; root is the first target.
Listed(g, list, root, hit) ==
  LET node == g.node[hit.node]
  IN CASE list = "direct"    -> hit.depth = 1
       [] list = "indirect"  -> hit.depth > 1
       [] list = "files"     -> node.type = "file" \/ node.file \notin {"", g.node[root].file}
       [] list = "endpoints" -> node.type = "endpoint"
       [] list = "tests"     -> node.test
       [] list = "symbols"   -> node.type \in SymbolTypes

\* What the items of a list stand for.
Thing(g, list) == IF list \in {"files", "tests"} THEN FileOrNode(g) ELSE [n \in DOMAIN g.node |-> n]

\* A list of the response: what comes first, as many as the list takes.
Shown(g, list, root, hits, cap) ==
  LET about == {i \in DOMAIN hits : Listed(g, list, root, hits[i])}
      items == IF list \in {"direct", "indirect"} THEN about ELSE Unique(hits, about, Thing(g, list))
      order == Slice(SortedBy(items, Merits(hits)), 0, cap)
  IN [k \in DOMAIN order |-> hits[order[k]]]

\* analyze: caps is ResponseCaps in the service.  The risk is that of all hits.
Analyze(g, type, ref, depth, caps) ==
  LET roots == Roots(g, type, ref)
      hits  == Hits(g, roots, BoundedDepth(depth))
  IN IF roots = {} THEN [shown |-> [list \in Lists |-> <<>>], level |-> "unknown"]
     ELSE [shown |-> [list \in Lists |-> Shown(g, list, Min(roots), hits, caps[list])],
           level |-> RiskLevel(RiskScore(g, hits))]

---------------------------------------------------------------------------
\* What a list may show of the nodes it is about: each thing once, with its distance, and
\* no more than it takes.  What is left out stands for a thing that is shown and not
\* farther, or the list is full of what is not farther.
ShowsNearest(shown, about, thing, distance, cap) ==
  /\ \A i \in DOMAIN shown : shown[i].node \in about /\ shown[i].depth = distance[shown[i].node]
  /\ \A i, j \in DOMAIN shown : thing[shown[i].node] = thing[shown[j].node] => i = j
  /\ Len(shown) <= cap
  /\ \A n \in about :
       \/ \E i \in DOMAIN shown : thing[shown[i].node] = thing[n] /\ shown[i].depth <= distance[n]
       \/ Len(shown) = cap /\ \A i \in DOMAIN shown : shown[i].depth <= distance[n]

\* Of the nodes within the depth of the target, and of nothing else, each list reports the
\* nearest ones, once and with their distance, in cyclic graphs and beyond its cap too; a
\* target with any neighbour is never of unknown risk (analyze, _traverse, _risk_score).
ReportIsDistance(g, type, ref, depth, caps) ==
  LET roots == Roots(g, type, ref)
      found == Analyze(g, type, ref, depth, caps)
      step(S) == S \cup {n \in DOMAIN g.node : \E i \in DOMAIN g.edges :
                           LET ends == {g.edges[i].source, g.edges[i].target}
                           IN n \in ends /\ ends \cap S # {}}
      within[k \in 0..BoundedDepth(depth)] == IF k = 0 THEN roots ELSE step(within[k - 1])
      near == within[BoundedDepth(depth)] \ roots
      distance == [n \in near |-> Min({k \in DOMAIN within : n \in within[k]})]
      about(list) == {n \in near : Listed(g, list, Min(roots), [node |-> n, depth |-> distance[n]])}
  IN /\ \A list \in Lists :
          ShowsNearest(found.shown[list], about(list), Thing(g, list), distance, caps[list])
     /\ found.level = "unknown" <=> near = {}
=============================================================================
