------------------------ MODULE AlgorithmInvariants ------------------------
(***************************************************************************)
(* What the proofs of AlgorithmProofs speak about: the invariants of the   *)
(* algorithms and of the specification that gives them their inputs, what  *)
(* a database of the local profile is, and the sets, steps and orders in   *)
(* whose terms loops are described.                                        *)
(***************************************************************************)
EXTENDS Algorithms

---------------------------------------------------------------------------
(* Finite sets. *)

\* f gives every element of T to some element of S.
Covers(f, S, T) == \A x \in T : \E s \in S : x = f[s]
AreFinite(f, S) == \A s \in S : IsFiniteSet(f[s])

---------------------------------------------------------------------------
(* Searches.  The algorithms look further from a set step by step, in a     *)
(* function from the number of steps to what is reached.                    *)

Iterates(base, st, n, f) == f = [k \in 0..n |-> IF k = 0 THEN base ELSE st[f[k - 1]]]
Iterate(base, st, n) == (CHOOSE f : Iterates(base, st, n, f))[n]

\* A recursion whose steps depend on how many there were, too: whatever steps keep to a
\* set, there is a function that follows them.
Folds(base, st, n, f) == f = [k \in 0..n |-> IF k = 0 THEN base ELSE st[<<k, f[k - 1]>>]]

---------------------------------------------------------------------------
(* The incremental planner. *)

\* One step of Uses.
UsesOf(s, before) == before \cup {d[2] : d \in {d \in DependenciesOf(s) : d[1] \in before}}
UsesStep(s) == [before \in SUBSET DOMAIN s |-> UsesOf(s, before)]
UsesTo(f, s, n) == Iterate({f}, UsesStep(s), n)

UsesWithin(f, s, g) ==
  g = [n \in 0..Cardinality(DOMAIN s) |-> IF n = 0 THEN {f} ELSE UsesOf(s, g[n - 1])]

\* One step of Affected.
AffectedOf(changes, current, dependencies, before) ==
  before \cup (Dependents(before \cup Frontier(changes), dependencies) \cap DOMAIN current)
AffectedWithin(changes, current, dependencies, n, g) ==
  g = [k \in 0..n |-> IF k = 0 THEN ChangedCurrent(changes)
                      ELSE AffectedOf(changes, current, dependencies, g[k - 1])]

\* What compare counts, family by family, when both sides are the same.
Chosen(part) == CHOOSE x \in part : TRUE
CountUp(full, it, part) ==
  IF part = {} THEN 0
  ELSE it[part \ {Chosen(part)}] + Cardinality(Mismatches(full[Chosen(part)], full[Chosen(part)]))

---------------------------------------------------------------------------
(* Capability readiness. *)

\* One round of _dependency_order.
Available(specs, before) == {n \in DOMAIN specs : specs[n].uses \subseteq before}
AvailableStep(specs) == [before \in SUBSET DOMAIN specs |-> Available(specs, before)]
ReachedAt(specs, k) == Iterate({}, AvailableStep(specs), k)

ReachedWithin(specs, a) ==
  a = [k \in 0..Cardinality(DOMAIN specs) |-> IF k = 0 THEN {} ELSE Available(specs, a[k - 1])]

\* The five states.
States == {"ready", "limited", "stale", "failed", "unavailable"}
Own(specs, evidence, n) == OwnState(specs[n], evidence[n])

\* One round of calculate: the states of the capabilities whose dependencies have one.
Known(specs, evidence, before) ==
  [n \in Available(specs, DOMAIN before) |->
     Inherited(Own(specs, evidence, n), {before[d] : d \in specs[n].uses})]
Reports(specs) == {<<>>} \cup UNION {[S -> States] : S \in SUBSET DOMAIN specs}
KnownStep(specs, evidence) == [before \in Reports(specs) |-> Known(specs, evidence, before)]
KnownAt(specs, evidence, k) == Iterate(<<>>, KnownStep(specs, evidence), k)

KnownWithin(specs, evidence, w) ==
  w = [k \in 0..Cardinality(DOMAIN specs) |-> IF k = 0 THEN <<>> ELSE Known(specs, evidence, w[k - 1])]

\* One step of Closure.
Rests(specs, before) == before \cup UNION {specs[m].uses : m \in before}
RestsStep(specs) == [before \in SUBSET DOMAIN specs |-> Rests(specs, before)]
RestsAt(specs, n, k) == Iterate({n}, RestsStep(specs), k)

RestsWithin(specs, n, w) ==
  w = [k \in 0..Cardinality(DOMAIN specs) |-> IF k = 0 THEN {n} ELSE Rests(specs, w[k - 1])]

---------------------------------------------------------------------------
(* The lock orders. *)

RowsOf(j) == {JobRow(j), AttemptRow(j), RepositoryRow, VersionRow(j)}

\* Whoever locks a job before the repository, and nothing of another job, waits for a
\* row it does not hold and holds the job.
KeepsToItsJob(o, j) ==
  JobRow(j) \in Held(o) /\ Held(o) \subseteq RowsOf(j) /\ Waits(o) \in RowsOf(j) /\ Waits(o) \notin Held(o)

---------------------------------------------------------------------------
(* The upgrade of a local database. *)

\* A legacy database has finitely many records, and counts versions from 0.
IsLegacy(db) ==
  /\ db.current \in [DOMAIN db.current -> Nat]
  /\ IsFiniteSet(Records(db))
  /\ \A x \in Records(db) : x.version \in Nat

---------------------------------------------------------------------------
(* What the local profile leaves in a database. *)

LocalJobs == [version : Nat, status : {"completed", "failed", "running"}]
Locals == [current : Nat, jobs : Seq(LocalJobs), evidence : SUBSET Nat]

\* At most the last job is running; an answer is about an index that there was.
LocalInv(local) ==
  /\ local \in Locals
  /\ \A i \in DOMAIN local.jobs : local.jobs[i].status = "running" => i = Len(local.jobs)
  /\ \A v \in local.evidence : 0 < v /\ v <= local.current

\* A repository that has an index has its files and nothing of another version, but for
\* the evidence of earlier answers; what names a file or a node names one that is there;
\* at most one job is running.
IsLeft(db) ==
  /\ DOMAIN db.current # {}
  /\ \A x \in Records(db) : x.repository \in DOMAIN db.current
  /\ \A x \in db.files \cup db.observations \cup db.nodes \cup db.edges : x.version = db.current[x.repository]
  /\ \A r \in DOMAIN db.current : db.current[r] > 0 => \E f \in db.files : f.repository = r
  /\ \A x \in FileUsers(db) : x.version = db.current[x.repository] => FileOf(x) \in {FileOf(f) : f \in db.files}
  /\ \A e \in db.edges : {NodeOf(e, e.source), NodeOf(e, e.target)} \subseteq {NodeOf(n, n.id) : n \in db.nodes}
  /\ \A r \in DOMAIN db.current : \A j, k \in Unfinished(db, r) : j = k

---------------------------------------------------------------------------
(* The code graph. *)

Closed(part, nodes) == \A e \in part.edges : e.source \in nodes /\ e.target \in nodes

\* The references of a module that the emitter projects, and what it adds for one.
Projected(repository, m) ==
  LET references == References(repository, m)
  IN {r \in references : Outcome(r.targets) # "resolved" \/ r \in ActiveEvidence(repository, m, references)}
PartOf(m, r) == IF r.type = "call" THEN CallPart(m, r) ELSE ImportPart(m, r)

Repeats(m) ==
  \E i, j \in DOMAIN m.functions :
    i # j /\ m.functions[i].qualified = m.functions[j].qualified /\ KindOf(m.functions[i]) = KindOf(m.functions[j])

---------------------------------------------------------------------------
(* Impact. *)

\* What is within a number of steps of the target, as a sequence of its own.
Further(g, S) ==
  S \cup {n \in DOMAIN g.node : \E i \in DOMAIN g.edges :
            LET ends == {g.edges[i].source, g.edges[i].target} IN n \in ends /\ ends \cap S # {}}
FurtherStep(g) == [S \in SUBSET DOMAIN g.node |-> Further(g, S)]
Near(g, roots, k) == Iterate(roots, FurtherStep(g), k)

Touch(g, x, y) ==
  \E e \in Range(g.edges) : (e.source = x /\ e.target = y) \/ (e.target = x /\ e.source = y)

Adjacencies(g) == Range(g.edges) \X DOMAIN g.node

\* What the search works on.
Entries(g) ==
  [node : DOMAIN g.node, depth : Nat, via : {"none"} \cup {e.type : e \in Range(g.edges)}, confidence : Int]
Searches(g) == [queue : Seq(Entries(g)), hits : Seq(Entries(g))]

IsKnown(state, roots, y) == y \in roots \/ \E h \in Range(state.hits) : h.node = y

HitOf(from, a) ==
  [node |-> a[2], depth |-> from.depth + 1, via |-> a[1].type,
   confidence |-> (from.confidence * a[1].confidence + 5000) \div 10000]

\* A neighbour that is followed is there already or is added at both ends.
Followed(state, from, a, roots, t) ==
  \/ t = state /\ (a[2] \in roots \/ \E x \in Range(state.hits) : x.node = a[2])
  \/ /\ t.queue = Append(state.queue, HitOf(from, a)) /\ t.hits = Append(state.hits, HitOf(from, a))
     /\ a[2] \notin roots
     /\ \A x \in Range(state.hits) : ~ (x.node = a[2] /\ x.depth <= from.depth + 1)

\* The neighbours are followed one after the other.
FollowedAll(state, from, g, roots, f) ==
  LET adjacent == Adjacent(g, from.node)
  IN /\ f \in [0..Len(adjacent) -> Searches(g)]
     /\ f[0] = state
     /\ \A i \in 1..Len(adjacent) : f[i] = Follow(f[i - 1], from, adjacent[i], g, roots)
     /\ FollowAll(state, from, g, roots) = f[Len(adjacent)]

\* An entry carries its distance.
Exact(g, roots, h) ==
  h.node \in Near(g, roots, h.depth) /\ \A k \in Nat : k < h.depth => h.node \notin Near(g, roots, k)

\* The search has worked off what is less than d steps away: what is as near as that is
\* known, the queue has d steps or one more, in this order, and only the neighbours of
\* those in the queue, or of the one that is being visited, can be missing.
LevelInv(g, roots, limit, state, d, visiting) ==
  /\ state \in Searches(g) /\ d \in 0..limit
  /\ \A i, j \in 1..Len(state.hits) : state.hits[i].node = state.hits[j].node => i = j
  /\ \A h \in Range(state.hits) :
       /\ Exact(g, roots, h) /\ 1 <= h.depth /\ h.depth <= d + 1 /\ h.depth <= limit
       /\ h.depth > d => h \in Range(state.queue)
  /\ \A h \in Range(state.queue) : Exact(g, roots, h) /\ h.depth \in {d, d + 1} /\ h.depth <= limit
  /\ \A i, j \in 1..Len(state.queue) : i <= j => state.queue[i].depth <= state.queue[j].depth
  /\ \A y \in Near(g, roots, d) : IsKnown(state, roots, y)
  /\ d < limit => \A x \in Near(g, roots, d) \ visiting :
       \/ \E h \in Range(state.queue) : h.node = x
       \/ \A y : Touch(g, x, y) => IsKnown(state, roots, y)

\* How many entries the queue has more than the hits.
Surplus(state) == Len(state.queue) - Len(state.hits)

KeepsLevel(g, roots, limit, d, x, s, y, t) ==
  /\ LevelInv(g, roots, limit, t, d, {x}) /\ IsKnown(t, roots, y)
  /\ \A z : IsKnown(s, roots, z) => IsKnown(t, roots, z)
  /\ Surplus(t) = Surplus(s)

Visiting(g, roots, limit, state, from, d) ==
  /\ from \in Entries(g) /\ from.depth = d /\ from.node \in Near(g, roots, d) /\ d < limit
  /\ LevelInv(g, roots, limit, state, d, {from.node})

\* The rounds of the search, one after the other.
Rounds(g, roots, limit, n, f) ==
  /\ f[0] = Start(roots)
  /\ \A k \in 1..n : f[k] = IF f[k - 1].queue = <<>> THEN f[k - 1] ELSE Visit(f[k - 1], limit, g, roots)
  /\ Hits(g, roots, limit) = f[n].hits

\* What the search finds: every node within the limit, once, and at its distance.
FoundNear(g, roots, limit, hits) ==
  /\ hits \in Seq(Entries(g))
  /\ \A i, j \in 1..Len(hits) : hits[i].node = hits[j].node => i = j
  /\ \A h \in Range(hits) : Exact(g, roots, h) /\ 1 <= h.depth /\ h.depth <= limit
  /\ \A y \in Near(g, roots, limit) : y \in roots \/ \E h \in Range(hits) : h.node = y

---------------------------------------------------------------------------
(* Places in an order, and sorting. *)

Irreflexive(R, S) == \A x \in S : <<x, x>> \notin R
TransitiveOn(R, S) == \A x, y, z \in S : <<x, y>> \in R /\ <<y, z>> \in R => <<x, z>> \in R
TotalOn(R, S) == \A x, y \in S : x = y \/ <<x, y>> \in R \/ <<y, x>> \in R

\* R orders S strictly, from first to last.
Orders(R, S) == R \subseteq S \X S /\ Irreflexive(R, S) /\ TransitiveOn(R, S) /\ TotalOn(R, S)

Places(R, S) == [x \in S |-> 1 + Cardinality({y \in S : <<y, x>> \in R})]

SortOrder(S, key) == {p \in S \X S : Before(key[p[1]], key[p[2]])}

\* Tuples of n numbers that tell the elements of S apart.
Keys(key, S, n) ==
  /\ \A x \in S : key[x] \in [1..n -> Int] /\ Len(key[x]) = n
  /\ \A x, y \in S : (\A i \in 1..n : key[x][i] = key[y][i]) => x = y

\* Sorting a finite set gives each of its elements once, and one before another if and
\* only if its key is.
SortsBy(s, S, key) ==
  /\ s \in [1..Cardinality(S) -> S] /\ Len(s) = Cardinality(S)
  /\ \A x \in S : \E i \in 1..Cardinality(S) : s[i] = x
  /\ \A i, j \in 1..Cardinality(S) : i < j <=> Before(key[s[i]], key[s[j]])

---------------------------------------------------------------------------
(* What a report shows. *)

\* The hits at the places of a sequence.
HitsAt(hits, order) == [k \in DOMAIN order |-> hits[order[k]]]

\* Of the hits at some places, those at items: one of each thing, and the nearest.
Represents(items, about, hits, thing) ==
  /\ items \subseteq about
  /\ \A i, j \in items : thing[hits[i].node] = thing[hits[j].node] => i = j
  /\ \A i \in about : \E j \in items : thing[hits[j].node] = thing[hits[i].node] /\ hits[j].depth <= hits[i].depth

\* The hits that a list is about, at their distances.
HitsAreAbout(hits, about, nodes, distance) ==
  /\ \A i \in about : hits[i].node \in nodes /\ hits[i].depth = distance[hits[i].node]
  /\ \A n \in nodes : \E i \in about : hits[i].node = n

AboutHits(g, list, root, hits) == {i \in DOMAIN hits : Listed(g, list, root, hits[i])}
AboutNodes(g, list, root, near, distance) ==
  {n \in near : Listed(g, list, root, [node |-> n, depth |-> distance[n]])}

---------------------------------------------------------------------------
(* The retrievers' ranks. *)

IsAhead(seeds, d, c) ==
  \/ Max(seeds[d]) > Max(seeds[c])
  \/ Max(seeds[d]) = Max(seeds[c]) /\ d < c
Ahead(seeds, D) == {p \in D \X D : IsAhead(seeds, p[1], p[2])}

Scored(seeds) ==
  /\ DOMAIN seeds \subseteq Nat /\ IsFiniteSet(DOMAIN seeds)
  /\ \A c \in DOMAIN seeds : seeds[c] \subseteq Nat /\ seeds[c] # {} /\ IsFiniteSet(seeds[c])

\* Ranks of what is in D, from 1 on, each once.
RanksOnce(rank, D) ==
  rank \in [D -> 1..Cardinality(D)] /\ \A n \in 1..Cardinality(D) : \E c \in D : rank[c] = n

\* What the retrievers give to the ranking.
AreRanked(index, candidates) ==
  /\ DOMAIN candidates = Retrievers
  /\ \A r \in Retrievers :
       DOMAIN candidates[r] \subseteq DOMAIN index.files /\ RanksOnce(candidates[r], DOMAIN candidates[r])

---------------------------------------------------------------------------
(* Sums of weights. *)

First(S) == CHOOSE x \in S : TRUE
AddUp(sum, weight, S) == IF S = {} THEN 0 ELSE weight[First(S)] + sum[S \ {First(S)}]

\* The total of all but the one that is taken first.
Rest(weight, S) == IF S = {} THEN 0 ELSE weight[First(S)] + Total(weight, S \ {First(S)})

Weighted(weight, S) == IsFiniteSet(S) /\ \A x \in S : weight[x] \in Nat

---------------------------------------------------------------------------
(* Fusion. *)

Products(k, limit, f) == f = [n \in 0..limit |-> IF n = 0 THEN 1 ELSE f[n - 1] * (k + n)]

Better(candidates, c, d) ==
  \A r \in Retrievers : d \in DOMAIN candidates[r] =>
    c \in DOMAIN candidates[r] /\ candidates[r][c] < candidates[r][d]

\* The first elements of a sequence, as many as there are or as are wanted.
IsList(seq, N, S) == seq \in [1..N -> S] /\ Len(seq) = N
Starts(part, seq, N) == \E m \in 0..N : DOMAIN part = 1..m /\ \A i \in 1..m : part[i] = seq[i]

---------------------------------------------------------------------------
(* Selection: blocks in their order, one after the other. *)

FileKeys(blocks, eligible) == [i \in eligible |-> StableKey(blocks[i], i, Again(blocks, eligible, i))]

---------------------------------------------------------------------------
(* A selection under way. *)

Reasons ==
  {"stale_index_version", "unsupported_support_type", "blocked_source", "source_not_in_current_index",
   "source_missing", "source_hash_changed", "range_invalid", "chunk_hash_changed",
   "evidence_limit_reached", "block_exceeds_token_budget", "token_budget_exceeded"}

SelectionStates(D) == [selected : SUBSET D, rejected : SUBSET (D \X Reasons), used : Nat]

Runs(blocks, order, start, policy, f) ==
  f = [n \in 0..Len(order) |-> IF n = 0 THEN start ELSE Admit(f[n - 1], order[n], blocks[order[n]], policy)]

Refuses(s, t, i, reason) ==
  t.selected = s.selected /\ t.used = s.used /\ t.rejected = s.rejected \cup {<<i, reason>>}

Takes(s, t, i, tokens) ==
  t.selected = s.selected \cup {i} /\ t.used = s.used + tokens /\ t.rejected = s.rejected

Admits(s, t, i, tokens, policy) ==
  \/ Cardinality(s.selected) >= policy.maxEvidence /\ Refuses(s, t, i, "evidence_limit_reached")
  \/ /\ Cardinality(s.selected) < policy.maxEvidence
     /\ \/ tokens > policy.budget /\ Refuses(s, t, i, "block_exceeds_token_budget")
        \/ tokens <= policy.budget /\ s.used + tokens > policy.budget /\ Refuses(s, t, i, "token_budget_exceeded")
        \/ tokens <= policy.budget /\ s.used + tokens <= policy.budget /\ Takes(s, t, i, tokens)

IsRun(f, blocks, order, N, start, policy, D) ==
  /\ f[0] = start /\ \A n \in 0..N : f[n] \in SelectionStates(D)
  /\ \A n \in 1..N : Admits(f[n - 1], f[n], order[n], blocks[order[n]].tokens, policy)

\* What a selection has shown and refused after the first n blocks, of those it starts with
\* refused and one reason given each.
FirstOf(order, n) == {order[k] : k \in 1..n}
RefusedRanks(rejected) == {x[1] : x \in rejected}
OneReason(rejected) == \A x, y \in rejected : x[1] = y[1] => x = y

AccountsFor(s, blocks, D, done, policy) ==
  LET tokens == [i \in D |-> blocks[i].tokens]
  IN /\ s.selected \subseteq D /\ s.rejected \subseteq D \X Reasons
     /\ s.selected \cup RefusedRanks(s.rejected) = done
     /\ s.selected \cap RefusedRanks(s.rejected) = {}
     /\ OneReason(s.rejected)
     /\ s.used = Total(tokens, s.selected) /\ s.used \in Nat /\ s.used <= policy.budget
     /\ Cardinality(s.selected) <= policy.maxEvidence
     /\ \A x \in s.rejected : x[2] = "token_budget_exceeded" => s.used + tokens[x[1]] > policy.budget

ImagesOf(g, S) == {g[x] : x \in S}

TokensOf(blocks, D) == [i \in D |-> blocks[i].tokens]
CountsTokens(f, N, tokens) == \A n \in 0..N : f[n].used = Total(tokens, f[n].selected)

UpTo(order, n, max) == IF n <= max THEN FirstOf(order, n) ELSE FirstOf(order, max)
TakesAll(f, order, N, max) == \A n \in 0..N : f[n].selected = UpTo(order, n, max)

\* The blocks that no other one of their file comes before.
New(blocks, E) == {i \in E : ~Again(blocks, E, i)}
FilesOf(blocks, S) == {blocks[i].file : i \in S}

---------------------------------------------------------------------------
(* What a selection begins with and what it ends with. *)

Eligible(blocks, sources, policy, stale) ==
  {i \in DOMAIN blocks : Faults(blocks, sources, policy, stale)[i] = "none"}

SelectionStart(blocks, sources, policy, stale) ==
  LET fault == Faults(blocks, sources, policy, stale)
  IN [selected |-> {}, rejected |-> {<<i, fault[i]>> : i \in DOMAIN blocks \ Eligible(blocks, sources, policy, stale)},
      used |-> 0]

Result(blocks, sources, policy, stale) ==
  AdmitAll(blocks, FilesFirst(blocks, Eligible(blocks, sources, policy, stale)),
           SelectionStart(blocks, sources, policy, stale), policy)

---------------------------------------------------------------------------
(* Views of the graph: what a traversal reaches. *)

AreLayers(f, edges, roots, direction, depth) ==
  /\ f[0] = roots /\ DOMAIN f = 0..depth
  /\ \A k \in 1..depth : f[k] = f[k - 1] \cup Step(edges, f[k - 1], direction)

\* A path of k steps that begins at a root and ends at n.
Walks(kept, roots, direction, k, n) ==
  \E path \in [0..k -> kept.nodes] :
    /\ path[0] \in roots /\ path[k] = n
    /\ \A i \in 1..k : path[i] \in Step(kept.edges, {path[i - 1]}, direction)

\* What is left of a view by the filters is a finite graph.
IsKept(kept) ==
  /\ IsFiniteSet(kept.nodes) /\ IsFiniteSet(kept.edges)
  /\ Ends(kept.edges) \subseteq kept.nodes

StepsTo(kept, request, n) == {k \in 0..request.depth : Walks(kept, request.roots, request.direction, k, n)}
Wanted(kept, request) == {n \in kept.nodes : request.roots = {} \/ StepsTo(kept, request, n) # {}}

TraversesTo(found, kept, request) ==
  /\ found.nodes = Wanted(kept, request)
  /\ found.edges = Between(kept.edges, found.nodes)
  /\ \A n \in found.nodes : /\ found.distance[n] \in Nat
                            /\ request.roots # {} => found.distance[n] = Min(StepsTo(kept, request, n))

PartLength(N, offset, size) ==
  IF N <= offset THEN 0 ELSE IF N - offset <= size THEN N - offset ELSE size
IsPart(part, seq, offset, L) == Len(part) = L /\ DOMAIN part = 1..L /\ \A i \in 1..L : part[i] = seq[offset + i]

\* Each of the nodes once, the nearer ones first.
NearestFirst(ordered, N, nodes, distance) ==
  /\ N \in Nat /\ IsList(ordered, N, nodes)
  /\ \A n \in nodes : \E i \in 1..N : ordered[i] = n
  /\ \A i, j \in 1..N : ordered[i] = ordered[j] => i = j
  /\ \A i, j \in 1..N : i < j => distance[ordered[i]] <= distance[ordered[j]]

\* A page that begins with the nearest nodes.
Fronts(nodes, all, N, distance) ==
  /\ nodes \in Seq(all) /\ Range(nodes) \subseteq all /\ N \in Nat /\ Len(nodes) \in 0..N
  /\ Len(nodes) = N <=> Range(nodes) = all
  /\ \A n \in Range(nodes), m \in all \ Range(nodes) : distance[n] <= distance[m]

---------------------------------------------------------------------------
(* Views of the graph: pages of neighbours and of seeds. *)

\* What the pages from each offset are: so many of the neighbours, and the next offset
\* behind them, if there are more.
PageAt(others, A, size, o) == {others[i] : i \in (o + 1)..(o + PartLength(A, o, size))}
NextAt(A, size, o) == IF o + PartLength(A, o, size) < A THEN o + PartLength(A, o, size) ELSE -1
ArePages(at, others, A, size, root) ==
  \A o \in 0..A : Range(at[o].nodes) \ {root} = PageAt(others, A, size, o) /\ at[o].expansion.next = NextAt(A, size, o)

Offsets(f, A, size) ==
  /\ f[0] = 0 /\ DOMAIN f = 0..(A + 1)
  /\ \A k \in 1..(A + 1) : f[k] = IF f[k - 1] = -1 THEN -1 ELSE NextAt(A, size, f[k - 1])

\* Every place is on a page of an offset so far, or behind them.
Covered(f, A, size, k) ==
  \A i \in 1..A : f[k] = -1 \/ i <= f[k] =>
    \E j \in 0..k : f[j] # -1 /\ i \in (f[j] + 1)..(f[j] + PartLength(A, f[j], size))

\* Earlier pages end before the offset.
Behind(f, A, size, k) ==
  f[k] # -1 => \A j \in 0..(k - 1) : f[j] \in 0..A /\ f[j] + PartLength(A, f[j], size) <= f[k]

FollowsNext(f, at, A) ==
  f = [k \in 0..(A + 1) |-> IF k = 0 THEN 0 ELSE IF f[k - 1] = -1 THEN -1 ELSE at[f[k - 1]].expansion.next]

\* Requests that differ in the offset.
AtOffset(request, o) == [OneStep(request) EXCEPT !.offset = o]
AsksAlike(r, request) ==
  /\ r.roots = request.roots /\ r.types = request.types /\ r.links = request.links
  /\ r.direction = request.direction /\ r.nodes = request.nodes
  /\ r.confidence = request.confidence /\ r.support = request.support

RootFirst(root, others, o, size) == <<root>> \o Slice(others, o, size)
IsPageOf(nodes, others, all, A, size, o, root) ==
  /\ Range(nodes) \ {root} = PageAt(others, A, size, o)
  /\ Range(nodes) \ {root} \subseteq all
  /\ Cardinality(Range(nodes) \ {root}) = PartLength(A, o, size) /\ PartLength(A, o, size) \in Nat
ListsOnce(others, A, all) == IsList(others, A, all) /\ \A i, j \in 1..A : others[i] = others[j] => i = j

\* How many of N are on the first k pages.
OnPages(N, size, k) == IF N <= k * size THEN N ELSE k * size

SeedPageAt(ranked, request, server, k) ==
  SeedPage(ranked, [request EXCEPT !.offset = k * SeedLimit(request, server)], server)
SeedPageFits(p, ranked, S, N, size, k) ==
  /\ size \in Nat \ {0} /\ IsPart(p.seeds, ranked, k * size, PartLength(N, k * size, size))
  /\ p.seeds \in Seq(S) /\ p.additional = N - OnPages(N, size, k + 1)

\* Reading page after page.
ReadsPages(f, ranked, N, size, request, server) ==
  f = [k \in 0..(N + 1) |->
         IF k = 0 THEN <<>>
         ELSE f[k - 1] \o SeedPage(ranked, [request EXCEPT !.offset = (k - 1) * size], server).seeds]

ListsAll(s, S) == IsList(s, Cardinality(S), S) /\ Cardinality(S) \in Nat

\* A list of each of E once, V before the others.
FavouredFirst(order, N, E, V) ==
  /\ N \in Nat /\ IsList(order, N, E) /\ FirstOf(order, N) = E
  /\ \A j, k \in 1..N : order[j] = order[k] => j = k
  /\ Cardinality(V) \in 0..N /\ FirstOf(order, Cardinality(V)) = V

RegionsOf(g, ranked, I) == {g.node[ranked[i]].region : i \in I}
RegionAgain(g, ranked, i) == \E j \in 1..(i - 1) : g.node[ranked[j]].region = g.node[ranked[i]].region
NewRegions(g, ranked, N) == {i \in 1..N : ~RegionAgain(g, ranked, i)}

---------------------------------------------------------------------------
(* The algorithms on the inputs that they are given. *)

\* What is given so far is from the families of the algorithm, in their order, and of the
\* transactions each is under way.
GivenInv ==
  /\ algorithm \in DOMAIN Families \cup {"lock"}
  /\ given \in Seq(Range(given))
  /\ \A i \in 1..Len(given) :
       IF algorithm = "lock" THEN UnderWay(given[i]) ELSE given[i] \in Families[algorithm][i]
  /\ algorithm # "lock" => Len(given) <= Len(Families[algorithm])

=============================================================================
