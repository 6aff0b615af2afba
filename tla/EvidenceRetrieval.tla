------------------------- MODULE EvidenceRetrieval -------------------------
(***************************************************************************)
(* How a question becomes evidence: the retrievers' rankings               *)
(* (retrievers.py), their fusion by reciprocal rank (ranking.py) and the   *)
(* selection of whole blocks under a token budget (selection.py).  A chunk *)
(* is a number, in the order of its identifier.                            *)
(*                                                                         *)
(* index: files (chunk -> path), kinds (chunk -> chunk type), edges        *)
(* between paths.  found: retriever -> chunk -> its seed scores, as a set; *)
(* named: the seeds <<retriever, chunk, score>> whose title or path the    *)
(* question spells out.  How a text is scored is left out: any positive    *)
(* score may come of it.                                                   *)
(***************************************************************************)
EXTENDS FiniteSets, Ordering

Retrievers == {"exact", "lexical", "symbol", "endpoint", "metadata", "graph", "semantic"}

SupportOf(retriever) ==
  CASE retriever = "semantic" -> 2   \* heuristic
    [] retriever = "graph"    -> 1   \* static_resolved
    [] OTHER                  -> 0   \* source_exact

\* The named seeds of three retrievers, again, under a name of their own.
ExactSeeds(found, named) ==
  LET seeds == {n \in named : /\ n[1] \in {"symbol", "endpoint", "metadata"}
                              /\ n[2] \in DOMAIN found[n[1]] /\ n[3] \in found[n[1]][n[2]]}
  IN [c \in {n[2] : n \in seeds} |-> {n[3] : n \in {m \in seeds : m[2] = c}}]

\* BaseRetriever.retrieve: seeds by descending score, the first one of a chunk
\* kept; ties go by chunk identifier.
RankIn(seeds) ==
  LET before(d, c) == \/ Max(seeds[d]) > Max(seeds[c])
                      \/ Max(seeds[d]) = Max(seeds[c]) /\ d < c
  IN [c \in DOMAIN seeds |-> 1 + Cardinality({d \in DOMAIN seeds : before(d, c)})]

RetrieverRanks(found, named) ==
  [r \in Retrievers |->
     RankIn(IF r = "exact" THEN ExactSeeds(found, named) ELSE found[r])]

Retrieved(ranks) == UNION {DOMAIN ranks[r] : r \in Retrievers}

\* related_candidates: chunks of files one edge away from a file that matched,
\* of the kinds worth showing, unless they were retrieved.
Related(index, ranks) ==
  LET matched == {index.files[c] : c \in Retrieved(ranks)}
      files   == {e[2] : e \in {e \in index.edges : e[1] \in matched}}
                 \cup {e[1] : e \in {e \in index.edges : e[2] \in matched}}
  IN {c \in DOMAIN index.files :
        /\ index.files[c] \in files
        /\ c \notin Retrieved(ranks)
        /\ index.kinds[c] \in {"function", "method", "endpoint", "api_call", "file_summary"}}

\* Mutant of RelatedOffset: the context starts at rank one again.
RelatedFromOne(ranks) == 0

\* The graph's own candidates come before their context.
RelatedOffset(ranks) == Cardinality(DOMAIN ranks["graph"])

\* retrieve_candidates: chunk -> rank, for every retriever.
Candidates(index, found, named) ==
  LET ranks   == RetrieverRanks(found, named)
      related == Related(index, ranks)
      graph   == [c \in DOMAIN ranks["graph"] \cup related |->
                    IF c \in related
                    THEN RelatedOffset(ranks) + Cardinality({d \in related : d <= c})
                    ELSE ranks["graph"][c]]
  IN [ranks EXCEPT !["graph"] = graph]

---------------------------------------------------------------------------
(* rank and _fuse_group: candidates of one chunk are one group.  policy:   *)
(* enabled (retriever -> BOOLEAN), limit (candidate_limit), support        *)
(* (allowed_support_types), k (rrf_k), final (final_limit).  Weights are   *)
(* one, as in the default configuration.                                   *)

Voters(candidates, policy, c) ==
  {r \in Retrievers : /\ c \in DOMAIN candidates[r]
                      /\ policy.enabled[r]
                      /\ candidates[r][c] <= policy.limit
                      /\ SupportOf(r) \in policy.support}

\* A common multiple of the denominators k + 1 .. k + limit makes scores integers.
Scale(k, limit) ==
  LET product[n \in 0..limit] == IF n = 0 THEN 1 ELSE product[n - 1] * (k + n)
  IN product[limit]

Total(weight, S) == MapThenSumSet(LAMBDA x : weight[x], S)

Score(candidates, policy, c) ==
  [r \in Voters(candidates, policy, c) |->
     Scale(policy.k, policy.limit) \div (policy.k + candidates[r][c])]
Fused(candidates, policy, c) == Total(Score(candidates, policy, c), Voters(candidates, policy, c))

Support(candidates, policy, c) == Min({SupportOf(r) : r \in Voters(candidates, policy, c)})

BestRank(candidates, policy, c) == Min({candidates[r][c] : r \in Voters(candidates, policy, c)})

Fusable(candidates, policy) == {c \in Retrieved(candidates) : Voters(candidates, policy, c) # {}}

FusionKey(candidates, policy) ==
  [c \in Fusable(candidates, policy) |->
     <<-Fused(candidates, policy, c), Support(candidates, policy, c), BestRank(candidates, policy, c), c>>]

Ranking(candidates, policy, limit) ==
  Slice(SortedBy(Fusable(candidates, policy), FusionKey(candidates, policy)), 0, Min({limit, policy.final}))

---------------------------------------------------------------------------
(* select: blocks is a function from ranks to records [file, coverage,     *)
(* named, support, tokens, last, intact]: `last` is the last line,         *)
(* `intact` that the stored hash is that of the stored text.  sources:     *)
(* file -> [blocked, indexed, disk, lines]: the content the index knows    *)
(* and the one on disk, or Absent, and the lines there are now.            *)

Absent == "absent"

\* _validate_candidate: the first reason to refuse a block.
Fault(block, sources, policy) ==
  LET s == sources[block.file]
  IN IF block.support \notin policy.support THEN "unsupported_support_type"
     ELSE IF s.blocked THEN "blocked_source"
     ELSE IF s.indexed = Absent THEN "source_not_in_current_index"
     ELSE IF s.disk = Absent THEN "source_missing"
     ELSE IF s.disk # s.indexed THEN "source_hash_changed"
     ELSE IF block.last > s.lines THEN "range_invalid"
     ELSE IF ~block.intact THEN "chunk_hash_changed"
     ELSE "none"

\* _stable_order, of the blocks that follow in a second round after the others.
StableKey(block, i, second) ==
  <<IF second THEN 1 ELSE 0, IF block.coverage THEN 0 ELSE 1, IF block.named THEN 0 ELSE 1, block.support, i>>

\* A block follows when one of the same file comes first.
Again(blocks, eligible, i) ==
  \E j \in eligible : /\ blocks[j].file = blocks[i].file
                       /\ Before(StableKey(blocks[j], j, FALSE), StableKey(blocks[i], i, FALSE))

\* One block of every file before a second block of any.
FilesFirst(blocks, eligible) ==
  SortedBy(eligible, [i \in eligible |-> StableKey(blocks[i], i, Again(blocks, eligible, i))])

\* The block at rank i is taken or refused.
Admit(state, i, block, policy) ==
  LET refuse(reason) == [state EXCEPT !.rejected = @ \cup {<<i, reason>>}]
  IN IF Cardinality(state.selected) >= policy.maxEvidence THEN refuse("evidence_limit_reached")
     ELSE IF block.tokens > policy.budget THEN refuse("block_exceeds_token_budget")
     ELSE IF state.used + block.tokens > policy.budget THEN refuse("token_budget_exceeded")
     ELSE [state EXCEPT !.selected = @ \cup {i}, !.used = @ + block.tokens]

AdmitAll(blocks, order, start, policy) ==
  LET after[n \in 0..Len(order)] == IF n = 0 THEN start ELSE Admit(after[n - 1], order[n], blocks[order[n]], policy)
  IN after[Len(order)]

\* stale: the request names another index version than the repository serves.
Faults(blocks, sources, policy, stale) ==
  [i \in DOMAIN blocks |-> IF stale THEN "stale_index_version" ELSE Fault(blocks[i], sources, policy)]

\* required: how many blocks the kind of question needs.
Select(blocks, sources, policy, stale, required) ==
  LET fault    == Faults(blocks, sources, policy, stale)
      eligible == {i \in DOMAIN blocks : fault[i] = "none"}
      faulty   == {<<i, fault[i]>> : i \in DOMAIN blocks \ eligible}
      result   == AdmitAll(blocks, FilesFirst(blocks, eligible),
                           [selected |-> {}, rejected |-> faulty, used |-> 0], policy)
      status   == IF Cardinality(result.selected) < required THEN "insufficient"
                  ELSE IF result.rejected # {} THEN "limited" ELSE "ready"
  IN [selected |-> result.selected, rejected |-> result.rejected,
      used |-> result.used, status |-> status]

---------------------------------------------------------------------------
(* Properties, for every question and every answer of the retrievers.      *)

\* What an index is and what retrievers find in it: finitely many chunks, with scores.
IsFound(index, found) ==
  /\ DOMAIN index.files \subseteq Nat /\ IsFiniteSet(DOMAIN index.files)
  /\ \A r \in Retrievers :
       /\ DOMAIN found[r] \subseteq DOMAIN index.files
       /\ \A c \in DOMAIN found[r] :
            found[r][c] \subseteq Nat /\ found[r][c] # {} /\ IsFiniteSet(found[r][c])

IsRankingPolicy(policy) == policy.k \in Nat /\ policy.limit \in Nat /\ policy.final \in Nat

\* What ranking gives to the selection, and the limits of the selection.
IsRanked(blocks) ==
  /\ DOMAIN blocks \subseteq Nat /\ IsFiniteSet(DOMAIN blocks)
  /\ \A i \in DOMAIN blocks : blocks[i].support \in Nat /\ blocks[i].tokens \in Nat

IsSelectionPolicy(policy) == policy.budget \in Nat /\ policy.maxEvidence \in Nat

\* No retriever gives two chunks one rank, so none has two first places in the
\* fusion; the graph's candidates come from two methods that rank separately
\* (GraphRetriever.retrieve and related_candidates).
EachRetrieverRanksOnce(candidates) ==
  \A r \in Retrievers :
    {candidates[r][c] : c \in DOMAIN candidates[r]} = 1..Cardinality(DOMAIN candidates[r])

\* A chunk that every retriever of another chunk found and ranked higher stays
\* ahead of it after fusion, limits and filters (ReciprocalRankRanker.rank).
FusionRespectsDominance(candidates, policy, limit) ==
  LET ranking == Ranking(candidates, policy, limit)
      Dominates(c, d) ==
        \A r \in Retrievers : d \in DOMAIN candidates[r] =>
          c \in DOMAIN candidates[r] /\ candidates[r][c] < candidates[r][d]
  IN \A i \in DOMAIN ranking : \A c \in Retrieved(candidates) :
       Dominates(c, ranking[i]) => \E j \in 1..(i - 1) : ranking[j] = c

BudgetIsUsed(s, blocks, eligible, policy) ==
  LET tokens == [i \in DOMAIN blocks |-> blocks[i].tokens]
  IN /\ s.used <= policy.budget /\ Cardinality(s.selected) <= policy.maxEvidence
     /\ s.used = Total(tokens, s.selected)
     /\ s.selected \cup {x[1] : x \in s.rejected} = DOMAIN blocks
     /\ Cardinality(s.selected) + Cardinality(s.rejected) = Cardinality(DOMAIN blocks)
     /\ \A x \in s.rejected : x[2] = "token_budget_exceeded" => s.used + tokens[x[1]] > policy.budget
     /\ policy.budget >= Total(tokens, DOMAIN blocks) =>
          Cardinality({blocks[i].file : i \in s.selected}) =
            Min({policy.maxEvidence, Cardinality({blocks[i].file : i \in eligible})})

\* Selection keeps its budget, accounts for every block once, leaves out none
\* that would still fit, and when tokens are no limit shows as many files as
\* the number of blocks allows (EvidenceSelector.select).
SelectionUsesItsBudget(blocks, sources, policy, stale, required) ==
  BudgetIsUsed(Select(blocks, sources, policy, stale, required), blocks,
               {i \in DOMAIN blocks : ~stale /\ Fault(blocks[i], sources, policy) = "none"}, policy)

\* What is selected of a file is what the index and the disk agree on: once the file
\* changes, is blocked or goes, nothing of it is evidence, and the other files give as
\* much as if it had never been found (EvidenceSelector._validate_candidate).
StaleSourceIsNoLoss(blocks, sources, policy, required) ==
  LET fresh == {i \in DOMAIN blocks :
                  LET s == sources[blocks[i].file]
                  IN ~s.blocked /\ s.disk = s.indexed /\ s.disk # Absent}
      taken(s) == <<s.selected, s.used>>
  IN taken(Select(blocks, sources, policy, FALSE, required)) =
       taken(Select(Restrict(blocks, fresh), sources, policy, FALSE, required))
=============================================================================
