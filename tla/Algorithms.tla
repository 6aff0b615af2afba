----------------------------- MODULE Algorithms -----------------------------
(***************************************************************************)
(* The pure algorithms that are proved as well as checked.  A run picks an *)
(* algorithm and gives it its inputs one after the other, each from the    *)
(* family it is chosen from; the invariants judge what the algorithm makes *)
(* of the complete input.  The families are any that the program can give. *)
(***************************************************************************)
EXTENDS IncrementalPlan, CapabilityReadiness, LockOrders, LegacyUpgrade, CodeGraph, ImpactAnalysis,
        EvidenceRetrieval, DenseIndex, GraphViews

CONSTANTS
  Families, \* algorithm -> the sets its inputs are from, one after the other
  MaxOpen   \* transactions that overlap

VARIABLES algorithm, given
vars == <<algorithm, given>>

---------------------------------------------------------------------------
(* upgrade: what the local profile leaves in its database after any events *)
(* in each repository: an index run that ends well, fails or is            *)
(* interrupted by a stop, and a question.                                  *)

LocalEvents == {"indexed", "failed", "left", "asked"}
Unused == [current |-> 0, jobs |-> <<>>, evidence |-> {}]

\* A new job finds an interrupted one and retires it first.
LocalStep(local, event) ==
  LET next   == local.current + 1
      retired == [i \in DOMAIN local.jobs |->
                    IF local.jobs[i].status = "running" THEN [local.jobs[i] EXCEPT !.status = "failed"] ELSE local.jobs[i]]
      run(status) == Append(retired, [version |-> next, status |-> status])
  IN CASE event = "indexed" -> [local EXCEPT !.current = next, !.jobs = run("completed")]
       [] event = "failed"  -> [local EXCEPT !.jobs = run("failed")]
       [] event = "left"    -> [local EXCEPT !.jobs = run("running")]
       [] event = "asked"   -> IF local.current = 0 THEN local
                               ELSE [local EXCEPT !.evidence = @ \cup {local.current}]
After(events) ==
  LET after[n \in 0..Len(events)] == IF n = 0 THEN Unused ELSE LocalStep(after[n - 1], events[n])
  IN after[Len(events)]

LegacyDatabase(history) ==
  LET repos      == DOMAIN history
      local      == [r \in repos |-> After(history[r])]
      indexed    == {r \in repos : local[r].current > 0}
      use(r, f)  == [repository |-> r, version |-> local[r].current, file |-> f, name |-> "f"]
      node(r, n, f) == [repository |-> r, version |-> local[r].current, id |-> n, file |-> f]
      edge(r)    == [repository |-> r, version |-> local[r].current, source |-> "m", target |-> "n"]
      answer(r, v) == [repository |-> r, version |-> v, file |-> "b"]
      job(r, i)  == [id |-> <<r, i>>, repository |-> r, version |-> local[r].jobs[i].version,
                     status |-> local[r].jobs[i].status]
  IN [current |-> [r \in repos |-> local[r].current],
      files |-> {[repository |-> r, version |-> local[r].current, file |-> f] : f \in {"a", "b"}, r \in indexed},
      observations |-> {use(r, f) : f \in {"a", "b"}, r \in indexed},
      nodes |-> {node(r, "m", "a") : r \in indexed} \cup {node(r, "n", "none") : r \in indexed},
      edges |-> {edge(r) : r \in indexed},
      evidence |-> UNION {{answer(r, v) : v \in local[r].evidence} : r \in repos},
      jobs |-> UNION {{job(r, i) : i \in DOMAIN local[r].jobs} : r \in repos}]

---------------------------------------------------------------------------
(* The inputs. *)

\* Snapshots of finitely many files, specs of finitely many capabilities, parsed
\* repositories, finite closed graphs, finitely many chunks and blocks and sequences of
\* events are what the program hands to the algorithms.
FamiliesAssumption ==
  /\ \A name \in DOMAIN Families : Len(Families[name]) \in Nat
  /\ MaxOpen \in Nat
  /\ "plan" \in DOMAIN Families =>
       /\ Len(Families["plan"]) = 3
       /\ \A s \in Families["plan"][1] \cup Families["plan"][2] : IsSnapshot(s)
       /\ \A limits \in Families["plan"][3] : limits.depth \in Nat
  /\ "ready" \in DOMAIN Families =>
       /\ Len(Families["ready"]) = 3
       /\ \A specs \in Families["ready"][1] : IsFiniteSet(DOMAIN specs)
  /\ "impact" \in DOMAIN Families =>
       /\ Len(Families["impact"]) = 4
       /\ \A g \in Families["impact"][1] : IsGraph(g)
       /\ Families["impact"][3] \subseteq Int
       /\ Families["impact"][4] \subseteq [Lists -> Nat]
  /\ "code" \in DOMAIN Families =>
       /\ Len(Families["code"]) = 1
       /\ \A repository \in Families["code"][1] : IsRepository(repository) /\ IsParsed(repository)
  /\ "rank" \in DOMAIN Families =>
       /\ Len(Families["rank"]) = 5
       /\ \A index \in Families["rank"][1], found \in Families["rank"][2] : IsFound(index, found)
       /\ \A policy \in Families["rank"][4] : IsRankingPolicy(policy)
       /\ Families["rank"][5] \subseteq Nat
  /\ "select" \in DOMAIN Families =>
       /\ Len(Families["select"]) = 4
       /\ \A blocks \in Families["select"][1] : IsRanked(blocks)
       /\ \A policy \in Families["select"][2] : IsSelectionPolicy(policy)
       /\ \A request \in Families["select"][4] : request.stale \in BOOLEAN
  /\ "dense" \in DOMAIN Families =>
       /\ Len(Families["dense"]) = 5
       /\ \A chunks \in Families["dense"][1] : IsChunks(chunks)
       /\ Families["dense"][4] \subseteq Nat \ {0}
  /\ \A name \in {"view", "page", "seed", "order"} \cap DOMAIN Families :
       /\ Len(Families[name]) = 3
       /\ \A server \in Families[name][1] : IsServer(server)
       /\ \A x \in Families[name][2] :
            IF name = "view" THEN x.kind \in ViewKinds /\ IsViewGraph(x.graph) ELSE IsViewGraph(x)
       /\ \A request \in Families[name][3] : IsViewRequest(request)
  /\ "upgrade" \in DOMAIN Families =>
       /\ Len(Families["upgrade"]) > 0
       /\ \A r \in 1..Len(Families["upgrade"]) : Families["upgrade"][r] \subseteq Seq(LocalEvents)

ASSUME FamiliesAssumption

\* A transaction that joins those that overlap holds no row that one of them holds.
Joining(open) ==
  LET opens == UNION {{[of |-> t, holds |-> n] : n \in 1..(Len(t.rows) - 1)} : t \in Transactions}
  IN {o \in opens : o \notin Range(open) /\ Compatible(Range(open) \cup {o})}

Inputs == IF algorithm = "lock" THEN [i \in 1..MaxOpen |-> Joining(given)] ELSE Families[algorithm]

Init == algorithm \in DOMAIN Families \cup {"lock"} /\ given = <<>>

Give ==
  /\ Len(given) < Len(Inputs)
  /\ \E x \in Inputs[Len(given) + 1] : given' = Append(given, x)
  /\ UNCHANGED algorithm

Next == Give
Spec == Init /\ [][Next]_vars

Complete(name) == algorithm = name /\ Len(given) = Len(Inputs)

---------------------------------------------------------------------------
(* Properties. *)

\* A build that follows the plan equals a full one (IncrementalPlanner.plan, compare).
PlansAreEquivalent == Complete("plan") => IncrementalEqualsFull(given[1], given[2], given[3])

\* Capabilities are no better than what they rest on, and the validator agrees
\* with the report (CapabilityReadinessCalculator, CandidateValidator).
ReadinessIsSound ==
  /\ algorithm = "ready" /\ Len(given) = 1 => AcceptedIsOrderable(given[1])
  /\ Complete("ready") /\ Accepted(given[1]) =>
       /\ NoBetterThanItsGround(given[1], given[2])
       /\ ReportMatchesValidator(given[1], given[2], given[3][1], given[3][2])

\* Impact is distance in the graph, and a report that is full leaves out what is farthest
\* (analyze, _traverse, _risk_score).
ImpactIsDistance ==
  Complete("impact") =>
    ReportIsDistance(given[1], given[2][1], given[2][2], given[3], given[4])

\* Retrieval is fair to every file and retriever, selection to its budget, and
\* the dense index is that of the present chunks (retrieve_candidates,
\* ReciprocalRankRanker.rank, EvidenceSelector.select, DenseIndexLoader.load).
EvidenceIsFair ==
  /\ Complete("rank") =>
       LET candidates == Candidates(given[1], given[2], given[3])
       IN EachRetrieverRanksOnce(candidates) /\ FusionRespectsDominance(candidates, given[4], given[5])
  /\ Complete("select") =>
       /\ SelectionUsesItsBudget(given[1], given[3], given[2], given[4].stale, given[4].required)
       /\ StaleSourceIsNoLoss(given[1], given[3], given[2], given[4].required)
  /\ Complete("dense") =>
       LoadedIsCurrent(BuildDense(1, given[1], given[4], given[2]), given[5].version, given[5].model,
                       given[3], given[2], Batches(given[1], given[4]))

\* The graph of a repository is closed and has every resolved reference
\* (PythonReferenceResolver, CPGEmitter.apply, GraphService.build_graph), and the copy of
\* a local database is closed and keeps its index (migrate_supported_legacy_sqlite).
RecordsAreWhole ==
  /\ Complete("code") =>
       NothingDangles(given[1]) /\ ResolvedReferencesAreDrawn(given[1])
  /\ Complete("upgrade") =>
       LET db == LegacyDatabase(given)
       IN UpgradeIsWhole(db) /\ UpgradeKeepsIndex(db) /\ OnlyOldEvidenceRefuses(db)

\* A projection shows what it says, pages lead to every neighbour and to every seed, and
\* seeds span the regions of a repository (_project, _expansion_metadata, get_seeds).
ViewsAreHonest ==
  /\ Complete("view") =>
       LET subject == given[2]
           view    == View(subject.kind, subject.graph, subject.focus, given[3])
       IN ProjectionIsHonest(subject.graph, view, given[3], given[1])
  /\ Complete("page") => PagesCoverNeighbours(given[2], Everything(given[2]), given[3], given[1])
  /\ Complete("order") =>
       \A ranked \in Rankings(given[2], given[3]) : SeedPagesPartition(ranked, given[3], given[1])
  /\ Complete("seed") => SeedsSpanRegions(given[2], Everything(given[2]), given[3], given[1])

\* Only an activation or a save closes a circle of waiting transactions
\* (JobStateStore, ProductionRepositoryStore).
OnlyActivationDeadlocks ==
  algorithm = "lock" => CirclesNeedActivation(Range(given))
=============================================================================
