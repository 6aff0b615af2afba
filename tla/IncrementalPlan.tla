-------------------------- MODULE IncrementalPlan --------------------------
(***************************************************************************)
(* The affected-set planner (incremental_planner.py) and the comparison of *)
(* a full and an incremental build (equivalence_service.py).  A snapshot   *)
(* maps file keys to fingerprints; a dependency <<f, g>> says that f uses  *)
(* g.  The planner is given the dependencies of both snapshots.            *)
(***************************************************************************)
EXTENDS Integers, FiniteSets, FiniteSetsExt

NoFile == "none"

\* A snapshot has finitely many files, each with its five fingerprints.
IsSnapshot(s) ==
  /\ IsFiniteSet(DOMAIN s) /\ NoFile \notin DOMAIN s
  /\ \A f \in DOMAIN s :
       s[f] = [content |-> s[f].content, documentation |-> s[f].documentation,
               structure |-> s[f].structure, public_api |-> s[f].public_api,
               dependency |-> s[f].dependency]

\* _changed_dimensions: `content` only when nothing finer changed.
ChangedDimensions(before, after) ==
  LET finer == {d \in {"documentation", "structure", "public_api", "dependency"} :
                  before[d] # after[d]}
  IN IF finer = {} /\ before.content # after.content THEN {"content"} ELSE finer

---------------------------------------------------------------------------
(* _classify *)

Deleted(previous, current) == DOMAIN previous \ DOMAIN current
Added(previous, current)   == DOMAIN current \ DOMAIN previous

DeletedAs(previous, current, digest) ==
  {f \in Deleted(previous, current) : previous[f].content = digest}
AddedAs(previous, current, digest) ==
  {f \in Added(previous, current) : current[f].content = digest}

Moves(previous, current) ==
  {m \in Deleted(previous, current) \X Added(previous, current) :
     LET digest == previous[m[1]].content
     IN /\ DeletedAs(previous, current, digest) = {m[1]}
        /\ AddedAs(previous, current, digest) = {m[2]}}

AmbiguousMove(previous, current) ==
  \E f \in Deleted(previous, current), g \in Added(previous, current) :
    previous[f].content = current[g].content /\ <<f, g>> \notin Moves(previous, current)

\* Every change as its previous and its current key and its kinds.
Changes(previous, current) ==
  LET moves == Moves(previous, current)
  IN {[old |-> f, new |-> f, kinds |-> ChangedDimensions(previous[f], current[f])] :
        f \in {f \in DOMAIN previous \cap DOMAIN current :
                 ChangedDimensions(previous[f], current[f]) # {}}}
     \cup {[old |-> m[1], new |-> m[2], kinds |-> {"moved"}] : m \in moves}
     \cup {[old |-> NoFile, new |-> f, kinds |-> {"added"}] :
             f \in Added(previous, current) \ {m[2] : m \in moves}}
     \cup {[old |-> f, new |-> NoFile, kinds |-> {"deleted"}] :
             f \in Deleted(previous, current) \ {m[1] : m \in moves}}

---------------------------------------------------------------------------
(* plan *)

\* Mutant of Frontier: the dependents of what is gone are not looked for.
FrontierOfCurrent(changes) == {c.new : c \in changes} \ {NoFile}

\* The search starts from both identities of every change.
Frontier(changes) == (UNION {{c.old, c.new} : c \in changes}) \ {NoFile}

ChangedCurrent(changes) == {c.new : c \in changes} \ {NoFile}

Dependents(files, dependencies) == {d[1] : d \in {d \in dependencies : d[2] \in files}}

\* What is affected within n steps; deleted files are not passed through again.
Affected(changes, current, dependencies, n) ==
  LET within[k \in 0..n] ==
        IF k = 0 THEN ChangedCurrent(changes)
        ELSE LET before == within[k - 1]
             IN before \cup (Dependents(before \cup Frontier(changes), dependencies) \cap DOMAIN current)
  IN within[n]

FullPlan(previous, current, reason) ==
  [mode |-> "full", reasons |-> {reason}, rebuild |-> DOMAIN current, reuse |-> {},
   deleted |-> Deleted(previous, current)]

GraphInvalid(previous, current, dependencies) ==
  \E d \in dependencies : ~({d[1], d[2]} \subseteq DOMAIN previous \cup DOMAIN current)

\* limits = [files, depth, fraction], the fraction as <<numerator, denominator>>.
\* The search adds what lies within the depth limit before it looks further,
\* and tests the number of files each time it adds one.
Plan(previous, current, sameComponents, dependencies, limits) ==
  LET changes  == Changes(previous, current)
      changed  == ChangedCurrent(changes)
      within   == Affected(changes, current, dependencies, limits.depth)
      deeper   == Affected(changes, current, dependencies, limits.depth + 1) # within
      tooMany  == Cardinality(within) > limits.files
      full(reason) == FullPlan(previous, current, reason)
  IN IF ~sameComponents THEN full("component_incompatible")
     ELSE IF AmbiguousMove(previous, current) THEN full("ambiguous_move")
     ELSE IF GraphInvalid(previous, current, dependencies) THEN full("dependency_graph_invalid")
     ELSE IF tooMany /\ within # changed THEN full("affected_file_limit")
     ELSE IF deeper THEN full("dependency_depth_limit")
     ELSE IF tooMany THEN full("affected_file_limit")
     ELSE IF Cardinality(within) * limits.fraction[2]
               > limits.fraction[1] * Max({1, Cardinality(DOMAIN current)})
          THEN full("affected_fraction_limit")
     ELSE [mode |-> "incremental", reasons |-> {}, rebuild |-> within,
           reuse |-> DOMAIN current \ within, deleted |-> Deleted(previous, current)]

---------------------------------------------------------------------------
(* compare: one family of canonical entries, key -> digest. *)

Mismatches(full, incremental) ==
  {k \in DOMAIN full \cup DOMAIN incremental :
     \/ k \notin DOMAIN full
     \/ k \notin DOMAIN incremental
     \/ full[k] # incremental[k]}

MismatchKind(full, incremental, k) ==
  IF k \notin DOMAIN full THEN "missing_from_full"
  ELSE IF k \notin DOMAIN incremental THEN "missing_from_incremental" ELSE "digest_mismatch"

\* full and incremental map each family to its entries.
Compare(full, incremental, maxDiagnostics) ==
  LET total == FoldSet(LAMBDA f, n : n + Cardinality(Mismatches(full[f], incremental[f])),
                       0, DOMAIN full)
  IN [equivalent |-> total = 0,
      compared   |-> FoldSet(LAMBDA f, n :
                        n + Cardinality(DOMAIN full[f] \cap DOMAIN incremental[f]), 0, DOMAIN full),
      total      |-> total,
      reported   |-> Min({total, maxDiagnostics}),
      truncated  |-> total > maxDiagnostics]

---------------------------------------------------------------------------
(* What planner and comparison promise together, about a builder that makes *)
(* of a file what the file and everything it uses determine.               *)

DependenciesOf(snapshot) ==
  {d \in (DOMAIN snapshot) \X (DOMAIN snapshot) : d[1] # d[2] /\ d[2] \in snapshot[d[1]].dependency}

Uses(f, snapshot) ==
  LET within[n \in 0..Cardinality(DOMAIN snapshot)] ==
        IF n = 0 THEN {f}
        ELSE LET before == within[n - 1]
             IN before \cup {d[2] : d \in {d \in DependenciesOf(snapshot) : d[1] \in before}}
  IN within[Cardinality(DOMAIN snapshot)]

Build(snapshot) == [f \in DOMAIN snapshot |-> {<<g, snapshot[g]>> : g \in Uses(f, snapshot)}]

BuildByPlan(plan, previous, current) ==
  [f \in plan.rebuild \cup plan.reuse |->
     IF f \in plan.reuse THEN Build(previous)[f] ELSE Build(current)[f]]

PlanOf(previous, current, limits) ==
  Plan(previous, current, TRUE, DependenciesOf(previous) \cup DependenciesOf(current), limits)

\* A build that follows the plan produces what a full build would, entry for
\* entry, whatever was edited, added, deleted or moved between the snapshots and
\* however dependencies chain or cycle (IncrementalPlanner.plan; compare).
IncrementalEqualsFull(previous, current, limits) ==
  LET plan == PlanOf(previous, current, limits)
  IN plan.mode = "incremental" =>
       Compare([facts |-> Build(current)],
               [facts |-> BuildByPlan(plan, previous, current)], 1).equivalent
=============================================================================
