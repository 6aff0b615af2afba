------------------------ MODULE CapabilityReadiness ------------------------
(***************************************************************************)
(* What each capability of a candidate is fit for (capability_readiness.py)*)
(* and what the validator makes of the report.                             *)
(*                                                                         *)
(* specs: capability -> [mandatory, needs, uses, provider], uses being its *)
(* dependencies.  evidence: capability -> [artifacts, total, successful,   *)
(* unresolved, critical, stale, supported, provided], artifacts being the  *)
(* states of those types there is evidence of.                             *)
(***************************************************************************)
EXTENDS Integers, FiniteSets, Functions, CandidateValidation

\* _base_state
OwnState(spec, item) ==
  LET states == {IF t \in DOMAIN item.artifacts THEN item.artifacts[t] ELSE "missing" : t \in spec.needs}
  IN IF item.stale \/ "stale" \in states THEN "stale"
     ELSE IF item.critical \/ "failed" \in states THEN "failed"
     ELSE IF \/ "missing" \in states \/ ~item.supported
             \/ (spec.provider /\ ~item.provided) \/ item.total = 0 THEN "unavailable"
     ELSE IF item.successful = 0 THEN "failed"
     ELSE IF item.successful < item.total \/ item.unresolved > 0 THEN "limited"
     ELSE "ready"

\* Mutant of Inherited: a dependency that is unavailable limits.
InheritedLimited(own, states) ==
  IF own \notin Usable THEN own
  ELSE IF "stale" \in states THEN "stale"
  ELSE IF "failed" \in states THEN "unavailable"
  ELSE IF {"unavailable", "limited"} \cap states # {} THEN "limited" ELSE own

\* _apply_dependencies, of the states the dependencies ended up in.
Inherited(own, states) ==
  IF own \notin Usable THEN own
  ELSE IF "stale" \in states THEN "stale"
  ELSE IF {"failed", "unavailable"} \cap states # {} THEN "unavailable"
  ELSE IF "limited" \in states THEN "limited" ELSE own

\* _dependency_order: a capability follows its dependencies.  What is not
\* reached after as many rounds as there are capabilities is on a circle, or
\* depends on one or on a name without a spec; calculate raises.
Reached(specs) ==
  LET after[k \in 0..Cardinality(DOMAIN specs)] ==
        IF k = 0 THEN {} ELSE {n \in DOMAIN specs : specs[n].uses \subseteq after[k - 1]}
  IN after[Cardinality(DOMAIN specs)]

Accepted(specs) == Reached(specs) = DOMAIN specs

\* calculate, the states
Readiness(specs, evidence) ==
  LET known[k \in 0..Cardinality(DOMAIN specs)] ==
        IF k = 0 THEN <<>>
        ELSE LET before == known[k - 1]
             IN [n \in {n \in DOMAIN specs : specs[n].uses \subseteq DOMAIN before} |->
                   Inherited(OwnState(specs[n], evidence[n]), {before[d] : d \in specs[n].uses})]
  IN known[Cardinality(DOMAIN specs)]

MandatoryOf(specs) == {n \in DOMAIN specs : specs[n].mandatory}

ActivationAllowed(specs, readiness) == \A n \in MandatoryOf(specs) : readiness[n] \in Usable

\* The candidate a build hands over with this report: the artifacts it made,
\* required or not, and manifest_capabilities.
CandidateOf(specs, evidence, made, required) ==
  LET readiness == Readiness(specs, evidence)
  IN [status |-> "ready", summary |-> "passed", issues |-> {}, declared |-> readiness,
      artifacts |-> [t \in made |-> [bytes |-> 1, required |-> t \in required]],
      readiness |-> [n \in DOMAIN specs |-> [state |-> readiness[n], needs |-> specs[n].needs, issueKnown |-> TRUE]]]

---------------------------------------------------------------------------
\* What n rests on, itself included.
Closure(specs, n) ==
  LET near[k \in 0..Cardinality(DOMAIN specs)] ==
        IF k = 0 THEN {n} ELSE near[k - 1] \cup UNION {specs[m].uses : m \in near[k - 1]}
  IN near[Cardinality(DOMAIN specs)]

\* No capability is shown in a better state than anything it rests on, however
\* far, allows, nor in a worse one than all of it explains (calculate).
NoBetterThanItsGround(specs, evidence) ==
  LET readiness == Readiness(specs, evidence)
      own(S) == {OwnState(specs[m], evidence[m]) : m \in S}
  IN \A n \in DOMAIN specs :
       /\ readiness[n] \in Usable <=> own(Closure(specs, n)) \subseteq Usable
       /\ readiness[n] = "ready" <=> own(Closure(specs, n)) = {"ready"}
       /\ readiness[n] = "stale" => "stale" \in own(Closure(specs, n))
       /\ readiness[n] = "failed" => own({n}) = {"failed"}

\* A report that allows activation is one the validator accepts, as far as it
\* can know: the validator also wants every artifact that any capability needs,
\* an optional one's included (CandidateValidator.validate:130-135), and those
\* of a mandatory one declared as required.
ReportMatchesValidator(specs, evidence, made, required) ==
  LET c        == CandidateOf(specs, evidence, made, required)
      needs(S) == UNION {specs[n].needs : n \in S}
  IN Valid(c, MandatoryOf(specs)) <=>
       /\ ActivationAllowed(specs, Readiness(specs, evidence))
       /\ needs(DOMAIN specs) \subseteq made
       /\ needs(MandatoryOf(specs)) \subseteq required

\* An order of the capabilities in which each follows its dependencies exists
\* exactly when the specs are accepted (_dependency_order).
AcceptedIsOrderable(specs) ==
  Accepted(specs) <=>
    /\ \A n \in DOMAIN specs : specs[n].uses \subseteq DOMAIN specs
    /\ \E rank \in [DOMAIN specs -> 1..Cardinality(DOMAIN specs)] :
         \A n \in DOMAIN specs : \A d \in specs[n].uses : rank[d] < rank[n]
=============================================================================
