------------------------ MODULE MC_IndexActivation ------------------------
(* IndexActivation on one job, one artifact type besides the validation    *)
(* report and candidates that each differ from a good one in one respect.  *)
EXTENDS IndexActivation

Good ==
  [edition   |-> 1,
   status    |-> "ready",
   summary   |-> "passed",
   issues    |-> {},
   artifacts |-> [t \in Types |-> [bytes |-> 1, required |-> TRUE]],
   declared  |-> [k \in Mandatory |-> "ready"],
   readiness |-> [k \in Mandatory |-> [state |-> "ready", needs |-> Types, issueKnown |-> TRUE]]]

MCCandidates ==
  {Good,
   [Good EXCEPT !.edition = 2],
   [Good EXCEPT !.artifacts["chunks"].bytes = 2],
   [Good EXCEPT !.artifacts["chunks"].required = FALSE],
   [Good EXCEPT !.artifacts = [t \in {"report"} |-> [bytes |-> 1, required |-> TRUE]],
                !.readiness = [k \in Mandatory |-> [state |-> "ready", needs |-> {"report"}, issueKnown |-> TRUE]]],
   [Good EXCEPT !.issues = {"critical"}],
   [Good EXCEPT !.issues = {"warning"}],
   [Good EXCEPT !.issues = {"warning"}, !.status = "ready_with_warnings",
                !.summary = "passed_with_warnings"]}
=============================================================================
