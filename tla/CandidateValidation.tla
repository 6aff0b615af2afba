------------------------ MODULE CandidateValidation ------------------------
(***************************************************************************)
(* What makes a candidate index fit for activation (validation_service.py  *)
(* and the model of the manifest).  A candidate c: status and summary of   *)
(* the manifest; artifacts, declared types -> [bytes, required]; issues,   *)
(* the severities; declared, capabilities -> state; readiness,             *)
(* capabilities -> [state, needs, issueKnown].                             *)
(***************************************************************************)

Required(c) == {t \in DOMAIN c.artifacts : c.artifacts[t].required}

Summary(c) ==
  IF c.issues \cap {"warning", "error"} # {} THEN "passed_with_warnings" ELSE "passed"

\* The validator's MANDATORY_STATES and the calculator's ACTIVATABLE_STATES.
Usable == {"ready", "limited"}

\* CandidateValidator.validate: raises unless all of this holds.  That a ready
\* manifest declares no critical issue is checked when it is made.
Valid(c, mandatory) ==
  /\ c.status \in {"ready", "ready_with_warnings"}
  /\ "critical" \notin c.issues
  /\ c.summary = Summary(c)
  /\ DOMAIN c.declared = DOMAIN c.readiness
  /\ \A k \in DOMAIN c.readiness :
       /\ c.readiness[k].issueKnown
       /\ c.readiness[k].needs \subseteq DOMAIN c.artifacts
       /\ c.declared[k] = c.readiness[k].state
  /\ \A k \in mandatory :
       /\ k \in DOMAIN c.readiness
       /\ c.readiness[k].state \in Usable
       /\ c.readiness[k].needs \subseteq Required(c)

\* IndexManifest.validate_manifest_identity: status and summary agree.
WellFormed(c) ==
  /\ c.status = "ready" => c.summary = "passed"
  /\ c.status = "ready_with_warnings" => c.summary = "passed_with_warnings"
=============================================================================
