-------------------------- MODULE IndexActivation --------------------------
(***************************************************************************)
(* What surrounds the transactions of JobStateStore when a candidate index *)
(* is published: the artifacts and their rows, the manifest at its fixed   *)
(* key and the call that activates (activation_service.py,                 *)
(* artifacts/manifest.py).  A worker may stop after any step, and one      *)
(* whose lease ran out goes on until it is refused.                        *)
(*                                                                         *)
(* A candidate is what one attempt hands to activate: the manifest, the    *)
(* issues and the readiness records.  Field `edition` stands for all that  *)
(* makes two manifests of the same artifacts differ (their timestamps).    *)
(***************************************************************************)
EXTENDS JobStateStore, CandidateValidation, FiniteSets

CONSTANTS
  Types,        \* artifact types
  Candidates,   \* what an attempt may hand over
  NoCandidate,
  Mandatory     \* mandatory_capabilities of the caller

\* The files, the rows and the manifest below are those of one version.
ASSUME VersionAssumption == IsFiniteSet(Jobs) /\ Cardinality(Jobs) = 1
\* Bytes are never none.
ASSUME CandidateAssumption ==
  /\ NoCandidate \notin Candidates
  /\ \A c \in Candidates : \A t \in DOMAIN c.artifacts :
       /\ t \in Types
       /\ c.artifacts[t] \in [bytes : Nat, required : BOOLEAN]
       /\ c.artifacts[t].bytes # 0

VARIABLES
  files,        \* artifact files: type -> bytes, 0 when absent
  rows,         \* index_artifacts rows: type -> bytes and `required`, or absent
  manifest,     \* what is stored under the version's manifest key
  candidate,    \* what each attempt hands over
  recorded,     \* manifest_sha256 of the version row
  audits        \* index_version_activated events

storeVars == <<files, rows, manifest, candidate, recorded, audits>>
allVars   == <<vars, storeVars>>

NoRow == [bytes |-> 0, required |-> FALSE]

ActivationInit ==
  /\ Init
  /\ files = [t \in Types |-> 0]
  /\ rows = [t \in Types |-> NoRow]
  /\ manifest = NoCandidate
  /\ candidate = [g \in 1..MaxAttempts |-> NoCandidate]
  /\ recorded = NoCandidate
  /\ audits = 0

---------------------------------------------------------------------------
(* The attempt's build and publication, outside every transaction.  A      *)
(* worker that lost its lease goes on until it notices.                    *)

Started(g) == \E j \in Jobs : g \in DOMAIN attempts[j]

Compose(g) ==
  /\ Started(g)
  /\ candidate[g] = NoCandidate
  /\ \E c \in Candidates : WellFormed(c) /\ candidate' = [candidate EXCEPT ![g] = c]
  /\ UNCHANGED <<vars, files, rows, manifest, recorded, audits>>

\* FilesystemArtifactStore.write: a link that never replaces a file.  When
\* other bytes are there it raises and the attempt goes no further.
WriteArtifact(g, t) ==
  /\ candidate[g] # NoCandidate
  /\ t \in DOMAIN candidate[g].artifacts
  /\ files[t] = 0
  /\ files' = [files EXCEPT ![t] = candidate[g].artifacts[t].bytes]
  /\ UNCHANGED <<vars, rows, manifest, candidate, recorded, audits>>

\* register_artifact: the storage key is unique over all rows.
RegisterArtifact(g, t) ==
  /\ candidate[g] # NoCandidate
  /\ t \in DOMAIN candidate[g].artifacts
  /\ files[t] = candidate[g].artifacts[t].bytes
  /\ rows[t] = NoRow
  /\ rows' = [rows EXCEPT ![t] = candidate[g].artifacts[t]]
  /\ UNCHANGED <<vars, files, manifest, candidate, recorded, audits>>

Verified(c) == \A t \in DOMAIN c.artifacts : files[t] = c.artifacts[t].bytes

\* Mutant of Publish: the manifest object is replaced.
PublishOver(g) ==
  /\ candidate[g] # NoCandidate
  /\ Valid(candidate[g], Mandatory)
  /\ Verified(candidate[g])
  /\ manifest' = candidate[g]
  /\ UNCHANGED <<vars, files, rows, candidate, recorded, audits>>

\* activate up to the database: validate, verify every artifact and write the
\* manifest at the key that belongs to the version, once.
Publish(g) ==
  /\ candidate[g] # NoCandidate
  /\ Valid(candidate[g], Mandatory)
  /\ Verified(candidate[g])
  /\ manifest \in {NoCandidate, candidate[g]}
  /\ manifest' = candidate[g]
  /\ UNCHANGED <<vars, files, rows, candidate, recorded, audits>>

---------------------------------------------------------------------------
(* The transaction of activation. *)

\* _validate_registered_artifacts: every row that is required is declared, and
\* every declared artifact has its row.
RowsMatch(c) ==
  /\ \A t \in Types : rows[t].required => t \in DOMAIN c.artifacts
  /\ \A t \in DOMAIN c.artifacts : rows[t] = c.artifacts[t]

\* A call of activate goes on to the database when its manifest is stored, by
\* this call or, byte for byte, by an earlier one.
Published(g) ==
  /\ candidate[g] # NoCandidate
  /\ manifest = candidate[g]
  /\ Valid(candidate[g], Mandatory)
  /\ Verified(candidate[g])

\* The replay of an activation that committed returns already_active.
Replayed(j, g) ==
  /\ active = j
  /\ version[j] = "active"
  /\ state[j] = "succeeded"
  /\ attempts[j][g].state = "succeeded"
  /\ recorded = candidate[g]

\* Mutant of ActivateIndex: a replay writes its audit event again.
ActivateIndexTwice(j, g, now) ==
  /\ Published(g)
  /\ \/ Activate(j, g, now)
     \/ Replayed(j, g) /\ UNCHANGED vars
  /\ RowsMatch(candidate[g])
  /\ recorded' = candidate[g]
  /\ audits' = audits + 1
  /\ UNCHANGED <<files, rows, manifest, candidate>>

\* JobStateStore.activate with the comparison of the registered rows.  Every
\* refusal rolls back, and the replay writes nothing.
ActivateIndex(j, g, now) ==
  /\ Published(g)
  /\ ~Replayed(j, g)
  /\ Activate(j, g, now)
  /\ RowsMatch(candidate[g])
  /\ recorded' = candidate[g]
  /\ audits' = audits + 1
  /\ UNCHANGED <<files, rows, manifest, candidate>>

---------------------------------------------------------------------------

\* The other commands of the store.
OtherCommand(j) ==
  \/ Submit(j, active, repoGeneration)
  \/ RequestCancellationQueued(j)
  \/ RequestCancellationRunning(j)
  \/ ClaimCancelled(j)
  \/ ClaimFenced(j)
  \/ \E now \in Instants : ClaimExhausted(j, now) \/ ClaimLease(j, now)
  \/ \E g \in DOMAIN attempts[j], now \in Instants :
       \/ Heartbeat(j, g, now)
       \/ FailRetry(j, g, now)
       \/ FailFinal(j, g, now)
       \/ CancelOwned(j, g, now)

ActivationNext ==
  \/ \E g \in 1..MaxAttempts :
       \/ Compose(g)
       \/ \E t \in Types : WriteArtifact(g, t) \/ RegisterArtifact(g, t)
       \/ Publish(g)
  \/ \E j \in Jobs : \E g \in DOMAIN attempts[j], now \in Instants : ActivateIndex(j, g, now)
  \/ (\E j \in Jobs : OtherCommand(j)) /\ UNCHANGED storeVars
  \/ FenceRepository /\ UNCHANGED storeVars
  \/ Tick /\ UNCHANGED storeVars

ActivationSpec == ActivationInit /\ [][ActivationNext]_allVars

---------------------------------------------------------------------------

\* A version that readers were ever pointed at has its manifest stored under
\* its key, and the manifest is the one the row names: every artifact is on
\* disk and registered as declared, and what a mandatory capability needs is
\* required.  Publication is outside the transaction, and an earlier attempt
\* may have published a manifest or registered artifacts of its own
\* (IndexActivationService.activate, ArtifactManifestPublisher.publish).
ActivatedIsPublished ==
  (\E j \in Jobs : version[j] \in {"active", "superseded"}) =>
    /\ recorded # NoCandidate
    /\ manifest = recorded
    /\ Verified(recorded)
    /\ \A t \in DOMAIN recorded.artifacts : rows[t] = recorded.artifacts[t]
    /\ \A k \in Mandatory : \A t \in recorded.readiness[k].needs : rows[t].required

\* Replaying an activation whose answer was lost leaves one audit event for
\* the one change of the pointer (activate, the already_active result).
OneAuditPerActivation ==
  audits = Cardinality({j \in Jobs : version[j] \in {"active", "superseded"}})
=============================================================================
