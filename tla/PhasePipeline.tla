--------------------------- MODULE PhasePipeline ---------------------------
(***************************************************************************)
(* The phases of an indexing run and their resumption from checkpoints, for *)
(* one index version: PhasePipeline.run over FilesystemArtifactStore.       *)
(*                                                                         *)
(* Several runs may work on the version, at a time or one after another, by *)
(* different releases of the phases and from different sources.  The phases *)
(* are not in this code: as in its tests, a phase stores each output under  *)
(* one name per artifact type.  An artifact is named by all that it was     *)
(* made from, so two are equal exactly when their bytes are.                *)
(***************************************************************************)
EXTENDS Naturals, FiniteSets

CONSTANTS
  Runs,         \* calls of run
  Phases,       \* number of phases
  Initial,      \* artifact types that a run is given
  Needs,        \* required_input_types of each phase
  Makes,        \* output_types of each phase
  Sources,      \* what the initial artifacts may hold
  Releases,     \* deployments of the phases
  Version,      \* a phase's version, configuration and resources in a release
  None,
  Damaged,      \* a file whose bytes are not those written
  MaxFailures,  \* bound on failed, cancelled and crashed runs
  MaxDamage     \* bound on files lost or damaged

Phase == 1..Phases
Made  == UNION {Makes[k] : k \in Phase}
Types == Initial \cup Made

ASSUME PhaseAssumption ==
  /\ Phases \in Nat \ {0}
  /\ Needs \in [Phase -> SUBSET Types]
  /\ DOMAIN Makes = Phase
  /\ \A k \in Phase : Needs[k] \subseteq Initial \cup UNION {Makes[j] : j \in 1..(k - 1)}
\* Each phase makes types of its own, as those of the tests do; that no two phases make
\* the same is more than _validate_registry checks.
ASSUME OutputAssumption ==
  /\ \A k \in Phase : Makes[k] # {}
  /\ \A j, k \in Phase : j # k => Makes[j] \cap Makes[k] = {}
ASSUME ReleaseAssumption == Version \in [Releases -> [Phase -> Nat]]
ASSUME BoundAssumption == {MaxFailures, MaxDamage} \subseteq Nat

VARIABLES
  checkpoint,  \* the checkpoint file of each phase: None, Damaged or its content
  artifact,    \* the output file of each type: None, Damaged or its content
  pc,          \* where each run is
  phase,       \* the phase it is at
  pool,        \* the artifacts it has, by type
  release, source,
  failures, damage

files == <<checkpoint, artifact>>
vars  == <<files, pc, phase, pool, release, source, failures, damage>>

---------------------------------------------------------------------------
(* Artifacts and checkpoints. *)

InitialPool(s) == [t \in Types |-> IF t \in Initial THEN <<t, s>> ELSE None]

\* PhaseInput.idempotency_key
Key(k, rel, artifacts) ==
  [phase |-> k, version |-> Version[rel][k], inputs |-> [t \in Needs[k] |-> artifacts[t]]]

Output(k, rel, artifacts) == [t \in Makes[k] |-> <<t, Key(k, rel, artifacts)>>]

\* PhaseCheckpoint; canonical_bytes are equal when the records are.
Checkpoint(k, rel, artifacts) ==
  [key |-> Key(k, rel, artifacts), output |-> Output(k, rel, artifacts)]

Merge(artifacts, out) ==
  [t \in Types |-> IF t \in DOMAIN out THEN out[t] ELSE artifacts[t]]

\* What a run from nothing has after each of its phases.
After(rel, s) ==
  LET after[k \in 0..Phases] ==
        IF k = 0 THEN InitialPool(s)
        ELSE Merge(after[k - 1], Output(k, rel, after[k - 1]))
  IN  after

\* No artifact is taken for a missing file.
ASSUME NoneAssumption ==
  \A rel \in Releases, s \in Sources : \A k \in Phase : \A t \in Makes[k] :
    Output(k, rel, After(rel, s)[k - 1])[t] # None

\* Mutant of Writable: os.replace in the place of os.link.
WritableAlways(file, content) == TRUE

\* FilesystemArtifactStore.write links the file under its name, which fails if
\* the name exists; then the bytes there must be those.
Writable(file, content) == file \in {None, content}

\* verify and read_bytes
Intact(file, content) == file = content

Init ==
  /\ checkpoint = [k \in Phase |-> None] /\ artifact = [t \in Made |-> None]
  /\ pc = [r \in Runs |-> "idle"]
  /\ phase = [r \in Runs |-> 1]
  /\ pool = [r \in Runs |-> None]
  /\ release = [r \in Runs |-> None] /\ source = [r \in Runs |-> None]
  /\ failures = 0 /\ damage = 0

Goto(r, l) == pc' = [pc EXCEPT ![r] = l]

ThisOutput(r) == Output(phase[r], release[r], pool[r])
ThisCheckpoint(r) == Checkpoint(phase[r], release[r], pool[r])

---------------------------------------------------------------------------
(* A run. *)

Start(r) ==
  /\ pc[r] = "idle"
  /\ \E rel \in Releases, s \in Sources :
       /\ release' = [release EXCEPT ![r] = rel]
       /\ source' = [source EXCEPT ![r] = s]
       /\ pool' = [pool EXCEPT ![r] = InitialPool(s)]
  /\ Goto(r, "plan")
  /\ UNCHANGED <<files, phase, failures, damage>>

\* An exception leaves run, and with it everything the run has in memory.
Abandon(r) ==
  /\ Goto(r, "idle")
  /\ phase' = [phase EXCEPT ![r] = 1]
  /\ pool' = [pool EXCEPT ![r] = None]
  /\ release' = [release EXCEPT ![r] = None]
  /\ source' = [source EXCEPT ![r] = None]

Advance(r, out) ==
  /\ pool' = [pool EXCEPT ![r] = Merge(@, out)]
  /\ phase' = [phase EXCEPT ![r] = @ + 1]
  /\ UNCHANGED <<release, source>>

\* Mutant of Compatible: the phase's own version says it all.
CompatibleByVersion(r) ==
  LET k == phase[r] IN
  /\ checkpoint[k] \notin {None, Damaged}
  /\ checkpoint[k].key.version = Version[release[r]][k]

\* _load_compatible_checkpoint: the file is there with the bytes referred to, and
\* they answer the input that the phase has now.
Compatible(r) ==
  LET k == phase[r] IN
  /\ checkpoint[k] \notin {None, Damaged}
  /\ checkpoint[k].key = Key(k, release[r], pool[r])

\* plan_resume takes one more reference of the caller, to a checkpoint it may use.
Resume(r) ==
  /\ pc[r] = "plan" /\ phase[r] \in Phase
  /\ Compatible(r)
  /\ LET out == checkpoint[phase[r]].output IN
       /\ \A t \in DOMAIN out : Intact(artifact[t], out[t])
       /\ Advance(r, out)
  /\ UNCHANGED <<files, pc, failures, damage>>

\* The next reference is missing or of no use, or no phase is left.
Planned(r) ==
  /\ pc[r] = "plan"
  /\ Goto(r, IF phase[r] \in Phase THEN "execute" ELSE "done")
  /\ UNCHANGED <<files, phase, pool, release, source, failures, damage>>

Store(out, types) ==
  /\ \A t \in types : Writable(artifact[t], out[t])
  /\ artifact' = [t \in Made |-> IF t \in types THEN out[t] ELSE artifact[t]]

\* definition.execute stores its outputs and returns them.
Execute(r) ==
  /\ pc[r] = "execute"
  /\ Store(ThisOutput(r), Makes[phase[r]])
  /\ Goto(r, "verify")
  /\ UNCHANGED <<checkpoint, phase, pool, release, source, failures, damage>>

\* _verify_output, and the cancellation check before the checkpoint.
Verify(r) ==
  /\ pc[r] = "verify"
  /\ \/ /\ \A t \in Makes[phase[r]] : Intact(artifact[t], ThisOutput(r)[t])
        /\ Goto(r, "write")
        /\ UNCHANGED <<phase, pool, release, source>>
     \/ /\ \E t \in Makes[phase[r]] : ~Intact(artifact[t], ThisOutput(r)[t])
        /\ Abandon(r)
  /\ UNCHANGED <<files, failures, damage>>

Write(r) ==
  /\ pc[r] = "write"
  /\ Writable(checkpoint[phase[r]], ThisCheckpoint(r))
  /\ checkpoint' = [checkpoint EXCEPT ![phase[r]] = ThisCheckpoint(r)]
  /\ Advance(r, ThisOutput(r))
  /\ Goto(r, IF phase[r] = Phases THEN "done" ELSE "execute")
  /\ UNCHANGED <<artifact, failures, damage>>

\* check_cancelled, an exception of the phase or an output that _validate_output
\* refuses, a failing store, and the end of the process: a phase may have stored
\* some of its outputs.
Fail(r) ==
  /\ pc[r] \in {"plan", "execute", "verify", "write"}
  /\ failures < MaxFailures /\ failures' = failures + 1
  /\ \/ UNCHANGED artifact
     \/ /\ pc[r] = "execute"
        /\ \E types \in SUBSET Makes[phase[r]] : Store(ThisOutput(r), types)
  /\ Abandon(r)
  /\ UNCHANGED <<checkpoint, damage>>

\* ArtifactConflictError: from a phase it is a permanent failure, from the write
\* of the checkpoint it leaves run as it is.
Conflict(r) ==
  /\ \/ /\ pc[r] = "execute"
        /\ \E t \in Makes[phase[r]] : ~Writable(artifact[t], ThisOutput(r)[t])
     \/ pc[r] = "write" /\ ~Writable(checkpoint[phase[r]], ThisCheckpoint(r))
  /\ Goto(r, "conflict")
  /\ UNCHANGED <<files, phase, pool, release, source, failures, damage>>

Retry(r) ==
  /\ pc[r] = "conflict"
  /\ Abandon(r)
  /\ UNCHANGED <<files, failures, damage>>

---------------------------------------------------------------------------
(* The file system: a file is lost or damaged. *)

SpoilCheckpoint(k) ==
  /\ damage < MaxDamage /\ damage' = damage + 1
  /\ checkpoint[k] # None
  /\ \E left \in {None, Damaged} : checkpoint' = [checkpoint EXCEPT ![k] = left]
  /\ UNCHANGED <<artifact, pc, phase, pool, release, source, failures>>

SpoilArtifact(t) ==
  /\ damage < MaxDamage /\ damage' = damage + 1
  /\ artifact[t] # None
  /\ \E left \in {None, Damaged} : artifact' = [artifact EXCEPT ![t] = left]
  /\ UNCHANGED <<checkpoint, pc, phase, pool, release, source, failures>>

Next ==
  \/ \E r \in Runs : \/ Start(r) \/ Resume(r) \/ Planned(r) \/ Execute(r) \/ Verify(r)
                     \/ Write(r) \/ Fail(r) \/ Conflict(r) \/ Retry(r)
  \/ \E k \in Phase : SpoilCheckpoint(k)
  \/ \E t \in Made : SpoilArtifact(t)

Spec == Init /\ [][Next]_vars

---------------------------------------------------------------------------
(* Properties. *)

\* What a run from nothing makes of a source.
Fresh(rel, s) == After(rel, s)[Phases]

\* However often it was interrupted, and whoever's checkpoints it resumed from, a
\* run that ends has the artifacts of its own release and source: no checkpoint
\* stands in for a phase whose version or inputs have changed (plan_resume).
ResultIsFresh == \A r \in Runs : pc[r] = "done" => pool[r] = Fresh(release[r], source[r])

\* As long as no file was lost or damaged, all the runs that end have the same
\* result, whichever release and source they started from: the first one wins and
\* is not overwritten (FilesystemArtifactStore.write).
OneResult ==
  damage = 0 =>
    \A r, q \in Runs : pc[r] = "done" /\ pc[q] = "done"
                       => \A t \in Made : pool[r][t] = pool[q][t]

\* Runs of the same release and source never stop one another, however their
\* steps interleave: a run is refused by the files of another release or source,
\* or by damage (write accepts the bytes that are there if they are its own).
DuplicatesAgree ==
  \A r \in Runs : pc[r] = "conflict" /\ damage = 0 =>
    \E k \in 1..phase[r] : \E t \in Makes[k] :
      /\ artifact[t] # None
      /\ artifact[t] # Fresh(release[r], source[r])[t]

\* Runs that share the artifact store neither differ in what they end with nor stop
\* one another.
ResultsAgree == OneResult /\ DuplicatesAgree

=============================================================================
