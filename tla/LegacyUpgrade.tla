--------------------------- MODULE LegacyUpgrade ---------------------------
(***************************************************************************)
(* The one-shot copy of a database of the local profile into the           *)
(* production schema (db/legacy_upgrade.py): everything is mapped and      *)
(* judged in memory, then inserted in one transaction.                     *)
(*                                                                         *)
(* A legacy database has, beside its repositories with their current       *)
(* version, records of one version of one repository.  An identity made by *)
(* _stable_id is the tuple of its parts.  The checks of paths and hashes   *)
(* are left out: the sources are there, as they were indexed.              *)
(***************************************************************************)
EXTENDS Integers, FiniteSets, FiniteSetsExt

Version(x) == <<x.repository, x.version>>

\* Records that name a file; of the nodes only some do.
FileUsers(db) == db.observations \cup db.evidence \cup {n \in db.nodes : n.file # "none"}
Records(db) == db.files \cup db.observations \cup db.evidence \cup db.nodes \cup db.edges \cup db.jobs

\* A version is whatever number a record or a job carries.
VersionsOf(db, r) ==
  LET seen == {x.version : x \in {y \in Records(db) : y.repository = r}}
  IN IF seen = {} THEN {db.current[r]} ELSE seen

ActiveVersion(db, r) ==
  IF db.current[r] \in VersionsOf(db, r) THEN db.current[r] ELSE Max(VersionsOf(db, r))

JobStates == {"queued", "running", "succeeded", "succeeded_with_warnings", "failed", "cancelled"}

\* What production has no name for has failed: so has "completed".
StateOf(job) == IF job.status \in JobStates THEN job.status ELSE "failed"

Unfinished(db, r) == {j \in db.jobs : j.repository = r /\ StateOf(j) \in {"queued", "running"}}

FileOf(x) == <<x.repository, x.version, x.file>>
NodeOf(x, id) == <<x.repository, x.version, id>>

\* Every reason to raise before the transaction.
Refused(db) ==
  LET files == {FileOf(f) : f \in db.files}
      nodes == {NodeOf(n, n.id) : n \in db.nodes}
  IN \/ DOMAIN db.current = {}
     \/ \E x \in Records(db) : x.repository \notin DOMAIN db.current
     \/ \E x \in FileUsers(db) : FileOf(x) \notin files
     \/ \E e \in db.edges : ~({NodeOf(e, e.source), NodeOf(e, e.target)} \subseteq nodes)
     \/ \E r \in DOMAIN db.current : Cardinality(Unfinished(db, r)) > 1

\* The rows of the production tables that others refer to, or that say what is readable.
Rows(db) ==
  [repositories |-> {[id |-> r, active |-> <<r, ActiveVersion(db, r)>>] : r \in DOMAIN db.current},
   versions |-> UNION {{[id |-> <<r, v>>, number |-> IF v + 1 > 1 THEN v + 1 ELSE 1,
                         lifecycle |-> IF v = ActiveVersion(db, r) THEN "active" ELSE "superseded"] :
                           v \in VersionsOf(db, r)} : r \in DOMAIN db.current},
   files |-> {[id |-> FileOf(f), version |-> Version(f)] : f \in db.files},
   users |-> {[file |-> FileOf(x), version |-> Version(x)] : x \in FileUsers(db)},
   nodes |-> {[id |-> NodeOf(n, n.id), version |-> Version(n)] : n \in db.nodes},
   edges |-> {[ends |-> {NodeOf(e, e.source), NodeOf(e, e.target)}, version |-> Version(e)] : e \in db.edges},
   jobs |-> {[id |-> j.id, repository |-> j.repository, target |-> Version(j), state |-> StateOf(j)] : j \in db.jobs}]

---------------------------------------------------------------------------
(* Properties. *)

Ids(rows) == {x.id : x \in rows}
ActiveRows(rows, r) == {v \in rows.versions : v.id[1] = r /\ v.lifecycle = "active"}

\* What is inserted satisfies the keys and the unique indexes of the production schema, so
\* that the transaction commits: no reference leaves its version, a repository has one
\* active version, which its pointer names, and at most one unfinished job.
UpgradeIsWhole(db) ==
  ~Refused(db) =>
    LET rows == Rows(db)
    IN /\ \A x \in rows.files \cup rows.users \cup rows.nodes \cup rows.edges : x.version \in Ids(rows.versions)
       /\ \A x \in rows.users : x.file \in Ids(rows.files) /\ <<x.file[1], x.file[2]>> = x.version
       /\ \A e \in rows.edges : e.ends \subseteq {n.id : n \in {m \in rows.nodes : m.version = e.version}}
       /\ \A j \in rows.jobs : j.target \in Ids(rows.versions)
       /\ \A v, w \in rows.versions : v.id[1] = w.id[1] /\ v.number = w.number => v = w
       /\ \A r \in rows.repositories : Ids(ActiveRows(rows, r.id)) = {r.active}
       /\ \A j, k \in rows.jobs :
            j.repository = k.repository /\ {j.state, k.state} \subseteq {"queued", "running"} => j = k

\* What readers saw is what they see: where the local profile had an index, its version is
\* the active one, with its files and no others.
UpgradeKeepsIndex(db) ==
  ~Refused(db) =>
    \A r \in DOMAIN db.current : db.current[r] > 0 =>
      \A x \in Rows(db).repositories : x.id = r =>
        /\ x.active = <<r, db.current[r]>>
        /\ Ids({f \in Rows(db).files : f.version = x.active}) = {FileOf(f) : f \in {g \in db.files : g.repository = r}}

\* A database that the local profile leaves is refused for one reason: an answer was given
\* before a re-index, and its evidence is of files that the re-index replaced.
OnlyOldEvidenceRefuses(db) ==
  Refused(db) <=> \E e \in db.evidence : e.version # db.current[e.repository]
=============================================================================
