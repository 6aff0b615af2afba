--------------------------- MODULE ProductionSchema ---------------------------
(***************************************************************************)
(* The PostgreSQL schema of the production profile as the Alembic baseline *)
(* 0001 creates it, reduced to what a deletion can observe: the tables,    *)
(* their foreign keys in the order they are created, and what each key     *)
(* does when the row it refers to is deleted.  Columns, checks and indexes *)
(* are left out.                                                           *)
(*                                                                         *)
(* What a key does is "cascade", "restrict", "null" (SET NULL of one       *)
(* nullable column) or "null_owner" (SET NULL of a composite key, whose    *)
(* columns include the NOT NULL owner columns, so that it can only fail).  *)
(***************************************************************************)
EXTENDS Naturals, Sequences, SequencesExt

Key(child, parent, does) == [child |-> child, parent |-> parent, does |-> does]

OfVersion(child) == Key(child, "index_versions", "cascade")
InFile(child, does) == Key(child, "files", does)

AccessKeys == <<
  Key("evaluation_cases", "evaluation_datasets", "cascade"),
  Key("idempotency_records", "operator_principals", "restrict"),
  Key("operator_api_tokens", "operator_principals", "cascade"),
  Key("operator_sessions", "operator_principals", "cascade")>>

RepositoryKeys == <<
  Key("repositories", "operator_principals", "restrict"),
  Key("audit_events", "operator_principals", "null"),
  Key("audit_events", "repositories", "null"),
  Key("conversations", "operator_principals", "restrict"),
  Key("conversations", "repositories", "restrict"),
  Key("repository_deletion_operations", "idempotency_records", "restrict"),
  Key("repository_deletion_operations", "repositories", "restrict"),
  Key("repository_sources", "repositories", "cascade"),
  Key("source_snapshots", "repository_sources", "cascade")>>

ImportKeys == <<
  Key("import_sessions", "source_snapshots", "restrict"),
  Key("import_sessions", "operator_principals", "restrict")>>

VersionKeys == <<
  Key("index_versions", "source_snapshots", "restrict"),
  Key("index_versions", "repositories", "cascade"),
  Key("evaluation_runs", "evaluation_datasets", "restrict"),
  Key("evaluation_runs", "index_versions", "restrict"),
  Key("evaluation_runs", "repositories", "null"),
  OfVersion("files")>>

JobKeys == <<
  OfVersion("index_artifacts"),
  Key("index_jobs", "idempotency_records", "restrict"),
  Key("index_jobs", "index_versions", "restrict"),
  Key("index_jobs", "source_snapshots", "restrict"),
  Key("index_jobs", "repositories", "cascade")>>

MessageKeys == <<
  Key("messages", "conversations", "cascade"),
  Key("messages", "index_versions", "restrict"),
  Key("messages", "repositories", "restrict"),
  OfVersion("validation_issues"),
  Key("agent_traces", "conversations", "null"),
  Key("agent_traces", "operator_principals", "restrict"),
  Key("agent_traces", "index_versions", "restrict"),
  Key("agent_traces", "messages", "null"),
  OfVersion("capability_readiness"),
  Key("capability_readiness", "validation_issues", "null")>>

EvidenceKeys == <<
  Key("chunks", "index_artifacts", "null_owner"),
  InFile("chunks", "cascade"),
  OfVersion("chunks"),
  Key("claims", "messages", "cascade"),
  InFile("evidence", "restrict"),
  Key("evidence", "index_versions", "restrict"),
  InFile("graph_candidates", "null_owner"),
  OfVersion("graph_candidates"),
  InFile("graph_nodes", "null_owner"),
  OfVersion("graph_nodes")>>

\* Mutant of AttemptKeys: an attempt outlives its job.
AttemptKeysNullable == <<
  Key("job_attempts", "index_artifacts", "null"),
  Key("job_attempts", "index_jobs", "null")>>

AttemptKeys == <<
  Key("job_attempts", "index_artifacts", "null"),
  Key("job_attempts", "index_jobs", "cascade")>>

SymbolKeys == <<
  InFile("symbols", "cascade"),
  OfVersion("symbols"),
  Key("agent_trace_events", "agent_traces", "cascade"),
  Key("citations", "claims", "cascade"),
  Key("citations", "evidence", "restrict"),
  InFile("endpoints", "cascade"),
  Key("endpoints", "symbols", "null_owner"),
  OfVersion("endpoints")>>

EdgeKeys == <<
  Key("evaluation_results", "evaluation_cases", "restrict"),
  Key("evaluation_results", "evaluation_runs", "cascade"),
  Key("evaluation_results", "agent_traces", "null"),
  InFile("graph_edges", "null_owner"),
  Key("graph_edges", "graph_nodes", "cascade"),
  OfVersion("graph_edges"),
  InFile("references", "cascade"),
  Key("references", "symbols", "null_owner"),
  OfVersion("references")>>

\* The keys that close a cycle are added after the tables.
CycleKeys == <<
  Key("repositories", "index_versions", "restrict"),
  Key("index_jobs", "job_attempts", "restrict"),
  Key("index_versions", "index_versions", "restrict")>>

InlineKeys == AccessKeys \o RepositoryKeys \o ImportKeys \o VersionKeys \o JobKeys \o MessageKeys
                \o EvidenceKeys \o AttemptKeys \o SymbolKeys \o EdgeKeys

Keys == InlineKeys \o CycleKeys

\* upgrade(): the tables in the order they are created.
CreateOrder == <<
  "evaluation_datasets", "operator_principals", "evaluation_cases", "idempotency_records",
  "operator_api_tokens", "operator_sessions", "repositories", "audit_events",
  "conversations", "repository_deletion_operations", "repository_sources",
  "source_snapshots", "import_sessions", "index_versions", "evaluation_runs", "files",
  "index_artifacts", "index_jobs", "messages", "validation_issues", "agent_traces",
  "capability_readiness", "chunks", "claims", "evidence", "graph_candidates",
  "graph_nodes", "job_attempts", "symbols", "agent_trace_events", "citations",
  "endpoints", "evaluation_results", "graph_edges", "references">>

\* Mutant of DropOrder: the tables are dropped in the order they were created.
DropOrderAsCreated == CreateOrder

\* downgrade(): the tables in the order they are dropped.
DropOrder == <<
  "references", "graph_edges", "evaluation_results", "endpoints", "citations",
  "agent_trace_events", "symbols", "job_attempts", "graph_nodes", "graph_candidates",
  "evidence", "claims", "chunks", "capability_readiness", "agent_traces",
  "validation_issues", "messages", "index_jobs", "index_artifacts", "files",
  "evaluation_runs", "index_versions", "import_sessions", "source_snapshots",
  "repository_sources", "repository_deletion_operations", "conversations",
  "audit_events", "repositories", "operator_sessions", "operator_api_tokens",
  "idempotency_records", "evaluation_cases", "operator_principals",
  "evaluation_datasets">>

KeysOf == [t \in ToSet(CreateOrder) |-> {k \in ToSet(InlineKeys) : k.child = t}]
KeysTo == [t \in ToSet(CreateOrder) |-> {k \in ToSet(Keys) : k.parent = t}]

---------------------------------------------------------------------------
(* Rows.  A row is a table and an instant: "old" rows were there before the *)
(* deletion began, "new" ones are committed by other transactions during it. *)

Row(table, instant) == <<table, instant>>

\* The row a new row of the same write refers to, else the old one.
Parent(rows, row, k) ==
  IF Row(k.parent, row[2]) \in rows THEN Row(k.parent, row[2]) ELSE Row(k.parent, "old")

\* The rows that refer to `row` by key k.
Referring(rows, row, k) ==
  {r \in rows : r[1] = k.child /\ Parent(rows \cup {row}, r, k) = row}

\* Only the append-only trigger forbids to update the rows of a table.
AppendOnly == {"audit_events"}

\* PostgreSQL fires the keys of deleted rows in rounds: the deletions a round causes
\* are the next round's.  (No round both restricts a row and cascades to it, so the
\* order inside a round does not matter.)
Hit(rows, gone, does) ==
  UNION {UNION {Referring(rows, row, k) : k \in {x \in KeysTo[row[1]] : x.does \in does}}
         : row \in gone}

\* A SET NULL that would null an owner column or touch an append-only row fails.
Refused(rows, gone) ==
  \/ Hit(rows, gone, {"restrict", "null_owner"}) # {}
  \/ \E r \in Hit(rows, gone, {"null"}) : r[1] \in AppendOnly

\* What is left once the deletion of `gone` has cascaded, {} when it is refused.
RECURSIVE Fire(_, _)
Fire(rows, gone) ==
  IF gone = {} THEN rows
  ELSE IF Refused(rows, gone) THEN {}
  ELSE LET next == Hit(rows, gone, {"cascade"}) IN Fire(rows \ next, next)

\* DELETE FROM table WHERE repository_id = ...: the rows left, {} when it is refused.
\* (The operator's row always is left.)
Statement(rows, table) ==
  LET gone == {r \in rows : r[1] = table} IN Fire(rows \ gone, gone)
=============================================================================
