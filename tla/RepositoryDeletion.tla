------------------------- MODULE RepositoryDeletion -------------------------
(***************************************************************************)
(* ProductionRepositoryStore.delete_repository over the schema of          *)
(* ProductionSchema: five DELETE statements of one READ COMMITTED          *)
(* transaction, between which the transactions of other processes on the   *)
(* same repository commit.  Before it the baseline migration runs, and at  *)
(* the end it may be reverted.                                             *)
(***************************************************************************)
EXTENDS ProductionSchema, FiniteSets

VARIABLES
  tables,   \* the tables that exist
  script,   \* what is left of the migration that runs
  rows,     \* committed rows of the repository, and of what refers to it
  view,     \* what is left of them for the transaction that deletes
  phase,    \* "migrating", "broken", "idle", "deleting", "deleted" or "refused"
  statement \* the statement a deletion is at

vars == <<tables, script, rows, view, phase, statement>>

AllTables == ToSet(CreateOrder)

\* Mutant of Statements: the traces are left to the cascade of their conversation.
StatementsWithoutTraces == <<"conversations", "evidence", "index_jobs", "repositories">>

\* The statements of delete_repository, in order.
Statements == <<"agent_traces", "conversations", "evidence", "index_jobs", "repositories">>

\* The rows a repository owns: they die with it.
Owned == AllTables \ {"operator_principals", "operator_api_tokens", "operator_sessions",
                      "idempotency_records", "evaluation_datasets", "evaluation_cases",
                      "evaluation_runs", "evaluation_results", "audit_events"}

\* _ensure_repository_identity, for a repository just imported.
Identity == {"operator_principals", "repositories", "repository_sources", "source_snapshots"}

Init ==
  /\ tables = {}
  /\ script = CreateOrder
  /\ rows = {}
  /\ view = {}
  /\ phase = "migrating"
  /\ statement = 0

---------------------------------------------------------------------------
(* The migration. *)

\* op.create_table: the tables its keys refer to must exist.
CreateTable ==
  /\ phase = "migrating" /\ script # <<>>
  /\ IF \A k \in KeysOf[Head(script)] : k.parent \in tables
     THEN tables' = tables \cup {Head(script)} /\ script' = Tail(script) /\ UNCHANGED phase
     ELSE phase' = "broken" /\ UNCHANGED <<tables, script>>
  /\ UNCHANGED <<rows, view, statement>>

\* The repository is imported into the migrated schema.
Import ==
  /\ phase = "migrating" /\ script = <<>>
  /\ phase' = "idle"
  /\ rows' = {Row(t, "old") : t \in Identity}
  /\ view' = rows'
  /\ UNCHANGED <<tables, script, statement>>

---------------------------------------------------------------------------
(* What other transactions commit, each on rows the deletion has not taken. *)

\* The tables one transaction writes, and those it refers to.
Write(written, refersTo) ==
  /\ phase \in {"idle", "deleting"}
  /\ LET instant == IF phase = "idle" THEN "old" ELSE "new"
         added   == {Row(t, instant) : t \in written}
     IN /\ \A t \in refersTo : \E r \in view : r[1] = t
        /\ added \cap rows = {}
        /\ rows' = rows \cup added
        /\ view' = view \cup added
  /\ UNCHANGED <<tables, script, phase, statement>>

\* save_repository writes a version and its observations.
SaveRepository ==
  /\ phase = "idle"
  /\ Write({"index_versions", "files", "symbols", "endpoints", "chunks", "graph_nodes",
            "graph_edges"}, {"source_snapshots"})

SaveEvidence == Write({"evidence"}, {"index_versions", "files"})

\* save_assistant_turn, in a conversation of its own.
SaveAssistantTurn ==
  Write({"conversations", "messages", "claims", "citations", "agent_traces",
         "agent_trace_events"}, {"repositories", "index_versions", "evidence"})

\* save_indexing_job, with the building version it targets.
SaveIndexingJob ==
  Write({"index_jobs", "index_versions", "idempotency_records"}, {"source_snapshots"})

\* JobStateStore.claim inserts the attempt of a job that is there.
Claim == Write({"job_attempts"}, {"index_jobs"})

\* authorize_repository refuses a caller and appends an audit row that names the
\* repository.
Audit == Write({"audit_events"}, {"repositories"})

---------------------------------------------------------------------------
(* The deletion. *)

Begin ==
  /\ phase = "idle"
  /\ phase' = "deleting"
  /\ statement' = 1
  /\ UNCHANGED <<tables, script, rows, view>>

\* One DELETE; the last one commits, a refused one rolls the transaction back.
Delete ==
  /\ phase = "deleting"
  /\ LET left == Statement(view, Statements[statement])
         last == statement = Len(Statements)
     IN /\ phase' = CASE left = {} -> "refused" [] last -> "deleted" [] OTHER -> phase
        /\ statement' = IF left # {} /\ ~last THEN statement + 1 ELSE 0
        /\ view' = IF left # {} THEN left ELSE rows
        /\ rows' = IF left # {} /\ last THEN left ELSE rows
  /\ UNCHANGED <<tables, script>>

\* The caller sends the request again.
Retry ==
  /\ phase = "refused"
  /\ phase' = "deleting"
  /\ statement' = 1
  /\ UNCHANGED <<tables, script, rows, view>>

---------------------------------------------------------------------------
(* downgrade(), once the repository is gone. *)

Downgrade ==
  /\ phase = "deleted"
  /\ script = <<>> /\ tables # {}
  /\ script' = DropOrder
  /\ UNCHANGED <<tables, rows, view, phase, statement>>

\* op.drop_table, the cycle keys being dropped before: nothing may refer to it.
DropTable ==
  /\ phase = "deleted" /\ script # <<>>
  /\ LET left == tables \ {Head(script)}
     IN IF \E t \in left : \E k \in KeysOf[t] : k.parent = Head(script)
        THEN phase' = "broken" /\ UNCHANGED <<tables, script>>
        ELSE tables' = left /\ script' = Tail(script) /\ UNCHANGED phase
  /\ UNCHANGED <<rows, view, statement>>

Next ==
  \/ CreateTable \/ Import \/ Downgrade \/ DropTable
  \/ SaveRepository \/ SaveEvidence \/ SaveAssistantTurn \/ SaveIndexingJob \/ Claim \/ Audit
  \/ Begin \/ Delete \/ Retry

Spec == Init /\ [][Next]_vars

\* A transaction runs to its end, and the caller of a refused deletion sends it again.
FairSpec == Spec /\ WF_vars(Delete) /\ WF_vars(Retry)

---------------------------------------------------------------------------
(* Properties. *)

\* No step of the baseline migration, up or down, refers to a table that is not
\* there or drops one that is referred to.
MigrationApplies == phase # "broken"

\* A deletion that commits leaves no row of the repository behind, not even one
\* that another process wrote between its statements.
NothingLeft == phase = "deleted" => \A r \in rows : r[1] \notin Owned

\* A deletion that is asked for, and asked for again when it is refused, succeeds in
\* the end unless an audit row names the repository.
DeletionSucceeds ==
  (phase = "deleting") ~> (phase = "deleted" \/ \E r \in rows : r[1] = "audit_events")

\* physical-schema.md: "security history survives account or repository cleanup".
\* The append-only trigger rejects the SET NULL, so the cleanup is refused for ever.
AuditSurvivesCleanup ==
  (phase = "deleting") ~> (phase = "deleted")
=============================================================================
