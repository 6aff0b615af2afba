----------------------------- MODULE LockOrders -----------------------------
(***************************************************************************)
(* The rows each transaction of the job state store and of the production  *)
(* repository store locks, in order, and who can come to wait on whom.     *)
(* Two jobs of one repository; a row is <<table, job>>.                    *)
(***************************************************************************)
EXTENDS Integers, FiniteSets, Sequences

Jobs == {1, 2}
JobRow(j)     == <<"index_jobs", j>>
AttemptRow(j) == <<"job_attempts", j>>
VersionRow(j) == <<"index_versions", j>>
RepositoryRow == <<"repositories", 0>>

Transaction(name, rows) == [name |-> name, rows |-> rows]

\* Mutant of Claim: the repository is locked to begin with.
ClaimRepositoryFirst(j) == {Transaction("claim", <<RepositoryRow, JobRow(j), AttemptRow(j), VersionRow(j)>>)}

\* claim: a terminal job ends it after one row; a takeover locks the attempt, and
\* a job that ends here its version.
Claim(j) == {Transaction("claim", <<JobRow(j), RepositoryRow, AttemptRow(j), VersionRow(j)>>)}

\* _lock_owned_lease; fail ends the version as well.
LeaseCommands(j) ==
  {Transaction("heartbeat", <<JobRow(j), AttemptRow(j), RepositoryRow>>),
   Transaction("complete", <<JobRow(j), AttemptRow(j), RepositoryRow>>),
   Transaction("fail", <<JobRow(j), AttemptRow(j), RepositoryRow, VersionRow(j)>>)}

Cancellations(j) ==
  {Transaction("request_cancellation", <<JobRow(j), VersionRow(j)>>),
   Transaction("cancel", <<JobRow(j), AttemptRow(j), RepositoryRow, VersionRow(j)>>)}

\* activate: the repository before the job, and the version it supersedes last.
Activate(j) ==
  {Transaction("activate", <<RepositoryRow, JobRow(j), AttemptRow(j), VersionRow(j), VersionRow(3 - j)>>)}

\* save_repository: the repository, the version it supersedes, then the jobs it ends.
SaveRepository == {Transaction("save_repository", <<RepositoryRow, VersionRow(1), VersionRow(2), JobRow(1), JobRow(2)>>)}

\* delete_repository: jobs with their attempts, then the repository with its versions.
DeleteRepository ==
  {Transaction("delete_repository",
     <<JobRow(1), AttemptRow(1), JobRow(2), AttemptRow(2), RepositoryRow, VersionRow(1), VersionRow(2)>>)}

Transactions ==
  SaveRepository \cup DeleteRepository
  \cup UNION {Claim(j) \cup LeaseCommands(j) \cup Cancellations(j) \cup Activate(j) : j \in Jobs}

---------------------------------------------------------------------------
(* open: the transactions under way, each with the number of rows it holds *)
(* while it waits for the next one.                                        *)

UnderWay(o) == o.of \in Transactions /\ o.holds \in 1..(Len(o.of.rows) - 1)

Held(o)  == {o.of.rows[i] : i \in 1..o.holds}
Waits(o) == o.of.rows[o.holds + 1]

\* A row lock has one holder.
Compatible(open) == \A o, p \in open : o # p => Held(o) \cap Held(p) = {}

\* Each of them waits for another one.
Deadlocked(circle) == circle # {} /\ \A o \in circle : \E p \in circle \ {o} : Waits(o) \in Held(p)

\* However transactions overlap, they only wait in a circle when one of them is an
\* activation or the save of an index, the two that lock the repository before a
\* job: workers that claim, renew, end or cancel, and a deletion, never block each
\* other for good (claim, _lock_owned_lease, activate, save_repository).
CirclesNeedActivation(open) ==
  Compatible(open) =>
    \A circle \in SUBSET open :
      Deadlocked(circle) => \E o \in circle : o.of.name \in {"activate", "save_repository"}
=============================================================================
