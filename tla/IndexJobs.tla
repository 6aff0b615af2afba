----------------------------- MODULE IndexJobs -----------------------------
(***************************************************************************)
(* What the job state store promises to those who submit and cancel index  *)
(* jobs, without attempts, leases, fences or time.  A repository has at    *)
(* most one pending job; a job ends once, in one of three outcomes; a      *)
(* cancellation asked for in time decides the outcome; and the published   *)
(* version changes in the same step as its job succeeds, from the version  *)
(* the job was built on.  JobStateStore implements this specification.     *)
(***************************************************************************)
CONSTANTS Jobs, None

VARIABLES
  outcome,    \* of each job: "none" before it is submitted, then "pending"
  wanted,     \* jobs whose cancellation was asked for while they were pending
  builtOn,    \* the version a job's candidate extends
  published,  \* the version readers see
  retired     \* versions that were published before

vars == <<outcome, wanted, builtOn, published, retired>>

Init ==
  /\ outcome = [j \in Jobs |-> "none"]
  /\ wanted = {}
  /\ builtOn = [j \in Jobs |-> None]
  /\ published = None
  /\ retired = {}

Submit(j, b) ==
  /\ outcome[j] = "none"
  /\ \A k \in Jobs : outcome[k] # "pending"
  /\ outcome' = [outcome EXCEPT ![j] = "pending"]
  /\ builtOn' = [builtOn EXCEPT ![j] = b]
  /\ UNCHANGED <<wanted, published, retired>>

AskCancel(j) ==
  /\ outcome[j] = "pending"
  /\ wanted' = wanted \cup {j}
  /\ UNCHANGED <<outcome, builtOn, published, retired>>

\* A pending job is cancelled only when someone asked for it, at the latest now.
Cancel(j) ==
  /\ outcome[j] = "pending"
  /\ outcome' = [outcome EXCEPT ![j] = "cancelled"]
  /\ wanted' = wanted \cup {j}
  /\ UNCHANGED <<builtOn, published, retired>>

Fail(j) ==
  /\ outcome[j] = "pending"
  /\ j \notin wanted
  /\ outcome' = [outcome EXCEPT ![j] = "failed"]
  /\ UNCHANGED <<wanted, builtOn, published, retired>>

\* The caller published the version by other means.
Succeed(j) ==
  /\ outcome[j] = "pending"
  /\ j \notin wanted
  /\ outcome' = [outcome EXCEPT ![j] = "succeeded"]
  /\ UNCHANGED <<wanted, builtOn, published, retired>>

Publish(j) ==
  /\ outcome[j] = "pending"
  /\ j \notin wanted
  /\ builtOn[j] = published
  /\ outcome' = [outcome EXCEPT ![j] = "succeeded"]
  /\ published' = j
  /\ retired' = retired \cup ({published} \ {None})
  /\ UNCHANGED <<wanted, builtOn>>

Next ==
  \E j \in Jobs :
    \/ \E b \in Jobs \cup {None} : Submit(j, b)
    \/ AskCancel(j) \/ Cancel(j)
    \/ Fail(j) \/ Succeed(j) \/ Publish(j)

Spec == Init /\ [][Next]_vars
=============================================================================
