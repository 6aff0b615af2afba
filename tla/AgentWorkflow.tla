--------------------------- MODULE AgentWorkflow ---------------------------
(***************************************************************************)
(* AgentWorkflowService.answer: the bounded workflow that turns a question   *)
(* into cited evidence.  A request runs the tools of its plan, selects       *)
(* evidence, may repair the selection with one more tool call, stores the    *)
(* evidence it cites and validates the citations.                           *)
(*                                                                         *)
(* A request reads the RepositoryState in memory, which in the local profile *)
(* the indexing thread overwrites field by field meanwhile.  Candidates are  *)
(* abstracted to whether there are any, and a selection to whether it is     *)
(* empty, "weak" (below the requirements of the question) or "strong".       *)
(***************************************************************************)
EXTENDS Naturals, Sequences, FiniteSets

CONSTANTS
  Requests,
  Signals,       \* what may interrupt a workflow, of "cancelled" and "elapsed"
  MaxRounds,     \* rounds of the WorkflowConfiguration
  ToolBudgets,   \* the values of max_tool_calls
  None

ASSUME SignalAssumption == Signals \subseteq {"cancelled", "elapsed"}
ASSUME NoneAssumption == None \notin {"cancelled", "elapsed", "calls", "contract", "answer", "answered"}
ASSUME BudgetAssumption == MaxRounds \in Nat \ {0} /\ ToolBudgets \subseteq Nat \ {0}

VARIABLES
  profile,  \* "local" or "production"
  budget,   \* max_tool_calls
  disk,     \* the revision of the source files
  live,     \* the RepositoryState in memory: its version, and the revisions of its lists
  evidence, \* the evidence rows
  flow      \* the workflow of a request

index == <<profile, budget, disk, live>>

Types == {"direct", "multi"}

\* A question that needs several steps goes to hybrid retrieval only, and can be repaired.
Plan(type) == IF type = "multi" THEN <<"hybrid">> ELSE <<"exact", "hybrid">>

Idle == [at |-> "idle", type |-> "direct", version |-> 0, plan |-> <<>>, calls |-> 0,
         signals |-> {}, late |-> {}, seen |-> <<>>, request |-> 0, chunks |-> {}, reason |-> None,
         context |-> "empty", decision |-> None, cites |-> {}, valid |-> FALSE, outcome |-> None]

Observation(tool, status, round) == [tool |-> tool, status |-> status, round |-> round]

\* A signal may come at any step, and once it came it stays: the clock runs on and a
\* cancellation is not withdrawn.  A tool step looks at what came so far; what comes in
\* another step is late until the next tool step, if there is one.
Raised(w) == {[w EXCEPT !.signals = @ \cup w.late \cup s] : s \in SUBSET Signals}
Unseen(w) == {[w EXCEPT !.late = @ \cup s] : s \in SUBSET Signals}

PostToolStopReason(w) ==
  IF "cancelled" \in w.signals THEN "cancelled"
  ELSE IF "elapsed" \in w.signals THEN "elapsed" ELSE None

StopReason(w) ==
  IF PostToolStopReason(w) = None /\ w.calls >= budget
  THEN "calls" ELSE PostToolStopReason(w)

Stopped(reason) == IF reason = "cancelled" THEN "cancelled" ELSE "rejected"

Start(w, type, version) ==
  [w EXCEPT !.at = "check", !.type = type, !.version = version, !.plan = Plan(type)]

\* The registry refuses a call for another version than the current one.
OwnsCall(w) == live.version = w.version

\* A tool reads the chunks that are in memory.
Candidates(found) == IF found THEN {live.chunks} ELSE {}

\* Candidates of two versions do not merge.
Merges(w, found) == found => live.version = w.request

---------------------------------------------------------------------------
(* The steps of a workflow. *)

Step(r, at, w) == flow[r].at = at /\ flow' = [flow EXCEPT ![r] = w]

End(w, outcome) == [w EXCEPT !.at = "done", !.outcome = outcome]

\* The loop of round one: stop, or let the registry check the owner of the call.
CheckTool(r) ==
  \E w \in Raised(flow[r]) :
    LET tool == Head(w.plan)
        reason == StopReason(w)
        called == [w EXCEPT !.calls = @ + 1]
        observed(x, s) == [x EXCEPT !.seen = Append(@, Observation(tool, s, 1))]
    IN  Step(r, "check",
          IF reason # None
          THEN [observed(w, Stopped(reason)) EXCEPT !.at = "select", !.reason = reason]
          ELSE IF ~OwnsCall(w) THEN End(observed(called, "failed"), "failed")
          ELSE [called EXCEPT !.at = "run"])

\* The tool reads the version and the chunks by itself.
RunTool(r) ==
  \E w \in Raised(flow[r]), found \in BOOLEAN, fails \in BOOLEAN :
    LET observed(s) == [w EXCEPT !.seen = Append(@, Observation(Head(w.plan), s, 1))]
        reason == PostToolStopReason(w)
        rest == Tail(w.plan)
    IN  Step(r, "run",
          IF fails THEN End(observed("failed"), "failed")
          ELSE [observed("completed") EXCEPT
                  !.request = live.version,
                  !.chunks = Candidates(found),
                  !.reason = reason, !.plan = rest,
                  !.at = IF reason # None \/ found \/ rest = <<>> THEN "select" ELSE "check"])

\* EvidenceSelector: a request of another version, or a file changed since the index,
\* leaves nothing.
Selections(w) ==
  IF w.chunks # {} /\ w.request = live.version /\ live.files = disk
  THEN {"empty", "weak", "strong"} ELSE {"empty"}

Decision(w, context, allowRepair) ==
  IF context = "strong" THEN "answer"
  ELSE IF allowRepair /\ w.type = "multi" THEN "repair" ELSE "insufficient"

Select(r) ==
  \E w \in Unseen(flow[r]) :
    LET allow == w.reason = None /\ MaxRounds >= 2 /\ w.calls < budget
    IN  IF w.reason = "cancelled" THEN Step(r, "select", End(w, "cancelled"))
        ELSE IF w.request = 0 THEN Step(r, "select", End(w, "limited"))
        ELSE \E c \in Selections(w) :
               Step(r, "select",
                 [w EXCEPT !.context = c, !.decision = Decision(w, c, allow),
                           !.at = IF Decision(w, c, allow) = "repair" THEN "repair" ELSE "cite"])

\* After a repair the context is judged again and cannot be repaired again.
Judged(w) == [w EXCEPT !.decision = Decision(w, w.context, FALSE), !.at = "cite"]

CheckRepair(r) ==
  \E w \in Raised(flow[r]) :
    LET reason == StopReason(w)
        called == [w EXCEPT !.calls = @ + 1]
        observed(x, s) == [x EXCEPT !.seen = Append(@, Observation("hybrid", s, 2))]
    IN  Step(r, "repair",
          IF reason # None THEN Judged([observed(w, Stopped(reason)) EXCEPT !.reason = reason])
          ELSE IF ~OwnsCall(w)
          THEN Judged([observed(called, "failed") EXCEPT !.reason = "contract"])
          ELSE [called EXCEPT !.at = "rerun"])

\* Mutant of RunRepair: the stop reason of before the repair is kept.
RunRepairOnTime(r) ==
  \E w \in Raised(flow[r]), found \in BOOLEAN :
    LET merged == [w EXCEPT !.seen = Append(@, Observation("hybrid", "completed", 2)),
                            !.chunks = @ \cup Candidates(found)]
    IN  \E c \in Selections(merged) : Step(r, "rerun", Judged([merged EXCEPT !.context = c]))

\* Candidates that do not merge are a rejected contract; an error of the tool itself is not
\* caught in this round.
RunRepair(r) ==
  \E w \in Raised(flow[r]), found \in BOOLEAN :
    LET observed(s) == [w EXCEPT !.seen = Append(@, Observation("hybrid", s, 2))]
        merged == [observed("completed") EXCEPT
                     !.chunks = @ \cup Candidates(found),
                     !.reason = PostToolStopReason(w)]
    IN  \/ Step(r, "rerun", [w EXCEPT !.at = "raised"])
        \/ /\ ~Merges(w, found)
           /\ Step(r, "rerun", Judged([observed("failed") EXCEPT !.reason = "contract"]))
        \/ /\ Merges(w, found)
           /\ \E c \in Selections(merged) :
                Step(r, "rerun", Judged([merged EXCEPT !.context = c]))

\* Mutant of Cite: a context that is no longer current is waited for.
CiteWhenCurrent(r) ==
  /\ flow[r].request = live.version
  /\ Step(r, "cite", End(flow[r], "insufficient")) /\ UNCHANGED evidence

\* The evidence rows that a context can cite.
Citations(w) == {[version |-> w.request, chunk |-> k] : k \in w.chunks}

\* context_to_citations refuses a context that is no longer current.
Cite(r) ==
  \E w \in Unseen(flow[r]) :
    IF w.reason = "cancelled"
    THEN Step(r, "cite", End(w, "cancelled")) /\ UNCHANGED evidence
    ELSE IF w.request # live.version
    THEN Step(r, "cite", [w EXCEPT !.at = "raised"]) /\ UNCHANGED evidence
    ELSE IF w.context = "empty"
    THEN /\ Step(r, "cite", End(w, IF w.reason # None THEN "limited" ELSE "insufficient"))
         /\ UNCHANGED evidence
    ELSE \E some \in (SUBSET Citations(w)) \ {{}} :
           /\ Step(r, "cite", [w EXCEPT !.at = "validate", !.cites = some])
           /\ evidence' = evidence \cup some

\* Evidence is valid while its version is current and its lines exist.
Valid(cites) ==
  IF \A e \in cites : e.version = live.version THEN BOOLEAN ELSE {FALSE}

Validate(r) ==
  \E w \in Unseen(flow[r]), valid \in Valid(flow[r].cites) :
    Step(r, "validate",
      End([w EXCEPT !.valid = valid],
          IF w.reason = None /\ w.decision = "answer" /\ valid THEN "answered" ELSE "limited"))

Workflow(r) ==
  \/ CheckTool(r) /\ UNCHANGED evidence
  \/ RunTool(r) /\ UNCHANGED evidence
  \/ Select(r) /\ UNCHANGED evidence
  \/ CheckRepair(r) /\ UNCHANGED evidence
  \/ RunRepair(r) /\ UNCHANGED evidence
  \/ Cite(r)
  \/ Validate(r) /\ UNCHANGED evidence

---------------------------------------------------------------------------
(* Properties *)

\* An answer that the workflow calls complete met the requirements of its question, and when
\* its last tool call ended no limit had been passed and no cancellation had come: a time
\* limit that is passed in a tool call, of the repair too, takes the answer back to
\* "limited".  What comes late, while the context is selected, cited and validated, is not
\* looked at again: such an answer is complete and older than max_elapsed_ms.
AnsweredOnTimelyTools ==
  \A r \in Requests :
    LET w == flow[r]
    IN  w.request > 0 /\ w.outcome = "answered" =>
          /\ w.context = "strong" /\ w.valid /\ w.cites # {}
          /\ w.signals = {} /\ w.calls <= budget
          /\ Len(w.seen) = w.calls
          /\ \A i \in DOMAIN w.seen : w.seen[i].status = "completed"
=============================================================================
