-------------------------- MODULE AssistantTurns --------------------------
(***************************************************************************)
(* ChatService and the conversations it keeps: a request loads the memory of *)
(* its conversation, runs the agent workflow or takes evidence that the user *)
(* chose, may ask the provider for a better text, and stores the turn in one *)
(* transaction, while the index is published and conversations are deleted. *)
(***************************************************************************)
EXTENDS AgentWorkflow, FiniteSetsExt, SequencesExt

CONSTANTS
  Conversations,
  MaxTurns,     \* bound on the turns of a conversation
  MaxVersions,  \* bound on the published versions
  MaxMemory     \* DEFAULT_MEMORY_MESSAGES

ASSUME TurnBoundAssumption ==
  MaxTurns \in Nat /\ MaxVersions \in Nat \ {0} /\ MaxMemory \in Nat \ {0}

VARIABLES
  row,           \* version of the repository row
  conversations, \* the conversation rows, with their turns
  turn           \* what the chat service knows of a request

vars == <<index, evidence, flow, row, conversations, turn>>

NoTurn == [conversation |-> None, memory |-> {}, loaded |-> 0, sent |-> {}, accepted |-> FALSE]

Init ==
  /\ profile \in {"local", "production"}
  /\ budget \in ToolBudgets
  /\ disk = 1 /\ row = 1
  /\ live = [version |-> 1, files |-> 1, chunks |-> 1]
  /\ evidence = {}
  /\ flow = [r \in Requests |-> Idle]
  /\ conversations = [c \in Conversations |-> [status |-> None, turns |-> <<>>]]
  /\ turn = [r \in Requests |-> NoTurn]

---------------------------------------------------------------------------
(* The index: a source file changes, then it is indexed.  The rows of the new version  *)
(* are committed first; then, in the local profile, replace_repository_index           *)
(* overwrites the object that the requests read.  In production the process of the API *)
(* reads the rows when it starts, only.                                                *)

Edit ==
  /\ disk = row /\ disk < MaxVersions
  /\ disk' = disk + 1
  /\ UNCHANGED <<profile, budget, live, evidence, flow, row, conversations, turn>>

Commit ==
  /\ row = live.version /\ live.chunks = live.version /\ disk = row + 1
  /\ row' = row + 1
  /\ UNCHANGED <<index, evidence, flow, conversations, turn>>

Overwrite ==
  /\ profile = "local"
  /\ \/ live.version < row /\ live' = [live EXCEPT !.version = row]
     \/ live.version = row /\ live.files < row /\ live' = [live EXCEPT !.files = row]
     \/ live.files = row /\ live.chunks < row /\ live' = [live EXCEPT !.chunks = row]
  /\ UNCHANGED <<profile, budget, disk, evidence, flow, row, conversations, turn>>

Restart ==
  /\ profile = "production" /\ live.version < row
  /\ live' = [version |-> row, files |-> row, chunks |-> row]
  /\ flow' = [r \in Requests |-> Idle] /\ turn' = [r \in Requests |-> NoTurn]
  /\ UNCHANGED <<profile, budget, disk, evidence, row, conversations>>

---------------------------------------------------------------------------
(* A chat request. *)

Latest(c) == Max({0} \cup {t.version : t \in ToSet(conversations[c].turns)})

Messages(c) ==
  FlattenSeq([i \in DOMAIN conversations[c].turns |->
    LET v == conversations[c].turns[i].version
    IN  <<[role |-> "operator", version |-> v], [role |-> "assistant", version |-> v]>>])

\* The last messages, without those of the assistant if the history is of another version.
\* The token budget, which can only leave out more, is left out.
ProjectMemory(c, version) ==
  LET stale == Latest(c) # version
      kept == SelectSeq(Messages(c), LAMBDA m : ~(stale /\ m.role = "assistant"))
      first == IF Len(kept) > MaxMemory THEN Len(kept) - MaxMemory + 1 ELSE 1
  IN  ToSet(SubSeq(kept, first, Len(kept)))

\* Without an id the conversation is a new one, stored with its first turn.
Open(r, c) ==
  /\ flow[r].at = "idle"
  /\ \/ conversations[c].status = None /\ \A q \in Requests : turn[q].conversation # c
     \/ conversations[c].status = "active"
  /\ turn' = [turn EXCEPT ![r] =
       [NoTurn EXCEPT !.conversation = c, !.loaded = live.version,
                      !.memory = ProjectMemory(c, live.version)]]

Chat(r, c, type) ==
  /\ Open(r, c)
  /\ flow' = [flow EXCEPT ![r] = Start(Idle, type, live.version)]
  /\ UNCHANGED <<index, evidence, row, conversations>>

\* ask_with_evidence: evidence of another version is refused, and the turn says so.
ChatWithEvidence(r, c, type, chosen) ==
  /\ Open(r, c)
  /\ LET few == Cardinality(chosen) < (IF type = "multi" THEN 2 ELSE 1)
         asked == Start(Idle, type, live.version)
     IN  \/ flow' = [flow EXCEPT ![r] = End(asked, "insufficient")]
         \/ /\ chosen # {} /\ \A e \in chosen : e.version = live.version
            /\ flow' = [flow EXCEPT ![r] =
                 End([asked EXCEPT !.cites = chosen], IF few THEN "insufficient" ELSE "answered")]
  /\ UNCHANGED <<index, evidence, row, conversations>>

\* Mutant of ProviderContext: the selected chunks are sent as they are.
ProviderContextUnread(r) == {e.chunk : e \in flow[r].cites}

\* What may be sent: lines read again from files that still have their indexed hash.
ProviderContext(r) ==
  IF /\ flow[r].cites # {} /\ \A e \in flow[r].cites : e.version = live.version
     /\ live.files = disk
  THEN {disk} ELSE {}

\* What the turn keeps of the workflow.
Goes(r, at) == flow' = [flow EXCEPT ![r] = [Idle EXCEPT !.at = at, !.cites = flow[r].cites]]

\* The lines for the provider are read before it is asked, all of them or, over the token
\* budget, none; without them it is not asked.
BuildContext(r) ==
  /\ flow[r].at = "done" /\ flow[r].outcome = "answered"
  /\ \E sent \in {{}, ProviderContext(r)} :
       /\ turn' = [turn EXCEPT ![r].sent = sent]
       /\ Goes(r, IF sent = {} THEN "store" ELSE "ask")
  /\ UNCHANGED <<index, evidence, row, conversations>>

\* The provider may fail or answer outside the evidence; what it cites is validated against
\* the index of then.
Generate(r) ==
  /\ flow[r].at = "ask"
  /\ \E accepted \in {FALSE} \cup Valid(flow[r].cites) :
       turn' = [turn EXCEPT ![r].accepted = accepted]
  /\ Goes(r, "store")
  /\ UNCHANGED <<index, evidence, row, conversations>>

WithoutProvider(r) ==
  /\ flow[r].at = "done" /\ flow[r].outcome # "answered"
  /\ Goes(r, "store")
  /\ UNCHANGED <<index, evidence, row, conversations, turn>>

\* An exception leaves the request without a turn.
Fail(r) ==
  /\ flow[r].at = "raised"
  /\ flow' = [flow EXCEPT ![r] = Idle] /\ turn' = [turn EXCEPT ![r] = NoTurn]
  /\ UNCHANGED <<index, evidence, row, conversations>>

\* The transaction refuses a citation that is not of the repository's version of the turn,
\* and the local store a turn that is not of the active version.
Owned(t) ==
  /\ \A e \in t.cites : e \in evidence /\ e.version = t.version
  /\ profile = "local" => t.version = row

\* A conversation is created with its first turn; its status is otherwise left alone.
Stored(c, t) ==
  [status |-> IF conversations[c].status = None THEN "active" ELSE conversations[c].status,
   turns |-> Append(conversations[c].turns, t)]

\* build_persisted_turn, with the revisions that its text was made of: the lines that the
\* provider was sent, or the cited chunks.  The rest of the trace is left out.
Turn(r) ==
  LET cites == flow[r].cites
      accepted == turn[r].accepted
  IN  [version |-> live.version, cites |-> cites, accepted |-> accepted,
       text |-> IF accepted THEN turn[r].sent ELSE {e.chunk : e \in cites}]

\* save_assistant_turn, with the version that the repository has now.
Persist(r) ==
  LET c == turn[r].conversation
      t == Turn(r)
  IN  /\ flow[r].at = "store"
      /\ \/ /\ Owned(t) /\ Len(conversations[c].turns) < MaxTurns
            /\ conversations' = [conversations EXCEPT ![c] = Stored(c, t)]
         \/ ~Owned(t) /\ UNCHANGED conversations
         \/ Len(conversations[c].turns) = MaxTurns /\ UNCHANGED conversations
      /\ flow' = [flow EXCEPT ![r] = Idle] /\ turn' = [turn EXCEPT ![r] = NoTurn]
      /\ UNCHANGED <<index, evidence, row>>

DeleteConversation(c) ==
  /\ conversations[c].status = "active"
  /\ conversations' = [conversations EXCEPT ![c].status = "deleted"]
  /\ UNCHANGED <<index, evidence, flow, row, turn>>

---------------------------------------------------------------------------
Begin(r) ==
  \E c \in Conversations, type \in Types :
    \/ Chat(r, c, type)
    \/ \E chosen \in SUBSET evidence : ChatWithEvidence(r, c, type, chosen)

Proceed(r) ==
  \/ Workflow(r) /\ UNCHANGED <<index, row, conversations, turn>>
  \/ BuildContext(r) \/ Generate(r) \/ WithoutProvider(r) \/ Fail(r) \/ Persist(r)

Next ==
  \/ \E r \in Requests : Begin(r) \/ Proceed(r)
  \/ Edit \/ Commit \/ Overwrite \/ Restart
  \/ \E c \in Conversations : DeleteConversation(c)

\* A request runs in a thread of the server until it returns.
Spec == Init /\ [][Next]_vars /\ \A r \in Requests : WF_vars(Proceed(r))

---------------------------------------------------------------------------
(* Properties *)

Turns == UNION {ToSet(conversations[c].turns) : c \in Conversations}

\* The text of a stored turn tells of the version that the turn names, whatever the source
\* and the index became while the context was built, the provider answered and the turn was
\* stored: always if the provider wrote it, and in production for every turn.  In the local
\* profile the service's own text may quote chunks that a publication under way has not
\* replaced yet.
TextIsOfItsVersion ==
  \A t \in Turns :
    t.accepted \/ profile = "production" => t.text \subseteq {t.version}

\* Every request ends: with a turn or with an error.
RequestsEnd == \A r \in Requests : flow[r].at # "idle" ~> flow[r].at = "idle"

\* "Assistant messages from an older index are excluded" from the memory of a conversation.
OldAnswersExcluded ==
  \A r \in Requests, m \in UNION {turn[q].memory : q \in Requests} :
    m \in turn[r].memory /\ m.role = "assistant" => m.version = turn[r].loaded
=============================================================================
