----------------------- MODULE AssistantTurnsProofs -----------------------
(* Proofs about AssistantTurns for any requests, conversations, signals,   *)
(* budgets and bounds.                                                     *)
EXTENDS AssistantTurns, TLAPS

Working  == {"check", "run", "select", "repair", "rerun", "cite", "validate"}
Places   == Working \cup {"idle", "done", "raised", "ask", "store"}
Tools    == {"exact", "hybrid"}
Cited    == [version : Nat, chunk : Nat]
Observed == [tool : Tools, status : {"completed", "failed", "cancelled", "rejected"}, round : {1, 2}]

Reasons   == {None, "cancelled", "elapsed", "calls", "contract"}
Contexts  == {"empty", "weak", "strong"}
Decisions == {None, "answer", "repair", "insufficient"}
Outcomes  == {None, "answered", "limited", "insufficient", "failed", "cancelled"}

Flows ==
  [at : Places, type : Types, version : Nat, plan : Seq(Tools), calls : Nat,
   signals : SUBSET {"cancelled", "elapsed"}, late : SUBSET {"cancelled", "elapsed"},
   seen : Seq(Observed), request : Nat, chunks : SUBSET Nat, reason : Reasons, context : Contexts,
   decision : Decisions, cites : SUBSET Cited, valid : BOOLEAN,
   outcome : Outcomes]

Completed(w) == \A i \in DOMAIN w.seen : w.seen[i].status = "completed"
Pending(w)   == IF w.at \in {"run", "rerun"} THEN 1 ELSE 0

\* As long as nothing stops it, no signal had come when a workflow last looked, and every
\* call it counted is observed as completed but the one that is under way.
OnTime(w) == w.signals = {} /\ Completed(w) /\ Len(w.seen) + Pending(w) = w.calls

Concluded(w) == w.context = "strong" /\ w.valid /\ w.cites # {} /\ OnTime(w)

Sound(w) ==
  /\ w \in Flows
  /\ w.at \in {"check", "run"} => w.plan # <<>>
  /\ w.calls <= budget
  /\ w.at \in {"check", "run", "repair", "rerun"} => w.reason = None
  /\ w.at \in Working /\ w.reason = None => OnTime(w)
  /\ w.at \in {"cite", "validate"} /\ w.decision = "answer" => w.context = "strong"
  /\ w.at = "validate" => w.cites # {}
  /\ w.outcome = "answered" => w.at = "done" /\ (w.request > 0 => Concluded(w))
  /\ profile = "production" => w.chunks \subseteq {w.request}

Index ==
  /\ budget \in Nat
  /\ disk \in Nat /\ row \in Nat
  /\ live \in [version : Nat, files : Nat, chunks : Nat]
  /\ live.files <= live.version /\ live.version <= row /\ row <= disk
  /\ profile = "production" => live.chunks = live.version

FlowsKept == flow \in [Requests -> Flows] /\ \A r \in Requests : Sound(flow[r])

\* In production the chunks that a version's evidence quotes are of that version.
EvidenceKept ==
  /\ evidence \subseteq Cited
  /\ profile = "production" => \A e \in evidence : e.chunk = e.version

TurnRecords == [version : Nat, cites : SUBSET Cited, accepted : BOOLEAN, text : SUBSET Nat]

\* A turn cites rows of its version, and its text is of that version or quotes what it cites.
Tells(t) ==
  /\ \A e \in t.cites : e \in evidence /\ e.version = t.version
  /\ t.accepted \/ profile = "production" => t.text \subseteq {t.version}

TurnsKept ==
  /\ conversations \in [Conversations -> [status : {None, "active", "deleted"}, turns : Seq(TurnRecords)]]
  /\ \A c \in Conversations : \A i \in DOMAIN conversations[c].turns : Tells(conversations[c].turns[i])

\* What is sent is of the version that the answer cites, until the turn is stored.
Sends(x, w) ==
  /\ DOMAIN x = DOMAIN NoTurn /\ x.sent \subseteq Nat /\ x.accepted \in BOOLEAN
  /\ \A s \in x.sent : w.cites # {} /\ \A e \in w.cites : e.version = s
  /\ w.at \notin {"ask", "store"} => x.sent = {} /\ ~x.accepted

SentKept == DOMAIN turn = Requests /\ \A r \in Requests : Sends(turn[r], flow[r])

AssistantInvariant == Index /\ FlowsKept /\ EvidenceKept /\ TurnsKept /\ SentKept

\* One step of a workflow: what it becomes is sound.
Becomes(r, x) == flow' = [flow EXCEPT ![r] = x] /\ Sound(x)

LEMMA SetAt == ASSUME NEW w \in Flows, NEW n \in Places PROVE [w EXCEPT !.at = n] \in Flows
  BY DEF Flows
LEMMA SetCalls == ASSUME NEW w \in Flows, NEW n \in Nat PROVE [w EXCEPT !.calls = n] \in Flows
  BY DEF Flows
LEMMA SetSignals ==
  ASSUME NEW w \in Flows, NEW n \in SUBSET {"cancelled", "elapsed"} PROVE [w EXCEPT !.signals = n] \in Flows
  BY DEF Flows
LEMMA SetLate ==
  ASSUME NEW w \in Flows, NEW n \in SUBSET {"cancelled", "elapsed"} PROVE [w EXCEPT !.late = n] \in Flows
  BY DEF Flows
LEMMA SetSeen == ASSUME NEW w \in Flows, NEW n \in Seq(Observed) PROVE [w EXCEPT !.seen = n] \in Flows
  BY DEF Flows
LEMMA SetReason == ASSUME NEW w \in Flows, NEW n \in Reasons PROVE [w EXCEPT !.reason = n] \in Flows
  BY DEF Flows
LEMMA SetRequest == ASSUME NEW w \in Flows, NEW n \in Nat PROVE [w EXCEPT !.request = n] \in Flows
  BY DEF Flows
LEMMA SetChunks == ASSUME NEW w \in Flows, NEW n \in SUBSET Nat PROVE [w EXCEPT !.chunks = n] \in Flows
  BY DEF Flows
LEMMA SetContext == ASSUME NEW w \in Flows, NEW n \in Contexts PROVE [w EXCEPT !.context = n] \in Flows
  BY DEF Flows
LEMMA SetDecision == ASSUME NEW w \in Flows, NEW n \in Decisions PROVE [w EXCEPT !.decision = n] \in Flows
  BY DEF Flows
LEMMA SetCites == ASSUME NEW w \in Flows, NEW n \in SUBSET Cited PROVE [w EXCEPT !.cites = n] \in Flows
  BY DEF Flows
LEMMA SetValid == ASSUME NEW w \in Flows, NEW n \in BOOLEAN PROVE [w EXCEPT !.valid = n] \in Flows
  BY DEF Flows
LEMMA SetOutcome == ASSUME NEW w \in Flows, NEW n \in Outcomes PROVE [w EXCEPT !.outcome = n] \in Flows
  BY DEF Flows
LEMMA SetPlan == ASSUME NEW w \in Flows, NEW n \in Seq(Tools) PROVE [w EXCEPT !.plan = n] \in Flows
  BY DEF Flows

LEMMA RaisedSound ==
  ASSUME NEW w \in Flows, NEW x \in Raised(w)
  PROVE  /\ x \in Flows
         /\ x.signals = {} => w.signals = {}
         /\ x.at = w.at /\ x.type = w.type /\ x.version = w.version /\ x.plan = w.plan /\ x.calls = w.calls
         /\ x.seen = w.seen /\ x.request = w.request /\ x.chunks = w.chunks /\ x.reason = w.reason
         /\ x.context = w.context /\ x.decision = w.decision /\ x.cites = w.cites /\ x.valid = w.valid
         /\ x.outcome = w.outcome
  <1>1. PICK s \in SUBSET Signals : x = [w EXCEPT !.signals = w.signals \cup w.late \cup s]
    BY DEF Raised
  <1>2. w.signals \cup w.late \cup s \in SUBSET {"cancelled", "elapsed"}
    BY SignalAssumption DEF Flows
  <1>3. x \in Flows
    BY <1>1, <1>2, SetSignals
  <1>4. x.signals = w.signals \cup w.late \cup s
    BY <1>1 DEF Flows
  <1> QED BY <1>1, <1>3, <1>4 DEF Flows

LEMMA UnseenSound ==
  ASSUME NEW w \in Flows, NEW x \in Unseen(w)
  PROVE  /\ x \in Flows
         /\ x.signals = w.signals /\ x.at = w.at /\ x.plan = w.plan /\ x.calls = w.calls
         /\ x.seen = w.seen /\ x.request = w.request /\ x.chunks = w.chunks /\ x.reason = w.reason
         /\ x.context = w.context /\ x.decision = w.decision /\ x.cites = w.cites
         /\ x.outcome = w.outcome
  <1>1. PICK s \in SUBSET Signals : x = [w EXCEPT !.late = w.late \cup s]
    BY DEF Unseen
  <1>2. w.late \cup s \in SUBSET {"cancelled", "elapsed"}
    BY SignalAssumption DEF Flows
  <1>3. x \in Flows
    BY <1>1, <1>2, SetLate
  <1> QED BY <1>1, <1>3 DEF Flows

\* What is true of a workflow that works is true of it with signals that it has not seen.
LEMMA UnseenOnTime ==
  ASSUME NEW v \in Flows, NEW w \in Unseen(v), v.reason = None => OnTime(v)
  PROVE  w.reason = None => OnTime(w)
  BY UnseenSound DEF OnTime, Completed, Pending

\* One more observation, of a call that was counted before.
LEMMA Observes ==
  ASSUME NEW w \in Flows, NEW o \in Observed, NEW x, x = [w EXCEPT !.seen = Append(w.seen, o)]
  PROVE  /\ x \in Flows
         /\ Len(x.seen) = Len(w.seen) + 1
         /\ Completed(w) /\ o.status = "completed" => Completed(x)
         /\ x.at = w.at /\ x.type = w.type /\ x.version = w.version /\ x.plan = w.plan /\ x.calls = w.calls
         /\ x.signals = w.signals /\ x.request = w.request /\ x.chunks = w.chunks /\ x.reason = w.reason
         /\ x.context = w.context /\ x.decision = w.decision /\ x.cites = w.cites /\ x.valid = w.valid
         /\ x.outcome = w.outcome
  <1>1. w.seen \in Seq(Observed)
    BY DEF Flows
  <1>2. Append(w.seen, o) \in Seq(Observed) /\ Len(Append(w.seen, o)) = Len(w.seen) + 1
    BY <1>1
  <1>3. x \in Flows
    BY <1>2, SetSeen
  <1>4. x.seen = Append(w.seen, o)
    BY DEF Flows
  <1>5. ASSUME Completed(w), o.status = "completed"
        PROVE  Completed(x)
    <2> SUFFICES ASSUME NEW i \in 1..Len(w.seen) + 1
                 PROVE  Append(w.seen, o)[i].status = "completed"
      BY <1>1, <1>2, <1>4 DEF Completed
    <2>1. CASE i = Len(w.seen) + 1
      BY <1>1, <1>5, <2>1
    <2>2. CASE i \in 1..Len(w.seen)
      BY <1>1, <1>5, <2>2 DEF Completed
    <2> QED BY <2>1, <2>2
  <1> QED BY <1>2, <1>3, <1>4, <1>5 DEF Flows

LEMMA OnTimeReason ==
  ASSUME NEW w \in Flows, PostToolStopReason(w) = None
  PROVE  w.signals = {}
  BY NoneAssumption DEF PostToolStopReason, Flows

\* Why a workflow stops, and that a stop reason of none means that no signal came.
LEMMA StopReasons ==
  ASSUME NEW w \in Flows
  PROVE  /\ PostToolStopReason(w) \in {None, "cancelled", "elapsed"}
         /\ StopReason(w) \in {None, "cancelled", "elapsed", "calls"}
         /\ StopReason(w) = None => PostToolStopReason(w) = None /\ ~(w.calls >= budget)
         /\ Stopped(StopReason(w)) \in {"cancelled", "rejected"}
  BY NoneAssumption DEF StopReason, PostToolStopReason, Stopped

LEMMA Ends ==
  ASSUME NEW w \in Flows, NEW o \in Outcomes, NEW x, x = End(w, o)
  PROVE  /\ x \in Flows
         /\ x.at = "done" /\ x.outcome = o
         /\ x.type = w.type /\ x.version = w.version /\ x.plan = w.plan /\ x.calls = w.calls
         /\ x.signals = w.signals /\ x.seen = w.seen /\ x.request = w.request /\ x.chunks = w.chunks
         /\ x.reason = w.reason /\ x.context = w.context /\ x.decision = w.decision /\ x.cites = w.cites
         /\ x.valid = w.valid
  <1> DEFINE a == [w EXCEPT !.at = "done"]
  <1>1. x = [a EXCEPT !.outcome = o]
    BY DEF End
  <1>2. "done" \in Places
    BY DEF Places
  <1>3. /\ a \in Flows /\ a.at = "done"
        /\ a.type = w.type /\ a.version = w.version /\ a.plan = w.plan /\ a.calls = w.calls
        /\ a.signals = w.signals /\ a.seen = w.seen /\ a.request = w.request /\ a.chunks = w.chunks
        /\ a.reason = w.reason /\ a.context = w.context /\ a.decision = w.decision /\ a.cites = w.cites
        /\ a.valid = w.valid
    BY <1>2, SetAt DEF Flows
  <1> HIDE DEF a
  <1>4. x \in Flows
    BY <1>1, <1>3, SetOutcome
  <1> QED BY <1>1, <1>3, <1>4 DEF Flows

LEMMA CheckToolSound ==
  ASSUME Index, NEW r \in Requests, Sound(flow[r]), CheckTool(r)
  PROVE  \E x : Becomes(r, x)
  <1> DEFINE v == flow[r]
  <1>1. /\ v \in Flows /\ v.at = "check" /\ v.plan # <<>> /\ v.calls <= budget
        /\ v.reason = None /\ OnTime(v)
        /\ v.outcome # "answered"
        /\ profile = "production" => v.chunks \subseteq {v.request}
    BY DEF CheckTool, Step, Sound, Working
  <1>2. PICK w \in Raised(v) :
          LET reason == StopReason(w)
              called == [w EXCEPT !.calls = @ + 1]
              observed(x, s) == [x EXCEPT !.seen = Append(@, Observation(Head(w.plan), s, 1))]
          IN  flow' = [flow EXCEPT ![r] =
                IF reason # None
                THEN [observed(w, Stopped(reason)) EXCEPT !.at = "select", !.reason = reason]
                ELSE IF ~OwnsCall(w) THEN End(observed(called, "failed"), "failed")
                ELSE [called EXCEPT !.at = "run"]]
    BY DEF CheckTool, Step
  <1> HIDE DEF v
  <1>3. /\ w \in Flows
        /\ w.signals = {} => v.signals = {}
        /\ w.plan = v.plan /\ w.calls = v.calls /\ w.seen = v.seen /\ w.request = v.request
        /\ w.chunks = v.chunks /\ w.reason = v.reason /\ w.outcome = v.outcome
    BY <1>1, <1>2, RaisedSound
  <1>4. Head(w.plan) \in Tools /\ w.calls \in Nat
    BY <1>1, <1>3 DEF Flows
  <1>5. CASE StopReason(w) # None
    <2> DEFINE o == [w EXCEPT !.seen = Append(w.seen, Observation(Head(w.plan), Stopped(StopReason(w)), 1))]
               a == [o EXCEPT !.at = "select"]
               x == [a EXCEPT !.reason = StopReason(w)]
    <2>1. flow' = [flow EXCEPT ![r] = x]
      BY <1>2, <1>5
    <2>2. StopReason(w) \in Reasons /\ StopReason(w) # None
      BY <1>3, <1>5, StopReasons DEF Reasons
    <2>3. Observation(Head(w.plan), Stopped(StopReason(w)), 1) \in Observed
      BY <1>3, <1>4, StopReasons DEF Observation, Observed
    <2>4. /\ o \in Flows /\ o.calls = w.calls /\ o.request = w.request /\ o.chunks = w.chunks
          /\ o.outcome = w.outcome
      BY <1>3, <2>3, Observes
    <2> HIDE DEF o
    <2>5. /\ a \in Flows /\ a.at = "select" /\ a.calls = o.calls /\ a.request = o.request
          /\ a.chunks = o.chunks /\ a.outcome = o.outcome
      BY <2>4, SetAt DEF Flows, Places, Working
    <2> HIDE DEF a
    <2>6. /\ x \in Flows /\ x.at = a.at /\ x.reason = StopReason(w) /\ x.calls = a.calls /\ x.request = a.request
          /\ x.chunks = a.chunks /\ x.outcome = a.outcome
      BY <2>2, <2>5, SetReason DEF Flows
    <2> HIDE DEF x
    <2>7. Sound(x)
      BY <1>1, <1>3, <2>2, <2>4, <2>5, <2>6 DEF Sound, Working
    <2> QED BY <2>1, <2>7 DEF Becomes
  <1>6. CASE StopReason(w) = None
    <2>1. w.signals = {} /\ w.calls < budget
      BY <1>3, <1>4, <1>6, StopReasons, OnTimeReason DEF Index
    <2> DEFINE c == [w EXCEPT !.calls = w.calls + 1]
    <2>2. /\ c \in Flows /\ c.calls = w.calls + 1 /\ c.plan = w.plan /\ c.seen = w.seen /\ c.request = w.request
          /\ c.chunks = w.chunks /\ c.reason = w.reason /\ c.outcome = w.outcome /\ c.signals = w.signals
      <3>1. w.calls + 1 \in Nat
        BY <1>4
      <3>2. c \in Flows
        BY <1>3, <3>1, SetCalls
      <3> QED BY <1>3, <3>2 DEF Flows
    <2>3. CASE ~OwnsCall(w)
      <3> DEFINE o == [c EXCEPT !.seen = Append(c.seen, Observation(Head(w.plan), "failed", 1))]
                 x == End(o, "failed")
      <3>1. flow' = [flow EXCEPT ![r] = x]
        BY <1>2, <1>6, <2>3
      <3> HIDE DEF c
      <3>2. Observation(Head(w.plan), "failed", 1) \in Observed
        BY <1>4 DEF Observation, Observed
      <3>3. o \in Flows /\ o.calls = c.calls /\ o.request = c.request /\ o.chunks = c.chunks
        BY <2>2, <3>2, Observes
      <3> HIDE DEF o
      <3>4. /\ x \in Flows /\ x.at = "done" /\ x.calls = o.calls /\ x.request = o.request /\ x.chunks = o.chunks
            /\ x.outcome = "failed"
        <4>1. "failed" \in Outcomes
          BY DEF Outcomes
        <4> QED BY <3>3, <4>1, Ends
      <3> HIDE DEF x
      <3>5. Sound(x)
        BY <1>1, <1>3, <1>4, <2>1, <2>2, <3>3, <3>4 DEF Sound, Working, Index
      <3> QED BY <3>1, <3>5 DEF Becomes
    <2>4. CASE OwnsCall(w)
      <3> DEFINE x == [c EXCEPT !.at = "run"]
      <3>1. flow' = [flow EXCEPT ![r] = x]
        BY <1>2, <1>6, <2>4
      <3> HIDE DEF c
      <3>2. /\ x \in Flows /\ x.at = "run" /\ x.calls = c.calls /\ x.request = c.request /\ x.chunks = c.chunks
            /\ x.reason = c.reason /\ x.seen = c.seen /\ x.signals = c.signals /\ x.plan = c.plan
            /\ x.outcome = c.outcome
        BY <2>2, SetAt DEF Flows, Places, Working
      <3> HIDE DEF x
      <3>3. OnTime(x)
        BY <1>1, <1>3, <1>4, <2>1, <2>2, <3>2 DEF OnTime, Completed, Pending, Flows
      <3>4. Sound(x)
        BY <1>1, <1>3, <1>4, <2>1, <2>2, <3>2, <3>3 DEF Sound, Working, Index
      <3> QED BY <3>1, <3>4 DEF Becomes
    <2> QED BY <2>3, <2>4
  <1> QED BY <1>5, <1>6

\* The tool in round one: it reads the version, so that in production the chunks it finds
\* are of that version.
LEMMA RunToolSound ==
  ASSUME Index, NEW r \in Requests, Sound(flow[r]), RunTool(r)
  PROVE  \E x : Becomes(r, x)
  <1> DEFINE v == flow[r]
  <1>1. /\ v \in Flows /\ v.at = "run" /\ v.plan # <<>> /\ v.calls <= budget
        /\ v.reason = None /\ OnTime(v)
        /\ v.outcome # "answered"
        /\ profile = "production" => v.chunks \subseteq {v.request}
    BY DEF RunTool, Step, Sound, Working
  <1>2. PICK w \in Raised(v), found \in BOOLEAN, fails \in BOOLEAN :
          LET observed(s) == [w EXCEPT !.seen = Append(@, Observation(Head(w.plan), s, 1))]
              reason == PostToolStopReason(w)
              rest == Tail(w.plan)
          IN  flow' = [flow EXCEPT ![r] =
                IF fails THEN End(observed("failed"), "failed")
                ELSE [observed("completed") EXCEPT
                        !.request = live.version,
                        !.chunks = Candidates(found),
                        !.reason = reason, !.plan = rest,
                        !.at = IF reason # None \/ found \/ rest = <<>> THEN "select" ELSE "check"]]
    BY DEF RunTool, Step
  <1> HIDE DEF v
  <1>3. /\ w \in Flows
        /\ w.signals = {} => v.signals = {}
        /\ w.plan = v.plan /\ w.calls = v.calls /\ w.seen = v.seen /\ w.request = v.request
        /\ w.chunks = v.chunks /\ w.reason = v.reason /\ w.outcome = v.outcome
    BY <1>1, <1>2, RaisedSound
  <1>4. Head(w.plan) \in Tools /\ w.calls \in Nat /\ Tail(w.plan) \in Seq(Tools)
    BY <1>1, <1>3 DEF Flows
  <1>5. CASE fails
    <2> DEFINE o == [w EXCEPT !.seen = Append(w.seen, Observation(Head(w.plan), "failed", 1))]
               x == End(o, "failed")
    <2>1. flow' = [flow EXCEPT ![r] = x]
      BY <1>2, <1>5
    <2>2. Observation(Head(w.plan), "failed", 1) \in Observed /\ "failed" \in Outcomes
      BY <1>4 DEF Observation, Observed, Outcomes
    <2>3. o \in Flows /\ o.calls = w.calls /\ o.request = w.request /\ o.chunks = w.chunks
      BY <1>3, <2>2, Observes
    <2> HIDE DEF o
    <2>4. /\ x \in Flows /\ x.at = "done" /\ x.outcome = "failed" /\ x.calls = o.calls
          /\ x.request = o.request /\ x.chunks = o.chunks
      BY <2>2, <2>3, Ends
    <2> HIDE DEF x
    <2>5. Sound(x)
      BY <1>1, <1>3, <2>3, <2>4 DEF Sound, Working
    <2> QED BY <2>1, <2>5 DEF Becomes
  <1>6. CASE ~fails
    <2> DEFINE reason == PostToolStopReason(w)
               place == IF reason # None \/ found \/ Tail(w.plan) = <<>> THEN "select" ELSE "check"
               o == [w EXCEPT !.seen = Append(w.seen, Observation(Head(w.plan), "completed", 1))]
               a == [o EXCEPT !.request = live.version]
               b == [a EXCEPT !.chunks = Candidates(found)]
               c == [b EXCEPT !.reason = reason]
               d == [c EXCEPT !.plan = Tail(w.plan)]
               x == [d EXCEPT !.at = place]
    <2>1. flow' = [flow EXCEPT ![r] = x]
      BY <1>2, <1>6
    <2>2. /\ Observation(Head(w.plan), "completed", 1) \in Observed
          /\ Observation(Head(w.plan), "completed", 1).status = "completed"
      BY <1>4 DEF Observation, Observed
    <2>3. /\ reason \in Reasons /\ place \in {"select", "check"} 
          /\ place = "check" => Tail(w.plan) # <<>> /\ reason = None
          /\ reason = None => w.signals = {}
      BY <1>3, StopReasons, OnTimeReason DEF Reasons
    <2>4. /\ Candidates(found) \in SUBSET Nat /\ live.version \in Nat
          /\ profile = "production" => Candidates(found) \subseteq {live.version}
      BY DEF Candidates, Index
    <2> HIDE DEF reason, place
    <2>5. /\ o \in Flows /\ o.calls = w.calls /\ o.outcome = w.outcome /\ o.signals = w.signals
          /\ Len(o.seen) = Len(w.seen) + 1
          /\ Completed(w) => Completed(o)
      BY <1>3, <2>2, Observes
    <2> HIDE DEF o
    <2>6. /\ a \in Flows /\ a.calls = o.calls /\ a.outcome = o.outcome /\ a.signals = o.signals
          /\ a.seen = o.seen /\ a.request = live.version
      BY <2>4, <2>5, SetRequest DEF Flows
    <2> HIDE DEF a
    <2>7. /\ b \in Flows /\ b.calls = a.calls /\ b.outcome = a.outcome /\ b.signals = a.signals
          /\ b.seen = a.seen /\ b.request = a.request /\ b.chunks = Candidates(found)
      BY <2>4, <2>6, SetChunks DEF Flows
    <2> HIDE DEF b
    <2>8. /\ c \in Flows /\ c.calls = b.calls /\ c.outcome = b.outcome /\ c.signals = b.signals
          /\ c.seen = b.seen /\ c.request = b.request /\ c.chunks = b.chunks /\ c.reason = reason
      BY <2>3, <2>7, SetReason DEF Flows
    <2> HIDE DEF c
    <2>9. /\ d \in Flows /\ d.calls = c.calls /\ d.outcome = c.outcome /\ d.signals = c.signals
          /\ d.seen = c.seen /\ d.request = c.request /\ d.chunks = c.chunks /\ d.reason = c.reason
          /\ d.plan = Tail(w.plan)
      BY <1>4, <2>8, SetPlan DEF Flows
    <2> HIDE DEF d
    <2>10. place \in Places
      BY <2>3 DEF Places, Working
    <2>11. /\ x \in Flows /\ x.calls = d.calls /\ x.outcome = d.outcome /\ x.signals = d.signals
           /\ x.seen = d.seen /\ x.request = d.request /\ x.chunks = d.chunks /\ x.reason = d.reason
           /\ x.plan = d.plan /\ x.at = place
      BY <2>9, <2>10, SetAt DEF Flows
    <2> HIDE DEF x
    <2>12. x.reason = None => OnTime(x)
      <3> SUFFICES ASSUME x.reason = None PROVE OnTime(x)
        OBVIOUS
      <3>1. w.signals = {}
        BY <2>3, <2>8, <2>9, <2>11
      <3>2. Completed(w) /\ Len(w.seen) + 1 = w.calls
        BY <1>1, <1>3 DEF OnTime, Pending, Completed
      <3>3. Completed(x) /\ Len(x.seen) = x.calls
        BY <2>5, <2>6, <2>7, <2>8, <2>9, <2>11, <3>2 DEF Completed
      <3>4. x.at \notin {"run", "rerun"} /\ x.signals = {}
        BY <2>3, <2>5, <2>6, <2>7, <2>8, <2>9, <2>11, <3>1
      <3> QED BY <3>3, <3>4, <1>4, <2>5, <2>11 DEF OnTime, Pending, Flows
    <2>13. Sound(x)
      BY <1>1, <1>3, <2>3, <2>4, <2>5, <2>6, <2>7, <2>8, <2>9, <2>11, <2>12 DEF Sound, Working
    <2> QED BY <2>1, <2>13 DEF Becomes
  <1> QED BY <1>5, <1>6

LEMMA Decisive ==
  ASSUME NEW w, NEW c \in Contexts, NEW allow \in BOOLEAN
  PROVE  /\ Decision(w, c, allow) \in Decisions
         /\ Decision(w, c, allow) = "answer" <=> c = "strong"
         /\ Decision(w, c, allow) = "repair" => allow
  BY DEF Decision, Decisions

LEMMA SelectSound ==
  ASSUME Index, NEW r \in Requests, Sound(flow[r]), Select(r)
  PROVE  \E x : Becomes(r, x)
  <1> DEFINE v == flow[r]
             allowed(x) == x.reason = None /\ MaxRounds >= 2 /\ x.calls < budget
  <1>a. /\ v \in Flows /\ v.at = "select" /\ v.calls <= budget
        /\ v.reason = None => OnTime(v)
        /\ v.outcome # "answered"
        /\ profile = "production" => v.chunks \subseteq {v.request}
    BY DEF Select, Step, Sound, Working
  <1>2. PICK w \in Unseen(v) :
          \/ flow' = [flow EXCEPT ![r] = End(w, "cancelled")]
          \/ flow' = [flow EXCEPT ![r] = End(w, "limited")]
          \/ \E c \in Selections(w) : flow' = [flow EXCEPT ![r] =
               [w EXCEPT !.context = c, !.decision = Decision(w, c, allowed(w)),
                         !.at = IF Decision(w, c, allowed(w)) = "repair" THEN "repair" ELSE "cite"]]
    BY DEF Select, Step
  <1> HIDE DEF v
  <1>1. /\ w \in Flows /\ w.at = "select" /\ w.calls <= budget
        /\ w.reason = None => OnTime(w)
        /\ w.outcome # "answered"
        /\ profile = "production" => w.chunks \subseteq {w.request}
    BY <1>a, UnseenSound, UnseenOnTime
  <1> DEFINE allow == allowed(w)
  <1>3. ASSUME NEW o \in {"cancelled", "limited"}, flow' = [flow EXCEPT ![r] = End(w, o)]
        PROVE  \E x : Becomes(r, x)
    <2> DEFINE x == End(w, o)
    <2>1. /\ x \in Flows /\ x.at = "done" /\ x.outcome = o /\ x.calls = w.calls
          /\ x.request = w.request /\ x.chunks = w.chunks
      <3>1. o \in Outcomes
        BY DEF Outcomes
      <3> QED BY <1>1, <3>1, Ends
    <2> HIDE DEF x
    <2>2. Sound(x)
      BY <1>1, <2>1 DEF Sound, Working
    <2> QED BY <1>3, <2>2 DEF Becomes, x
  <1>4. ASSUME NEW c \in Selections(w),
               flow' = [flow EXCEPT ![r] =
                 [w EXCEPT !.context = c, !.decision = Decision(w, c, allow),
                           !.at = IF Decision(w, c, allow) = "repair" THEN "repair" ELSE "cite"]]
        PROVE  \E x : Becomes(r, x)
    <2> DEFINE decision == Decision(w, c, allow)
               place == IF decision = "repair" THEN "repair" ELSE "cite"
               a == [w EXCEPT !.context = c]
               b == [a EXCEPT !.decision = decision]
               x == [b EXCEPT !.at = place]
    <2>1. flow' = [flow EXCEPT ![r] = x]
      BY <1>4
    <2>2. c \in Contexts /\ allow \in BOOLEAN
      BY DEF Selections, Contexts
    <2>3. /\ decision \in Decisions
          /\ decision = "answer" => c = "strong"
          /\ place \in {"repair", "cite"} /\ place \in Places
          /\ place = "repair" => w.reason = None
      BY <2>2, Decisive DEF Places, Working
    <2> HIDE DEF decision, place
    <2>4. /\ a \in Flows /\ a.context = c /\ a.calls = w.calls /\ a.signals = w.signals /\ a.seen = w.seen
          /\ a.reason = w.reason /\ a.outcome = w.outcome /\ a.request = w.request /\ a.chunks = w.chunks
      BY <1>1, <2>2, SetContext DEF Flows
    <2> HIDE DEF a
    <2>5. /\ b \in Flows /\ b.context = a.context /\ b.calls = a.calls /\ b.signals = a.signals
          /\ b.seen = a.seen /\ b.reason = a.reason /\ b.outcome = a.outcome /\ b.request = a.request
          /\ b.chunks = a.chunks /\ b.decision = decision
      BY <2>3, <2>4, SetDecision DEF Flows
    <2> HIDE DEF b
    <2>6. /\ x \in Flows /\ x.context = b.context /\ x.calls = b.calls /\ x.signals = b.signals
          /\ x.seen = b.seen /\ x.reason = b.reason /\ x.outcome = b.outcome /\ x.request = b.request
          /\ x.chunks = b.chunks /\ x.decision = b.decision /\ x.at = place
      BY <2>3, <2>5, SetAt DEF Flows
    <2> HIDE DEF x
    <2>7. x.reason = None => OnTime(x)
      BY <1>1, <2>3, <2>4, <2>5, <2>6 DEF OnTime, Pending, Completed
    <2>8. Sound(x)
      BY <1>1, <2>3, <2>4, <2>5, <2>6, <2>7 DEF Sound, Working
    <2> QED BY <2>1, <2>8 DEF Becomes
  <1> QED BY <1>2, <1>3, <1>4

LEMMA Judges ==
  ASSUME NEW w \in Flows, NEW x, x = Judged(w)
  PROVE  /\ x \in Flows
         /\ x.at = "cite"
         /\ x.decision = "answer" => x.context = "strong"
         /\ x.context = w.context /\ x.calls = w.calls /\ x.signals = w.signals /\ x.seen = w.seen
         /\ x.reason = w.reason /\ x.outcome = w.outcome /\ x.request = w.request /\ x.chunks = w.chunks
  <1> DEFINE decision == Decision(w, w.context, FALSE)
             a == [w EXCEPT !.decision = decision]
  <1>1. x = [a EXCEPT !.at = "cite"]
    BY DEF Judged
  <1>2. decision \in Decisions /\ (decision = "answer" => w.context = "strong")
    <2>1. w.context \in Contexts
      BY DEF Flows
    <2> QED BY <2>1, Decisive
  <1> HIDE DEF decision
  <1>3. /\ a \in Flows /\ a.decision = decision
        /\ a.context = w.context /\ a.calls = w.calls /\ a.signals = w.signals /\ a.seen = w.seen
        /\ a.reason = w.reason /\ a.outcome = w.outcome /\ a.request = w.request /\ a.chunks = w.chunks
    BY <1>2, SetDecision DEF Flows
  <1> HIDE DEF a
  <1>4. "cite" \in Places
    BY DEF Places, Working
  <1>5. x \in Flows
    BY <1>1, <1>3, <1>4, SetAt
  <1> QED BY <1>1, <1>2, <1>3, <1>5 DEF Flows

LEMMA CheckRepairSound ==
  ASSUME Index, NEW r \in Requests, Sound(flow[r]), CheckRepair(r)
  PROVE  \E x : Becomes(r, x)
  <1> DEFINE v == flow[r]
  <1>1. /\ v \in Flows /\ v.at = "repair" /\ v.calls <= budget
        /\ v.reason = None /\ OnTime(v)
        /\ v.outcome # "answered"
        /\ profile = "production" => v.chunks \subseteq {v.request}
    BY DEF CheckRepair, Step, Sound, Working
  <1>2. PICK w \in Raised(v) :
          LET reason == StopReason(w)
              called == [w EXCEPT !.calls = @ + 1]
              observed(x, s) == [x EXCEPT !.seen = Append(@, Observation("hybrid", s, 2))]
          IN  flow' = [flow EXCEPT ![r] =
                IF reason # None THEN Judged([observed(w, Stopped(reason)) EXCEPT !.reason = reason])
                ELSE IF ~OwnsCall(w)
                THEN Judged([observed(called, "failed") EXCEPT !.reason = "contract"])
                ELSE [called EXCEPT !.at = "rerun"]]
    BY DEF CheckRepair, Step
  <1> HIDE DEF v
  <1>3. /\ w \in Flows
        /\ w.signals = {} => v.signals = {}
        /\ w.calls = v.calls /\ w.seen = v.seen /\ w.request = v.request
        /\ w.chunks = v.chunks /\ w.reason = v.reason /\ w.outcome = v.outcome
    BY <1>1, <1>2, RaisedSound
  <1>4. w.calls \in Nat
    BY <1>3 DEF Flows
  <1>5. ASSUME NEW u \in Flows, u.calls <= budget, u.request = v.request, u.chunks = v.chunks,
               u.outcome = v.outcome,
               NEW status \in {"cancelled", "rejected", "failed"}, NEW reason \in Reasons \ {None},
               flow' = [flow EXCEPT ![r] =
                 Judged([[u EXCEPT !.seen = Append(u.seen, Observation("hybrid", status, 2))]
                           EXCEPT !.reason = reason])]
        PROVE  \E x : Becomes(r, x)
    <2> DEFINE o == [u EXCEPT !.seen = Append(u.seen, Observation("hybrid", status, 2))]
               a == [o EXCEPT !.reason = reason]
               x == Judged(a)
    <2>1. flow' = [flow EXCEPT ![r] = x]
      BY <1>5
    <2>2. Observation("hybrid", status, 2) \in Observed
      BY DEF Observation, Observed, Tools
    <2>3. /\ o \in Flows /\ o.calls = u.calls /\ o.request = u.request /\ o.chunks = u.chunks
          /\ o.outcome = u.outcome
      BY <2>2, Observes
    <2> HIDE DEF o
    <2>4. /\ a \in Flows /\ a.reason = reason /\ a.calls = o.calls /\ a.request = o.request
          /\ a.chunks = o.chunks /\ a.outcome = o.outcome
      BY <2>3, SetReason DEF Flows
    <2> HIDE DEF a
    <2>5. /\ x \in Flows /\ x.at = "cite" /\ (x.decision = "answer" => x.context = "strong")
          /\ x.reason = a.reason /\ x.calls = a.calls /\ x.request = a.request
          /\ x.chunks = a.chunks /\ x.outcome = a.outcome
      BY <2>4, Judges
    <2> HIDE DEF x
    <2>6. Sound(x)
      BY <1>1, <1>5, <2>3, <2>4, <2>5 DEF Sound, Working
    <2> QED BY <2>1, <2>6 DEF Becomes
  <1>6. CASE StopReason(w) # None
    <2>1. StopReason(w) \in Reasons \ {None} /\ Stopped(StopReason(w)) \in {"cancelled", "rejected", "failed"}
      BY <1>3, <1>6, StopReasons DEF Reasons
    <2>2. flow' = [flow EXCEPT ![r] =
            Judged([[w EXCEPT !.seen = Append(w.seen, Observation("hybrid", Stopped(StopReason(w)), 2))]
                      EXCEPT !.reason = StopReason(w)])]
      BY <1>2, <1>6
    <2> QED BY <1>1, <1>3, <1>5, <2>1, <2>2
  <1>7. CASE StopReason(w) = None
    <2>1. w.signals = {} /\ w.calls < budget
      BY <1>3, <1>4, <1>7, StopReasons, OnTimeReason DEF Index
    <2> DEFINE c == [w EXCEPT !.calls = w.calls + 1]
    <2>2. /\ c \in Flows /\ c.calls = w.calls + 1 /\ c.seen = w.seen /\ c.request = w.request
          /\ c.chunks = w.chunks /\ c.reason = w.reason /\ c.outcome = w.outcome /\ c.signals = w.signals
      <3>1. w.calls + 1 \in Nat
        BY <1>4
      <3>2. c \in Flows
        BY <1>3, <3>1, SetCalls
      <3> QED BY <1>3, <3>2 DEF Flows
    <2>3. CASE ~OwnsCall(w)
      <3>1. flow' = [flow EXCEPT ![r] =
              Judged([[c EXCEPT !.seen = Append(c.seen, Observation("hybrid", "failed", 2))]
                        EXCEPT !.reason = "contract"])]
        BY <1>2, <1>7, <2>3
      <3> HIDE DEF c
      <3>2. "contract" \in Reasons \ {None}
        BY NoneAssumption DEF Reasons
      <3>3. c.calls <= budget
        BY <1>4, <2>1, <2>2 DEF Index
      <3> QED BY <1>3, <1>5, <2>2, <3>1, <3>2, <3>3
    <2>4. CASE OwnsCall(w)
      <3> DEFINE x == [c EXCEPT !.at = "rerun"]
      <3>1. flow' = [flow EXCEPT ![r] = x]
        BY <1>2, <1>7, <2>4
      <3> HIDE DEF c
      <3>2. /\ x \in Flows /\ x.at = "rerun" /\ x.calls = c.calls /\ x.request = c.request /\ x.chunks = c.chunks
            /\ x.reason = c.reason /\ x.seen = c.seen /\ x.signals = c.signals /\ x.outcome = c.outcome
        BY <2>2, SetAt DEF Flows, Places, Working
      <3> HIDE DEF x
      <3>3. OnTime(x)
        BY <1>1, <1>3, <1>4, <2>1, <2>2, <3>2 DEF OnTime, Completed, Pending, Flows
      <3>4. Sound(x)
        BY <1>1, <1>3, <1>4, <2>1, <2>2, <3>2, <3>3 DEF Sound, Working, Index
      <3> QED BY <3>1, <3>4 DEF Becomes
    <2> QED BY <2>3, <2>4
  <1> QED BY <1>6, <1>7

\* The repair merges only candidates of the version that the first round searched.
LEMMA RunRepairSound ==
  ASSUME Index, NEW r \in Requests, Sound(flow[r]), RunRepair(r)
  PROVE  \E x : Becomes(r, x)
  <1> DEFINE v == flow[r]
  <1>1. /\ v \in Flows /\ v.at = "rerun" /\ v.calls <= budget
        /\ v.reason = None /\ OnTime(v)
        /\ v.outcome # "answered"
        /\ profile = "production" => v.chunks \subseteq {v.request}
    BY DEF RunRepair, Step, Sound, Working
  <1>2. PICK w \in Raised(v), found \in BOOLEAN :
          LET observed(s) == [w EXCEPT !.seen = Append(@, Observation("hybrid", s, 2))]
              merged == [observed("completed") EXCEPT
                           !.chunks = @ \cup Candidates(found),
                           !.reason = PostToolStopReason(w)]
          IN  \/ flow' = [flow EXCEPT ![r] = [w EXCEPT !.at = "raised"]]
              \/ flow' = [flow EXCEPT ![r] = Judged([observed("failed") EXCEPT !.reason = "contract"])]
              \/ /\ Merges(w, found)
                 /\ \E c \in Selections(merged) :
                      flow' = [flow EXCEPT ![r] = Judged([merged EXCEPT !.context = c])]
    BY DEF RunRepair, Step
  <1> HIDE DEF v
  <1>3. /\ w \in Flows
        /\ w.signals = {} => v.signals = {}
        /\ w.calls = v.calls /\ w.seen = v.seen /\ w.request = v.request
        /\ w.chunks = v.chunks /\ w.reason = v.reason /\ w.outcome = v.outcome
    BY <1>1, <1>2, RaisedSound
  <1>4. CASE flow' = [flow EXCEPT ![r] = [w EXCEPT !.at = "raised"]]
    <2> DEFINE x == [w EXCEPT !.at = "raised"]
    <2>1. /\ x \in Flows /\ x.at = "raised" /\ x.calls = w.calls /\ x.request = w.request
          /\ x.chunks = w.chunks /\ x.outcome = w.outcome
      BY <1>3, SetAt DEF Flows, Places
    <2> HIDE DEF x
    <2>2. Sound(x)
      BY <1>1, <1>3, <2>1 DEF Sound, Working
    <2> QED BY <1>4, <2>2 DEF Becomes, x
  <1>5. CASE flow' = [flow EXCEPT ![r] =
               Judged([[w EXCEPT !.seen = Append(w.seen, Observation("hybrid", "failed", 2))]
                         EXCEPT !.reason = "contract"])]
    <2> DEFINE o == [w EXCEPT !.seen = Append(w.seen, Observation("hybrid", "failed", 2))]
               a == [o EXCEPT !.reason = "contract"]
               x == Judged(a)
    <2>1. Observation("hybrid", "failed", 2) \in Observed
      BY DEF Observation, Observed, Tools
    <2>2. /\ o \in Flows /\ o.calls = w.calls /\ o.request = w.request /\ o.chunks = w.chunks
          /\ o.outcome = w.outcome
      BY <1>3, <2>1, Observes
    <2>3. "contract" \in Reasons /\ "contract" # None
      BY NoneAssumption DEF Reasons
    <2> HIDE DEF o
    <2>4. /\ a \in Flows /\ a.reason = "contract" /\ a.calls = o.calls /\ a.request = o.request
          /\ a.chunks = o.chunks /\ a.outcome = o.outcome
      BY <2>2, <2>3, SetReason DEF Flows
    <2> HIDE DEF a
    <2>5. /\ x \in Flows /\ x.at = "cite" /\ (x.decision = "answer" => x.context = "strong")
          /\ x.reason = a.reason /\ x.calls = a.calls /\ x.request = a.request
          /\ x.chunks = a.chunks /\ x.outcome = a.outcome
      BY <2>4, Judges
    <2> HIDE DEF x
    <2>6. Sound(x)
      BY <1>1, <1>3, <2>2, <2>3, <2>4, <2>5 DEF Sound, Working
    <2>7. flow' = [flow EXCEPT ![r] = x]
      BY <1>5 DEF x, a, o
    <2> QED BY <2>6, <2>7 DEF Becomes
  <1>6. ASSUME Merges(w, found), NEW c \in Contexts,
               flow' = [flow EXCEPT ![r] =
                 Judged([[[w EXCEPT !.seen = Append(w.seen, Observation("hybrid", "completed", 2))] EXCEPT
                            !.chunks = @ \cup Candidates(found),
                            !.reason = PostToolStopReason(w)]
                          EXCEPT !.context = c])]
        PROVE  \E x : Becomes(r, x)
    <2> DEFINE reason == PostToolStopReason(w)
               o == [w EXCEPT !.seen = Append(w.seen, Observation("hybrid", "completed", 2))]
               a == [o EXCEPT !.chunks = o.chunks \cup Candidates(found)]
               b == [a EXCEPT !.reason = reason]
               d == [b EXCEPT !.context = c]
               x == Judged(d)
    <2>1. flow' = [flow EXCEPT ![r] = x]
      BY <1>6
    <2>2. /\ Observation("hybrid", "completed", 2) \in Observed
          /\ Observation("hybrid", "completed", 2).status = "completed"
      BY DEF Observation, Observed, Tools
    <2>3. reason \in Reasons /\ (reason = None => w.signals = {})
      BY <1>3, StopReasons, OnTimeReason DEF Reasons
    <2>4. /\ Candidates(found) \in SUBSET Nat
          /\ profile = "production" => Candidates(found) \subseteq {w.request}
      BY <1>6 DEF Candidates, Index, Merges
    <2> HIDE DEF reason
    <2>5. /\ o \in Flows /\ o.calls = w.calls /\ o.outcome = w.outcome /\ o.signals = w.signals
          /\ o.request = w.request /\ o.chunks = w.chunks
          /\ Len(o.seen) = Len(w.seen) + 1
          /\ Completed(w) => Completed(o)
      BY <1>3, <2>2, Observes
    <2> HIDE DEF o
    <2>6. o.chunks \cup Candidates(found) \in SUBSET Nat
      BY <2>4, <2>5 DEF Flows
    <2>7. /\ a \in Flows /\ a.calls = o.calls /\ a.outcome = o.outcome /\ a.signals = o.signals
          /\ a.seen = o.seen /\ a.request = o.request /\ a.chunks = o.chunks \cup Candidates(found)
      BY <2>5, <2>6, SetChunks DEF Flows
    <2> HIDE DEF a
    <2>8. /\ b \in Flows /\ b.calls = a.calls /\ b.outcome = a.outcome /\ b.signals = a.signals
          /\ b.seen = a.seen /\ b.request = a.request /\ b.chunks = a.chunks /\ b.reason = reason
      BY <2>3, <2>7, SetReason DEF Flows
    <2> HIDE DEF b
    <2>9. /\ d \in Flows /\ d.calls = b.calls /\ d.outcome = b.outcome /\ d.signals = b.signals
          /\ d.seen = b.seen /\ d.request = b.request /\ d.chunks = b.chunks /\ d.reason = b.reason
      BY <1>6, <2>8, SetContext DEF Flows
    <2> HIDE DEF d
    <2>10. /\ x \in Flows /\ x.at = "cite" /\ (x.decision = "answer" => x.context = "strong")
           /\ x.reason = d.reason /\ x.calls = d.calls /\ x.request = d.request /\ x.signals = d.signals
           /\ x.chunks = d.chunks /\ x.outcome = d.outcome /\ x.seen = d.seen
      BY <2>9, Judges
    <2> HIDE DEF x
    <2>11. x.reason = None => OnTime(x)
      <3> SUFFICES ASSUME x.reason = None PROVE OnTime(x)
        OBVIOUS
      <3>1. w.signals = {}
        BY <2>3, <2>8, <2>9, <2>10
      <3>2. Completed(w) /\ Len(w.seen) + 1 = w.calls
        BY <1>1, <1>3 DEF OnTime, Pending, Completed
      <3>3. Completed(x) /\ Len(x.seen) = x.calls
        BY <2>5, <2>7, <2>8, <2>9, <2>10, <3>2 DEF Completed
      <3>4. x.signals = {}
        BY <2>5, <2>7, <2>8, <2>9, <2>10, <3>1
      <3> QED BY <2>10, <3>3, <3>4 DEF OnTime, Pending, Flows
    <2>12. Sound(x)
      BY <1>1, <1>3, <2>4, <2>5, <2>7, <2>8, <2>9, <2>10, <2>11 DEF Sound, Working
    <2> QED BY <2>1, <2>12 DEF Becomes
  <1>7. \A u : Selections(u) \subseteq Contexts
    BY DEF Selections, Contexts
  <1> QED BY <1>2, <1>4, <1>5, <1>6, <1>7

LEMMA ValidateSound ==
  ASSUME Index, NEW r \in Requests, Sound(flow[r]), Validate(r)
  PROVE  \E x : Becomes(r, x)
  <1> DEFINE v == flow[r]
  <1>a. /\ v \in Flows /\ v.at = "validate" /\ v.calls <= budget
        /\ v.reason = None => OnTime(v)
        /\ v.decision = "answer" => v.context = "strong"
        /\ v.cites # {}
        /\ profile = "production" => v.chunks \subseteq {v.request}
    BY DEF Validate, Step, Sound, Working
  <1>2. PICK w \in Unseen(v), valid \in BOOLEAN :
          flow' = [flow EXCEPT ![r] =
            End([w EXCEPT !.valid = valid],
                IF w.reason = None /\ w.decision = "answer" /\ valid THEN "answered" ELSE "limited")]
    BY DEF Validate, Step, Valid
  <1> HIDE DEF v
  <1>1. /\ w \in Flows /\ w.at = "validate" /\ w.calls <= budget
        /\ w.reason = None => OnTime(w)
        /\ w.decision = "answer" => w.context = "strong"
        /\ w.cites # {}
        /\ profile = "production" => w.chunks \subseteq {w.request}
    BY <1>a, UnseenSound, UnseenOnTime
  <1> DEFINE outcome == IF w.reason = None /\ w.decision = "answer" /\ valid THEN "answered" ELSE "limited"
             a == [w EXCEPT !.valid = valid]
             x == End(a, outcome)
  <1>3. flow' = [flow EXCEPT ![r] = x]
    BY <1>2
  <1>4. /\ outcome \in Outcomes
        /\ outcome = "answered" => w.reason = None /\ w.decision = "answer" /\ valid
    BY DEF Outcomes
  <1> HIDE DEF outcome
  <1>5. /\ a \in Flows /\ a.valid = valid /\ a.calls = w.calls /\ a.signals = w.signals /\ a.seen = w.seen
        /\ a.request = w.request /\ a.chunks = w.chunks /\ a.context = w.context /\ a.cites = w.cites
    BY <1>1, SetValid DEF Flows
  <1> HIDE DEF a
  <1>6. /\ x \in Flows /\ x.at = "done" /\ x.outcome = outcome /\ x.valid = a.valid /\ x.calls = a.calls
        /\ x.signals = a.signals /\ x.seen = a.seen /\ x.request = a.request /\ x.chunks = a.chunks
        /\ x.context = a.context /\ x.cites = a.cites
    BY <1>4, <1>5, Ends
  <1> HIDE DEF x
  <1>7. x.outcome = "answered" => Concluded(x)
    BY <1>1, <1>4, <1>5, <1>6 DEF Concluded, OnTime, Pending, Completed
  <1>8. Sound(x)
    BY <1>1, <1>5, <1>6, <1>7 DEF Sound, Working
  <1> QED BY <1>3, <1>8 DEF Becomes

LEMMA CiteSound ==
  ASSUME Index, EvidenceKept, NEW r \in Requests, Sound(flow[r]), Cite(r), UNCHANGED index
  PROVE  (\E x : Becomes(r, x)) /\ EvidenceKept' /\ evidence \subseteq evidence'
  <1> DEFINE v == flow[r]
  <1>a. /\ v \in Flows /\ v.at = "cite" /\ v.calls <= budget
        /\ v.reason = None => OnTime(v)
        /\ v.decision = "answer" => v.context = "strong"
        /\ v.outcome # "answered"
        /\ profile = "production" => v.chunks \subseteq {v.request}
    BY DEF Cite, Step, Sound, Working
  <1>2. PICK w \in Unseen(v) :
          \/ /\ \E o \in {"cancelled", "limited", "insufficient"} : flow' = [flow EXCEPT ![r] = End(w, o)]
             /\ evidence' = evidence
          \/ flow' = [flow EXCEPT ![r] = [w EXCEPT !.at = "raised"]] /\ evidence' = evidence
          \/ \E some \in (SUBSET Citations(w)) \ {{}} :
               /\ flow' = [flow EXCEPT ![r] = [w EXCEPT !.at = "validate", !.cites = some]]
               /\ evidence' = evidence \cup some
    BY DEF Cite, Step
  <1>3. profile' = profile
    BY DEF index
  <1> HIDE DEF v
  <1>1. /\ w \in Flows /\ w.at = "cite" /\ w.calls <= budget
        /\ w.reason = None => OnTime(w)
        /\ w.decision = "answer" => w.context = "strong"
        /\ w.outcome # "answered"
        /\ profile = "production" => w.chunks \subseteq {w.request}
    BY <1>a, UnseenSound, UnseenOnTime
  <1>4. ASSUME NEW o \in {"cancelled", "limited", "insufficient"}, flow' = [flow EXCEPT ![r] = End(w, o)]
        PROVE  \E x : Becomes(r, x)
    <2> DEFINE x == End(w, o)
    <2>1. /\ x \in Flows /\ x.at = "done" /\ x.outcome = o /\ x.calls = w.calls
          /\ x.request = w.request /\ x.chunks = w.chunks
      <3>1. o \in Outcomes
        BY DEF Outcomes
      <3> QED BY <1>1, <3>1, Ends
    <2> HIDE DEF x
    <2>2. Sound(x)
      BY <1>1, <2>1 DEF Sound, Working
    <2> QED BY <1>4, <2>2 DEF Becomes, x
  <1>5. ASSUME flow' = [flow EXCEPT ![r] = [w EXCEPT !.at = "raised"]]
        PROVE  \E x : Becomes(r, x)
    <2> DEFINE x == [w EXCEPT !.at = "raised"]
    <2>1. /\ x \in Flows /\ x.at = "raised" /\ x.calls = w.calls /\ x.request = w.request
          /\ x.chunks = w.chunks /\ x.outcome = w.outcome
      BY <1>1, SetAt DEF Flows, Places
    <2> HIDE DEF x
    <2>2. Sound(x)
      BY <1>1, <2>1 DEF Sound, Working
    <2> QED BY <1>5, <2>2 DEF Becomes, x
  <1>6. ASSUME NEW some \in (SUBSET Citations(w)) \ {{}},
               flow' = [flow EXCEPT ![r] = [w EXCEPT !.at = "validate", !.cites = some]],
               evidence' = evidence \cup some
        PROVE  (\E x : Becomes(r, x)) /\ EvidenceKept'
    <2> DEFINE a == [w EXCEPT !.at = "validate"]
               x == [a EXCEPT !.cites = some]
    <2>1. flow' = [flow EXCEPT ![r] = x]
      BY <1>6
    <2>2. /\ some \in SUBSET Cited /\ some # {}
          /\ profile = "production" => \A e \in some : e.chunk = e.version
      <3>1. w.request \in Nat /\ w.chunks \subseteq Nat
        BY <1>1 DEF Flows
      <3>2. \A e \in some : \E k \in w.chunks : e = [version |-> w.request, chunk |-> k]
        BY DEF Citations
      <3>3. \A e \in some : e \in Cited /\ e.version = w.request /\ e.chunk \in w.chunks
        BY <3>1, <3>2 DEF Cited
      <3>4. some \subseteq Cited
        BY <3>3
      <3>6. some \notin {{}}
        OBVIOUS
      <3>5. ASSUME profile = "production", NEW e \in some
            PROVE  e.chunk = e.version
        <4>1. e.chunk \in {w.request}
          BY <1>1, <3>3, <3>5
        <4> QED BY <3>3, <4>1
      <3> QED BY <3>4, <3>5, <3>6
    <2>3. /\ a \in Flows /\ a.at = "validate" /\ a.calls = w.calls /\ a.request = w.request
          /\ a.chunks = w.chunks /\ a.outcome = w.outcome /\ a.reason = w.reason /\ a.seen = w.seen
          /\ a.signals = w.signals /\ a.decision = w.decision /\ a.context = w.context
      BY <1>1, SetAt DEF Flows, Places, Working
    <2> HIDE DEF a
    <2>4. /\ x \in Flows /\ x.at = a.at /\ x.calls = a.calls /\ x.request = a.request
          /\ x.chunks = a.chunks /\ x.outcome = a.outcome /\ x.reason = a.reason /\ x.seen = a.seen
          /\ x.signals = a.signals /\ x.decision = a.decision /\ x.context = a.context /\ x.cites = some
      BY <2>2, <2>3, SetCites DEF Flows
    <2> HIDE DEF x
    <2>5. x.reason = None => OnTime(x)
      BY <1>1, <2>3, <2>4 DEF OnTime, Pending, Completed
    <2>6. Sound(x)
      BY <1>1, <2>2, <2>3, <2>4, <2>5 DEF Sound, Working
    <2>7. EvidenceKept'
      BY <1>3, <1>6, <2>2 DEF EvidenceKept
    <2> QED BY <2>1, <2>6, <2>7 DEF Becomes
  <1>7. evidence' = evidence => EvidenceKept'
    BY <1>3 DEF EvidenceKept
  <1> QED BY <1>2, <1>4, <1>5, <1>6, <1>7

LEMMA IdleSound == ASSUME Index PROVE Idle \in Flows /\ Sound(Idle)
  <1>1. Idle \in Flows
    BY DEF Idle, Flows, Places, Types, Reasons, Contexts, Decisions, Outcomes
  <1> QED BY <1>1, NoneAssumption DEF Idle, Sound, Index, Working

\* A request that begins knows nothing yet.
LEMMA StartSound ==
  ASSUME Index, NEW type \in Types, NEW x, x = Start(Idle, type, live.version)
  PROVE  Sound(x) /\ x \in Flows /\ x.calls = 0 /\ x.request = 0 /\ x.chunks = {}
  <1>1. x = [at |-> "check", type |-> type, version |-> live.version, plan |-> Plan(type), calls |-> 0,
             signals |-> {}, late |-> {}, seen |-> <<>>, request |-> 0, chunks |-> {}, reason |-> None,
             context |-> "empty", decision |-> None, cites |-> {}, valid |-> FALSE, outcome |-> None]
    BY DEF Start, Idle
  <1>2. live.version \in Nat
    BY DEF Index
  <1>3. Plan(type) \in Seq(Tools) /\ Plan(type) # <<>>
    <2>1. "exact" \in Tools /\ "hybrid" \in Tools
      BY DEF Tools
    <2>2. <<"hybrid">> \in Seq(Tools) /\ <<"exact", "hybrid">> \in Seq(Tools)
      BY <2>1
    <2>3. <<"hybrid">> # <<>> /\ <<"exact", "hybrid">> # <<>>
      OBVIOUS
    <2> QED BY <2>2, <2>3 DEF Plan
  <1>4. x \in Flows
    BY <1>1, <1>2, <1>3 DEF Flows, Places, Working, Reasons, Contexts, Decisions, Outcomes
  <1>5. OnTime(x)
    BY <1>1 DEF OnTime, Completed, Pending
  <1>6. /\ x.at = "check" /\ x.plan # <<>> /\ x.calls = 0 /\ x.request = 0 /\ x.chunks = {} /\ x.reason = None
        /\ x.outcome = None
    BY <1>1, <1>3
  <1> HIDE <1>1
  <1> QED BY <1>4, <1>5, <1>6, NoneAssumption DEF Sound, Index

LEMMA ChooseSound ==
  ASSUME Index, EvidenceKept, NEW r \in Requests, NEW c \in Conversations, NEW type \in Types,
         NEW chosen \in SUBSET evidence, ChatWithEvidence(r, c, type, chosen)
  PROVE  \E x : Becomes(r, x)
  <1> DEFINE asked == Start(Idle, type, live.version)
             a == [asked EXCEPT !.cites = chosen]
  <1>1. asked \in Flows /\ asked.calls = 0 /\ asked.request = 0 /\ asked.chunks = {}
    BY StartSound
  <1>2. \/ flow' = [flow EXCEPT ![r] = End(asked, "insufficient")]
        \/ \E o \in {"insufficient", "answered"} : flow' = [flow EXCEPT ![r] = End(a, o)]
    BY DEF ChatWithEvidence
  <1> HIDE DEF asked
  <1>3. chosen \in SUBSET Cited
    BY DEF EvidenceKept
  <1>4. a \in Flows /\ a.calls = 0 /\ a.request = 0 /\ a.chunks = {}
    BY <1>1, <1>3, SetCites DEF Flows
  <1> HIDE DEF a
  <1>5. ASSUME NEW w \in Flows, w.calls = 0, w.request = 0, w.chunks = {},
               NEW o \in {"insufficient", "answered"}, flow' = [flow EXCEPT ![r] = End(w, o)]
        PROVE  \E x : Becomes(r, x)
    <2> DEFINE x == End(w, o)
    <2>1. /\ x \in Flows /\ x.at = "done" /\ x.calls = 0 /\ x.request = 0 /\ x.chunks = {}
      <3>1. o \in Outcomes
        BY DEF Outcomes
      <3> QED BY <1>5, <3>1, Ends
    <2> HIDE DEF x
    <2>2. Sound(x)
      BY <2>1 DEF Sound, Working, Index
    <2> QED BY <1>5, <2>2 DEF Becomes, x
  <1> QED BY <1>1, <1>2, <1>4, <1>5

---------------------------------------------------------------------------
(* Every step keeps the invariant. *)

LEMMA WorkflowSound ==
  ASSUME AssistantInvariant, NEW r \in Requests, Workflow(r), UNCHANGED index
  PROVE  (\E x : Becomes(r, x)) /\ EvidenceKept' /\ evidence \subseteq evidence'
  <1>1. Index /\ Sound(flow[r]) /\ EvidenceKept
    BY DEF AssistantInvariant, FlowsKept
  <1>2. CASE Cite(r)
    BY <1>1, <1>2, CiteSound
  <1>3. CASE ~Cite(r)
    <2>1. \E x : Becomes(r, x)
      BY <1>1, <1>3, CheckToolSound, RunToolSound, SelectSound, CheckRepairSound, RunRepairSound,
         ValidateSound DEF Workflow
    <2>2. evidence' = evidence
      BY <1>3 DEF Workflow
    <2>3. profile' = profile
      BY DEF index
    <2>4. EvidenceKept'
      BY <1>1, <2>2, <2>3 DEF EvidenceKept
    <2> QED BY <2>1, <2>2, <2>4
  <1> QED BY <1>2, <1>3

\* What one request becomes leaves the others sound.
LEMMA OthersKept ==
  ASSUME FlowsKept, NEW r \in Requests, NEW x, Becomes(r, x), budget' = budget, profile' = profile
  PROVE  FlowsKept'
  <1>1. x \in Flows /\ flow' = [flow EXCEPT ![r] = x] /\ flow \in [Requests -> Flows]
    BY DEF FlowsKept, Becomes, Sound
  <1>2. flow' \in [Requests -> Flows]
    BY <1>1
  <1>3. ASSUME NEW q \in Requests
        PROVE  Sound(flow'[q])
    BY <1>1 DEF FlowsKept, Becomes
  <1>4. ASSUME NEW q \in Requests
        PROVE  Sound(flow[q])'
    BY <1>3 DEF Sound, OnTime, Concluded, Completed, Pending
  <1> QED BY <1>2, <1>4 DEF FlowsKept

\* The flows stay sound when only the index or the rows change.
LEMMA FlowsStay ==
  ASSUME FlowsKept, flow' = flow, budget' = budget, profile' = profile
  PROVE  FlowsKept'
  BY DEF FlowsKept, Sound, OnTime, Concluded, Completed, Pending

LEMMA TurnsStay ==
  ASSUME TurnsKept, conversations' = conversations, evidence \subseteq evidence', profile' = profile
  PROVE  TurnsKept'
  <1>1. ASSUME NEW c \in Conversations, NEW i \in DOMAIN conversations[c].turns
        PROVE  Tells(conversations[c].turns[i])'
    BY DEF TurnsKept, Tells
  <1> QED BY <1>1 DEF TurnsKept

\* What one request becomes leaves what the others send.
LEMMA SentStays ==
  ASSUME FlowsKept, SentKept, NEW r \in Requests, NEW x, flow' = [flow EXCEPT ![r] = x],
         DOMAIN turn' = Requests, \A q \in Requests \ {r} : turn'[q] = turn[q],
         Sends(turn'[r], x)
  PROVE  SentKept'
  <1>1. flow' \in [Requests -> Flows \cup {x}] /\ flow'[r] = x
    BY DEF FlowsKept
  <1>2. ASSUME NEW q \in Requests PROVE Sends(turn'[q], flow'[q])
    <2>1. CASE q = r
      BY <1>1, <2>1
    <2>2. CASE q # r
      <3>1. flow'[q] = flow[q] /\ turn'[q] = turn[q] /\ Sends(turn[q], flow[q])
        BY <2>2 DEF SentKept, FlowsKept
      <3> QED BY <3>1
    <2> QED BY <2>1, <2>2
  <1> QED BY <1>2 DEF SentKept, Sends

LEMMA NothingSent ==
  ASSUME NEW w, NEW y, DOMAIN y = DOMAIN NoTurn, y.sent = {}, y.accepted = FALSE
  PROVE  Sends(y, w)
  BY DEF Sends

\* A request that has not asked yet, or asks no more, sends nothing.
LEMMA SilentStays ==
  ASSUME FlowsKept, SentKept, NEW r \in Requests, NEW x, flow' = [flow EXCEPT ![r] = x],
         turn' = turn, flow[r].at \notin {"ask", "store"}
  PROVE  SentKept'
  <1>1. Sends(turn[r], flow[r]) /\ DOMAIN turn = Requests
    BY DEF SentKept
  <1>2. Sends(turn[r], x)
    BY <1>1 DEF Sends
  <1> QED BY <1>1, <1>2, SentStays

LEMMA OpenKeeps ==
  ASSUME FlowsKept, SentKept, NEW r \in Requests, NEW c \in Conversations, Open(r, c),
         NEW x, flow' = [flow EXCEPT ![r] = x]
  PROVE  SentKept'
  <1> DEFINE y == [NoTurn EXCEPT !.conversation = c, !.loaded = live.version,
                                 !.memory = ProjectMemory(c, live.version)]
  <1>1. turn' = [turn EXCEPT ![r] = y]
    BY DEF Open
  <1>2. DOMAIN y = DOMAIN NoTurn /\ y.sent = {} /\ y.accepted = FALSE
    BY DEF NoTurn
  <1> HIDE DEF y
  <1>3. Sends(y, x)
    BY <1>2, NothingSent
  <1>4. DOMAIN turn' = Requests /\ turn'[r] = y /\ \A q \in Requests \ {r} : turn'[q] = turn[q]
    BY <1>1 DEF SentKept
  <1> QED BY <1>3, <1>4, SentStays

LEMMA ClosedKeeps ==
  ASSUME FlowsKept, SentKept, NEW r \in Requests, turn' = [turn EXCEPT ![r] = NoTurn],
         NEW x, flow' = [flow EXCEPT ![r] = x]
  PROVE  SentKept'
  <1>1. NoTurn.sent = {} /\ NoTurn.accepted = FALSE
    BY DEF NoTurn
  <1>2. Sends(NoTurn, x)
    BY <1>1, NothingSent
  <1>3. DOMAIN turn' = Requests /\ turn'[r] = NoTurn /\ \A q \in Requests \ {r} : turn'[q] = turn[q]
    BY DEF SentKept
  <1> QED BY <1>2, <1>3, SentStays

\* An answer goes on with its citations to the provider or to the store.
LEMMA GoesSound ==
  ASSUME Index, FlowsKept, NEW r \in Requests, NEW at \in {"ask", "store"}, Goes(r, at)
  PROVE  \E x : Becomes(r, x) /\ x.at = at /\ x.cites = flow[r].cites
  <1> DEFINE a == [Idle EXCEPT !.at = at]
             x == [a EXCEPT !.cites = flow[r].cites]
  <1>1. flow[r].cites \in SUBSET Cited
    BY DEF FlowsKept, Flows
  <1>2. flow' = [flow EXCEPT ![r] = x]
    BY DEF Goes
  <1>3. Idle \in Flows /\ at \in Places
    BY IdleSound DEF Places
  <1>4. Idle.calls = 0 /\ Idle.chunks = {} /\ Idle.outcome = None
    BY DEF Idle
  <1>5. a \in Flows /\ a.at = at /\ a.calls = 0 /\ a.chunks = {} /\ a.outcome = None
    BY <1>3, <1>4, SetAt DEF Flows
  <1> HIDE DEF a
  <1>6. x \in Flows
    BY <1>1, <1>5, SetCites
  <1>7. x.at = at /\ x.calls = 0 /\ x.chunks = {} /\ x.outcome = None /\ x.cites = flow[r].cites
    BY <1>5 DEF Flows
  <1> HIDE DEF x
  <1>8. Sound(x)
    BY <1>6, <1>7, NoneAssumption DEF Sound, Working, Index
  <1> QED BY <1>2, <1>7, <1>8 DEF Becomes

\* The lines that are read for the provider are of the version that the answer cites, as the
\* file they are read from is the one that was indexed last.
LEMMA ContextTells ==
  ASSUME Index, NEW r, NEW sent \in {{}, ProviderContext(r)}
  PROVE  /\ sent \subseteq Nat
         /\ \A s \in sent : flow[r].cites # {} /\ \A e \in flow[r].cites : e.version = s
  <1>1. CASE sent = {}
    BY <1>1
  <1>2. CASE sent # {}
    <2>1. /\ flow[r].cites # {} /\ \A e \in flow[r].cites : e.version = live.version
          /\ live.files = disk /\ sent = {disk}
      BY <1>2 DEF ProviderContext
    <2>2. live.version = disk /\ disk \in Nat
      BY <2>1 DEF Index
    <2> QED BY <2>1, <2>2
  <1> QED BY <1>1, <1>2

LEMMA PersistKeeps ==
  ASSUME AssistantInvariant, NEW r \in Requests, Persist(r)
  PROVE  TurnsKept'
  <1> DEFINE c == turn[r].conversation
             t == Turn(r)
  <1>1. /\ TurnsKept /\ evidence' = evidence /\ profile' = profile /\ Index /\ flow[r] \in Flows
        /\ EvidenceKept /\ Sends(turn[r], flow[r])
    BY DEF AssistantInvariant, FlowsKept, SentKept, Persist, index
  <1>2. CASE UNCHANGED conversations
    BY <1>1, <1>2, TurnsStay
  <1>3. CASE c \notin Conversations /\ conversations' = [conversations EXCEPT ![c] = Stored(c, t)]
    <2>1. conversations' = conversations
      BY <1>1, <1>3 DEF TurnsKept
    <2> QED BY <1>1, <2>1, TurnsStay
  <1>4. CASE Owned(t) /\ c \in Conversations /\ conversations' = [conversations EXCEPT ![c] = Stored(c, t)]
    <2> DEFINE quoted == {e.chunk : e \in flow[r].cites}
    <2>a. /\ t = [version |-> live.version, cites |-> flow[r].cites, accepted |-> turn[r].accepted,
                  text |-> IF turn[r].accepted THEN turn[r].sent ELSE quoted]
          /\ live.version \in Nat /\ flow[r].cites \in SUBSET Cited
          /\ turn[r].sent \subseteq Nat /\ turn[r].accepted \in BOOLEAN
      BY <1>1 DEF Turn, Index, Flows, Sends
    <2>b. quoted \subseteq Nat
      BY <2>a DEF Cited
    <2>c. \A e \in flow[r].cites : e \in evidence /\ e.version = live.version
      BY <1>4, <2>a DEF Owned
    <2>d. turn[r].sent \subseteq {live.version}
      BY <1>1, <2>c DEF Sends
    <2>e. profile = "production" => quoted \subseteq {live.version}
      BY <1>1, <2>c DEF EvidenceKept
    <2>f. /\ t.version = live.version /\ t.cites = flow[r].cites /\ t.accepted = turn[r].accepted
          /\ t.text = IF turn[r].accepted THEN turn[r].sent ELSE quoted
      BY <2>a
    <2> HIDE DEF quoted
    <2>1. t \in TurnRecords
      BY <2>a, <2>b DEF TurnRecords
    <2>2. Tells(t)
      BY <2>c, <2>d, <2>e, <2>f DEF Tells
    <2> DEFINE old == conversations[c].turns
               new == Append(old, t)
    <2>3. /\ old \in Seq(TurnRecords) /\ conversations[c].status \in {None, "active", "deleted"}
          /\ \A i \in DOMAIN old : Tells(old[i])
      BY <1>1, <1>4 DEF TurnsKept
    <2> HIDE DEF t, old
    <2>4. new \in Seq(TurnRecords) /\ Len(new) = Len(old) + 1
      BY <2>1, <2>3
    <2>5. ASSUME NEW i \in DOMAIN new
          PROVE  Tells(new[i])
      <3>1. i \in 1..Len(old) + 1
        BY <2>4
      <3>2. CASE i = Len(old) + 1
        <4>1. new[i] = t
          BY <2>3, <3>2
        <4> QED BY <2>2, <4>1
      <3>3. CASE i \in 1..Len(old)
        <4>1. new[i] = old[i] /\ i \in DOMAIN old
          BY <2>3, <3>3
        <4> QED BY <2>3, <4>1
      <3> QED BY <2>3, <3>1, <3>2, <3>3
    <2> DEFINE y == [status |-> IF conversations[c].status = None THEN "active" ELSE conversations[c].status,
                     turns |-> new]
    <2>6. conversations' = [conversations EXCEPT ![c] = y]
      BY <1>4 DEF Stored, old
    <2> HIDE DEF new
    <2>7. y \in [status : {None, "active", "deleted"}, turns : Seq(TurnRecords)] /\ y.turns = new
      BY <2>3, <2>4
    <2>8. \A u : Tells(u)' <=> Tells(u)
      BY <1>1 DEF Tells
    <2> HIDE DEF y, c
    <2> QED BY <1>1, <2>5, <2>6, <2>7, <2>8 DEF TurnsKept
  <1> QED BY <1>2, <1>3, <1>4 DEF Persist

LEMMA InitAssistant == Init => AssistantInvariant
  <1> SUFFICES ASSUME Init PROVE AssistantInvariant
    OBVIOUS
  <1>1. Index
    BY BudgetAssumption DEF Init, Index
  <1>2. FlowsKept
    BY <1>1, IdleSound DEF Init, FlowsKept
  <1>3. EvidenceKept
    BY DEF Init, EvidenceKept
  <1>a. NoTurn.sent = {} /\ NoTurn.accepted = FALSE
    BY DEF NoTurn
  <1>5. SentKept
    <2>1. \A w : Sends(NoTurn, w)
      BY <1>a, NothingSent
    <2> QED BY <2>1 DEF Init, SentKept
  <1>4. TurnsKept
    BY DEF Init, TurnsKept
  <1> QED BY <1>1, <1>2, <1>3, <1>4, <1>5 DEF AssistantInvariant

LEMMA AssistantPreserves == AssistantInvariant /\ [Next]_vars => AssistantInvariant'
  <1> SUFFICES ASSUME AssistantInvariant, [Next]_vars PROVE AssistantInvariant'
    OBVIOUS
  <1>0. Index /\ FlowsKept /\ EvidenceKept /\ TurnsKept /\ SentKept
    BY DEF AssistantInvariant
  <1>a. ASSUME UNCHANGED <<index, row>> PROVE Index' /\ budget' = budget /\ profile' = profile
    BY <1>0, <1>a DEF Index, index
  <1>b. ASSUME UNCHANGED <<profile, evidence>> PROVE EvidenceKept'
    BY <1>0, <1>b DEF EvidenceKept
  <1>c. ASSUME turn' = turn, flow' = flow PROVE SentKept'
    BY <1>0, <1>c DEF SentKept, Sends
  <1>1. ASSUME NEW r \in Requests, NEW c \in Conversations, NEW type \in Types, Chat(r, c, type)
        PROVE  AssistantInvariant'
    <2>1. Becomes(r, Start(Idle, type, live.version))
      BY <1>0, <1>1, StartSound DEF Chat, Becomes
    <2>2. UNCHANGED <<index, evidence, row, conversations>> /\ Open(r, c)
      BY <1>1 DEF Chat
    <2>3. Index' /\ budget' = budget /\ profile' = profile
      BY <1>a, <2>2
    <2>4. SentKept'
      BY <1>0, <2>1, <2>2, OpenKeeps DEF Becomes
    <2> QED BY <1>0, <1>b, <2>1, <2>2, <2>3, <2>4, OthersKept, TurnsStay DEF AssistantInvariant
  <1>2. ASSUME NEW r \in Requests, NEW c \in Conversations, NEW type \in Types,
               NEW chosen \in SUBSET evidence, ChatWithEvidence(r, c, type, chosen)
        PROVE  AssistantInvariant'
    <2>1. PICK x : Becomes(r, x)
      BY <1>0, <1>2, ChooseSound
    <2>2. UNCHANGED <<index, evidence, row, conversations>> /\ Open(r, c)
      BY <1>2 DEF ChatWithEvidence
    <2>3. Index' /\ budget' = budget /\ profile' = profile
      BY <1>a, <2>2
    <2>4. SentKept'
      BY <1>0, <2>1, <2>2, OpenKeeps DEF Becomes
    <2> QED BY <1>0, <1>b, <2>1, <2>2, <2>3, <2>4, OthersKept, TurnsStay DEF AssistantInvariant
  <1>3. ASSUME NEW r \in Requests, Workflow(r), UNCHANGED <<index, row, conversations, turn>>
        PROVE  AssistantInvariant'
    <2>1. PICK x : Becomes(r, x)
      BY <1>3, WorkflowSound
    <2>2. EvidenceKept' /\ evidence \subseteq evidence'
      BY <1>3, WorkflowSound
    <2>3. Index' /\ budget' = budget /\ profile' = profile
      BY <1>a, <1>3
    <2>4. flow[r].at \notin {"ask", "store"}
      BY <1>3 DEF Workflow, CheckTool, RunTool, Select, CheckRepair, RunRepair, Cite, Validate, Step
    <2>5. SentKept'
      BY <1>0, <1>3, <2>1, <2>4, SilentStays DEF Becomes
    <2> QED BY <1>0, <1>3, <2>1, <2>2, <2>3, <2>5, OthersKept, TurnsStay DEF AssistantInvariant
  <1>4. ASSUME NEW r \in Requests, BuildContext(r)
        PROVE  AssistantInvariant'
    <2>1. PICK sent \in {{}, ProviderContext(r)} :
            /\ turn' = [turn EXCEPT ![r].sent = sent]
            /\ Goes(r, IF sent = {} THEN "store" ELSE "ask")
      BY <1>4 DEF BuildContext
    <2>2. PICK x : Becomes(r, x) /\ x.at \in {"ask", "store"} /\ x.cites = flow[r].cites
      BY <1>0, <2>1, GoesSound
    <2>3. UNCHANGED <<index, evidence, row, conversations>> /\ flow[r].at \notin {"ask", "store"}
      BY <1>4 DEF BuildContext
    <2>4. Index' /\ budget' = budget /\ profile' = profile
      BY <1>a, <2>3
    <2>5. Sends(turn[r], flow[r]) /\ DOMAIN turn = Requests
      BY <1>0 DEF SentKept
    <2> DEFINE y == [turn[r] EXCEPT !.sent = sent]
    <2>6. /\ DOMAIN turn' = Requests /\ turn'[r] = y
          /\ \A q \in Requests \ {r} : turn'[q] = turn[q]
      BY <2>1, <2>5
    <2>7. DOMAIN y = DOMAIN NoTurn /\ y.sent = sent /\ y.accepted = turn[r].accepted
      BY <2>5 DEF Sends, NoTurn
    <2> HIDE DEF y
    <2>8. Sends(y, x)
      BY <1>0, <2>2, <2>5, <2>7, ContextTells DEF Sends
    <2>9. SentKept'
      BY <1>0, <2>2, <2>6, <2>8, SentStays DEF Becomes
    <2> QED BY <1>0, <1>b, <2>2, <2>3, <2>4, <2>9, OthersKept, TurnsStay DEF AssistantInvariant, index
  <1>5. ASSUME NEW r \in Requests, Generate(r)
        PROVE  AssistantInvariant'
    <2>1. PICK accepted \in BOOLEAN : turn' = [turn EXCEPT ![r].accepted = accepted]
      BY <1>5 DEF Generate, Valid
    <2>2. PICK x : Becomes(r, x) /\ x.at = "store" /\ x.cites = flow[r].cites
      BY <1>0, <1>5, GoesSound DEF Generate
    <2>3. UNCHANGED <<index, evidence, row, conversations>>
      BY <1>5 DEF Generate
    <2>4. Index' /\ budget' = budget /\ profile' = profile
      BY <1>a, <2>3
    <2>5. Sends(turn[r], flow[r]) /\ DOMAIN turn = Requests
      BY <1>0 DEF SentKept
    <2> DEFINE y == [turn[r] EXCEPT !.accepted = accepted]
    <2>6. /\ DOMAIN turn' = Requests /\ turn'[r] = y
          /\ \A q \in Requests \ {r} : turn'[q] = turn[q]
      BY <2>1, <2>5
    <2>7. DOMAIN y = DOMAIN NoTurn /\ y.sent = turn[r].sent /\ y.accepted = accepted
      BY <2>5 DEF Sends, NoTurn
    <2> HIDE DEF y
    <2>8. Sends(y, x)
      BY <2>2, <2>5, <2>7 DEF Sends
    <2>9. SentKept'
      BY <1>0, <2>2, <2>6, <2>8, SentStays DEF Becomes
    <2> QED BY <1>0, <1>b, <2>2, <2>3, <2>4, <2>9, OthersKept, TurnsStay DEF AssistantInvariant, index
  <1>d. ASSUME NEW r \in Requests, WithoutProvider(r)
        PROVE  AssistantInvariant'
    <2>1. PICK x : Becomes(r, x)
      BY <1>0, <1>d, GoesSound DEF WithoutProvider
    <2>2. UNCHANGED <<index, evidence, row, conversations, turn>> /\ flow[r].at \notin {"ask", "store"}
      BY <1>d DEF WithoutProvider
    <2>3. Index' /\ budget' = budget /\ profile' = profile
      BY <1>a, <2>2
    <2>4. SentKept'
      BY <1>0, <2>1, <2>2, SilentStays DEF Becomes
    <2> QED BY <1>0, <1>b, <2>1, <2>2, <2>3, <2>4, OthersKept, TurnsStay DEF AssistantInvariant
  <1>6. ASSUME NEW r \in Requests, Fail(r) \/ Persist(r)
        PROVE  AssistantInvariant'
    <2>1. /\ flow' = [flow EXCEPT ![r] = Idle] /\ turn' = [turn EXCEPT ![r] = NoTurn]
          /\ UNCHANGED <<index, evidence, row>>
      BY <1>6 DEF Fail, Persist
    <2>2. Becomes(r, Idle)
      BY <1>0, <2>1, IdleSound DEF Becomes
    <2>3. Index' /\ budget' = budget /\ profile' = profile
      BY <1>a, <2>1
    <2>4. TurnsKept'
      <3>1. Fail(r) => conversations' = conversations /\ evidence \subseteq evidence'
        BY <2>1 DEF Fail
      <3> QED BY <1>0, <1>6, <2>3, <3>1, TurnsStay, PersistKeeps
    <2>5. SentKept'
      BY <1>0, <2>1, ClosedKeeps
    <2> QED BY <1>0, <1>b, <2>1, <2>2, <2>3, <2>4, <2>5, OthersKept DEF AssistantInvariant
  <1>7. CASE Edit \/ Commit
    <2>1. Index' /\ UNCHANGED <<profile, budget, evidence, flow, conversations, turn>>
      BY <1>0, <1>7 DEF Edit, Commit, Index, index
    <2> QED BY <1>0, <1>b, <1>c, <2>1, FlowsStay, TurnsStay DEF AssistantInvariant
  <1>8. CASE Overwrite
    <2>1. UNCHANGED <<profile, budget, disk, row, evidence, flow, conversations, turn>> /\ profile = "local"
      BY <1>8 DEF Overwrite
    <2>2. /\ live' \in [version : Nat, files : Nat, chunks : Nat]
          /\ live'.files <= live'.version /\ live'.version <= row
      BY <1>0, <1>8 DEF Overwrite, Index
    <2>3. Index'
      BY <1>0, <2>1, <2>2 DEF Index
    <2> QED BY <1>0, <1>b, <1>c, <2>1, <2>3, FlowsStay, TurnsStay DEF AssistantInvariant
  <1>9. CASE Restart
    <2>1. /\ flow' = [r \in Requests |-> Idle] /\ turn' = [r \in Requests |-> NoTurn]
          /\ UNCHANGED <<profile, budget, disk, row, evidence, conversations>>
          /\ live' = [version |-> row, files |-> row, chunks |-> row]
      BY <1>9 DEF Restart
    <2>2. Index'
      BY <1>0, <2>1 DEF Index
    <2>3. FlowsKept'
      <3>1. Idle \in Flows /\ Sound(Idle)
        BY <1>0, IdleSound
      <3>2. flow' \in [Requests -> Flows]
        BY <2>1, <3>1
      <3>3. \A r \in Requests : Sound(flow[r])'
        BY <2>1, <3>1 DEF Sound, OnTime, Concluded, Completed, Pending
      <3> QED BY <3>2, <3>3 DEF FlowsKept
    <2>a. NoTurn.sent = {} /\ NoTurn.accepted = FALSE
      BY DEF NoTurn
    <2>b. \A w : Sends(NoTurn, w)
      BY <2>a, NothingSent
    <2>4. SentKept'
      <3>1. \A q \in Requests : Sends(turn'[q], flow'[q])
        BY <2>1, <2>b
      <3> QED BY <2>1, <3>1 DEF SentKept, Sends
    <2> QED BY <1>0, <1>b, <2>1, <2>2, <2>3, <2>4, TurnsStay DEF AssistantInvariant
  <1>10. ASSUME NEW c \in Conversations, DeleteConversation(c)
         PROVE  AssistantInvariant'
    <2>1. UNCHANGED <<index, evidence, flow, row, turn>>
          /\ conversations' = [conversations EXCEPT ![c].status = "deleted"]
      BY <1>10 DEF DeleteConversation
    <2>2. Index' /\ budget' = budget /\ profile' = profile
      BY <1>a, <2>1
    <2>3. TurnsKept'
      <3> DEFINE y == [conversations[c] EXCEPT !.status = "deleted"]
      <3>1. /\ y \in [status : {None, "active", "deleted"}, turns : Seq(TurnRecords)]
            /\ y.turns = conversations[c].turns
            /\ conversations' = [conversations EXCEPT ![c] = y]
        BY <1>0, <2>1 DEF TurnsKept
      <3>2. \A u : Tells(u)' <=> Tells(u)
        BY <2>1, <2>2 DEF Tells
      <3> HIDE DEF y
      <3> QED BY <1>0, <2>1, <3>1, <3>2 DEF TurnsKept
    <2> QED BY <1>0, <1>b, <1>c, <2>1, <2>2, <2>3, FlowsStay DEF AssistantInvariant
  <1>11. CASE UNCHANGED vars
    <2>1. UNCHANGED <<index, evidence, flow, row, conversations, turn>>
      BY <1>11 DEF vars
    <2>2. Index' /\ budget' = budget /\ profile' = profile
      BY <1>a, <2>1
    <2> QED BY <1>0, <1>b, <1>c, <2>1, <2>2, FlowsStay, TurnsStay DEF AssistantInvariant
  <1> QED BY <1>1, <1>2, <1>3, <1>4, <1>5, <1>6, <1>7, <1>8, <1>9, <1>10, <1>11, <1>d
          DEF Next, Begin, Proceed

LEMMA AssistantSafety == Spec => []AssistantInvariant
  BY InitAssistant, AssistantPreserves, PTL DEF Spec

\* What the workflow calls a complete answer kept every limit up to its last tool call, for
\* any number of requests, budgets and rounds and whatever the index does meanwhile.
THEOREM AnsweredOnTimelyToolsHolds == Spec => []AnsweredOnTimelyTools
  <1>1. AssistantInvariant => AnsweredOnTimelyTools
    <2> SUFFICES ASSUME AssistantInvariant, NEW r \in Requests, flow[r].request > 0,
                        flow[r].outcome = "answered"
                 PROVE  /\ flow[r].context = "strong" /\ flow[r].valid /\ flow[r].cites # {}
                        /\ flow[r].signals = {} /\ flow[r].calls <= budget
                        /\ Len(flow[r].seen) = flow[r].calls
                        /\ \A i \in DOMAIN flow[r].seen : flow[r].seen[i].status = "completed"
      BY DEF AnsweredOnTimelyTools
    <2>1. Sound(flow[r])
      BY DEF AssistantInvariant, FlowsKept
    <2>2. Concluded(flow[r]) /\ flow[r].at = "done" /\ flow[r].calls <= budget /\ flow[r] \in Flows
      BY <2>1 DEF Sound
    <2> QED BY <2>2 DEF Concluded, OnTime, Completed, Pending, Flows
  <1> QED BY <1>1, AssistantSafety, PTL

\* The text of a stored turn tells of the version that the turn names, however the source and
\* the index changed between building the context, asking the provider and storing the turn,
\* for any number of requests, conversations and publications.
THEOREM TextIsAlwaysOfItsVersion == Spec => []TextIsOfItsVersion
  <1>1. AssistantInvariant => TextIsOfItsVersion
    <2> SUFFICES ASSUME AssistantInvariant, NEW t \in Turns, t.accepted \/ profile = "production"
                 PROVE  t.text \subseteq {t.version}
      BY DEF TextIsOfItsVersion
    <2>1. PICK c \in Conversations :
            \E i \in DOMAIN conversations[c].turns : t = conversations[c].turns[i]
      BY DEF Turns, ToSet
    <2>2. Tells(t)
      BY <2>1 DEF AssistantInvariant, TurnsKept
    <2> QED BY <2>2 DEF Tells
  <1> QED BY <1>1, AssistantSafety, PTL
=============================================================================
