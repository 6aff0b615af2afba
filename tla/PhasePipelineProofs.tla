------------------------ MODULE PhasePipelineProofs ------------------------
(***************************************************************************)
(* Proofs about PhasePipeline, for any number of runs, phases, releases and *)
(* sources, any number of failures and any amount of damage: a run that     *)
(* ends has what its own release makes of its own source, and runs that     *)
(* share the artifact store agree as long as no file is lost.               *)
(***************************************************************************)
EXTENDS PhasePipeline, FiniteSetTheorems, WellFoundedInduction, TLAPS

---------------------------------------------------------------------------
(* Induction.  The numbers that are not in S would give intervals 0..n none *)
(* of which is least in the well-founded order of the finite sets.          *)

\* A set of numbers that has 0 and, with each number, the next has them all.
LEMMA SetInduction ==
  ASSUME NEW S, 0 \in S, \A n \in Nat : n \in S => n + 1 \in S
  PROVE  \A n \in Nat : n \in S
  <1> SUFFICES ASSUME NEW m \in Nat, m \notin S PROVE FALSE
    OBVIOUS
  <1> DEFINE T == {0..n : n \in {k \in Nat : k \notin S}}
  <1>1. T \subseteq FiniteSubsetsOf(Nat)
    <2>1. ASSUME NEW n \in Nat PROVE 0..n \in FiniteSubsetsOf(Nat)
      BY FS_Interval DEF FiniteSubsetsOf
    <2> QED BY <2>1
  <1>2. T # {}
    OBVIOUS
  <1>3. PICK x \in T : \A y \in T : ~ (<<y, x>> \in StrictSubsetOrdering(Nat))
    <2> HIDE DEF T
    <2> QED BY <1>1, <1>2, WFMin, FS_StrictSubsetOrderingWellFounded
  <1>4. PICK n \in Nat : n \notin S /\ x = 0..n
    BY <1>3
  <1>5. n # 0 /\ n - 1 \in Nat /\ n - 1 \notin S
    BY <1>4
  <1>6. 0..(n - 1) \in T
    BY <1>5
  <1>7. <<0..(n - 1), x>> \in StrictSubsetOrdering(Nat)
    <2>1. 0..(n - 1) \in SUBSET Nat /\ 0..n \in SUBSET Nat /\ 0..(n - 1) \subseteq 0..n
      BY <1>4, <1>5
    <2>2. n \in 0..n /\ n \notin 0..(n - 1)
      BY <1>4, <1>5
    <2> QED BY <2>1, <2>2, <1>4 DEF StrictSubsetOrdering
  <1> QED BY <1>3, <1>6, <1>7

---------------------------------------------------------------------------
(* What a run from nothing has after each phase. *)

\* The equations of After: it begins with the initial artifacts, and a phase adds
\* its output to what the phases before it left.
LEMMA AfterEquations ==
  ASSUME NEW rel, NEW s
  PROVE  /\ After(rel, s)[0] = InitialPool(s)
         /\ \A k \in Phase : After(rel, s)[k] =
              Merge(After(rel, s)[k - 1], Output(k, rel, After(rel, s)[k - 1]))
  <1> DEFINE Step(f, k) == IF k = 0 THEN InitialPool(s)
                           ELSE Merge(f[k - 1], Output(k, rel, f[k - 1]))
             S == {n \in Nat : \E f : f = [k \in 0..n |-> Step(f, k)]}
  <1>1. 0 \in S
    <2> DEFINE f == [k \in 0..0 |-> InitialPool(s)]
    <2>1. f = [k \in 0..0 |-> Step(f, k)]
      OBVIOUS
    <2> QED BY <2>1
  <1>2. ASSUME NEW n \in Nat, n \in S PROVE n + 1 \in S
    <2>1. PICK f : f = [k \in 0..n |-> Step(f, k)]
      BY <1>2
    <2> DEFINE Last == Merge(f[n], Output(n + 1, rel, f[n]))
               g == [k \in 0..(n + 1) |-> IF k = n + 1 THEN Last ELSE f[k]]
    <2>2. ASSUME NEW k \in 0..(n + 1) PROVE g[k] = Step(g, k)
      <3>1. CASE k = n + 1
        <4>1. g[k - 1] = f[n] /\ g[k] = Last
          BY <3>1
        <4> HIDE DEF g
        <4> QED BY <4>1, <3>1
      <3>2. CASE k \in 0..n
        <4>1. f[k] = Step(f, k)
          BY <2>1, <3>2
        <4>2. g[k] = f[k] /\ (k # 0 => g[k - 1] = f[k - 1])
          BY <3>2
        <4> HIDE DEF g
        <4> QED BY <4>1, <4>2
      <3> QED BY <3>1, <3>2
    <2>3. g = [k \in 0..(n + 1) |-> Step(g, k)]
      BY <2>2
    <2> HIDE DEF g
    <2> QED BY <2>3
  <1>3. Phases \in S
    <2> HIDE DEF S
    <2> QED BY <1>1, <1>2, SetInduction, PhaseAssumption
  <1>4. PICK f : f = [k \in 0..Phases |-> Step(f, k)]
    BY <1>3
  <1>5. After(rel, s) = [k \in 0..Phases |-> Step(After(rel, s), k)]
    BY <1>4 DEF After
  <1> DEFINE a == After(rel, s)
  <1>6. a = [k \in 0..Phases |-> Step(a, k)]
    BY <1>5
  <1> HIDE DEF a
  <1>7. a[0] = InitialPool(s)
    BY <1>6, PhaseAssumption
  <1>8. ASSUME NEW k \in Phase PROVE a[k] = Merge(a[k - 1], Output(k, rel, a[k - 1]))
    BY <1>6, PhaseAssumption DEF Phase
  <1> QED BY <1>7, <1>8 DEF a

\* What a phase makes is in the result: no other phase makes it.
LEMMA FreshHasOutputs ==
  ASSUME NEW rel, NEW s, NEW k \in Phase, NEW t \in Makes[k]
  PROVE  Fresh(rel, s)[t] = Output(k, rel, After(rel, s)[k - 1])[t]
  <1> DEFINE a == After(rel, s)
             o == Output(k, rel, a[k - 1])[t]
             S == {n \in Nat : n \in k..Phases => a[n][t] = o}
  <1>1. \A j \in Phase : a[j] = Merge(a[j - 1], Output(j, rel, a[j - 1]))
    BY AfterEquations
  <1>2. t \in Types /\ k \in Nat /\ Phases \in Nat /\ 1 <= k /\ k <= Phases
    BY PhaseAssumption, OutputAssumption DEF Types, Made, Phase
  <1> HIDE DEF a, o
  <1>3. a[k][t] = o
    BY <1>1, <1>2 DEF Merge, Output, o
  <1>4. 0 \in S
    BY <1>2
  <1>5. ASSUME NEW n \in Nat, n \in S PROVE n + 1 \in S
    <2> SUFFICES ASSUME n + 1 \in k..Phases PROVE a[n + 1][t] = o
      OBVIOUS
    <2>1. CASE n + 1 = k
      BY <2>1, <1>3
    <2>2. CASE n + 1 # k
      <3>1. n \in k..Phases /\ n + 1 \in Phase /\ (n + 1) - 1 = n
        BY <2>2, <1>2 DEF Phase
      <3>2. a[n][t] = o
        BY <1>5, <3>1
      <3>3. t \notin Makes[n + 1]
        BY <2>2, <3>1, PhaseAssumption, OutputAssumption
      <3>4. a[n + 1] = Merge(a[n], Output(n + 1, rel, a[n]))
        BY <1>1, <3>1
      <3> QED BY <3>2, <3>3, <3>4, <1>2 DEF Merge, Output
    <2> QED BY <2>1, <2>2
  <1>6. Phases \in S
    <2> HIDE DEF S
    <2> QED BY <1>2, <1>4, <1>5, SetInduction
  <1>7. a[Phases][t] = o
    BY <1>6, <1>2
  <1> QED BY <1>7 DEF Fresh, a, o

---------------------------------------------------------------------------
(* The inductive invariant. *)

TypeInv ==
  /\ DOMAIN checkpoint = Phase /\ DOMAIN artifact = Made
  /\ pc \in [Runs -> {"idle", "plan", "execute", "verify", "write", "conflict", "done"}]
  /\ phase \in [Runs -> 1..(Phases + 1)]
  /\ DOMAIN pool = Runs /\ DOMAIN release = Runs /\ DOMAIN source = Runs
  /\ damage \in Nat

\* Where a run is in its phases, and that it has a release and a source.
Placed(r) ==
  /\ pc[r] \in {"execute", "verify", "write", "conflict"} => phase[r] \in Phase
  /\ pc[r] = "idle" => phase[r] = 1
  /\ pc[r] = "done" => phase[r] = Phases + 1
  /\ pc[r] # "idle" => release[r] \in Releases /\ source[r] \in Sources

\* At every phase, not only at the end, a run has what a run from nothing would.
OwnPool(r) == pc[r] # "idle" => pool[r] = After(release[r], source[r])[phase[r] - 1]

\* The output in a checkpoint is that of the key in it.
Honest(k) ==
  checkpoint[k] \notin {None, Damaged}
  => checkpoint[k].output = [t \in Makes[k] |-> <<t, checkpoint[k].key>>]

FreshInv ==
  /\ TypeInv
  /\ \A r \in Runs : Placed(r) /\ OwnPool(r)
  /\ \A k \in Phase : Honest(k)

\* The store has what a run has made or taken over, what it has just made, and what
\* the checkpoints say it has.
Held(r) ==
  pc[r] # "idle" => \A j \in 1..(phase[r] - 1) : \A t \in Makes[j] :
                      artifact[t] # None /\ pool[r][t] = artifact[t]

Stored(r) ==
  pc[r] \in {"verify", "write"} => \A t \in Makes[phase[r]] : artifact[t] = ThisOutput(r)[t]

Backed(k) ==
  checkpoint[k] # None =>
    /\ checkpoint[k] = [key |-> checkpoint[k].key,
                        output |-> [t \in Makes[k] |-> <<t, checkpoint[k].key>>]]
    /\ \A t \in Makes[k] : artifact[t] # None /\ artifact[t] = <<t, checkpoint[k].key>>

\* A refused run met an artifact that it would not have made.
Refused(r) ==
  pc[r] = "conflict" => \E t \in Makes[phase[r]] : artifact[t] \notin {None, ThisOutput(r)[t]}

SharedInv ==
  damage = 0 =>
    /\ \A r \in Runs : Held(r) /\ Stored(r) /\ Refused(r)
    /\ \A k \in Phase : Backed(k)

---------------------------------------------------------------------------
(* A run that ends has its own result. *)

LEMMA FreshInit == Init => FreshInv
  BY PhaseAssumption, BoundAssumption
     DEF Init, FreshInv, TypeInv, Placed, OwnPool, Honest, Phase

\* What holds of a run depends on nothing but that run.
LEMMA RunFrame ==
  ASSUME NEW q \in Runs, Placed(q), OwnPool(q),
         pc'[q] = pc[q], phase'[q] = phase[q], pool'[q] = pool[q],
         release'[q] = release[q], source'[q] = source[q]
  PROVE  Placed(q)' /\ OwnPool(q)'
  BY DEF Placed, OwnPool

\* A run that is abandoned has nothing left that could be wrong.
LEMMA AbandonKeeps ==
  ASSUME FreshInv, NEW r \in Runs, Abandon(r),
         UNCHANGED checkpoint, DOMAIN artifact' = Made, damage' \in Nat
  PROVE  FreshInv'
  <1>1. TypeInv'
    BY PhaseAssumption DEF FreshInv, TypeInv, Abandon, Goto
  <1>2. ASSUME NEW q \in Runs PROVE Placed(q)' /\ OwnPool(q)'
    <2>1. CASE q = r
      BY <2>1 DEF FreshInv, TypeInv, Abandon, Goto, Placed, OwnPool
    <2>2. CASE q # r
      BY <2>2, RunFrame DEF FreshInv, TypeInv, Abandon, Goto
    <2> QED BY <2>1, <2>2
  <1>3. ASSUME NEW k \in Phase PROVE Honest(k)'
    BY DEF FreshInv, Honest
  <1> QED BY <1>1, <1>2, <1>3 DEF FreshInv

\* A run that goes on with the output of its phase has what a run from nothing has
\* after that phase.
LEMMA AdvanceKeeps ==
  ASSUME FreshInv, NEW r \in Runs, pc[r] # "idle", phase[r] \in Phase,
         Advance(r, ThisOutput(r)),
         NEW l \in {"plan", "execute", "done"}, Goto(r, l),
         l = "execute" => phase[r] # Phases,
         l = "done" => phase[r] = Phases
  PROVE  /\ pc' \in [Runs -> {"idle", "plan", "execute", "verify", "write", "conflict", "done"}]
         /\ phase' \in [Runs -> 1..(Phases + 1)]
         /\ DOMAIN pool' = Runs /\ DOMAIN release' = Runs /\ DOMAIN source' = Runs
         /\ \A q \in Runs : Placed(q)' /\ OwnPool(q)'
  <1>1. phase[r] + 1 \in 1..(Phases + 1) /\ (phase[r] + 1) - 1 = phase[r]
    BY PhaseAssumption DEF Phase
  <1>2. /\ pc'[r] = l /\ phase'[r] = phase[r] + 1
        /\ pool'[r] = Merge(pool[r], ThisOutput(r))
        /\ UNCHANGED <<release, source>>
    BY DEF FreshInv, TypeInv, Goto, Advance
  <1>3. ASSUME NEW q \in Runs PROVE Placed(q)' /\ OwnPool(q)'
    <2>1. CASE q = r
      <3>1. pool[r] = After(release[r], source[r])[phase[r] - 1]
        BY DEF FreshInv, OwnPool
      <3>2. pool'[r] = After(release[r], source[r])[phase[r]]
        BY <1>2, <3>1, AfterEquations DEF ThisOutput
      <3>3. OwnPool(r)'
        BY <1>1, <1>2, <3>2 DEF OwnPool
      <3>4. Placed(r)
        BY DEF FreshInv
      <3>5. Placed(r)'
        BY <1>1, <1>2, <3>4, PhaseAssumption DEF Placed, Phase
      <3> QED BY <2>1, <3>3, <3>5
    <2>2. CASE q # r
      BY <2>2, <1>2, RunFrame DEF FreshInv, TypeInv, Goto, Advance
    <2> QED BY <2>1, <2>2
  <1> QED BY <1>1, <1>3 DEF FreshInv, TypeInv, Goto, Advance

\* A run that keeps what it has and goes from one place to another of its phase.
LEMMA GotoKeeps ==
  ASSUME FreshInv, NEW r \in Runs, pc[r] # "idle", phase[r] \in Phase,
         NEW l \in {"execute", "verify", "write", "conflict"}, Goto(r, l),
         UNCHANGED <<checkpoint, phase, pool, release, source, damage>>,
         DOMAIN artifact' = Made
  PROVE  FreshInv'
  <1>1. TypeInv'
    BY DEF FreshInv, TypeInv, Goto
  <1>2. ASSUME NEW q \in Runs PROVE Placed(q)' /\ OwnPool(q)'
    <2>1. CASE q = r
      BY <2>1 DEF FreshInv, TypeInv, Goto, Placed, OwnPool
    <2>2. CASE q # r
      BY <2>2, RunFrame DEF FreshInv, TypeInv, Goto
    <2> QED BY <2>1, <2>2
  <1>3. ASSUME NEW k \in Phase PROVE Honest(k)'
    BY DEF FreshInv, Honest
  <1> QED BY <1>1, <1>2, <1>3 DEF FreshInv

\* A checkpoint that answers the input of the phase has its output.
LEMMA CompatibleOutput ==
  ASSUME NEW r \in Runs, phase[r] \in Phase, Honest(phase[r]), Compatible(r)
  PROVE  checkpoint[phase[r]].output = ThisOutput(r)
  BY DEF Honest, Compatible, ThisOutput, Output

LEMMA FreshStep == FreshInv /\ [Next]_vars => FreshInv'
  <1> SUFFICES ASSUME FreshInv, [Next]_vars PROVE FreshInv'
    OBVIOUS
  <1>1. ASSUME NEW r \in Runs, Start(r) PROVE FreshInv'
    <2>1. PICK rel \in Releases, s \in Sources :
            /\ release' = [release EXCEPT ![r] = rel]
            /\ source' = [source EXCEPT ![r] = s]
            /\ pool' = [pool EXCEPT ![r] = InitialPool(s)]
      BY <1>1 DEF Start
    <2>2. TypeInv'
      BY <1>1, <2>1 DEF FreshInv, TypeInv, Start, Goto, files
    <2>3. ASSUME NEW q \in Runs PROVE Placed(q)' /\ OwnPool(q)'
      <3>1. CASE q = r
        <4>1. pc'[r] = "plan" /\ phase'[r] = 1 /\ release'[r] = rel /\ source'[r] = s
              /\ pool'[r] = InitialPool(s)
          BY <1>1, <2>1 DEF FreshInv, TypeInv, Placed, Start, Goto
        <4> QED BY <3>1, <4>1, AfterEquations DEF Placed, OwnPool
      <3>2. CASE q # r
        BY <3>2, <1>1, <2>1, RunFrame DEF FreshInv, TypeInv, Start, Goto
      <3> QED BY <3>1, <3>2
    <2>4. ASSUME NEW k \in Phase PROVE Honest(k)'
      BY <1>1 DEF FreshInv, Honest, Start, files
    <2> QED BY <2>2, <2>3, <2>4 DEF FreshInv
  <1>2. ASSUME NEW r \in Runs, Resume(r) PROVE FreshInv'
    <2>1. checkpoint[phase[r]].output = ThisOutput(r)
      BY <1>2, CompatibleOutput DEF FreshInv, Resume
    <2>2. /\ Advance(r, ThisOutput(r)) /\ Goto(r, "plan")
          /\ pc[r] = "plan" /\ phase[r] \in Phase /\ UNCHANGED <<files, damage>>
      BY <1>2, <2>1 DEF Resume, Goto, FreshInv, TypeInv
    <2>3. ASSUME NEW k \in Phase PROVE Honest(k)'
      BY <2>2 DEF FreshInv, Honest, files
    <2> QED BY <2>2, <2>3, AdvanceKeeps DEF FreshInv, TypeInv, files
  <1>3. ASSUME NEW r \in Runs, Planned(r) PROVE FreshInv'
    <2>1. CASE phase[r] \in Phase
      <3>1. pc[r] # "idle" /\ Goto(r, "execute")
            /\ UNCHANGED <<files, phase, pool, release, source, damage>>
        BY <1>3, <2>1 DEF Planned
      <3> QED BY <2>1, <3>1, GotoKeeps DEF FreshInv, TypeInv, files
    <2>2. CASE phase[r] \notin Phase
      <3>1. phase[r] = Phases + 1
        BY <2>2, PhaseAssumption DEF FreshInv, TypeInv, Phase
      <3>2. TypeInv'
        BY <1>3 DEF FreshInv, TypeInv, Planned, Goto, files
      <3>3. ASSUME NEW q \in Runs PROVE Placed(q)' /\ OwnPool(q)'
        <4>1. CASE q = r
          BY <1>3, <3>1, <2>2, <4>1 DEF FreshInv, TypeInv, Planned, Goto, Placed, OwnPool
        <4>2. CASE q # r
          BY <1>3, <4>2, RunFrame DEF FreshInv, TypeInv, Planned, Goto
        <4> QED BY <4>1, <4>2
      <3>4. ASSUME NEW k \in Phase PROVE Honest(k)'
        BY <1>3 DEF FreshInv, Honest, Planned, files
      <3> QED BY <3>2, <3>3, <3>4 DEF FreshInv
    <2> QED BY <2>1, <2>2
  <1>4. ASSUME NEW r \in Runs, Execute(r) PROVE FreshInv'
    <2>1. /\ pc[r] = "execute" /\ phase[r] \in Phase /\ Goto(r, "verify")
          /\ UNCHANGED <<checkpoint, phase, pool, release, source, damage>>
          /\ DOMAIN artifact' = Made
      BY <1>4 DEF Execute, Store, FreshInv, Placed
    <2> QED BY <2>1, GotoKeeps
  <1>5. ASSUME NEW r \in Runs, Verify(r) PROVE FreshInv'
    <2>1. /\ pc[r] = "verify" /\ phase[r] \in Phase /\ UNCHANGED <<checkpoint, damage>>
          /\ DOMAIN artifact' = Made /\ damage' \in Nat
      BY <1>5 DEF Verify, FreshInv, Placed, TypeInv, files
    <2>2. CASE Goto(r, "write") /\ UNCHANGED <<phase, pool, release, source>>
      BY <2>1, <2>2, GotoKeeps
    <2>3. CASE Abandon(r)
      BY <2>1, <2>3, AbandonKeeps
    <2> QED BY <1>5, <2>2, <2>3 DEF Verify
  <1>6. ASSUME NEW r \in Runs, Write(r) PROVE FreshInv'
    <2>1. /\ pc[r] = "write" /\ phase[r] \in Phase /\ Advance(r, ThisOutput(r))
          /\ UNCHANGED <<artifact, damage>>
          /\ checkpoint' = [checkpoint EXCEPT ![phase[r]] = ThisCheckpoint(r)]
      BY <1>6 DEF Write, FreshInv, Placed
    <2>2. PICK l \in {"execute", "done"} :
            /\ Goto(r, l)
            /\ l = "execute" => phase[r] # Phases
            /\ l = "done" => phase[r] = Phases
      BY <1>6 DEF Write
    <2>3. ASSUME NEW k \in Phase PROVE Honest(k)'
      <3>1. CASE k = phase[r]
        BY <2>1, <3>1 DEF FreshInv, TypeInv, Honest, ThisCheckpoint, Checkpoint, Output
      <3>2. CASE k # phase[r]
        BY <2>1, <3>2 DEF FreshInv, TypeInv, Honest
      <3> QED BY <3>1, <3>2
    <2> QED BY <2>1, <2>2, <2>3, AdvanceKeeps DEF FreshInv, TypeInv
  <1>7. ASSUME NEW r \in Runs, Fail(r) PROVE FreshInv'
    <2>1. Abandon(r) /\ UNCHANGED <<checkpoint, damage>>
      BY <1>7 DEF Fail
    <2>2. DOMAIN artifact' = Made /\ damage' \in Nat
      BY <1>7 DEF Fail, Store, FreshInv, TypeInv
    <2> QED BY <2>1, <2>2, AbandonKeeps
  <1>8. ASSUME NEW r \in Runs, Conflict(r) PROVE FreshInv'
    <2>1. /\ pc[r] \in {"execute", "write"} /\ phase[r] \in Phase /\ Goto(r, "conflict")
          /\ UNCHANGED <<files, phase, pool, release, source, damage>>
      BY <1>8 DEF Conflict, FreshInv, Placed
    <2> QED BY <2>1, GotoKeeps DEF FreshInv, TypeInv, files
  <1>9. ASSUME NEW r \in Runs, Retry(r) PROVE FreshInv'
    BY <1>9, AbandonKeeps DEF Retry, FreshInv, TypeInv, files
  <1>10. ASSUME NEW j \in Phase, SpoilCheckpoint(j) PROVE FreshInv'
    <2>1. PICK left \in {None, Damaged} : checkpoint' = [checkpoint EXCEPT ![j] = left]
      BY <1>10 DEF SpoilCheckpoint
    <2>2. TypeInv'
      BY <1>10, <2>1 DEF SpoilCheckpoint, FreshInv, TypeInv
    <2>3. ASSUME NEW q \in Runs PROVE Placed(q)' /\ OwnPool(q)'
      BY <1>10, RunFrame DEF SpoilCheckpoint, FreshInv
    <2>4. ASSUME NEW k \in Phase PROVE Honest(k)'
      BY <2>1 DEF FreshInv, TypeInv, Honest
    <2> QED BY <2>2, <2>3, <2>4 DEF FreshInv
  <1>11. ASSUME NEW t \in Made, SpoilArtifact(t) PROVE FreshInv'
    <2>1. TypeInv'
      BY <1>11 DEF SpoilArtifact, FreshInv, TypeInv
    <2>2. ASSUME NEW q \in Runs PROVE Placed(q)' /\ OwnPool(q)'
      BY <1>11, RunFrame DEF SpoilArtifact, FreshInv
    <2>3. ASSUME NEW k \in Phase PROVE Honest(k)'
      BY <1>11 DEF SpoilArtifact, FreshInv, Honest
    <2> QED BY <2>1, <2>2, <2>3 DEF FreshInv
  <1>12. CASE UNCHANGED vars
    BY <1>12 DEF vars, files, FreshInv, TypeInv, Placed, OwnPool, Honest
  <1> QED BY <1>1, <1>2, <1>3, <1>4, <1>5, <1>6, <1>7, <1>8, <1>9, <1>10, <1>11, <1>12 DEF Next

\* A run keeps its place in the phases, and at every phase it has what a run from
\* nothing would, and every checkpoint holds the output of the key in it.
THEOREM FreshCorrect == Spec => []FreshInv
  BY FreshInit, FreshStep, PTL DEF Spec

\* A run that ends has the artifacts of its own release and source, whatever runs
\* of other releases and sources it shared the store with, however often it was
\* interrupted and whatever was lost or damaged (plan_resume).
THEOREM ResultIsFreshCorrect == Spec => []ResultIsFresh
  <1>1. FreshInv => ResultIsFresh
    <2> SUFFICES ASSUME FreshInv, NEW r \in Runs, pc[r] = "done"
                 PROVE  pool[r] = Fresh(release[r], source[r])
      BY DEF ResultIsFresh
    <2>1. phase[r] - 1 = Phases
      BY PhaseAssumption DEF FreshInv, Placed
    <2> QED BY <2>1 DEF FreshInv, OwnPool, Fresh
  <1> QED BY <1>1, FreshCorrect, PTL

---------------------------------------------------------------------------
(* Runs that share the store agree. *)

\* What holds of a run, and of a checkpoint, when no file is lost.
SharedRun(r) == Held(r) /\ Stored(r) /\ Refused(r)

\* The store never replaces a file.
FilesStay == \A t \in Made : artifact[t] # None => artifact'[t] = artifact[t]

LEMMA SharedInit == Init => SharedInv
  BY DEF Init, SharedInv, Held, Stored, Refused, Backed, Phase

\* What a phase makes is taken for no missing file.
LEMMA OutputIsThere ==
  ASSUME NEW r \in Runs, Placed(r), OwnPool(r), pc[r] # "idle", phase[r] \in Phase,
         NEW t \in Makes[phase[r]]
  PROVE  t \in Made /\ ThisOutput(r)[t] # None
  BY NoneAssumption DEF Placed, OwnPool, ThisOutput, Made

LEMMA StoreKeepsFiles ==
  ASSUME NEW out, NEW types, types \subseteq Made, Store(out, types)
  PROVE  FilesStay
  BY DEF Store, Writable, FilesStay

LEMMA SharedFrame ==
  ASSUME NEW q \in Runs, Placed(q), OwnPool(q), SharedRun(q), FilesStay,
         TypeInv,
         pc'[q] = pc[q], phase'[q] = phase[q], pool'[q] = pool[q],
         release'[q] = release[q], source'[q] = source[q]
  PROVE  SharedRun(q)'
  <1>1. \A k \in Phase : Makes[k] \subseteq Made
    BY DEF Made
  <1>2. Held(q)'
    <2> SUFFICES ASSUME pc[q] # "idle", NEW j \in 1..(phase[q] - 1), NEW t \in Makes[j]
                 PROVE  artifact'[t] # None /\ pool[q][t] = artifact'[t]
      BY DEF Held
    <2>1. artifact[t] # None /\ pool[q][t] = artifact[t]
      BY DEF SharedRun, Held
    <2>2. t \in Made
      BY <1>1, PhaseAssumption, OutputAssumption DEF TypeInv, Phase
    <2> QED BY <2>1, <2>2 DEF FilesStay
  <1>3. Stored(q)'
    <2> SUFFICES ASSUME pc[q] \in {"verify", "write"}, NEW t \in Makes[phase[q]]
                 PROVE  artifact'[t] = ThisOutput(q)[t]
      BY DEF Stored, ThisOutput
    <2>1. artifact[t] = ThisOutput(q)[t]
      BY DEF SharedRun, Stored
    <2> QED BY <2>1, OutputIsThere DEF Placed, FilesStay
  <1>4. Refused(q)'
    <2> SUFFICES ASSUME pc[q] = "conflict"
                 PROVE  \E t \in Makes[phase[q]] : artifact'[t] \notin {None, ThisOutput(q)[t]}
      BY DEF Refused, ThisOutput
    <2>1. PICK t \in Makes[phase[q]] : artifact[t] \notin {None, ThisOutput(q)[t]}
      BY DEF SharedRun, Refused
    <2>2. t \in Made
      BY <1>1 DEF Placed
    <2> QED BY <2>1, <2>2 DEF FilesStay
  <1> QED BY <1>2, <1>3, <1>4 DEF SharedRun

LEMMA BackedFrame ==
  ASSUME NEW k \in Phase, Backed(k), FilesStay, checkpoint'[k] = checkpoint[k]
  PROVE  Backed(k)'
  BY DEF Backed, FilesStay, Made

\* A run goes on with what the store has.
LEMMA AdvanceShared ==
  ASSUME TypeInv, NEW r \in Runs, pc[r] # "idle", phase[r] \in Phase, Placed(r), OwnPool(r),
         Held(r), UNCHANGED artifact, Advance(r, ThisOutput(r)),
         \A t \in Makes[phase[r]] : artifact[t] = ThisOutput(r)[t],
         pc'[r] \in {"plan", "execute", "done"}
  PROVE  SharedRun(r)'
  <1>1. /\ phase'[r] = phase[r] + 1
        /\ pool'[r] = Merge(pool[r], ThisOutput(r))
    BY DEF TypeInv, Advance
  <1>2. Held(r)'
    <2> SUFFICES ASSUME NEW j \in 1..phase[r], NEW t \in Makes[j]
                 PROVE  artifact[t] # None /\ pool'[r][t] = artifact[t]
      BY <1>1, PhaseAssumption, OutputAssumption DEF Held, Phase
    <2>1. j \in Phase /\ t \in Types
      BY PhaseAssumption, OutputAssumption DEF Phase, Types, Made
    <2>2. CASE j = phase[r]
      BY <2>1, <2>2, <1>1, OutputIsThere DEF Merge, ThisOutput, Output
    <2>3. CASE j # phase[r]
      <3>1. t \notin Makes[phase[r]]
        BY <2>1, <2>3, PhaseAssumption, OutputAssumption
      <3>2. pool'[r][t] = pool[r][t]
        BY <3>1, <2>1, <1>1 DEF Merge, ThisOutput, Output
      <3>3. j \in 1..(phase[r] - 1)
        BY <2>3, PhaseAssumption, OutputAssumption DEF Phase
      <3> QED BY <3>2, <3>3 DEF Held
    <2> QED BY <2>2, <2>3
  <1> QED BY <1>2 DEF SharedRun, Stored, Refused

LEMMA IdleShared ==
  ASSUME NEW r \in Runs, pc'[r] = "idle"
  PROVE  SharedRun(r)'
  BY DEF SharedRun, Held, Stored, Refused

\* The phases of an abandoned run are its own affair.
LEMMA AbandonShared ==
  ASSUME FreshInv, NEW r \in Runs, Abandon(r), FilesStay, UNCHANGED checkpoint,
         \A q \in Runs : SharedRun(q), \A k \in Phase : Backed(k)
  PROVE  (\A q \in Runs : SharedRun(q)') /\ (\A k \in Phase : Backed(k)')
  <1>1. ASSUME NEW q \in Runs PROVE SharedRun(q)'
    <2>1. CASE q = r
      <3>1. pc'[r] = "idle"
        BY DEF FreshInv, TypeInv, Abandon, Goto
      <3> QED BY <2>1, <3>1, IdleShared
    <2>2. CASE q # r
      BY <2>2, SharedFrame DEF FreshInv, TypeInv, Abandon, Goto
    <2> QED BY <2>1, <2>2
  <1>2. ASSUME NEW k \in Phase PROVE Backed(k)'
    BY BackedFrame
  <1> QED BY <1>1, <1>2

\* A run that stays in its phase.
LEMMA GotoShared ==
  ASSUME FreshInv, NEW r \in Runs, NEW l, Goto(r, l), FilesStay,
         UNCHANGED <<checkpoint, phase, pool, release, source>>,
         \A q \in Runs : SharedRun(q), \A k \in Phase : Backed(k),
         SharedRun(r)'
  PROVE  (\A q \in Runs : SharedRun(q)') /\ (\A k \in Phase : Backed(k)')
  <1>1. ASSUME NEW q \in Runs, q # r PROVE SharedRun(q)'
    BY <1>1, SharedFrame DEF FreshInv, TypeInv, Goto
  <1>2. ASSUME NEW k \in Phase PROVE Backed(k)'
    BY BackedFrame
  <1> QED BY <1>1, <1>2

LEMMA SharedStep == FreshInv /\ SharedInv /\ [Next]_vars => SharedInv'
  <1> SUFFICES ASSUME FreshInv, SharedInv, [Next]_vars, damage' = 0
               PROVE  (\A q \in Runs : SharedRun(q)') /\ (\A k \in Phase : Backed(k)')
    BY DEF SharedInv, SharedRun
  <1> DEFINE Goal == (\A q \in Runs : SharedRun(q)') /\ (\A k \in Phase : Backed(k)')
  <1>a. \A k \in Phase : Makes[k] \subseteq Made
    BY DEF Made
  <1>s. ASSUME UNCHANGED damage
        PROVE  (\A q \in Runs : SharedRun(q)) /\ (\A k \in Phase : Backed(k))
    BY <1>s DEF SharedInv, SharedRun
  <1>t. ASSUME UNCHANGED artifact PROVE FilesStay
    BY <1>t DEF FilesStay
  <1> USE <1>a
  <1>1. ASSUME NEW r \in Runs, Start(r) PROVE Goal
    <2>1. FilesStay /\ UNCHANGED <<checkpoint, damage>>
      BY <1>1, <1>t DEF Start, files
    <2>2. ASSUME NEW q \in Runs PROVE SharedRun(q)'
      <3>1. CASE q = r
        <4>1. pc'[r] = "plan" /\ phase'[r] = 1
          BY <1>1 DEF Start, Goto, FreshInv, TypeInv, Placed
        <4> QED BY <4>1, <3>1 DEF SharedRun, Held, Stored, Refused
      <3>2. CASE q # r
        BY <3>2, <1>1, <2>1, <1>s, SharedFrame DEF Start, Goto, FreshInv, TypeInv
      <3> QED BY <3>1, <3>2
    <2>3. ASSUME NEW k \in Phase PROVE Backed(k)'
      BY <2>1, <1>s, BackedFrame
    <2> QED BY <2>2, <2>3
  <1>2. ASSUME NEW r \in Runs, Resume(r) PROVE Goal
    <2>1. checkpoint[phase[r]].output = ThisOutput(r)
      BY <1>2, CompatibleOutput DEF FreshInv, Resume
    <2>2. /\ Advance(r, ThisOutput(r)) /\ UNCHANGED pc
          /\ pc[r] = "plan" /\ phase[r] \in Phase /\ UNCHANGED <<checkpoint, artifact, damage>>
      BY <1>2, <2>1 DEF Resume, files
    <2>3. \A t \in Makes[phase[r]] : artifact[t] = ThisOutput(r)[t]
      BY <1>2, <2>1 DEF Resume, Intact, ThisOutput, Output
    <2>4. SharedRun(r)'
      BY <2>2, <2>3, <1>s, AdvanceShared DEF FreshInv, SharedRun
    <2>5. ASSUME NEW q \in Runs, q # r PROVE SharedRun(q)'
      BY <2>2, <2>5, <1>s, <1>t, SharedFrame DEF FreshInv, TypeInv, Advance
    <2>6. ASSUME NEW k \in Phase PROVE Backed(k)'
      BY <2>2, <1>s, <1>t, BackedFrame
    <2> QED BY <2>4, <2>5, <2>6
  <1>3. ASSUME NEW r \in Runs, Planned(r) PROVE Goal
    <2>1. PICK l \in {"execute", "done"} : Goto(r, l)
      BY <1>3 DEF Planned
    <2>2. /\ pc[r] = "plan" /\ pc'[r] = l
          /\ UNCHANGED <<checkpoint, artifact, phase, pool, release, source, damage>>
      BY <1>3, <2>1 DEF Planned, Goto, FreshInv, TypeInv, files
    <2>3. SharedRun(r)'
      BY <2>2, <1>s DEF SharedRun, Held, Stored, Refused
    <2> QED BY <2>1, <2>2, <2>3, <1>s, <1>t, GotoShared
  <1>4. ASSUME NEW r \in Runs, Execute(r) PROVE Goal
    <2>1. /\ pc[r] = "execute" /\ phase[r] \in Phase
          /\ UNCHANGED <<checkpoint, phase, pool, release, source, damage>>
          /\ Goto(r, "verify") /\ pc'[r] = "verify"
          /\ Store(ThisOutput(r), Makes[phase[r]])
      BY <1>4 DEF Execute, FreshInv, TypeInv, Placed, Goto
    <2>2. FilesStay
      BY <2>1, StoreKeepsFiles
    <2>3. Held(r)'
      <3> SUFFICES ASSUME NEW j \in 1..(phase[r] - 1), NEW t \in Makes[j]
                   PROVE  artifact'[t] # None /\ pool[r][t] = artifact'[t]
        BY <2>1 DEF Held
      <3>1. artifact[t] # None /\ pool[r][t] = artifact[t]
        BY <2>1, <1>s DEF SharedRun, Held
      <3>2. t \in Made
        BY <2>1, PhaseAssumption, OutputAssumption DEF Phase
      <3> QED BY <2>2, <3>1, <3>2 DEF FilesStay
    <2>4. Stored(r)'
      BY <2>1 DEF Stored, Store, ThisOutput
    <2>5. SharedRun(r)'
      BY <2>1, <2>3, <2>4 DEF SharedRun, Refused
    <2> QED BY <2>1, <2>2, <2>5, <1>s, GotoShared
  <1>5. ASSUME NEW r \in Runs, Verify(r) PROVE Goal
    <2>1. pc[r] = "verify" /\ UNCHANGED <<checkpoint, artifact, damage>>
      BY <1>5 DEF Verify, files
    <2>2. CASE Goto(r, "write") /\ UNCHANGED <<phase, pool, release, source>>
      <3>1. pc'[r] = "write"
        BY <2>2 DEF Goto, FreshInv, TypeInv
      <3>2. SharedRun(r)'
        BY <2>1, <2>2, <3>1, <1>s DEF SharedRun, Held, Stored, Refused, ThisOutput
      <3> QED BY <2>1, <2>2, <3>2, <1>s, <1>t, GotoShared
    <2>3. CASE Abandon(r)
      BY <2>1, <2>3, <1>s, <1>t, AbandonShared
    <2> QED BY <1>5, <2>2, <2>3 DEF Verify
  <1>6. ASSUME NEW r \in Runs, Write(r) PROVE Goal
    <2>1. /\ pc[r] = "write" /\ phase[r] \in Phase /\ Advance(r, ThisOutput(r))
          /\ UNCHANGED <<artifact, damage>>
          /\ checkpoint' = [checkpoint EXCEPT ![phase[r]] = ThisCheckpoint(r)]
      BY <1>6 DEF Write, FreshInv, Placed
    <2>2. PICK l \in {"execute", "done"} : Goto(r, l)
      BY <1>6 DEF Write
    <2>3. pc'[r] \in {"plan", "execute", "done"}
      BY <2>2 DEF Goto, FreshInv, TypeInv
    <2>4. \A t \in Makes[phase[r]] : artifact[t] = ThisOutput(r)[t]
      BY <2>1, <1>s DEF SharedRun, Stored
    <2>5. SharedRun(r)'
      BY <2>1, <2>3, <2>4, <1>s, AdvanceShared DEF FreshInv, SharedRun
    <2>6. ASSUME NEW q \in Runs, q # r PROVE SharedRun(q)'
      BY <2>1, <2>2, <2>6, <1>s, <1>t, SharedFrame DEF FreshInv, TypeInv, Advance, Goto
    <2>7. ASSUME NEW k \in Phase PROVE Backed(k)'
      <3>1. CASE k = phase[r]
        <4>1. checkpoint'[k] = ThisCheckpoint(r)
          BY <2>1, <3>1 DEF FreshInv, TypeInv
        <4>2. ASSUME NEW t \in Makes[k]
              PROVE  artifact[t] # None /\ artifact[t] = <<t, checkpoint'[k].key>>
          <5>1. ThisOutput(r)[t] # None
            BY <2>1, <3>1, OutputIsThere DEF FreshInv
          <5>2. ThisOutput(r)[t] = <<t, checkpoint'[k].key>>
            BY <4>1, <3>1 DEF ThisOutput, ThisCheckpoint, Checkpoint, Output
          <5> QED BY <2>4, <3>1, <5>1, <5>2
        <4>3. checkpoint'[k] = [key |-> checkpoint'[k].key,
                                output |-> [t \in Makes[k] |-> <<t, checkpoint'[k].key>>]]
          BY <4>1, <3>1 DEF ThisCheckpoint, Checkpoint, Output
        <4> QED BY <2>1, <4>2, <4>3 DEF Backed
      <3>2. CASE k # phase[r]
        BY <2>1, <3>2, <1>s, <1>t, BackedFrame DEF FreshInv, TypeInv
      <3> QED BY <3>1, <3>2
    <2> QED BY <2>5, <2>6, <2>7
  <1>7. ASSUME NEW r \in Runs, Fail(r) PROVE Goal
    <2>1. Abandon(r) /\ UNCHANGED <<checkpoint, damage>>
      BY <1>7 DEF Fail
    <2>2. FilesStay
      <3>1. CASE UNCHANGED artifact
        BY <3>1, <1>t
      <3>2. CASE pc[r] = "execute" /\ \E types \in SUBSET Makes[phase[r]] : Store(ThisOutput(r), types)
        <4>1. phase[r] \in Phase
          BY <3>2 DEF FreshInv, Placed
        <4> QED BY <3>2, <4>1, StoreKeepsFiles
      <3> QED BY <1>7, <3>1, <3>2 DEF Fail
    <2> QED BY <2>1, <2>2, <1>s, AbandonShared
  <1>8. ASSUME NEW r \in Runs, Conflict(r) PROVE Goal
    <2>1. /\ pc[r] \in {"execute", "write"} /\ phase[r] \in Phase
          /\ Goto(r, "conflict") /\ pc'[r] = "conflict"
          /\ UNCHANGED <<checkpoint, artifact, phase, pool, release, source, damage>>
      BY <1>8 DEF Conflict, FreshInv, TypeInv, Placed, Goto, files
    <2>2. \E t \in Makes[phase[r]] : artifact[t] \notin {None, ThisOutput(r)[t]}
      <3>1. CASE pc[r] = "execute"
        BY <1>8, <3>1 DEF Conflict, Writable
      <3>2. CASE pc[r] = "write"
        <4>1. checkpoint[phase[r]] \notin {None, ThisCheckpoint(r)}
          BY <1>8, <3>2 DEF Conflict, Writable
        <4>2. PICK t \in Makes[phase[r]] : TRUE
          BY <2>1, PhaseAssumption, OutputAssumption
        <4>3. artifact[t] = <<t, Key(phase[r], release[r], pool[r])>>
          BY <2>1, <3>2, <1>s DEF SharedRun, Stored, ThisOutput, Output
        <4>4. Backed(phase[r])
          BY <2>1, <1>s
        <4>5. checkpoint[phase[r]].key = Key(phase[r], release[r], pool[r])
          BY <4>1, <4>3, <4>4 DEF Backed
        <4>6. checkpoint[phase[r]] = ThisCheckpoint(r)
          BY <4>1, <4>4, <4>5 DEF Backed, ThisCheckpoint, Checkpoint, Output
        <4> QED BY <4>1, <4>6
      <3> QED BY <2>1, <3>1, <3>2
    <2>3. SharedRun(r)'
      BY <2>1, <2>2, <1>s DEF SharedRun, Held, Stored, Refused, ThisOutput
    <2> QED BY <2>1, <2>3, <1>s, <1>t, GotoShared
  <1>9. ASSUME NEW r \in Runs, Retry(r) PROVE Goal
    BY <1>9, <1>s, <1>t, AbandonShared DEF Retry, files
  <1>10. ASSUME NEW j \in Phase, SpoilCheckpoint(j) PROVE Goal
    BY <1>10 DEF SpoilCheckpoint, FreshInv, TypeInv
  <1>11. ASSUME NEW t \in Made, SpoilArtifact(t) PROVE Goal
    BY <1>11 DEF SpoilArtifact, FreshInv, TypeInv
  <1>12. CASE UNCHANGED vars
    <2>1. ASSUME NEW q \in Runs PROVE SharedRun(q)'
      BY <1>12, <1>s, <1>t, SharedFrame DEF vars, files, FreshInv
    <2>2. ASSUME NEW k \in Phase PROVE Backed(k)'
      BY <1>12, <1>s, <1>t, BackedFrame DEF vars, files
    <2> QED BY <2>1, <2>2
  <1> QED BY <1>1, <1>2, <1>3, <1>4, <1>5, <1>6, <1>7, <1>8, <1>9, <1>10, <1>11, <1>12 DEF Next

\* As long as no file is lost or damaged, runs that end have the same artifacts,
\* whichever release and source they started from, and a run that is refused met
\* an artifact of another release or source (FilesystemArtifactStore.write).
THEOREM ResultsAgreeCorrect == Spec => []ResultsAgree
  <1>1. FreshInv /\ SharedInv => OneResult
    <2> SUFFICES ASSUME FreshInv, SharedInv, damage = 0, NEW r \in Runs, NEW q \in Runs,
                        pc[r] = "done", pc[q] = "done", NEW t \in Made
                 PROVE  pool[r][t] = pool[q][t]
      BY DEF OneResult
    <2>1. PICK k \in Phase : t \in Makes[k]
      BY DEF Made
    <2>2. k \in 1..(phase[r] - 1) /\ k \in 1..(phase[q] - 1)
      BY <2>1, PhaseAssumption, OutputAssumption DEF FreshInv, Placed, Phase
    <2> QED BY <2>1, <2>2 DEF SharedInv, Held
  <1>2. FreshInv /\ SharedInv => DuplicatesAgree
    <2> SUFFICES ASSUME FreshInv, SharedInv, damage = 0, NEW r \in Runs, pc[r] = "conflict"
                 PROVE  \E k \in 1..phase[r] : \E t \in Makes[k] :
                          artifact[t] # None /\ artifact[t] # Fresh(release[r], source[r])[t]
      BY DEF DuplicatesAgree
    <2>1. PICK t \in Makes[phase[r]] : artifact[t] \notin {None, ThisOutput(r)[t]}
      BY DEF SharedInv, Refused
    <2>2. phase[r] \in Phase /\ pool[r] = After(release[r], source[r])[phase[r] - 1]
      BY DEF FreshInv, Placed, OwnPool
    <2>3. Fresh(release[r], source[r])[t] = ThisOutput(r)[t]
      BY <2>1, <2>2, FreshHasOutputs DEF ThisOutput
    <2>4. phase[r] \in 1..phase[r]
      BY <2>2, PhaseAssumption, OutputAssumption DEF Phase
    <2> QED BY <2>1, <2>3, <2>4
  <1>3. Spec => [](FreshInv /\ SharedInv)
    <2>1. Init => FreshInv /\ SharedInv
      BY FreshInit, SharedInit
    <2>2. FreshInv /\ SharedInv /\ [Next]_vars => (FreshInv /\ SharedInv)'
      BY FreshStep, SharedStep
    <2> QED BY <2>1, <2>2, PTL DEF Spec
  <1> QED BY <1>1, <1>2, <1>3, PTL DEF ResultsAgree

=============================================================================
