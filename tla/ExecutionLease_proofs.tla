------------------------ MODULE ExecutionLease_proofs ------------------------
(***************************************************************************)
(* Proofs about the execution lease, for any number of processes and mind  *)
(* files and any durations, whatever the wait for the slot.  That one      *)
(* holder at most is sound is not inductive: it needs the isolation of the *)
(* two transactions on the row, and that a lease lapses only under a late  *)
(* holder needs a budget relating the row's ttl to the holder's own timer. *)
(***************************************************************************)
EXTENDS ExecutionLease, TLAPS

\* The type invariant holds for every set of processes and every duration.
THEOREM TypeCorrect == Spec => []TypeOK
<1>1. Init => TypeOK
  BY ProcAssumption, TimeAssumption DEF Init, TypeOK, Phases
<1>2. TypeOK /\ [Next]_vars => TypeOK'
  <2> SUFFICES ASSUME TypeOK, [Next]_vars PROVE TypeOK'
    OBVIOUS
  <2> USE ProcAssumption, TimeAssumption
          DEF TypeOK, Phases, Goto, rowVars, Befalls, TenureEnds, Mishaps
  <2>1. ASSUME NEW p \in Proc, Boot(p) PROVE TypeOK'
    BY <2>1 DEF Boot, Start, ReclaimOrphaned, SkipReclaim, RecoverRead,
                RecoverWrite, RecoverNothing
  <2>2. ASSUME NEW p \in Proc, Acquire(p) PROVE TypeOK'
    BY <2>2 DEF Acquire, Submit, AcquireRead, AcquireWrite, AcquireFails
  <2>3. ASSUME NEW p \in Proc, Turn(p) PROVE TypeOK'
    BY <2>3 DEF Turn, EnterTurn, BeatKept, BeatLost, BeatFails, PollPreempted, EndTurn,
                Release, ReleaseFails
  <2>4. ASSUME NEW p \in Proc, RequestPreemption(p) PROVE TypeOK'
    BY <2>4 DEF RequestPreemption
  <2>5. ASSUME NEW p \in Proc, Crash(p) PROVE TypeOK'
    BY <2>5 DEF Crash
  <2>6. CASE Tick
    BY <2>6 DEF Tick
  <2>7. CASE UNCHANGED vars
    BY <2>7 DEF vars
  <2>8. QED
    BY <2>1, <2>2, <2>3, <2>4, <2>5, <2>6, <2>7 DEF Next
<1>3. QED
  BY <1>1, <1>2, PTL DEF Spec

-----------------------------------------------------------------------------
SoundHolder(p) == Holding(p) /\ Sound(p)

\* A transaction on the row is inside the advisory lock, and it found the row such
\* that no sound holder depends on it.
TransactionInv ==
    \A p \in Proc : phase[p] \in {"acquiring", "clearing"} =>
        advisory = p /\ \A q \in Proc : ~SoundHolder(q)

\* A sound holder has the row; one that lost it for good has something on record.
SoundInv ==
    \A p \in Proc :
        /\ SoundHolder(p) => Owns(p) /\ ttl > 0
        /\ phase[p] = "stopping" => ~Sound(p)
        /\ "cleared" \in mishaps[p] => ~Owns(p)
        /\ ~Holding(p) /\ phase[p] # "stopping" => mishaps[p] = {}

\* The lifetime left to the row of a holder that is not late covers the time until
\* its next heartbeat.
BudgetInv ==
    \A p \in Proc :
        /\ "lapsed" \in mishaps[p] => "late" \in mishaps[p]
        /\ phase[p] = "waiting" /\ Sound(p) /\ "late" \notin mishaps[p] =>
              /\ timer[p] + BeatGap < Duration
              /\ ttl + timer[p] >= Duration
        /\ Beating(p) /\ Sound(p) /\ "late" \notin mishaps[p] =>
              /\ timer[p] <= BeatGap
              /\ ttl + timer[p] > BeatGap

OwnedByAProcess == status = "active" => owner \in Proc

IInv == TypeOK /\ OwnedByAProcess /\ TransactionInv /\ SoundInv /\ BudgetInv

LEMMA InitIInv == Init => IInv
  BY ProcAssumption, TimeAssumption
  DEF Init, IInv, TypeOK, Phases, Mishaps, OwnedByAProcess, TransactionInv, SoundInv,
      BudgetInv, SoundHolder, Beating, Holding, Owns

LEMMA NextOwned == ASSUME IInv, [Next]_vars PROVE OwnedByAProcess'
<1> USE ProcAssumption DEF IInv, TypeOK, OwnedByAProcess, Owns, rowVars
<1>1. ASSUME NEW p \in Proc, Boot(p) PROVE OwnedByAProcess'
  BY <1>1 DEF Boot, Start, ReclaimOrphaned, SkipReclaim, RecoverRead, RecoverWrite,
              RecoverNothing
<1>2. ASSUME NEW p \in Proc, Acquire(p) PROVE OwnedByAProcess'
  BY <1>2 DEF Acquire, Submit, AcquireRead, AcquireWrite, AcquireFails
<1>3. ASSUME NEW p \in Proc, Turn(p) PROVE OwnedByAProcess'
  BY <1>3 DEF Turn, EnterTurn, BeatKept, BeatLost, BeatFails, PollPreempted, EndTurn,
              Release, ReleaseFails
<1>4. ASSUME NEW p \in Proc, RequestPreemption(p) \/ Crash(p) PROVE OwnedByAProcess'
  BY <1>4 DEF RequestPreemption, Crash
<1>5. CASE Tick \/ UNCHANGED vars
  BY <1>5 DEF Tick, vars
<1>6. QED
  BY <1>1, <1>2, <1>3, <1>4, <1>5 DEF Next

\* A sound holder's row is never available to anybody else.
LEMMA HolderExcludes ==
  ASSUME IInv, NEW p \in Proc, SoundHolder(p)
  PROVE  Owns(p) /\ ttl > 0 /\ ~Available
  BY DEF IInv, TypeOK, SoundInv, Owns, Available

\* One step of one process: the isolation of the transactions and the soundness of
\* the holders.
LEMMA NextSound == ASSUME IInv, [Next]_vars PROVE TransactionInv' /\ SoundInv'
<1> USE ProcAssumption, TimeAssumption
    DEF TypeOK, Phases, Mishaps, TransactionInv, SoundInv, SoundHolder, Sound, Holding,
        Beating, Owns, Goto, rowVars, Befalls, TenureEnds
<1>t. TypeOK /\ OwnedByAProcess /\ TransactionInv /\ SoundInv
  BY DEF IInv
<1>h. \A p \in Proc : SoundHolder(p) => ~Available
  BY HolderExcludes
<1>1. ASSUME NEW p \in Proc, Start(p) \/ SkipReclaim(p) \/ RecoverNothing(p) \/ Submit(p)
      PROVE  TransactionInv' /\ SoundInv'
  BY <1>1, <1>t DEF Start, SkipReclaim, RecoverNothing, Submit
<1>2. ASSUME NEW p \in Proc, ReclaimOrphaned(p) PROVE TransactionInv' /\ SoundInv'
  BY <1>2, <1>t DEF ReclaimOrphaned, OwnedByAProcess
<1>3. ASSUME NEW p \in Proc, RecoverRead(p) \/ AcquireRead(p)
      PROVE  TransactionInv' /\ SoundInv'
  BY <1>3, <1>t, <1>h DEF RecoverRead, AcquireRead, Available
<1>4. ASSUME NEW p \in Proc, RecoverWrite(p) PROVE TransactionInv' /\ SoundInv'
  BY <1>4, <1>t DEF RecoverWrite
<1>5. ASSUME NEW p \in Proc, AcquireWrite(p) PROVE TransactionInv' /\ SoundInv'
  BY <1>5, <1>t DEF AcquireWrite
<1>6. ASSUME NEW p \in Proc, AcquireFails(p) PROVE TransactionInv' /\ SoundInv'
  BY <1>6, <1>t DEF AcquireFails
<1>7. ASSUME NEW p \in Proc, EnterTurn(p) \/ BeatKept(p) \/ PollPreempted(p)
      PROVE  TransactionInv' /\ SoundInv'
  BY <1>7, <1>t DEF EnterTurn, BeatKept, PollPreempted
<1>8. ASSUME NEW p \in Proc, BeatLost(p) \/ BeatFails(p) PROVE TransactionInv' /\ SoundInv'
  BY <1>8, <1>t DEF BeatLost, BeatFails
<1>9. ASSUME NEW p \in Proc, EndTurn(p) \/ Release(p) \/ ReleaseFails(p)
      PROVE  TransactionInv' /\ SoundInv'
  BY <1>9, <1>t DEF EndTurn, Release, ReleaseFails, Thinking
<1>10. ASSUME NEW p \in Proc, RequestPreemption(p) PROVE TransactionInv' /\ SoundInv'
  BY <1>10, <1>t DEF RequestPreemption
<1>11. ASSUME NEW p \in Proc, Crash(p) PROVE TransactionInv' /\ SoundInv'
  BY <1>11, <1>t DEF Crash
<1>12. CASE Tick
  BY <1>12, <1>t DEF Tick, RunsOut, RunsLate
<1>13. CASE UNCHANGED vars
  BY <1>13, <1>t DEF vars
<1>14. QED
  BY <1>1, <1>2, <1>3, <1>4, <1>5, <1>6, <1>7, <1>8, <1>9, <1>10, <1>11, <1>12, <1>13
  DEF Next, Boot, Acquire, Turn

\* Only the clock takes from the budget; a lease that was acquired or renewed has
\* all of it.
LEMMA NextBudget == ASSUME IInv, [Next]_vars PROVE BudgetInv'
<1> USE ProcAssumption, TimeAssumption
    DEF TypeOK, Phases, Mishaps, BudgetInv, Sound, Beating, Goto, rowVars, Befalls, TenureEnds
<1>t. TypeOK /\ BudgetInv /\ SoundInv /\ TransactionInv
  BY DEF IInv
<1>1. ASSUME NEW p \in Proc, Boot(p) PROVE BudgetInv'
  BY <1>1, <1>t DEF Boot, Start, ReclaimOrphaned, SkipReclaim, RecoverRead, RecoverWrite,
                    RecoverNothing
<1>2. ASSUME NEW p \in Proc, Submit(p) \/ AcquireRead(p) PROVE BudgetInv'
  BY <1>2, <1>t DEF Submit, AcquireRead
<1>3. ASSUME NEW p \in Proc, AcquireWrite(p) \/ AcquireFails(p) PROVE BudgetInv'
  BY <1>3, <1>t DEF AcquireWrite, AcquireFails, SoundInv, TransactionInv, SoundHolder, Holding
<1>4. ASSUME NEW p \in Proc, EnterTurn(p) PROVE BudgetInv'
  BY <1>4, <1>t DEF EnterTurn
<1>5. ASSUME NEW p \in Proc, BeatKept(p) PROVE BudgetInv'
  BY <1>5, <1>t DEF BeatKept, SoundInv, SoundHolder, Holding, Owns
<1>6. ASSUME NEW p \in Proc,
             BeatLost(p) \/ BeatFails(p) \/ PollPreempted(p) \/ EndTurn(p) \/ Release(p)
             \/ ReleaseFails(p)
      PROVE  BudgetInv'
  BY <1>6, <1>t DEF BeatLost, BeatFails, PollPreempted, EndTurn, Release, ReleaseFails, Thinking
<1>7. ASSUME NEW p \in Proc, RequestPreemption(p) \/ Crash(p) PROVE BudgetInv'
  BY <1>7, <1>t DEF RequestPreemption, Crash
<1>8. CASE Tick
  <2> SUFFICES ASSUME NEW p \in Proc
               PROVE  /\ "lapsed" \in mishaps'[p] => "late" \in mishaps'[p]
                      /\ phase'[p] = "waiting" /\ Sound(p)' /\ "late" \notin mishaps'[p] =>
                            timer'[p] + BeatGap < Duration /\ ttl' + timer'[p] >= Duration
                      /\ Beating(p)' /\ Sound(p)' /\ "late" \notin mishaps'[p] =>
                            timer'[p] <= BeatGap /\ ttl' + timer'[p] > BeatGap
    BY DEF BudgetInv
  <2>t. /\ ttl \in Nat /\ ttl' \in Nat /\ timer[p] \in Nat /\ timer'[p] \in Nat
        /\ timer'[p] = IF Holding(p) THEN timer[p] + 1 ELSE 0
        /\ ttl' = IF ttl > 0 THEN ttl - 1 ELSE 0
        /\ phase' = phase
    BY <1>8, <1>t DEF Tick
  <2>1. "late" \notin mishaps'[p] => "late" \notin mishaps[p] /\ ~RunsLate(p)
    BY <1>8, <1>t DEF Tick
  <2>2. Sound(p)' => Sound(p)
    BY <1>8, <1>t DEF Tick
  <2>3. phase'[p] = "waiting" /\ Sound(p)' /\ "late" \notin mishaps'[p] =>
           timer'[p] + BeatGap < Duration /\ ttl' + timer'[p] >= Duration
    BY <1>t, <2>t, <2>1, <2>2 DEF RunsLate, Holding
  <2>4. Beating(p)' /\ Sound(p)' /\ "late" \notin mishaps'[p] =>
           timer'[p] <= BeatGap /\ ttl' + timer'[p] > BeatGap
    BY <1>8, <1>t, <2>t, <2>1, <2>2 DEF Tick, InTime, Holding
  <2>5. ASSUME "lapsed" \in mishaps'[p], "late" \notin mishaps'[p] PROVE FALSE
    <3>1. "lapsed" \notin mishaps[p]
      BY <1>t, <2>1, <2>5
    <3>2. RunsOut(p)
      BY <1>8, <1>t, <2>5, <3>1 DEF Tick
    <3>3. Sound(p) /\ Holding(p) /\ ttl' = 0
      BY <1>t, <3>1, <3>2 DEF RunsOut, SoundInv
    <3>4. QED
      BY <1>8, <1>t, <2>t, <2>1, <2>5, <3>3 DEF Holding, RunsLate, Tick, InTime
  <2>6. QED
    BY <2>3, <2>4, <2>5
<1>9. CASE UNCHANGED vars
  BY <1>9, <1>t DEF vars
<1>10. QED
  BY <1>1, <1>2, <1>3, <1>4, <1>5, <1>6, <1>7, <1>8, <1>9 DEF Next, Acquire, Turn

LEMMA Invariance == Spec => []IInv
<1>1. TypeOK' /\ IInv /\ [Next]_vars => IInv'
  BY NextOwned, NextSound, NextBudget DEF IInv
<1>2. QED
  BY <1>1, InitIInv, TypeCorrect, PTL DEF Spec

\* While a process waits for the slot with the lease, or thinks and heartbeats, the
\* row is its own and has not expired, until it lapses under a late holder or the
\* mind of another file clears it.
THEOREM HolderBackedHolds == Spec => []HolderBacked
<1>1. IInv => HolderBacked
  BY DEF HolderBacked, IInv, SoundInv, BudgetInv, SoundHolder
<1>2. QED
  BY <1>1, Invariance, PTL

\* A sound turn has the row.
LEMMA SoundThinkerOwns ==
  ASSUME IInv, NEW p \in Proc, Thinking(p), Sound(p) PROVE Owns(p) /\ Beating(p)
  BY DEF IInv, SoundInv, SoundHolder, Thinking, Holding, Beating

\* Of the turns that execute at the same time across all sali processes at most one
\* has a sound lease, whatever their number, whatever crashes and however long the
\* holders wait for the slot: a second one has let its lease lapse or was cleared.
THEOREM MutualExclusionHolds == Spec => []MutualExclusion
<1>1. IInv => MutualExclusion
  BY SoundThinkerOwns DEF MutualExclusion, Owns
<1>2. QED
  BY <1>1, Invariance, PTL

\* No process ever reads back, as an order to itself, the preemption request it
\* made before it obtained the lease.
THEOREM NeverPreemptsItselfHolds == Spec => []NeverPreemptsItself
<1>1. Init => NeverPreemptsItself
  BY DEF Init, NeverPreemptsItself, Owns
<1>2. TypeOK /\ NeverPreemptsItself /\ [Next]_vars => NeverPreemptsItself'
  <2> SUFFICES ASSUME TypeOK, NeverPreemptsItself, [Next]_vars
               PROVE  NeverPreemptsItself'
    OBVIOUS
  <2> USE ProcAssumption DEF NeverPreemptsItself, Owns, TypeOK, rowVars
  <2>1. ASSUME NEW p \in Proc, Boot(p) PROVE NeverPreemptsItself'
    BY <2>1 DEF Boot, Start, ReclaimOrphaned, SkipReclaim, RecoverRead,
                RecoverWrite, RecoverNothing
  <2>2. ASSUME NEW p \in Proc, Acquire(p) PROVE NeverPreemptsItself'
    BY <2>2 DEF Acquire, Submit, AcquireRead, AcquireWrite, AcquireFails
  <2>3. ASSUME NEW p \in Proc, Turn(p) PROVE NeverPreemptsItself'
    BY <2>3 DEF Turn, EnterTurn, BeatKept, BeatLost, BeatFails, PollPreempted, EndTurn,
                Release, ReleaseFails
  <2>4. ASSUME NEW p \in Proc, RequestPreemption(p) PROVE NeverPreemptsItself'
    BY <2>4 DEF RequestPreemption
  <2>5. ASSUME NEW p \in Proc, Crash(p) PROVE NeverPreemptsItself'
    BY <2>5 DEF Crash
  <2>6. CASE Tick \/ UNCHANGED vars
    BY <2>6 DEF Tick, vars
  <2>7. QED
    BY <2>1, <2>2, <2>3, <2>4, <2>5, <2>6 DEF Next
<1>3. QED
  BY <1>1, <1>2, TypeCorrect, PTL DEF Spec

-----------------------------------------------------------------------------
\* The lease implements OneTurn: entering a turn is Begin; its end, the death of the
\* process and the loss of its lease are End; everything else is a stutter.
LEMMA StepSimulates ==
  ASSUME IInv, [Next]_vars PROVE [Abstract!Next]_Thinkers
<1> USE DEF Thinkers, Thinking, Abstract!Next, Abstract!Begin, Abstract!End
<1>t. TypeOK /\ OwnedByAProcess
  BY DEF IInv
<1>s. \A p \in Proc : p \in Thinkers => Owns(p)
  BY SoundThinkerOwns
<1>1. ASSUME NEW p \in Proc,
             Start(p) \/ SkipReclaim(p) \/ RecoverRead(p) \/ RecoverWrite(p)
             \/ RecoverNothing(p) \/ Acquire(p) \/ RequestPreemption(p)
      PROVE  UNCHANGED Thinkers
  BY <1>1, <1>t
  DEF TypeOK, Start, SkipReclaim, RecoverRead, RecoverWrite, RecoverNothing, Acquire, Submit,
      AcquireRead, AcquireWrite, AcquireFails, RequestPreemption, Goto, rowVars, Sound
<1>2. ASSUME NEW p \in Proc, ReclaimOrphaned(p) PROVE [Abstract!Next]_Thinkers
  <2>1. CASE status = "active" /\ owner # p /\ Holding(owner)
    <3>1. owner \in Proc /\ Thinkers' = Thinkers \ {owner}
      BY <1>2, <1>t, <2>1
      DEF TypeOK, OwnedByAProcess, ReclaimOrphaned, Goto, Sound, Befalls
    <3>2. QED
      BY <3>1
  <2>2. CASE ~(status = "active" /\ owner # p /\ Holding(owner))
    <3>1. Thinkers' = Thinkers
      BY <1>2, <1>t, <2>2 DEF TypeOK, ReclaimOrphaned, Goto, Sound
    <3>2. QED
      BY <3>1
  <2>3. QED
    BY <2>1, <2>2
<1>3. ASSUME NEW p \in Proc, EnterTurn(p) PROVE [Abstract!Next]_Thinkers
  <2>1. CASE Sound(p)
    <3>1. Owns(p)
      BY <1>3, <2>1 DEF EnterTurn, IInv, SoundInv, SoundHolder, Holding
    <3>2. Thinkers = {}
      BY <1>3, <1>s, <3>1 DEF EnterTurn, Owns
    <3>3. Thinkers' = {p}
      BY <1>3, <1>t, <2>1, <3>2 DEF TypeOK, EnterTurn, Goto, Sound
    <3>4. QED
      BY <3>2, <3>3
  <2>2. CASE ~Sound(p)
    <3>1. Thinkers' = Thinkers
      BY <1>3, <1>t, <2>2 DEF TypeOK, EnterTurn, Goto, Sound
    <3>2. QED
      BY <3>1
  <2>3. QED
    BY <2>1, <2>2
<1>4. ASSUME NEW p \in Proc, EndTurn(p) \/ Crash(p) PROVE [Abstract!Next]_Thinkers
  <2>1. Thinkers' = Thinkers \ {p}
    BY <1>4, <1>t DEF TypeOK, EndTurn, Crash, Goto, TenureEnds, Sound
  <2>2. QED
    BY <2>1
<1>5. ASSUME NEW p \in Proc,
             BeatKept(p) \/ BeatLost(p) \/ BeatFails(p) \/ PollPreempted(p) \/ Release(p)
             \/ ReleaseFails(p)
      PROVE  UNCHANGED Thinkers
  BY <1>5, <1>t
  DEF TypeOK, BeatKept, BeatLost, BeatFails, PollPreempted, Release, ReleaseFails, Beating,
      Goto, Befalls, Sound, rowVars
<1>6. CASE Tick
  <2>1. ASSUME NEW p \in Proc, RunsOut(p) PROVE [Abstract!Next]_Thinkers
    <3>1. \A q \in Proc \ {p} : ~RunsOut(q)
      BY <2>1 DEF RunsOut, Owns
    <3>2. Thinkers' = Thinkers \ {p}
      BY <1>6, <1>t, <2>1, <3>1 DEF TypeOK, Tick, Sound
    <3>3. QED
      BY <3>2
  <2>2. CASE \A p \in Proc : ~RunsOut(p)
    <3>1. Thinkers' = Thinkers
      BY <1>6, <1>t, <2>2 DEF TypeOK, Tick, Sound
    <3>2. QED
      BY <3>1
  <2>3. QED
    BY <2>1, <2>2
<1>7. CASE UNCHANGED vars
  BY <1>7 DEF vars, Sound
<1>8. QED
  BY <1>1, <1>2, <1>3, <1>4, <1>5, <1>6, <1>7 DEF Next, Boot, Turn

\* Every behaviour of the lease, seen through the turns whose lease is sound, is a
\* behaviour of "one thing at a time".
THEOREM LeaseImplementsOneTurn == Spec => ImplementsOneTurn
<1>1. Init => Abstract!Init
  BY DEF Init, Abstract!Init, Thinkers, Thinking
<1>2. IInv /\ [Next]_vars => [Abstract!Next]_Thinkers
  BY StepSimulates
<1>3. QED
  BY <1>1, <1>2, Invariance, PTL DEF Spec, ImplementsOneTurn, Abstract!Spec
=============================================================================
