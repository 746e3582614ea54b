------------------------ MODULE MindOwnership_proofs ------------------------
(***************************************************************************)
(* For any number of processes, crashes and probes: one mind among those   *)
(* that agree on the mind file, and one that has the advisory lock until   *)
(* the datastore restarts.                                                 *)
(*                                                                         *)
(* The inductive invariant says what the flock means: whoever owns it by   *)
(* its program counter, or got it in a probe, is the one it names.  With   *)
(* the datastore up, the advisory lock names whoever keeps its connection. *)
(***************************************************************************)
EXTENDS MindOwnership, TLAPS

\* The part of the state the proofs talk about.
Types ==
    /\ pc \in [Proc -> Owning \cup {"out", "refused"}]
    /\ writing \in [Proc -> {"no", "yes", "failed"}]
    /\ flock \in [Path -> Proc \cup {Nobody}]
    /\ record \in [Path -> Proc \cup {Nobody}]
    /\ probe \in [Proc -> {"none", "got", "blocked"}]

Probing(p) == probe[p] \in {"got", "blocked"}

\* What p's position says about the flock and about p's other activities.
Located(p) ==
    /\ Owns(p) => flock[PathOf(p)] = p
    /\ probe[p] = "got" => flock[PathOf(p)] = p
    /\ Probing(p) => pc[p] = "out"
    /\ writing[p] = "yes" => pc[p] \in {"flocked", "mind", "running"}

Recorded(p) == Owns(p) /\ pc[p] # "wiped" /\ writing[p] = "no" => record[PathOf(p)] = p

IInv == Types /\ \A p \in Proc : Located(p) /\ Recorded(p)

LEMMA PathOfType == ASSUME NEW p \in Proc PROVE PathOf(p) \in Path
  BY DEF PathOf, Path

LEMMA InitIInv == Init => IInv
  BY PathOfType DEF Init, IInv, Types, Located, Recorded, Owns, Owning, Probing

-----------------------------------------------------------------------------
\* A step of one process, and what it leaves of the others.
Step(p) == BecomeMind(p) \/ Own(p) \/ Close(p) \/ LiveHolder(p) \/ Crash(p)

LEMMA NextTypes == ASSUME IInv, NEW p \in Proc, Step(p) PROVE Types'
<1>1. Types /\ PathOf(p) \in Path
  BY PathOfType DEF IInv
<1>2. CASE BecomeMind(p)
  BY <1>1, <1>2 DEF BecomeMind, TakeFlock, FlockTaken, DbLockTaken, DbLocks, DbPassedOver,
                    Exit, Goto, HoldFlock, Types, Owning, locks
<1>3. CASE Own(p)
  BY <1>1, <1>3 DEF Own, CutRecord, WriteRecord, OpenRuntime, Publish, Goto, Name,
                    Types, Owning, locks
<1>4. CASE Close(p)
  BY <1>1, <1>4 DEF Close, CloseRuntime, ReleaseDb, Wipe, Unlock, ReleaseStep,
                    WipesRecord, DropsFlock, Goto, Name, Types, Owning, locks
<1>5. CASE LiveHolder(p)
  BY <1>1, <1>5 DEF LiveHolder, ProbeTries, ProbeLetsGo, ProbeReads, HoldFlock,
                    Types, Owning, locks
<1>6. CASE Crash(p)
  BY <1>1, <1>6 DEF Crash, DropsFlock, Types, Owning
<1>7. QED
  BY <1>2, <1>3, <1>4, <1>5, <1>6 DEF Step

\* What belongs to another process stays: its own variables, and a flock and a
\* record that p has no hold of.
LEMMA OthersKeep ==
  ASSUME IInv, NEW p \in Proc, Step(p), NEW q \in Proc, q # p
  PROVE  /\ pc'[q] = pc[q] /\ writing'[q] = writing[q] /\ probe'[q] = probe[q]
         /\ flock[PathOf(q)] = q => flock'[PathOf(q)] = q /\ record'[PathOf(q)] = record[PathOf(q)]
<1>1. Types /\ PathOf(p) \in Path /\ PathOf(q) \in Path /\ Located(p)
  BY PathOfType DEF IInv
<1>2. q # Nobody
  BY MindAssumption
<1>3. CASE BecomeMind(p)
  BY <1>1, <1>2, <1>3
  DEF BecomeMind, TakeFlock, FlockTaken, DbLockTaken, DbLocks, DbPassedOver, Exit, Goto,
      HoldFlock, Types, locks
<1>4. CASE Own(p)
  BY <1>1, <1>4
  DEF Own, CutRecord, WriteRecord, OpenRuntime, Publish, Goto, Name, Types, locks,
      Located, Owns, Owning
<1>5. CASE Close(p)
  BY <1>1, <1>5
  DEF Close, CloseRuntime, ReleaseDb, Wipe, Unlock, ReleaseStep, WipesRecord, DropsFlock,
      Goto, Name, Types, locks, Located, Owns, Owning
<1>6. CASE LiveHolder(p)
  BY <1>1, <1>2, <1>6
  DEF LiveHolder, ProbeTries, ProbeLetsGo, ProbeReads, HoldFlock, Types, locks,
      Located
<1>7. CASE Crash(p)
  BY <1>1, <1>7 DEF Crash, DropsFlock, Types
<1>8. QED
  BY <1>3, <1>4, <1>5, <1>6, <1>7 DEF Step

\* The process that takes the step stays located and recorded.
LEMMA SelfKeeps ==
  ASSUME IInv, NEW p \in Proc, Step(p) PROVE Located(p)' /\ Recorded(p)'
<1>1. Types /\ PathOf(p) \in Path /\ Located(p) /\ Recorded(p)
  BY PathOfType DEF IInv
<1> USE DEF Owns, Owning, Probing, Types
<1>3. CASE BecomeMind(p)
  BY <1>1, <1>3
  DEF BecomeMind, TakeFlock, FlockTaken, DbLockTaken, DbLocks, DbPassedOver, Exit, Goto,
      HoldFlock, locks, Located, Recorded, Idle
<1>4. CASE Own(p)
  BY <1>1, <1>4
  DEF Own, CutRecord, WriteRecord, OpenRuntime, Publish, Goto, Name, locks,
      Located, Recorded, Idle
<1>5. CASE Close(p)
  BY <1>1, <1>5
  DEF Close, CloseRuntime, ReleaseDb, Wipe, Unlock, ReleaseStep, WipesRecord, DropsFlock,
      Goto, Name, locks, Located, Recorded, Idle
<1>6. CASE LiveHolder(p)
  BY <1>1, <1>6
  DEF LiveHolder, ProbeTries, ProbeLetsGo, ProbeReads, HoldFlock, locks,
      Located, Recorded, Idle
<1>7. CASE Crash(p)
  BY <1>1, <1>7 DEF Crash, DropsFlock, Located, Recorded
<1>8. QED
  BY <1>3, <1>4, <1>5, <1>6, <1>7 DEF Step

LEMMA NextIInv == IInv /\ [Next]_vars => IInv'
<1> SUFFICES ASSUME IInv, [Next]_vars PROVE IInv'
  OBVIOUS
<1>1. ASSUME NEW p \in Proc, Step(p) PROVE IInv'
  <2>1. ASSUME NEW q \in Proc, q # p PROVE Located(q)' /\ Recorded(q)'
    BY <1>1, <2>1, OthersKeep DEF IInv, Located, Recorded, Owns, Probing
  <2>2. QED
    BY <1>1, <2>1, NextTypes, SelfKeeps DEF IInv
<1>2. CASE BackendEnds \/ DbStops \/ DbStarts \/ UNCHANGED vars
  BY <1>2 DEF BackendEnds, DbStops, DbStarts, vars, locks, IInv, Types, Located,
              Recorded, Owns, Probing
<1>3. QED
  BY <1>1, <1>2 DEF Next, Step

LEMMA Invariance == Spec => []IInv
  BY InitIInv, NextIInv, PTL DEF Spec

-----------------------------------------------------------------------------
\* The record names the living mind, whoever crashed, closed or was refused.
THEOREM RecordOfTheMindHolds == Spec => []RecordOfTheMind
<1>1. IInv => RecordOfTheMind
  BY DEF IInv, Recorded, RecordOfTheMind, IsMind, Owns, Owning
<1>2. QED
  BY <1>1, Invariance, PTL

-----------------------------------------------------------------------------
\* Until the datastore goes down, the advisory lock names every mind that thinks it
\* has it.
DbInv ==
    /\ outages \in 0..MaxOutages
    /\ held \in [Proc -> BOOLEAN]
    /\ outages = 0 => \A p \in Proc : held[p] => advisory = p

LEMMA NextDbInv == DbInv /\ [Next]_vars => DbInv'
<1> SUFFICES ASSUME DbInv, [Next]_vars PROVE DbInv'
  OBVIOUS
<1> USE DEF DbInv
<1>1. ASSUME NEW p \in Proc, BecomeMind(p) PROVE DbInv'
  <2>1. CASE DbLocks(p)
    BY <2>1, MindAssumption DEF DbLocks
  <2>2. CASE DbPassedOver(p)
    BY <2>2, MindAssumption DEF DbPassedOver
  <2>3. CASE TakeFlock(p) \/ FlockTaken(p) \/ DbLockTaken(p) \/ Exit(p)
    BY <2>3 DEF TakeFlock, FlockTaken, DbLockTaken, Exit, locks
  <2>4. QED
    BY <1>1, <2>1, <2>2, <2>3 DEF BecomeMind
<1>2. ASSUME NEW p \in Proc, Own(p) PROVE DbInv'
  BY <1>2 DEF Own, CutRecord, WriteRecord, OpenRuntime, Publish, locks
<1>3. ASSUME NEW p \in Proc, Close(p) PROVE DbInv'
  <2>1. CASE ReleaseDb(p)
    BY <2>1 DEF ReleaseDb
  <2>2. CASE CloseRuntime(p) \/ Wipe(p) \/ Unlock(p)
    BY <2>2 DEF CloseRuntime, Wipe, Unlock, locks
  <2>3. QED
    BY <1>3, <2>1, <2>2 DEF Close
<1>4. ASSUME NEW p \in Proc, LiveHolder(p) PROVE DbInv'
  BY <1>4 DEF LiveHolder, ProbeTries, ProbeLetsGo, ProbeReads, locks
<1>5. ASSUME NEW p \in Proc, Crash(p) PROVE DbInv'
  BY <1>5 DEF Crash
<1>6. CASE BackendEnds
  BY <1>6, MindAssumption DEF BackendEnds
<1>7. CASE DbStops
  BY <1>7, MindAssumption DEF DbStops
<1>8. CASE DbStarts \/ UNCHANGED vars
  BY <1>8 DEF DbStarts, vars, locks
<1>9. QED
  BY <1>1, <1>2, <1>3, <1>4, <1>5, <1>6, <1>7, <1>8 DEF Next

LEMMA DbNamesTheMind == Spec => []DbInv
<1>1. Init => DbInv
  BY MindAssumption DEF Init, DbInv
<1>2. QED
  BY <1>1, NextDbInv, PTL DEF Spec

-----------------------------------------------------------------------------
\* One lock is enough: the flock for those that resolve the same mind file, the
\* advisory lock for those that have it, until the datastore has been down.
LEMMA OneLockIsEnough == IInv /\ DbInv => OneMind
<1> SUFFICES ASSUME IInv, DbInv, NEW p \in Proc, NEW q \in Proc, IsMind(p), IsMind(q),
                    PathOf(p) = PathOf(q) \/ (held[p] /\ held[q] /\ outages = 0)
             PROVE  p = q
  BY DEF OneMind
<1>1. flock[PathOf(p)] = p /\ flock[PathOf(q)] = q
  BY DEF IInv, Located, Owns, Owning, IsMind
<1>2. CASE PathOf(p) = PathOf(q)
  BY <1>1, <1>2
<1>3. CASE held[p] /\ held[q] /\ outages = 0
  BY <1>3 DEF DbInv
<1>4. QED
  BY <1>2, <1>3

\* No two processes are the mind at once, if they agree on the file, or both hold the
\* advisory lock of a datastore that has not restarted.
THEOREM OneMindHolds == Spec => []OneMind
  BY OneLockIsEnough, Invariance, DbNamesTheMind, PTL

\* Runtimes of those that agree on the mind file are open one at a time: the process
\* that opens one is the only mind on that file, whatever the datastore does.
THEOREM OneRuntimeHolds == Spec => OneRuntime
<1>1. Init => Abstract!Init
  BY DEF Init, Abstract!Init, Runtimes
<1>2. IInv /\ DbInv /\ [Next]_vars => [Abstract!Next]_Runtimes
  <2> SUFFICES ASSUME IInv, DbInv, [Next]_vars PROVE [Abstract!Next]_Runtimes
    OBVIOUS
  <2> USE DEF Abstract!Next, Abstract!Begin, Abstract!End, Runtimes
  <2>t. pc \in [Proc -> Owning \cup {"out", "refused"}]
    BY DEF IInv, Types
  <2>1. ASSUME NEW p \in Proc, OpenRuntime(p) PROVE [Abstract!Next]_Runtimes
    <3>1. CASE p \in Elsewhere
      BY <2>t, <2>1, <3>1 DEF OpenRuntime, Goto
    <3>2. CASE p \notin Elsewhere
      <4>1. \A q \in Proc \ Elsewhere : PathOf(p) = PathOf(q)
        BY <3>2 DEF PathOf
      <4>2. Runtimes = {}
        BY <2>1, <4>1, OneLockIsEnough DEF OneMind, IsMind, OpenRuntime, Goto
      <4>3. Runtimes' = {p}
        BY <2>t, <2>1, <3>2, <4>2 DEF OpenRuntime, Goto
      <4>4. QED
        BY <3>2, <4>2, <4>3
    <3>3. QED
      BY <3>1, <3>2
  <2>2. ASSUME NEW p \in Proc, CloseRuntime(p) \/ Crash(p) PROVE [Abstract!Next]_Runtimes
    <3>1. Runtimes' = Runtimes \ {p}
      BY <2>t, <2>2 DEF CloseRuntime, Crash, Goto
    <3>2. QED
      BY <3>1
  <2>3. ASSUME NEW p \in Proc,
               BecomeMind(p) \/ CutRecord(p) \/ WriteRecord(p) \/ Publish(p) \/ ReleaseDb(p)
               \/ Wipe(p) \/ Unlock(p) \/ LiveHolder(p)
        PROVE  Runtimes' = Runtimes
    BY <2>t, <2>3
    DEF BecomeMind, TakeFlock, FlockTaken, DbLockTaken, DbLocks, DbPassedOver, Exit, Goto,
        CutRecord, WriteRecord, Publish, ReleaseDb, Wipe, Unlock, LiveHolder, ProbeTries,
        ProbeLetsGo, ProbeReads
  <2>4. CASE BackendEnds \/ DbStops \/ DbStarts \/ UNCHANGED vars
    BY <2>4 DEF BackendEnds, DbStops, DbStarts, vars
  <2>5. QED
    BY <2>1, <2>2, <2>3, <2>4 DEF Next, Own, Close
<1>3. QED
  BY <1>1, <1>2, Invariance, DbNamesTheMind, PTL DEF Spec, OneRuntime, Abstract!Spec

-----------------------------------------------------------------------------
\* Every variable keeps its type, and only who owns the flock writes the record.
Counted == advisory \in Proc \cup {Nobody, Ghost} /\ crashes \in 0..MaxCrashes

LEMMA NextCounted == Counted /\ [Next]_vars => Counted'
<1> SUFFICES ASSUME Counted, [Next]_vars PROVE Counted'
  OBVIOUS
<1> USE DEF Counted
<1>1. ASSUME NEW p \in Proc, BecomeMind(p) PROVE Counted'
  BY <1>1 DEF BecomeMind, TakeFlock, FlockTaken, DbLockTaken, DbLocks, DbPassedOver, Exit, locks
<1>2. ASSUME NEW p \in Proc, Own(p) PROVE Counted'
  BY <1>2 DEF Own, CutRecord, WriteRecord, OpenRuntime, Publish, locks
<1>3. ASSUME NEW p \in Proc, Close(p) PROVE Counted'
  BY <1>3 DEF Close, CloseRuntime, ReleaseDb, Wipe, Unlock, locks
<1>4. ASSUME NEW p \in Proc, LiveHolder(p) PROVE Counted'
  BY <1>4 DEF LiveHolder, ProbeTries, ProbeLetsGo, ProbeReads, locks
<1>5. ASSUME NEW p \in Proc, Crash(p) PROVE Counted'
  BY <1>5, MindAssumption DEF Crash
<1>6. CASE BackendEnds \/ DbStops \/ DbStarts \/ UNCHANGED vars
  BY <1>6 DEF BackendEnds, DbStops, DbStarts, vars, locks
<1>7. QED
  BY <1>1, <1>2, <1>3, <1>4, <1>5, <1>6 DEF Next

DbUpTyped == dbUp \in BOOLEAN

LEMMA NextDbUp == DbUpTyped /\ [Next]_vars => DbUpTyped'
<1> SUFFICES ASSUME DbUpTyped, [Next]_vars PROVE DbUpTyped'
  OBVIOUS
<1> USE DEF DbUpTyped
<1>1. ASSUME NEW p \in Proc, Step(p) PROVE dbUp' = dbUp
  BY <1>1, Zenon
  DEF Step, BecomeMind, TakeFlock, FlockTaken, DbLockTaken, DbLocks, DbPassedOver, Exit,
      Own, CutRecord, WriteRecord, OpenRuntime, Publish, Close, CloseRuntime, ReleaseDb,
      Wipe, Unlock, LiveHolder, ProbeTries, ProbeLetsGo, ProbeReads, Crash
<1>2. CASE BackendEnds \/ DbStops \/ DbStarts \/ UNCHANGED vars
  BY <1>2, Zenon DEF BackendEnds, DbStops, DbStarts, vars
<1>3. QED
  BY <1>1, <1>2 DEF Next, Step

\* Every variable keeps its type, whatever crashes and however often the datastore is
\* down, and the record of a rewriting or failed write is as the code leaves it.
THEOREM TypeCorrect == Spec => []TypeOK
<1>1. Init => Counted /\ DbUpTyped
  BY MindAssumption DEF Init, Counted, DbUpTyped
<1>2. IInv /\ DbInv /\ Counted /\ DbUpTyped => TypeOK
  BY DEF IInv, Types, Located, Owns, Owning, DbInv, Counted, DbUpTyped, TypeOK
<1>3. Spec => [](Counted /\ DbUpTyped)
  BY <1>1, NextCounted, NextDbUp, PTL DEF Spec
<1>4. QED
  BY <1>2, <1>3, Invariance, DbNamesTheMind, PTL

-----------------------------------------------------------------------------
\* The flock of a file goes from hand to hand of processes that use that file, and a
\* process that is neither between acquire and release nor in a probe has none.
FlockInHand ==
    \A f \in Path, p \in Proc : flock[f] = p => PathOf(p) = f /\ (Owns(p) \/ probe[p] = "got")

LEMMA NextFlockInHand == IInv /\ FlockInHand /\ [Next]_vars => FlockInHand'
<1> SUFFICES ASSUME IInv, FlockInHand, [Next]_vars, NEW f \in Path, NEW q \in Proc,
                    flock'[f] = q
             PROVE  PathOf(q) = f /\ (Owns(q) \/ probe[q] = "got")'
  BY DEF FlockInHand
<1>t. Types /\ q # Nobody
  BY MindAssumption DEF IInv
<1> USE DEF Owns, Owning
<1>1. ASSUME NEW p \in Proc, Step(p), p # q
      PROVE  PathOf(q) = f /\ (Owns(q) \/ probe[q] = "got")'
  <2>1. flock[f] = q
    BY <1>1, <1>t, PathOfType
    DEF Types, Step, BecomeMind, TakeFlock, FlockTaken, DbLockTaken, DbLocks, DbPassedOver,
        Exit, Own, CutRecord, WriteRecord, OpenRuntime, Publish, Close, CloseRuntime,
        ReleaseDb, Wipe, Unlock, ReleaseStep, WipesRecord, DropsFlock, LiveHolder,
        ProbeTries, ProbeLetsGo, ProbeReads, Crash, HoldFlock, locks
  <2>2. QED
    BY <1>1, <2>1, OthersKeep DEF FlockInHand
<1>2. CASE BecomeMind(q)
  BY <1>2, <1>t, PathOfType
  DEF FlockInHand, Types, BecomeMind, TakeFlock, FlockTaken, DbLockTaken, DbLocks,
      DbPassedOver, Exit, Goto, HoldFlock, Idle, locks
<1>3. CASE Own(q)
  BY <1>3, <1>t
  DEF FlockInHand, Types, Own, CutRecord, WriteRecord, OpenRuntime, Publish, Goto, locks
<1>4. CASE Close(q)
  BY <1>4, <1>t, PathOfType
  DEF FlockInHand, Types, Close, CloseRuntime, ReleaseDb, Wipe, Unlock, ReleaseStep,
      WipesRecord, DropsFlock, Goto, Idle, locks
<1>5. CASE LiveHolder(q)
  BY <1>5, <1>t, PathOfType
  DEF FlockInHand, Types, LiveHolder, ProbeTries, ProbeLetsGo, ProbeReads, HoldFlock,
      Idle, locks
<1>6. CASE Crash(q)
  BY <1>6, <1>t, PathOfType DEF FlockInHand, Types, Crash, DropsFlock
<1>7. CASE BackendEnds \/ DbStops \/ DbStarts \/ UNCHANGED vars
  BY <1>7 DEF FlockInHand, BackendEnds, DbStops, DbStarts, vars, locks
<1>8. QED
  BY <1>1, <1>2, <1>3, <1>4, <1>5, <1>6, <1>7 DEF Next, Step

\* A session of the datastore ends with the mind that opened it, or with the datastore.
SessionOfAMind ==
    /\ held \in [Proc -> BOOLEAN]
    /\ \A p \in Proc : advisory = p => IsMind(p) /\ held[p]
    /\ ~dbUp => advisory = Nobody

LEMMA NextSession == IInv /\ SessionOfAMind /\ [Next]_vars => SessionOfAMind'
<1> SUFFICES ASSUME IInv, SessionOfAMind, [Next]_vars PROVE SessionOfAMind'
  OBVIOUS
<1> USE DEF SessionOfAMind, IsMind
<1>t. pc \in [Proc -> Owning \cup {"out", "refused"}]
  BY DEF IInv, Types
<1>1. ASSUME NEW p \in Proc, BecomeMind(p) PROVE SessionOfAMind'
  <2>1. CASE DbLocks(p)
    <3>1. \A q \in Proc : advisory' = q => q = p
      BY <2>1 DEF DbLocks
    <3>2. IsMind(p)' /\ held'[p] /\ held' \in [Proc -> BOOLEAN] /\ dbUp'
      BY <1>t, <2>1 DEF DbLocks, Goto
    <3>3. QED
      BY <3>1, <3>2
  <2>2. CASE DbPassedOver(p)
    BY <1>t, <2>2, MindAssumption DEF DbPassedOver, Goto
  <2>3. CASE TakeFlock(p) \/ FlockTaken(p) \/ DbLockTaken(p) \/ Exit(p)
    BY <1>t, <2>3 DEF TakeFlock, FlockTaken, DbLockTaken, Exit, Goto, locks
  <2>4. QED
    BY <1>1, <2>1, <2>2, <2>3 DEF BecomeMind
<1>2. ASSUME NEW p \in Proc, Own(p) PROVE SessionOfAMind'
  BY <1>t, <1>2 DEF Own, CutRecord, WriteRecord, OpenRuntime, Publish, Goto, locks
<1>3. ASSUME NEW p \in Proc, Close(p) PROVE SessionOfAMind'
  BY <1>t, <1>3, MindAssumption
  DEF Close, CloseRuntime, ReleaseDb, Wipe, Unlock, Goto, locks
<1>4. ASSUME NEW p \in Proc, LiveHolder(p) PROVE SessionOfAMind'
  BY <1>4 DEF LiveHolder, ProbeTries, ProbeLetsGo, ProbeReads, locks
<1>5. ASSUME NEW p \in Proc, Crash(p) PROVE SessionOfAMind'
  BY <1>t, <1>5, MindAssumption DEF Crash
<1>6. CASE BackendEnds \/ DbStops \/ DbStarts \/ UNCHANGED vars
  BY <1>6, MindAssumption DEF BackendEnds, DbStops, DbStarts, vars, locks
<1>7. QED
  BY <1>1, <1>2, <1>3, <1>4, <1>5, <1>6 DEF Next

\* No lock outlives the reason it was taken for, whatever crashes, refuses or goes
\* down: what MindReturns needs beside fairness.
THEOREM NothingLeftBehindHolds == Spec => []NothingLeftBehind
<1>1. Init => FlockInHand /\ SessionOfAMind
  BY MindAssumption DEF Init, FlockInHand, SessionOfAMind
<1>2. FlockInHand /\ SessionOfAMind => NothingLeftBehind
  BY DEF FlockInHand, SessionOfAMind, NothingLeftBehind
<1>3. QED
  BY <1>1, <1>2, NextFlockInHand, NextSession, Invariance, PTL DEF Spec
=============================================================================
