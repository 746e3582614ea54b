------------------------ MODULE InferenceLease_proofs ------------------------
(***************************************************************************)
(* One generation machine-wide, for any number of processes and callers.   *)
(* The flock is exclusive between processes only, the semaphore between    *)
(* the callers of one process only; the invariant joins the two.           *)
(***************************************************************************)
EXTENDS InferenceLease, TLAPS

\* The states in which a call relies on the flock.
Locked == {"probing", "gating", "generating"}

IInv ==
    /\ TypeOK
    /\ \A p \in Proc, l \in Line : call[p][l] \in Locked => flock = p

LEMMA InitIInv == Init => IInv
  BY DEF Init, IInv, TypeOK, Inside, Locked

LEMMA NextIInv == IInv /\ [Next]_vars => IInv'
<1> SUFFICES ASSUME IInv, [Next]_vars PROVE IInv'
  OBVIOUS
<1> USE InferenceAssumption DEF IInv, TypeOK, Inside, Locked, Goto, LeavesSem
<1>1. ASSUME NEW p \in Proc, NEW l \in Line, Enter(p, l) PROVE IInv'
  BY <1>1 DEF Enter
<1>2. ASSUME NEW p \in Proc, NEW l \in Line, TakeSem(p, l) PROVE IInv'
  BY <1>2 DEF TakeSem
<1>3. ASSUME NEW p \in Proc, NEW l \in Line, TakeFlock(p, l) PROVE IInv'
  BY <1>3 DEF TakeFlock
<1>4. ASSUME NEW p \in Proc, NEW l \in Line, TimesOut(p, l) \/ LeavesEarly(p, l) PROVE IInv'
  <2>1. sem[p] = l /\ \A k \in Line : call[p][k] \in Inside => k = l
    BY <1>4 DEF TimesOut, LeavesEarly
  <2>2. call' = [call EXCEPT ![p][l] = "idle"] /\ sem' = [sem EXCEPT ![p] = Nobody]
        /\ UNCHANGED <<kind, flock>>
    BY <1>4 DEF TimesOut, LeavesEarly
  <2>3. \A q \in Proc, k \in Line :
           call'[q][k] = IF q = p /\ k = l THEN "idle" ELSE call[q][k]
    BY <2>2
  <2>4. QED
    BY <2>1, <2>2, <2>3
<1>5. ASSUME NEW p \in Proc, NEW l \in Line, ProbePasses(p, l) \/ GatePasses(p, l) PROVE IInv'
  <2>1. PICK to \in {"gating", "generating"} : call' = [call EXCEPT ![p][l] = to]
    BY <1>5 DEF ProbePasses, GatePasses
  <2>2. call[p][l] \in {"probing", "gating"} /\ UNCHANGED <<kind, sem, flock>>
    BY <1>5 DEF ProbePasses, GatePasses
  <2>3. \A q \in Proc, k \in Line :
           call'[q][k] = IF q = p /\ k = l THEN to ELSE call[q][k]
    BY <2>1
  <2>4. QED
    BY <2>1, <2>2, <2>3
<1>6. ASSUME NEW p \in Proc, NEW l \in Line, Leaves(p, l) PROVE IInv'
  <2>1. flock = p /\ sem[p] = l
    BY <1>6 DEF Leaves
  <2>2. \A q \in Proc, k \in Line : call[q][k] \in Locked => q = p /\ k = l
    BY <2>1
  <2>3. QED
    BY <1>6, <2>1, <2>2 DEF Leaves
<1>7. ASSUME NEW p \in Proc, NEW l \in Line, Cancelled(p, l) PROVE IInv'
  BY <1>7 DEF Cancelled
<1>8. ASSUME NEW p \in Proc, Dies(p) PROVE IInv'
  BY <1>8 DEF Dies
<1>9. CASE UNCHANGED vars
  BY <1>9 DEF vars
<1>10. QED
  BY <1>1, <1>2, <1>3, <1>4, <1>5, <1>6, <1>7, <1>8, <1>9 DEF Next, Proceeds

\* The type invariant, which also says that a caller past the semaphore holds it.
THEOREM TypeCorrect == Spec => []TypeOK
<1>1. IInv => TypeOK
  BY DEF IInv
<1>2. QED
  BY <1>1, InitIInv, NextIInv, PTL DEF Spec

-----------------------------------------------------------------------------
\* While one caller may begin to generate nobody else is generating.
LEMMA Exclusive ==
  ASSUME IInv, NEW p \in Proc, NEW l \in Line, flock \in {p, Nobody}, sem[p] = l,
         call[p][l] # "generating"
  PROVE  Generating = {}
  BY InferenceAssumption DEF IInv, TypeOK, Locked, Inside, Generating

\* What a step of the gate is to OneTurn: a cognition call passes the gate, or an
\* embedding gets the flock, and begins; a call leaves the try block, or its process
\* dies, and what was generating ends; nothing else changes who generates.
LEMMA GateStep == IInv /\ Next => [Abstract!Next]_Generating
<1> SUFFICES ASSUME IInv, Next PROVE [Abstract!Next]_Generating
  OBVIOUS
<1> USE DEF Abstract!Next, Abstract!Begin, Abstract!End, Generating, Goto
<1>calls. call \in [Proc -> [Line -> Inside \cup {"idle", "queued"}]]
  BY DEF IInv, TypeOK
<1>begins. ASSUME NEW p \in Proc, NEW l \in Line, TakeFlock(p, l) \/ GatePasses(p, l)
           PROVE  [Abstract!Next]_Generating
  <2>1. sem[p] = l /\ flock \in {p, Nobody} /\ call[p][l] # "generating"
    BY <1>begins DEF TakeFlock, GatePasses, IInv, TypeOK, Inside, Locked
  <2>2. Generating = {}
    BY <2>1, Exclusive
  <2>3. Generating' \in {{}, {<<p, l>>}}
    BY <1>calls, <1>begins, <2>2 DEF TakeFlock, GatePasses
  <2> QED
    BY <2>2, <2>3
<1>ends. ASSUME NEW p \in Proc, NEW l \in Line, Leaves(p, l)
         PROVE  [Abstract!Next]_Generating
  <2>1. <<p, l>> \in Generating /\ Generating' = Generating \ {<<p, l>>}
    BY <1>calls, <1>ends DEF Leaves
  <2> QED
    BY <2>1
<1>dies. ASSUME NEW p \in Proc, Dies(p) PROVE [Abstract!Next]_Generating
  <2>1. Generating' = {g \in Generating : g[1] # p}
    BY <1>calls, <1>dies DEF Dies
  <2>2. ASSUME NEW g \in Generating, NEW h \in Generating PROVE g = h
    BY <2>2 DEF IInv, TypeOK, Inside, Locked
  <2> QED
    BY <2>1, <2>2
<1>waits. ASSUME NEW p \in Proc, NEW l \in Line,
                 \/ Enter(p, l) \/ TakeSem(p, l) \/ TimesOut(p, l) \/ ProbePasses(p, l)
                 \/ LeavesEarly(p, l) \/ Cancelled(p, l)
          PROVE  Generating' = Generating
  BY <1>calls, <1>waits DEF Enter, TakeSem, TimesOut, ProbePasses, LeavesEarly, Cancelled
<1> QED
  BY <1>begins, <1>ends, <1>dies, <1>waits DEF Next, Proceeds

\* Every generation begins when none is in progress: the gate implements OneTurn
\* for all callers of all processes.
THEOREM OneGenerationHolds == Spec => OneGeneration
<1>1. Init => Abstract!Init
  BY DEF Init, Abstract!Init, Generating
<1>2. UNCHANGED vars => Generating' = Generating
  BY DEF Generating, vars
<1>3. IInv /\ [Next]_vars => [Abstract!Next]_Generating
  BY <1>2, GateStep
<1>4. QED
  BY <1>1, <1>3, InitIInv, NextIInv, PTL DEF Spec, OneGeneration, Abstract!Spec

-----------------------------------------------------------------------------
\* No way out of the gate keeps the semaphore: the safety that EveryCallEnds rests on.
THEOREM SemFollowsTheCallHolds == Spec => []SemFollowsTheCall
<1>1. Init => SemFollowsTheCall
  BY DEF Init, SemFollowsTheCall
<1>2. IInv /\ SemFollowsTheCall /\ [Next]_vars => SemFollowsTheCall'
  <2> SUFFICES ASSUME IInv, SemFollowsTheCall, [Next]_vars, NEW q \in Proc, sem'[q] # Nobody
               PROVE  call'[q][sem'[q]] \in Inside
    BY DEF SemFollowsTheCall
  <2>t. /\ call \in [Proc -> [Line -> Inside \cup {"idle", "queued"}]]
        /\ sem \in [Proc -> Line \cup {Nobody}]
    BY DEF IInv, TypeOK
  <2>s. sem[q] # Nobody => sem[q] \in Line /\ call[q][sem[q]] \in Inside
    BY <2>t DEF SemFollowsTheCall
  <2> USE DEF Goto, LeavesSem, Inside
  <2>moves. ASSUME NEW p \in Proc, NEW l \in Line, Enter(p, l) \/ TakeSem(p, l) \/ Cancelled(p, l)
           PROVE  call'[q][sem'[q]] \in Inside
    BY <2>t, <2>s, <2>moves DEF Enter, TakeSem, Cancelled
  <2>passes. ASSUME NEW p \in Proc, NEW l \in Line,
               TakeFlock(p, l) \/ ProbePasses(p, l) \/ GatePasses(p, l)
        PROVE  call'[q][sem'[q]] \in Inside
    BY <2>t, <2>s, <2>passes DEF TakeFlock, ProbePasses, GatePasses
  <2>leaves. ASSUME NEW p \in Proc, NEW l \in Line,
               TimesOut(p, l) \/ LeavesEarly(p, l) \/ Leaves(p, l)
        PROVE  call'[q][sem'[q]] \in Inside
    BY <2>t, <2>s, <2>leaves DEF TimesOut, LeavesEarly, Leaves
  <2>dies. ASSUME NEW p \in Proc, Dies(p) PROVE call'[q][sem'[q]] \in Inside
    BY <2>t, <2>s, <2>dies DEF Dies
  <2>still. vars' = vars => call'[q][sem'[q]] \in Inside
    BY <2>s DEF vars
  <2> QED
    BY <2>moves, <2>passes, <2>leaves, <2>dies, <2>still DEF Next, Proceeds
<1> QED
  BY <1>1, <1>2, InitIInv, NextIInv, PTL DEF Spec

\* A call that fails between the flock and its try block (lease.py:134-161) is the only
\* thing that leaves the flock behind.
LEMMA LeakStep ==
  ASSUME IInv, Next, LockFollowsTheCall, ~LockFollowsTheCall'
  PROVE  \E p \in Proc, l \in Line : LeavesEarly(p, l)
<1>t. call \in [Proc -> [Line -> Inside \cup {"idle", "queued"}]] /\ flock \in Proc \cup {Nobody}
  BY DEF IInv, TypeOK
<1>1. flock' # Nobody /\ \A k \in Line : call'[flock'][k] \notin Inside \ {"locking"}
  BY DEF LockFollowsTheCall
<1>2. flock # Nobody => flock \in Proc /\ \E k \in Line : call[flock][k] \in Inside \ {"locking"}
  BY <1>t DEF LockFollowsTheCall
<1> USE DEF Goto, Inside
<1>3. ASSUME NEW p \in Proc, NEW l \in Line,
             Enter(p, l) \/ TakeSem(p, l) \/ TimesOut(p, l) \/ Cancelled(p, l)
      PROVE  FALSE
  <2>1. flock' = flock /\ call[p][l] \in {"idle", "queued", "locking"}
    BY <1>3 DEF Enter, TakeSem, TimesOut, Cancelled
  <2>2. PICK to \in {"idle", "queued", "locking"} : call' = [call EXCEPT ![p][l] = to]
    BY <1>3 DEF Enter, TakeSem, TimesOut, Cancelled
  <2>3. PICK k \in Line : call[flock][k] \in Inside \ {"locking"}
    BY <1>1, <1>2, <2>1
  <2>4. call'[flock][k] = call[flock][k]
    BY <1>t, <1>1, <1>2, <2>1, <2>2, <2>3
  <2> QED
    BY <1>1, <2>1, <2>3, <2>4
<1>4. ASSUME NEW p \in Proc, NEW l \in Line,
             TakeFlock(p, l) \/ ProbePasses(p, l) \/ GatePasses(p, l)
      PROVE  FALSE
  <2>1. flock' = p /\ call'[p][l] \in {"probing", "gating", "generating"}
    BY <1>t, <1>4 DEF TakeFlock, ProbePasses, GatePasses, IInv, Locked
  <2> QED
    BY <1>1, <2>1
<1>5. ASSUME NEW p \in Proc, NEW l \in Line, Leaves(p, l) PROVE FALSE
  BY <1>1, <1>5 DEF Leaves
<1>6. ASSUME NEW p \in Proc, Dies(p) PROVE FALSE
  <2>1. flock' = flock /\ flock # p
    BY <1>1, <1>6 DEF Dies
  <2>2. call'[flock] = call[flock]
    BY <1>t, <1>1, <1>2, <1>6, <2>1 DEF Dies
  <2> QED
    BY <1>1, <1>2, <2>1, <2>2
<1> QED
  BY <1>3, <1>4, <1>5, <1>6 DEF Next, Proceeds

\* The flock changes hands only when a call of its process has generated, or when that
\* process is gone.
LEMMA FlockStep ==
  ASSUME IInv, Next, flock # Nobody, flock' # flock
  PROVE  \/ \E l \in Line : call[flock][l] = "generating" /\ call'[flock][l] = "idle"
         \/ \A l \in Line : call'[flock][l] = "idle"
<1>t. call \in [Proc -> [Line -> Inside \cup {"idle", "queued"}]]
  BY DEF IInv, TypeOK
<1>1. ASSUME NEW p \in Proc, NEW l \in Line, Leaves(p, l)
      PROVE  call[flock][l] = "generating" /\ call'[flock][l] = "idle"
  BY <1>t, <1>1 DEF Leaves, Goto, IInv, Locked
<1>2. ASSUME NEW p \in Proc, Dies(p) PROVE \A l \in Line : call'[flock][l] = "idle"
  BY <1>t, <1>2 DEF Dies
<1>3. \A p \in Proc, l \in Line :
        ~(\/ Enter(p, l) \/ TakeSem(p, l) \/ TakeFlock(p, l) \/ TimesOut(p, l)
          \/ ProbePasses(p, l) \/ GatePasses(p, l) \/ LeavesEarly(p, l) \/ Cancelled(p, l))
  BY DEF Enter, TakeSem, TakeFlock, TimesOut, ProbePasses, GatePasses, LeavesEarly, Cancelled
<1> QED
  BY <1>1, <1>2, <1>3 DEF Next, Proceeds

\* The flock has this one leak, and no other process gets past it meanwhile.
THEOREM OneLeakHolds == Spec => OneLeak
<1>1. IInv /\ [Next]_vars =>
        [/\ LockFollowsTheCall /\ ~LockFollowsTheCall' =>
               \E p \in Proc, l \in Line :
                  call[p][l] \in {"probing", "gating"} /\ call'[p][l] = "idle"
         /\ flock # Nobody /\ flock' # flock =>
               \/ \E l \in Line : call[flock][l] = "generating" /\ call'[flock][l] = "idle"
               \/ \A l \in Line : call'[flock][l] = "idle"]_vars
  <2> SUFFICES ASSUME IInv, Next
               PROVE  /\ LockFollowsTheCall /\ ~LockFollowsTheCall' =>
                            \E p \in Proc, l \in Line :
                               call[p][l] \in {"probing", "gating"} /\ call'[p][l] = "idle"
                      /\ flock # Nobody /\ flock' # flock =>
                            \/ \E l \in Line : call[flock][l] = "generating" /\ call'[flock][l] = "idle"
                            \/ \A l \in Line : call'[flock][l] = "idle"
    OBVIOUS
  <2>1. ASSUME NEW p \in Proc, NEW l \in Line, LeavesEarly(p, l)
        PROVE  call[p][l] \in {"probing", "gating"} /\ call'[p][l] = "idle"
    BY <2>1 DEF LeavesEarly, Goto, IInv, TypeOK
  <2> QED
    BY <2>1, LeakStep, FlockStep
<1> QED
  BY <1>1, InitIInv, NextIInv, PTL DEF Spec, OneLeak
=============================================================================
