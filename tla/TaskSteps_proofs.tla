-------------------------- MODULE TaskSteps_proofs --------------------------
(***************************************************************************)
(* That the plan stays a plan and the counts of the continuation within    *)
(* their limits, for any plans, bounds and changes under way.              *)
(***************************************************************************)
EXTENDS TaskSteps, FiniteSetTheorems, WellFoundedInduction, TLAPS

-----------------------------------------------------------------------------
\* Plans.

LEMMA Limits ==
    /\ MaxSteps \in Nat \ {0} /\ MaxSeq \in Nat \ {0} /\ MaxSteps <= MaxSeq /\ MaxAttempts \in Nat \ {0} /\ MaxDrives \in Nat \ {0}
    /\ MaxReopens \in Nat \ {0} /\ StagnantLimit \in Nat \ {0} /\ MaxEvents \in Nat \ {0}
  BY StepsAssumption

LEMMA FreshIsAStep == Fresh \in Step
  BY Limits DEF Fresh, Step, Status, Unmarked

LEMMA APlan ==
  ASSUME NEW plan
  PROVE  plan \in Plan <=> DOMAIN plan \in SUBSET Number /\ plan \in [DOMAIN plan -> Step]
  BY DEF Plan

\* Another step in the place of one.
LEMMA Replaced ==
  ASSUME NEW plan \in Plan, NEW n \in DOMAIN plan, NEW step \in Step
  PROVE  [plan EXCEPT ![n] = step] \in Plan /\ DOMAIN [plan EXCEPT ![n] = step] = DOMAIN plan
<1>1. DOMAIN plan \in SUBSET Number /\ plan \in [DOMAIN plan -> Step]
  BY APlan
<1>2. [plan EXCEPT ![n] = step] \in [DOMAIN plan -> Step]
  BY <1>1
<1> QED
  BY <1>1, <1>2 DEF Plan

LEMMA StepChanged ==
  ASSUME NEW old \in Step, NEW status \in Status, NEW attempts \in 0..MaxAttempts
  PROVE  [old EXCEPT !.status = status, !.attempts = attempts] \in Step
  BY DEF Step

LEMMA StatusSet ==
  ASSUME NEW plan \in Plan, NEW n \in DOMAIN plan, NEW status \in Status
  PROVE  SetStatus(plan, n, status) \in Plan /\ DOMAIN SetStatus(plan, n, status) = DOMAIN plan
<1> DEFINE more == IF status \in Failed /\ plan[n].attempts < MaxAttempts
                   THEN plan[n].attempts + 1 ELSE plan[n].attempts
           step == [plan[n] EXCEPT !.status = status, !.attempts = more]
<1>1. plan[n] \in Step
  BY APlan
<1>2. more \in 0..MaxAttempts
  BY <1>1, Limits DEF Step
<1>3. step \in Step
  BY <1>1, <1>2, StepChanged
<1>4. SetStatus(plan, n, status) = [plan EXCEPT ![n] = step]
  BY DEF SetStatus
<1>5. [plan EXCEPT ![n] = step] \in Plan /\ DOMAIN [plan EXCEPT ![n] = step] = DOMAIN plan
  <2> HIDE DEF step
  <2> QED BY <1>3, Replaced, Zenon
<1> QED
  BY <1>4, <1>5, Zenon

LEMMA ParentClosed ==
  ASSUME NEW plan \in Plan, NEW n \in DOMAIN plan
  PROVE  CloseParent(plan, n) \in Plan /\ DOMAIN CloseParent(plan, n) = DOMAIN plan
<1>1. CASE Closes(plan, n)
  <2> DEFINE up == plan[n].parent
             step == [plan[up] EXCEPT !.status = "done"]
  <2>1. up \in DOMAIN plan
    BY <1>1 DEF Closes, Is
  <2>2. step \in Step
    <3>1. plan[up] \in Step
      <4> HIDE DEF up
      <4> QED BY <2>1, APlan
    <3>2. "done" \in Status
      BY DEF Status, Settled
    <3> HIDE DEF up
    <3> QED
      BY <3>1, <3>2 DEF Step
  <2>3. CloseParent(plan, n) = [plan EXCEPT ![up] = step]
    BY <1>1 DEF CloseParent
  <2>4. [plan EXCEPT ![up] = step] \in Plan /\ DOMAIN [plan EXCEPT ![up] = step] = DOMAIN plan
    <3> HIDE DEF step, up
    <3> QED BY <2>1, <2>2, Replaced, Zenon
  <2> QED
    BY <2>3, <2>4, Zenon
<1>2. CASE ~Closes(plan, n)
  BY <1>2 DEF CloseParent
<1> QED
  BY <1>1, <1>2

\* The conjuncts of TypeOK that speak of the plan and of the task.
PlanTyped == steps \in Plan
TaskTyped == task \in {"live", "rejected", "done"}

\* TaskStore.advance, whoever calls it.
LEMMA Advanced ==
  ASSUME PlanTyped, NEW n, NEW status \in Status, Advance(n, status)
  PROVE  PlanTyped' /\ TaskTyped'
<1> DEFINE marked == SetStatus(steps, n, status)
<1>1. n \in DOMAIN steps /\ steps' = CloseParent(marked, n)
  BY DEF Advance
<1>2. marked \in Plan /\ DOMAIN marked = DOMAIN steps
  BY <1>1, StatusSet DEF PlanTyped
<1>3. n \in DOMAIN marked
  BY <1>1, <1>2
<1>4. steps' \in Plan
  <2> HIDE DEF marked
  <2> QED
    BY <1>1, <1>2, <1>3, ParentClosed
<1>5. task' \in {"live", "rejected", "done"}
  BY DEF Advance
<1> QED
  BY <1>4, <1>5 DEF PlanTyped, TaskTyped

LEMMA CountIsNat ==
  ASSUME PlanTyped
  PROVE  DoneCount \in Nat
<1>1. DOMAIN steps \subseteq 1..MaxSeq
  BY APlan DEF PlanTyped, Number
<1>2. IsFiniteSet(1..MaxSeq)
  BY Limits, FS_Interval
<1>3. IsFiniteSet({n \in DOMAIN steps : Is(steps, n, {"done"})})
  BY <1>1, <1>2, FS_Subset
<1> QED
  BY <1>3, FS_CardinalityType DEF DoneCount

-----------------------------------------------------------------------------
\* The invariant, in the groups that the actions disturb.

CountsTyped ==
    /\ drives \in [Number -> 0..MaxDrives]
    /\ \A n \in Number : drives[n] < MaxDrives /\ (n \in forced => drives[n] = 0)
    /\ forced \subseteq Number

DaemonTyped ==
    /\ pc \in {"idle", "turn", "judge"}
    /\ handed \in {0} \cup Number
    /\ pc = "idle" => handed = 0
    /\ pc = "judge" => handed # 0
    /\ lastDone \in Nat
    /\ stagnant \in 0..StagnantLimit
    /\ pc # "idle" => stagnant < StagnantLimit

LessonsTyped == reopened \in [Number -> 0..MaxReopens]
EventsTyped == events \in 0..MaxEvents
DiligenceTyped == diligence \in {"kept", "owed", "broken"}

LEMMA Groups ==
    TypeOK <=> /\ PlanTyped /\ TaskTyped /\ CountsTyped /\ DaemonTyped
               /\ LessonsTyped /\ EventsTyped /\ DiligenceTyped
  BY DEF TypeOK, PlanTyped, TaskTyped, CountsTyped, DaemonTyped, LessonsTyped, EventsTyped, DiligenceTyped

LEMMA GroupsThen ==
    TypeOK' <=> /\ PlanTyped' /\ TaskTyped' /\ CountsTyped' /\ DaemonTyped'
                /\ LessonsTyped' /\ EventsTyped' /\ DiligenceTyped'
  BY DEF TypeOK, PlanTyped, TaskTyped, CountsTyped, DaemonTyped, LessonsTyped, EventsTyped, DiligenceTyped

LEMMA PlanKept == PlanTyped /\ UNCHANGED steps => PlanTyped'
  BY DEF PlanTyped
LEMMA TaskKept == TaskTyped /\ UNCHANGED task => TaskTyped'
  BY DEF TaskTyped
LEMMA CountsKept == CountsTyped /\ UNCHANGED <<drives, forced>> => CountsTyped'
  BY DEF CountsTyped
LEMMA DaemonKept == DaemonTyped /\ UNCHANGED <<pc, handed, lastDone, stagnant>> => DaemonTyped'
  BY DEF DaemonTyped
LEMMA LessonsKept == LessonsTyped /\ UNCHANGED reopened => LessonsTyped'
  BY DEF LessonsTyped
LEMMA EventsKept == EventsTyped /\ (Event \/ UNCHANGED events) => EventsTyped'
  BY Limits DEF EventsTyped, Event
LEMMA DiligenceKept == DiligenceTyped /\ UNCHANGED diligence => DiligenceTyped'
  BY DEF DiligenceTyped

LEMMA InitTyped == Init => TypeOK
<1> SUFFICES ASSUME Init PROVE TypeOK
  OBVIOUS
<1>1. PlanTyped
  <2>1. steps \in Seq(Step) /\ Len(steps) \in 1..MaxSteps
    BY StepsAssumption DEF Init
  <2>2. DOMAIN steps = 1..Len(steps) /\ steps \in [DOMAIN steps -> Step]
    BY <2>1
  <2>3. DOMAIN steps \subseteq Number
    BY <2>1, <2>2, Limits DEF Number
  <2> QED
    BY <2>2, <2>3 DEF PlanTyped, Plan
<1>2. CountsTyped /\ LessonsTyped
  BY Limits DEF Init, CountsTyped, LessonsTyped, Number
<1>3. DaemonTyped /\ EventsTyped
  BY Limits DEF Init, DaemonTyped, EventsTyped
<1> QED
  BY <1>1, <1>2, <1>3, Groups DEF Init, TaskTyped, DiligenceTyped

-----------------------------------------------------------------------------
\* The daemon.

LEMMA SnapshotTyped ==
  ASSUME PlanTyped, DaemonTyped, Snapshot
  PROVE  lastDone' \in Nat /\ stagnant' \in 0..StagnantLimit
<1>1. DoneCount \in Nat
  BY CountIsNat
<1> QED
  BY <1>1, Limits DEF Snapshot, DaemonTyped

LEMMA BeginsTyped ==
  ASSUME PlanTyped, NEW n \in DOMAIN steps, Begins(n)
  PROVE  PlanTyped' /\ (Event \/ UNCHANGED events)
<1>1. SetStatus(steps, n, "running") \in Plan
  BY StatusSet DEF PlanTyped, Status, Unmarked
<1> QED
  BY <1>1 DEF Begins, PlanTyped

LEMMA HandedTyped ==
  ASSUME PlanTyped, HandsOut, DaemonTyped
  PROVE  PlanTyped' /\ handed' \in {0} \cup Number /\ (Event \/ UNCHANGED events)
<1>1. ASSUME NEW n \in DOMAIN steps, handed' = n, Begins(n)
      PROVE  PlanTyped' /\ handed' \in {0} \cup Number /\ (Event \/ UNCHANGED events)
  BY <1>1, BeginsTyped, APlan DEF PlanTyped
<1>2. CASE UNCHANGED <<handed, steps, events>>
  BY <1>2, PlanKept DEF DaemonTyped
<1> QED
  BY <1>1, <1>2 DEF HandsOut

LEMMA DriveTyped ==
  ASSUME TypeOK, Drive
  PROVE  TypeOK'
<1> USE Groups, GroupsThen
<1>1. PlanTyped' /\ handed' \in {0} \cup Number /\ EventsTyped'
  BY HandedTyped, EventsKept DEF Drive
<1>2. lastDone' \in Nat /\ stagnant' \in 0..StagnantLimit
  BY SnapshotTyped DEF Drive
<1>3. DaemonTyped'
  BY <1>1, <1>2 DEF Drive, DaemonTyped
<1>4. DiligenceTyped'
  BY DEF Drive, DiligenceTyped
<1> QED
  BY <1>1, <1>3, <1>4, TaskKept, CountsKept, LessonsKept DEF Drive

LEMMA DriveNotTyped ==
  ASSUME TypeOK, DriveNot
  PROVE  TypeOK'
<1> USE Groups, GroupsThen
<1>1. lastDone' \in Nat /\ stagnant' \in 0..StagnantLimit
  BY SnapshotTyped DEF DriveNot
<1>2. DaemonTyped'
  BY <1>1 DEF DriveNot, DaemonTyped
<1> QED
  BY <1>2, PlanKept, TaskKept, CountsKept, LessonsKept, EventsKept, DiligenceKept DEF DriveNot

LEMMA TurnOverTyped ==
  ASSUME DiligenceTyped, TurnOver
  PROVE  DiligenceTyped'
  BY DEF TurnOver, DiligenceTyped

-----------------------------------------------------------------------------
\* The engine's judgement.

LEMMA ReturnTyped ==
  ASSUME DaemonTyped, Returns, pc # "idle", UNCHANGED lastDone
  PROVE  DaemonTyped'
  BY Limits DEF DaemonTyped, Returns

LEMMA DrivesForgotten ==
  ASSUME CountsTyped, ForgetsDrives, forced' \in {forced, forced \cup {handed}}, handed \in Number \/ UNCHANGED forced
  PROVE  CountsTyped'
<1>1. \A n \in Number : drives'[n] = IF n = handed THEN 0 ELSE drives[n]
  BY DEF ForgetsDrives
<1>2. drives' \in [Number -> 0..MaxDrives]
  BY Limits DEF ForgetsDrives, CountsTyped
<1>3. forced' \subseteq Number
  BY DEF CountsTyped
<1>4. ASSUME NEW n \in Number
      PROVE  drives'[n] < MaxDrives /\ (n \in forced' => drives'[n] = 0)
  BY <1>1, Limits DEF CountsTyped
<1> QED
  BY <1>2, <1>3, <1>4 DEF CountsTyped

LEMMA FindsMarkedTyped ==
  ASSUME TypeOK, FindsMarked
  PROVE  TypeOK'
<1> USE Groups, GroupsThen
<1>1. DaemonTyped'
  BY ReturnTyped DEF FindsMarked, TurnOver
<1>2. CountsTyped'
  BY DrivesForgotten DEF FindsMarked
<1> QED
  BY <1>1, <1>2, PlanKept, TaskKept, LessonsKept, EventsKept, TurnOverTyped DEF FindsMarked

LEMMA FindsNothingTyped ==
  ASSUME TypeOK, FindsNothing
  PROVE  TypeOK'
<1> USE Groups, GroupsThen
<1>1. DaemonTyped'
  BY ReturnTyped DEF FindsNothing, TurnOver
<1> QED
  BY <1>1, PlanKept, TaskKept, CountsKept, LessonsKept, EventsKept, TurnOverTyped DEF FindsNothing

LEMMA FindsUnmarkedTyped ==
  ASSUME TypeOK, FindsUnmarked
  PROVE  TypeOK'
<1> USE Groups, GroupsThen
<1>1. handed # 0
  BY APlan, Limits DEF FindsUnmarked, Is, PlanTyped, Number
<1>2. DaemonTyped'
  BY <1>1 DEF FindsUnmarked, TurnOver, DaemonTyped
<1> QED
  BY <1>2, PlanKept, TaskKept, CountsKept, LessonsKept, EventsKept, TurnOverTyped DEF FindsUnmarked

LEMMA ConfirmsTyped ==
  ASSUME TypeOK, Confirms
  PROVE  TypeOK'
<1> USE Groups, GroupsThen
<1>1. PlanTyped' /\ TaskTyped'
  <2>1. CASE Advance(handed, "done")
    BY <2>1, Advanced DEF Status, Settled
  <2>2. CASE UNCHANGED <<steps, task, events>>
    BY <2>2, PlanKept, TaskKept
  <2> QED
    BY <2>1, <2>2 DEF Confirms
<1>2. DaemonTyped'
  BY ReturnTyped DEF Confirms
<1>3. CountsTyped'
  BY DrivesForgotten DEF Confirms
<1> QED
  BY <1>1, <1>2, <1>3, LessonsKept, EventsKept, DiligenceKept DEF Confirms, Reviewed

LEMMA CountsStepTyped ==
  ASSUME TypeOK, Counts
  PROVE  TypeOK'
<1> USE Groups, GroupsThen
<1>1. handed \in Number
  BY DEF Counts, DaemonTyped
<1>2. handed \notin forced => drives[handed] + 1 < MaxDrives
  BY <1>1, Limits DEF Counts, GivesUpNow, CountsTyped
<1>3. ASSUME NEW n \in Number
      PROVE  /\ drives'[n] = IF n = handed /\ handed \notin forced THEN drives[n] + 1 ELSE drives[n]
             /\ drives'[n] \in 0..MaxDrives
             /\ drives'[n] < MaxDrives
             /\ n \in forced' => drives'[n] = 0
  <2>1. drives'[n] = IF n = handed /\ handed \notin forced THEN drives[n] + 1 ELSE drives[n]
    BY <1>1 DEF Counts, CountsTyped
  <2>2. drives[n] \in Nat /\ drives[n] < MaxDrives /\ (n \in forced => drives[n] = 0)
    BY DEF CountsTyped
  <2> QED
    BY <1>2, <2>1, <2>2, Limits DEF Counts
<1>4. drives' = [n \in Number |-> drives'[n]]
  BY DEF Counts, CountsTyped
<1>5. CountsTyped'
  <2>1. drives' \in [Number -> 0..MaxDrives]
    BY <1>3, <1>4
  <2>2. forced' = forced
    BY DEF Counts
  <2> QED
    BY <1>3, <2>1, <2>2 DEF CountsTyped
<1>6. DaemonTyped'
  BY ReturnTyped DEF Counts
<1> QED
  BY <1>5, <1>6, PlanKept, TaskKept, LessonsKept, EventsKept, DiligenceKept DEF Counts

LEMMA GivesUpTyped ==
  ASSUME TypeOK, GivesUp
  PROVE  TypeOK'
<1> USE Groups, GroupsThen
<1>1. PlanTyped' /\ TaskTyped'
  <2>1. CASE Advance(handed, "hopeless")
    BY <2>1, Advanced DEF Status, Failed
  <2>2. CASE UNCHANGED <<steps, task>>
    BY <2>2, PlanKept, TaskKept
  <2> QED
    BY <2>1, <2>2 DEF GivesUp
<1>2. handed \in Number
  BY DEF GivesUp, DaemonTyped
<1>3. CountsTyped'
  BY <1>2, DrivesForgotten DEF GivesUp
<1>4. DaemonTyped'
  BY ReturnTyped DEF GivesUp
<1> QED
  BY <1>1, <1>3, <1>4, LessonsKept, EventsKept, DiligenceKept DEF GivesUp

-----------------------------------------------------------------------------
\* The tools, the lessons and the restart.

LEMMA DaemonVarsKept ==
  ASSUME CountsTyped, DaemonTyped, UNCHANGED daemonVars
  PROVE  CountsTyped' /\ DaemonTyped'
  BY CountsKept, DaemonKept DEF daemonVars

LEMMA AdvanceTaskTyped ==
  ASSUME TypeOK, NEW n \in DOMAIN steps, NEW status \in Status, AdvanceTask(n, status)
  PROVE  TypeOK'
<1> USE Groups, GroupsThen
<1>1. PlanTyped' /\ TaskTyped'
  BY Advanced DEF AdvanceTask
<1>2. EventsTyped'
  BY EventsKept DEF AdvanceTask, Reviewed
<1>3. DiligenceTyped'
  BY DEF AdvanceTask, DiligenceTyped
<1> QED
  BY <1>1, <1>2, <1>3, DaemonVarsKept, LessonsKept DEF AdvanceTask

LEMMA FinishTaskTyped ==
  ASSUME TypeOK, FinishTask
  PROVE  TypeOK'
<1> USE Groups, GroupsThen
<1>1. TaskTyped'
  BY DEF FinishTask, TaskTyped
<1> QED
  BY <1>1, PlanKept, DaemonVarsKept, LessonsKept, EventsKept, DiligenceKept DEF FinishTask

LEMMA AddStepTyped ==
  ASSUME TypeOK, NEW n \in Number, AddStep(n - 1)
  PROVE  TypeOK'
<1> USE Groups, GroupsThen
<1> DEFINE before == {m \in DOMAIN steps : m <= n - 1}
           behind == DOMAIN steps \ before
           now == before \cup {(n - 1) + 1} \cup {m + 1 : m \in behind}
<1>1. DOMAIN steps' = now /\ now \subseteq Number
  BY DEF AddStep
<1>2. /\ DOMAIN steps \subseteq Nat /\ n \in Nat
      /\ \A m \in DOMAIN steps : steps[m] \in Step
  BY APlan, Limits DEF PlanTyped, Number
<1>3. ASSUME NEW m \in now
      PROVE  (IF m <= n - 1 THEN steps[m] ELSE IF m = (n - 1) + 1 THEN Fresh ELSE steps[m - 1]) \in Step
  <2>1. CASE m \in before \cup {(n - 1) + 1}
    BY <1>2, <2>1, FreshIsAStep
  <2>2. CASE m \in {k + 1 : k \in behind}
    <3>1. PICK k \in behind : m = k + 1
      BY <2>2
    <3>2. k \in Nat /\ n \in Nat /\ k \in DOMAIN steps /\ ~(k <= n - 1)
      BY <1>2
    <3>3. ~(m <= n - 1) /\ m # (n - 1) + 1 /\ m - 1 = k
      BY <3>1, <3>2
    <3> QED
      BY <1>2, <3>2, <3>3
  <2> QED
    BY <2>1, <2>2
<1>4. steps' = [m \in now |-> IF m <= n - 1 THEN steps[m]
                              ELSE IF m = (n - 1) + 1 THEN Fresh ELSE steps[m - 1]]
  BY DEF AddStep
<1>5. PlanTyped'
  <2> HIDE DEF now
  <2>1. steps' \in [now -> Step]
    BY <1>3, <1>4
  <2> QED
    BY <1>1, <2>1 DEF PlanTyped, Plan
<1>6. DiligenceTyped' /\ EventsTyped'
  BY EventsKept DEF AddStep, DiligenceTyped
<1> QED
  BY <1>5, <1>6, TaskKept, DaemonVarsKept, LessonsKept DEF AddStep

LEMMA RemoveStepTyped ==
  ASSUME TypeOK, NEW n \in Number, RemoveStep(n)
  PROVE  TypeOK'
<1> USE Groups, GroupsThen
<1> DEFINE before == {m \in DOMAIN steps : m < n}
           behind == {m \in DOMAIN steps : m > n}
           now == before \cup {k - 1 : k \in behind}
<1>1. /\ DOMAIN steps \subseteq Number /\ n \in Nat \ {0}
      /\ \A m \in DOMAIN steps : steps[m] \in Step /\ m \in Nat
  BY APlan, Limits DEF PlanTyped, Number
<1>2. ASSUME NEW m \in now
      PROVE  m \in Number /\ (IF m < n THEN steps[m] ELSE steps[m + 1]) \in Step
  <2>1. CASE m \in before
    BY <1>1, <2>1
  <2>2. CASE m \in {k - 1 : k \in behind}
    <3>1. PICK k \in behind : m = k - 1
      BY <2>2
    <3>2. k \in Nat /\ k \in DOMAIN steps /\ k > n /\ k \in Number
      BY <1>1
    <3>3. ~(m < n) /\ m + 1 = k
      BY <1>1, <3>1, <3>2
    <3>4. m \in Number
      BY <1>1, <3>1, <3>2, Limits DEF Number
    <3> QED
      BY <1>1, <3>2, <3>3, <3>4
  <2> QED
    BY <2>1, <2>2
<1>3. steps' = [m \in now |-> IF m < n THEN steps[m] ELSE steps[m + 1]]
  BY DEF RemoveStep
<1>4. PlanTyped'
  <2> HIDE DEF now
  <2>1. steps' \in [now -> Step] /\ now \in SUBSET Number
    BY <1>2, <1>3
  <2> QED
    BY <2>1 DEF PlanTyped, Plan
<1>5. DiligenceTyped' /\ EventsTyped'
  BY EventsKept DEF RemoveStep, DiligenceTyped
<1> QED
  BY <1>4, <1>5, TaskKept, DaemonVarsKept, LessonsKept DEF RemoveStep

LEMMA ResetStepTyped ==
  ASSUME TypeOK, NEW n \in DOMAIN steps, ResetStep(n)
  PROVE  TypeOK'
<1> USE Groups, GroupsThen
<1> DEFINE step == [steps[n] EXCEPT !.status = "pending", !.attempts = 0]
<1>1. steps[n] \in Step
  BY APlan DEF PlanTyped
<1>2. step \in Step
  <2>1. "pending" \in Status /\ 0 \in 0..MaxAttempts
    BY Limits DEF Status, Unmarked
  <2> QED
    BY <1>1, <2>1, StepChanged, Zenon
<1>3. steps' = [steps EXCEPT ![n] = step]
  BY DEF ResetStep
<1>4. PlanTyped'
  <2> HIDE DEF step
  <2> QED
    BY <1>2, <1>3, Replaced DEF PlanTyped
<1>5. DiligenceTyped' /\ EventsTyped'
  BY EventsKept DEF ResetStep, DiligenceTyped
<1> QED
  BY <1>4, <1>5, TaskKept, DaemonVarsKept, LessonsKept DEF ResetStep

LEMMA LessonTyped ==
  ASSUME TypeOK, NEW n \in DOMAIN steps, Lesson(n)
  PROVE  TypeOK'
<1> USE Groups, GroupsThen
<1>1. PlanTyped'
  BY StatusSet DEF Lesson, PlanTyped, Status, Unmarked
<1>2. n \in Number
  BY APlan DEF PlanTyped
<1>3. LessonsTyped'
  BY <1>2, Limits DEF Lesson, LessonsTyped
<1> QED
  BY <1>1, <1>3, TaskKept, DaemonVarsKept, EventsKept, DiligenceKept DEF Lesson

LEMMA RestartTyped ==
  ASSUME TypeOK, Restart
  PROVE  TypeOK'
<1> USE Groups, GroupsThen
<1>1. DaemonTyped'
  BY Limits DEF Restart, DaemonTyped
<1>2. CountsTyped'
  BY Limits DEF Restart, CountsTyped
<1>3. DiligenceTyped' /\ EventsTyped'
  BY EventsKept DEF Restart, DiligenceTyped
<1> QED
  BY <1>1, <1>2, <1>3, PlanKept, TaskKept, LessonsKept DEF Restart

LEMMA StepTyped == TypeOK /\ [Next]_vars => TypeOK'
<1> SUFFICES ASSUME TypeOK, [Next]_vars PROVE TypeOK'
  OBVIOUS
<1>1. CASE Continuation
  BY <1>1, DriveTyped, DriveNotTyped, FindsMarkedTyped, FindsNothingTyped, FindsUnmarkedTyped,
     ConfirmsTyped, CountsStepTyped, GivesUpTyped DEF Continuation, Judges
<1>2. CASE Tools
  BY <1>2, AdvanceTaskTyped, FinishTaskTyped, AddStepTyped, RemoveStepTyped, ResetStepTyped DEF Tools
<1>3. CASE Restart
  BY <1>3, RestartTyped
<1>4. CASE \E n \in DOMAIN steps : Lesson(n)
  BY <1>4, LessonTyped
<1>5. CASE UNCHANGED vars
  BY <1>5, Groups, GroupsThen, PlanKept, TaskKept, DaemonVarsKept, LessonsKept, EventsKept, DiligenceKept DEF vars
<1> QED
  BY <1>1, <1>2, <1>3, <1>4, <1>5 DEF Next

\* Whatever plan the task begins with and however it is changed, marked and reopened
\* under way, the continuation's bookkeeping keeps its bounds.
THEOREM TypeCorrect == Spec => []TypeOK
  BY InitTyped, StepTyped, PTL DEF Spec

-----------------------------------------------------------------------------
\* The least number of a set.

Less == {p \in Nat \X Nat : p[1] < p[2]}

LEMMA LessIsWellFounded == IsWellFoundedOn(Less, Nat)
<1>1. OpToRel(<, Nat) = Less
  BY DEF OpToRel, Less
<1> QED
  BY <1>1, NatLessThanWellFounded

LEMMA LeastNumber ==
  ASSUME NEW S \in SUBSET Nat, S # {}
  PROVE  \E n \in S : \A m \in S : n <= m
<1>1. PICK n \in S : \A m \in S : <<m, n>> \notin Less
  BY LessIsWellFounded, WFMin
<1>2. ASSUME NEW m \in S PROVE n <= m
  <2>1. <<m, n>> \in Nat \X Nat
    OBVIOUS
  <2>2. ~(m < n)
    BY <1>1, <2>1 DEF Less
  <2> QED
    BY <2>2
<1> QED
  BY <1>2

-----------------------------------------------------------------------------
\* The plan while turns are diligent and it is orderly: what its steps may be, which
\* one comes first, and what the counts of the engine and of the daemon owe to the
\* attempts that are written in the rows.

Diligent == Orderly /\ diligence # "broken"

StepsGood ==
    \A n \in DOMAIN steps :
        /\ steps[n].status \in Unmarked \cup {"done", "failed"}
        /\ steps[n].attempts < MaxAttempts

TaskGood == DOMAIN steps # {} /\ (task # "live" => AllSettled(steps))

DrivesGood ==
    \A n \in Number : drives[n] <= (IF n \in DOMAIN steps THEN steps[n].attempts ELSE 0)

\* A turn that kept its word has marked its step done, or failed once more.
WordGood ==
    /\ pc # "turn" => diligence = "kept"
    /\ handed # 0 => handed \in DOMAIN steps
    /\ pc # "idle" /\ handed = 0 => AllSettled(steps) /\ task # "live"
    /\ pc = "turn" /\ handed # 0 /\ diligence = "kept" =>
          Is(steps, handed, {"done"}) \/ drives[handed] < steps[handed].attempts
    /\ pc = "judge" => drives[handed] < steps[handed].attempts

\* The step whose turn it is in an orderly plan.
First(n) ==
    /\ n \in DOMAIN steps
    /\ ~Is(steps, n, Settled)
    /\ \A m \in DOMAIN steps : m < n => Is(steps, m, Settled)

\* No turn is spent on a plan that is settled and may still be added to.
RestsPatient ==
    AllSettled(steps) /\ lastDone = DoneCount =>
        /\ pc # "idle" => handed = 0
        /\ task = "live" => stagnant = 0

\* Turns without a completed step have each failed the first one.
PatienceGood ==
    /\ lastDone <= DoneCount
    /\ lastDone = DoneCount =>
          \A n \in DOMAIN steps : First(n) =>
             /\ stagnant <= steps[n].attempts
             /\ pc # "idle" => n = handed
             /\ pc # "idle" /\ diligence = "kept" => stagnant < steps[n].attempts
    /\ RestsPatient

Good == StepsGood /\ TaskGood /\ DrivesGood /\ WordGood /\ PatienceGood
GoesOn == Diligent => Good

\* The retry policy is tired before the engine and before the daemon: 3 attempts
\* (retry.py:16), 3 hand-outs (runtime.py:714), 12 turns (cli/main.py:2478).
RetryIsTiredFirst == MaxAttempts <= MaxDrives /\ MaxAttempts <= StagnantLimit

LEMMA GoesOnThen == GoesOn' <=> (Diligent' => /\ StepsGood' /\ TaskGood' /\ DrivesGood'
                                              /\ WordGood' /\ PatienceGood')
  BY DEF GoesOn, Good

LEMMA PlanDomain ==
  ASSUME PlanTyped
  PROVE  /\ DOMAIN steps \subseteq Number /\ DOMAIN steps \subseteq Nat /\ 0 \notin DOMAIN steps
         /\ \A n \in DOMAIN steps : steps[n] \in Step /\ steps[n].attempts \in Nat
<1>2. DOMAIN steps \subseteq Number /\ DOMAIN steps \subseteq Nat /\ 0 \notin DOMAIN steps
  BY APlan, Limits DEF PlanTyped, Number
<1>3. ASSUME NEW n \in DOMAIN steps PROVE steps[n] \in Step /\ steps[n].attempts \in Nat
  <2>1. steps[n] \in Step
    BY APlan DEF PlanTyped
  <2>2. steps[n].attempts \in 0..MaxAttempts
    BY <2>1 DEF Step
  <2> QED
    BY <2>1, <2>2, Limits
<1> QED
  BY <1>2, <1>3

LEMMA SomeStepIsFirst ==
  ASSUME PlanTyped, DOMAIN steps # {}, ~AllSettled(steps)
  PROVE  \E n \in DOMAIN steps : First(n)
<1> DEFINE open == {n \in DOMAIN steps : ~Is(steps, n, Settled)}
<1>1. open \in SUBSET Nat /\ open # {}
  BY PlanDomain DEF AllSettled
<1>2. PICK n \in open : \A m \in open : n <= m
  <2> HIDE DEF open
  <2> QED BY <1>1, LeastNumber
<1>3. ASSUME NEW m \in DOMAIN steps, m < n PROVE Is(steps, m, Settled)
  <2>1. m \in Nat /\ n \in Nat
    BY <1>1, PlanDomain
  <2>2. ~(n <= m)
    BY <1>3, <2>1
  <2>3. m \notin open
    BY <1>2, <2>2
  <2> QED
    BY <1>3, <2>3
<1> QED
  BY <1>2, <1>3 DEF First

\* Its turn has come, and whatever is handed out is it.
LEMMA FirstIsReady ==
  ASSUME PlanTyped, Orderly, StepsGood, NEW n \in DOMAIN steps, First(n)
  PROVE  /\ Chosen(n) /\ InOrder(n)
         /\ \A m \in DOMAIN steps : Chosen(m) => m = n
<1> USE PlanDomain
<1>1. steps[n].status \in Unmarked \cup {"failed"}
  BY DEF StepsGood, First, Is, Settled
<1>2. DepsSettled(n)
  BY DEF DepsSettled, Orderly, First
<1>3. Children(steps, n) = {}
  BY DEF Children, Orderly
<1>4. Ready(n)
  BY <1>1, <1>2, <1>3 DEF Ready, Is, Failed
<1>5. ASSUME NEW m \in DOMAIN steps, Ready(m) PROVE n <= m
  <2>1. ~Is(steps, m, Settled)
    BY <1>5 DEF Ready, Is, Settled, Unmarked, Failed
  <2> QED
    BY <2>1 DEF First
<1>6. ~Is(steps, n, {"hopeless"}) /\ MayTry(n)
  BY <1>1 DEF Is, MayTry, Unmarked, StepsGood
<1>7. Chosen(n)
  BY <1>4, <1>5, <1>6 DEF Chosen
<1>8. InOrder(n)
  BY DEF InOrder, First, Is, Settled, Unmarked
<1>9. ASSUME NEW m \in DOMAIN steps, Chosen(m) PROVE m = n
  <2>1. m <= n
    BY <1>4, <1>9 DEF Chosen
  <2>2. n <= m
    BY <1>5, <1>9 DEF Chosen
  <2> QED
    BY <2>1, <2>2
<1> QED
  BY <1>7, <1>8, <1>9

\* The engine's limit is not reached by a step that is still tried.
LEMMA EngineWaits ==
  ASSUME TypeOK, StepsGood, WordGood, pc = "judge", RetryIsTiredFirst
  PROVE  ~GivesUpNow
<1> USE Groups, PlanDomain
<1>1. handed \in DOMAIN steps /\ drives[handed] < steps[handed].attempts
  BY DEF WordGood, DaemonTyped
<1>2. steps[handed].attempts < MaxAttempts /\ drives[handed] \in Nat
  BY <1>1, Limits DEF StepsGood, CountsTyped
<1>3. drives[handed] + 1 < MaxDrives
  BY <1>1, <1>2, Limits DEF RetryIsTiredFirst
<1> QED
  BY <1>2, <1>3, Limits DEF GivesUpNow

\* What is proved of a state in which turns have been diligent.
LEMMA GoodNeverStalls ==
  ASSUME TypeOK, GoesOn, RetryIsTiredFirst
  PROVE  NeverStalls
<1> SUFFICES ASSUME Orderly, diligence # "broken", ~AllSettled(steps)
             PROVE  /\ task = "live"
                    /\ \E n \in DOMAIN steps : Chosen(n) /\ InOrder(n)
                    /\ pc = "judge" => ~GivesUpNow
                    /\ lastDone = DoneCount => stagnant < StagnantLimit
  BY DEF NeverStalls
<1> USE Groups, PlanDomain
<1>0. Good
  BY DEF GoesOn, Diligent
<1>1. task = "live"
  BY <1>0 DEF Good, TaskGood
<1>2. PICK n \in DOMAIN steps : First(n)
  BY <1>0, SomeStepIsFirst DEF Good, TaskGood
<1>3. Chosen(n) /\ InOrder(n)
  BY <1>0, <1>2, FirstIsReady DEF Good
<1>4. ASSUME pc = "judge" PROVE ~GivesUpNow
  BY <1>0, <1>4, EngineWaits DEF Good
<1>5. ASSUME lastDone = DoneCount PROVE stagnant < StagnantLimit
  <2>1. stagnant <= steps[n].attempts
    BY <1>0, <1>2, <1>5 DEF Good, PatienceGood
  <2>2. steps[n].attempts < MaxAttempts
    BY <1>0 DEF Good, StepsGood
  <2> QED
    BY <2>1, <2>2, Limits DEF RetryIsTiredFirst, DaemonTyped
<1> QED
  BY <1>1, <1>3, <1>4, <1>5

-----------------------------------------------------------------------------
\* What a mark does to a plan without sub-steps.

LEMMA Marked ==
  ASSUME NEW plan \in Plan, NEW n \in DOMAIN plan, NEW status \in Status
  PROVE  LET marked == SetStatus(plan, n, status)
         IN  /\ DOMAIN marked = DOMAIN plan
             /\ \A m \in DOMAIN plan :
                   /\ marked[m].parent = plan[m].parent /\ marked[m].deps = plan[m].deps
                   /\ marked[m].status = (IF m = n THEN status ELSE plan[m].status)
                   /\ marked[m].attempts =
                         (IF m = n /\ status \in Failed /\ plan[n].attempts < MaxAttempts
                          THEN plan[n].attempts + 1 ELSE plan[m].attempts)
<1> DEFINE marked == SetStatus(plan, n, status)
           more == IF status \in Failed /\ plan[n].attempts < MaxAttempts
                   THEN plan[n].attempts + 1 ELSE plan[n].attempts
           step == [plan[n] EXCEPT !.status = status, !.attempts = more]
<1>1. marked = [plan EXCEPT ![n] = step]
  BY DEF SetStatus
<1>2. \A m \in DOMAIN plan : plan[m] \in Step
  BY APlan
<1>3. /\ step.parent = plan[n].parent /\ step.deps = plan[n].deps
      /\ step.status = status /\ step.attempts = more
  <2> HIDE DEF more
  <2> QED
    BY <1>2 DEF Step
<1>4. /\ DOMAIN marked = DOMAIN plan
      /\ \A m \in DOMAIN plan : marked[m] = IF m = n THEN step ELSE plan[m]
  <2> HIDE DEF step
  <2> QED
    BY <1>1
<1> HIDE DEF step, marked
<1> QED
  BY <1>3, <1>4 DEF marked

\* The step n of the new plan has this status and these attempts; all else is as it was.
Becomes(n, status, attempts) ==
    /\ DOMAIN steps' = DOMAIN steps
    /\ \A m \in DOMAIN steps :
          /\ steps'[m].parent = steps[m].parent /\ steps'[m].deps = steps[m].deps
          /\ steps'[m].status = (IF m = n THEN status ELSE steps[m].status)
          /\ steps'[m].attempts = (IF m = n THEN attempts ELSE steps[m].attempts)

LEMMA OrderlyBefore ==
  ASSUME NEW n, NEW status, NEW attempts, Becomes(n, status, attempts)
  PROVE  Orderly' <=> Orderly
  BY DEF Becomes, Orderly

\* Without sub-steps no parent is closed.
LEMMA AdvanceMarks ==
  ASSUME PlanTyped, Orderly \/ Orderly', NEW n, NEW status \in Status, Advance(n, status)
  PROVE  n \in DOMAIN steps /\ Orderly /\ steps' = SetStatus(steps, n, status)
<1> USE PlanDomain
<1> DEFINE marked == SetStatus(steps, n, status)
<1>1. n \in DOMAIN steps /\ steps' = CloseParent(marked, n) /\ steps \in Plan
  BY DEF Advance, PlanTyped
<1>2. /\ DOMAIN marked = DOMAIN steps
      /\ \A m \in DOMAIN steps :
            /\ marked[m].parent = steps[m].parent /\ marked[m].deps = steps[m].deps
            /\ marked[m].status = (IF m = n THEN status ELSE steps[m].status)
            /\ marked[m].attempts =
                  (IF m = n /\ status \in Failed /\ steps[n].attempts < MaxAttempts
                   THEN steps[n].attempts + 1 ELSE steps[m].attempts)
  BY <1>1, Marked
<1> HIDE DEF marked
<1>3. marked \in Plan
  BY <1>1, StatusSet DEF marked
<1>4. steps[n].parent = 0
  <2>1. CASE Orderly
    BY <1>1, <2>1 DEF Orderly
  <2>2. CASE ~Orderly /\ Orderly'
    <3>1. CASE ~Closes(marked, n)
      <4>1. steps' = marked
        BY <1>1, <3>1 DEF CloseParent
      <4> QED
        BY <1>1, <1>2, <2>2, <4>1 DEF Orderly
    <3>2. CASE Closes(marked, n)
      <4> DEFINE up == marked[n].parent
                 closed == [marked EXCEPT ![up].status = "done"]
      <4>1. steps' = closed /\ up # n
        BY <1>1, <3>2 DEF CloseParent, Closes
      <4>2. closed[n] = marked[n] /\ n \in DOMAIN closed
        <5> HIDE DEF up
        <5> QED BY <1>1, <1>2, <1>3, <4>1
      <4> HIDE DEF closed
      <4>3. steps'[n].parent = 0
        BY <2>2, <4>1, <4>2 DEF Orderly
      <4> QED
        BY <1>1, <1>2, <4>1, <4>2, <4>3
    <3> QED
      BY <3>1, <3>2
  <2> QED
    BY <2>1, <2>2
<1>5. ~Closes(marked, n)
  BY <1>1, <1>2, <1>4 DEF Closes, Is
<1>6. steps' = marked
  BY <1>1, <1>5 DEF CloseParent
<1>7. Orderly
  BY <1>1, <1>2, <1>6 DEF Orderly
<1> QED
  BY <1>1, <1>6, <1>7 DEF marked

LEMMA AdvanceBecomes ==
  ASSUME PlanTyped, Orderly \/ Orderly', NEW n, NEW status \in Status, Advance(n, status),
         status \notin Failed \/ steps[n].attempts + 1 < MaxAttempts
  PROVE  /\ n \in DOMAIN steps
         /\ Becomes(n, status, IF status \in Failed THEN steps[n].attempts + 1 ELSE steps[n].attempts)
         /\ Orderly
<1>1. n \in DOMAIN steps /\ Orderly /\ steps' = SetStatus(steps, n, status) /\ steps \in Plan
  BY AdvanceMarks DEF PlanTyped
<1>2. steps[n].attempts + 1 < MaxAttempts => steps[n].attempts < MaxAttempts
  BY <1>1, Limits, PlanDomain
<1> QED
  BY <1>1, <1>2, Marked DEF Becomes

-----------------------------------------------------------------------------
\* The count of completed steps.

Completed == {n \in DOMAIN steps : Is(steps, n, {"done"})}

LEMMA CompletedIsFinite ==
  ASSUME PlanTyped
  PROVE  IsFiniteSet(Completed)
<1>1. IsFiniteSet(Number)
  BY Limits, FS_Interval DEF Number
<1> QED
  BY <1>1, PlanDomain, FS_Subset DEF Completed

LEMMA CountIsOfCompleted == DoneCount = Cardinality(Completed) /\ DoneCount' = Cardinality(Completed')
  BY DEF DoneCount, Completed

\* A step that was open is completed: the daemon will see a new count.
LEMMA CountGrows ==
  ASSUME PlanTyped, NEW n \in DOMAIN steps, NEW attempts, Becomes(n, "done", attempts),
         ~Is(steps, n, {"done"})
  PROVE  DoneCount' = DoneCount + 1
<1>1. n \notin Completed /\ Completed' = Completed \cup {n}
  BY DEF Completed, Becomes, Is
<1> QED
  BY <1>1, CompletedIsFinite, CountIsOfCompleted, FS_AddElement

LEMMA CountStays ==
  ASSUME Completed' = Completed
  PROVE  DoneCount' = DoneCount
  BY CountIsOfCompleted

-----------------------------------------------------------------------------
\* What follows of the invariant's groups from the marks.

LEMMA DrivesStillGood ==
  ASSUME PlanTyped, CountsTyped, DrivesGood, DOMAIN steps \subseteq DOMAIN steps',
         \A m \in Number : drives'[m] \in {0, drives[m]},
         \A m \in DOMAIN steps : steps'[m].attempts >= steps[m].attempts,
         \A m \in DOMAIN steps' : m \notin DOMAIN steps => steps'[m].attempts = 0,
         \A m \in DOMAIN steps' : steps'[m].attempts \in Nat
  PROVE  DrivesGood'
<1>1. ASSUME NEW m \in Number
      PROVE  drives'[m] <= (IF m \in DOMAIN steps' THEN steps'[m].attempts ELSE 0)
  <2>1. drives[m] \in Nat /\ drives[m] <= (IF m \in DOMAIN steps THEN steps[m].attempts ELSE 0)
    BY Limits DEF DrivesGood, CountsTyped
  <2>2. m \in DOMAIN steps => steps[m].attempts \in Nat
    BY PlanDomain
  <2>3. drives'[m] <= drives[m]
    BY <2>1
  <2>4. drives'[m] \in Nat
    BY <2>1
  <2> QED
    BY <2>1, <2>2, <2>3, <2>4
<1> QED
  BY <1>1 DEF DrivesGood

LEMMA OpenMark ==
  ASSUME PlanTyped, StepsGood, NEW n \in DOMAIN steps, NEW status \in Unmarked \cup {"failed"},
         NEW attempts \in Nat, Becomes(n, status, attempts), ~Is(steps, n, Settled),
         steps[n].attempts <= attempts, attempts < MaxAttempts
  PROVE  /\ StepsGood' /\ DOMAIN steps' # {}
         /\ ~AllSettled(steps) /\ ~AllSettled(steps')
         /\ DoneCount' = DoneCount
         /\ DOMAIN steps' = DOMAIN steps
         /\ \A m \in DOMAIN steps : steps'[m].attempts \in Nat /\ steps'[m].attempts >= steps[m].attempts
         /\ \A k \in DOMAIN steps : First(k)' => First(k)
<1> USE PlanDomain DEF Becomes
<1>1. StepsGood'
  BY DEF StepsGood
<1>2. ~Is(steps', n, Settled)
  BY DEF Is, Settled, Unmarked
<1>3. ~AllSettled(steps) /\ ~AllSettled(steps') /\ DOMAIN steps' # {}
  BY <1>2 DEF AllSettled
<1>4. Completed' = Completed
  BY <1>2 DEF Completed, Is, Settled
<1>5. DoneCount' = DoneCount
  BY <1>4, CountStays
<1>6. \A m \in DOMAIN steps : steps'[m].attempts \in Nat /\ steps'[m].attempts >= steps[m].attempts
  OBVIOUS
<1>7. ASSUME NEW k \in DOMAIN steps, First(k)' PROVE First(k)
  <2>1. \A m \in DOMAIN steps : Is(steps', m, Settled) <=> Is(steps, m, Settled)
    BY <1>2 DEF Is
  <2> QED
    BY <1>7, <2>1 DEF First, Is
<1> QED
  BY <1>1, <1>3, <1>5, <1>6, <1>7

LEMMA DoneMark ==
  ASSUME PlanTyped, StepsGood, NEW n \in DOMAIN steps, Becomes(n, "done", steps[n].attempts)
  PROVE  /\ StepsGood' /\ DOMAIN steps' # {}
         /\ DOMAIN steps' = DOMAIN steps
         /\ Is(steps', n, {"done"})
         /\ \A m \in DOMAIN steps : steps'[m].attempts = steps[m].attempts
         /\ \A m \in DOMAIN steps : Is(steps, m, {"done"}) => Is(steps', m, {"done"})
<1> USE PlanDomain DEF Becomes
<1>1. StepsGood'
  BY DEF StepsGood
<1> QED
  BY <1>1 DEF Is

\* No action makes a plan orderly or a broken word good.
LEMMA GoodBefore ==
  ASSUME GoesOn, Orderly, diligence # "broken"
  PROVE  StepsGood /\ TaskGood /\ DrivesGood /\ WordGood /\ PatienceGood
  BY DEF GoesOn, Good, Diligent

-----------------------------------------------------------------------------
\* The daemon.

LEMMA SnapshotPatient ==
  ASSUME PlanTyped, PatienceGood, Snapshot, NEW n \in DOMAIN steps, First(n)
  PROVE  stagnant' <= steps[n].attempts
<1>1. steps[n].attempts \in Nat
  BY PlanDomain
<1>2. CASE lastDone = DoneCount
  BY <1>2 DEF Snapshot, PatienceGood
<1>3. CASE lastDone # DoneCount
  BY <1>1, <1>3 DEF Snapshot
<1> QED
  BY <1>2, <1>3

LEMMA HandsOutFirst ==
  ASSUME PlanTyped, Orderly \/ Orderly', NEW n \in DOMAIN steps, Chosen(n), Begins(n)
  PROVE  /\ Orderly
         /\ \E status \in Unmarked \cup {"failed"} : Becomes(n, status, steps[n].attempts)
<1> USE PlanDomain
<1>1. steps[n].status \in Unmarked \cup {"failed"}
  BY DEF Chosen, Ready, Is, Failed
<1>2. CASE steps' = SetStatus(steps, n, "running")
  <2>1. Becomes(n, "running", steps[n].attempts)
    <3>1. steps \in Plan /\ "running" \in Status /\ "running" \notin Failed
      BY DEF PlanTyped, Status, Unmarked, Failed
    <3> QED
      BY <1>2, <3>1, Marked DEF Becomes
  <2> QED
    BY <2>1, OrderlyBefore DEF Unmarked
<1>3. CASE UNCHANGED steps
  <2>1. Becomes(n, steps[n].status, steps[n].attempts)
    BY <1>3 DEF Becomes
  <2> QED
    BY <1>1, <2>1, OrderlyBefore
<1> QED
  BY <1>2, <1>3 DEF Begins

LEMMA DriveGoesOn ==
  ASSUME TypeOK, GoesOn, Drive
  PROVE  GoesOn'
<1> SUFFICES ASSUME Orderly', diligence' # "broken"
             PROVE  StepsGood' /\ TaskGood' /\ DrivesGood' /\ WordGood' /\ PatienceGood'
  BY GoesOnThen DEF Diligent
<1> USE Groups, PlanDomain
<1>1. diligence # "broken"
  BY DEF Drive
<1>2. CASE \E n \in DOMAIN steps : Chosen(n) /\ handed' = n /\ Begins(n)
  <2>1. PICK n \in DOMAIN steps : Chosen(n) /\ handed' = n /\ Begins(n)
    BY <1>2
  <2>2. PICK status \in Unmarked \cup {"failed"} : Becomes(n, status, steps[n].attempts)
    BY <2>1, HandsOutFirst
  <2>3. Orderly
    BY <2>1, HandsOutFirst
  <2>4. StepsGood /\ TaskGood /\ DrivesGood /\ WordGood /\ PatienceGood
    BY <1>1, <2>3, GoodBefore
  <2>5. ~Is(steps, n, Settled) /\ steps[n].attempts < MaxAttempts
    BY <2>1, <2>4 DEF Chosen, Ready, Is, Unmarked, Failed, Settled, StepsGood
  <2>6. /\ StepsGood' /\ DOMAIN steps' # {}
        /\ ~AllSettled(steps) /\ ~AllSettled(steps')
        /\ DoneCount' = DoneCount
        /\ DOMAIN steps' = DOMAIN steps
        /\ \A m \in DOMAIN steps : steps'[m].attempts \in Nat /\ steps'[m].attempts >= steps[m].attempts
        /\ \A k \in DOMAIN steps : First(k)' => First(k)
    <3>1. PlanTyped /\ steps[n].attempts \in Nat /\ steps[n].attempts <= steps[n].attempts
      OBVIOUS
    <3> QED
      BY <2>2, <2>4, <2>5, <3>1, OpenMark
  <2>7. TaskGood'
    BY <2>4, <2>6 DEF TaskGood, Drive
  <2>8. DrivesGood'
    BY <2>4, <2>6, DrivesStillGood DEF Drive
  <2>9. pc' = "turn" /\ diligence' = "owed"
    BY <1>1, <2>1, <2>4 DEF Drive, WordGood
  <2>10. WordGood'
    BY <2>1, <2>6, <2>9 DEF WordGood
  <2>11. ASSUME NEW k \in DOMAIN steps', First(k)'
         PROVE  stagnant' <= steps'[k].attempts /\ k = n
    <3>1. k \in DOMAIN steps /\ First(k)
      BY <2>6, <2>11
    <3>2. k = n
      BY <2>1, <2>3, <2>4, <3>1, FirstIsReady
    <3>3. stagnant' <= steps[k].attempts
      BY <2>4, <3>1, SnapshotPatient DEF Drive
    <3>4. steps'[k].attempts = steps[k].attempts
      BY <2>2, <3>1, <3>2 DEF Becomes
    <3> QED
      BY <3>2, <3>3, <3>4
  <2>12. lastDone' <= DoneCount'
    BY <2>6, CountIsNat DEF Drive, Snapshot
  <2>13. PatienceGood'
    BY <2>1, <2>6, <2>9, <2>11, <2>12 DEF PatienceGood, RestsPatient
  <2> QED
    BY <2>6, <2>7, <2>8, <2>10, <2>13
<1>3. CASE ~(\E n \in DOMAIN steps : Chosen(n)) /\ UNCHANGED <<handed, steps, events>>
  <2>1. Orderly
    BY <1>3 DEF Orderly
  <2>2. StepsGood /\ TaskGood /\ DrivesGood /\ WordGood /\ PatienceGood
    BY <1>1, <2>1, GoodBefore
  <2>3. AllSettled(steps)
    BY <1>3, <2>1, <2>2, SomeStepIsFirst, FirstIsReady DEF TaskGood
  <2>4. StepsGood' /\ TaskGood' /\ DrivesGood'
    BY <1>3, <2>2 DEF StepsGood, TaskGood, DrivesGood, Drive
  <2>5. handed' = 0 /\ pc' = "turn" /\ task' # "live"
    BY <1>3, <2>3 DEF Drive, DaemonTyped
  <2>6. WordGood'
    BY <1>3, <2>3, <2>5 DEF WordGood
  <2>7. \A k \in DOMAIN steps' : ~First(k)'
    BY <1>3, <2>3 DEF First, AllSettled
  <2>8. DoneCount' = DoneCount
    BY <1>3, CountStays DEF Completed
  <2>9. PatienceGood'
    BY <2>5, <2>7, <2>8, CountIsNat DEF PatienceGood, RestsPatient, Drive, Snapshot
  <2> QED
    BY <2>4, <2>6, <2>9
<1> QED
  BY <1>2, <1>3 DEF Drive, HandsOut

LEMMA DriveNotGoesOn ==
  ASSUME TypeOK, GoesOn, DriveNot
  PROVE  GoesOn'
<1> SUFFICES ASSUME Orderly', diligence' # "broken"
             PROVE  StepsGood' /\ TaskGood' /\ DrivesGood' /\ WordGood' /\ PatienceGood'
  BY GoesOnThen DEF Diligent
<1> USE Groups
<1>1. StepsGood /\ TaskGood /\ DrivesGood /\ WordGood /\ PatienceGood
  BY GoodBefore DEF DriveNot, Orderly
<1>2. StepsGood' /\ TaskGood' /\ DrivesGood' /\ WordGood'
  BY <1>1 DEF DriveNot, StepsGood, TaskGood, DrivesGood, WordGood
<1>3. DoneCount' = DoneCount
  BY CountStays DEF DriveNot, Completed
<1>4. ASSUME NEW k \in DOMAIN steps', First(k)'
      PROVE  stagnant' <= steps'[k].attempts
  <2>1. k \in DOMAIN steps /\ First(k) /\ steps' = steps
    BY <1>4 DEF DriveNot, First
  <2> QED
    BY <1>1, <2>1, SnapshotPatient DEF DriveNot
<1>5. RestsPatient'
  BY <1>1, <1>3 DEF DriveNot, PatienceGood, RestsPatient, Snapshot
<1>6. PatienceGood'
  BY <1>3, <1>4, <1>5, CountIsNat DEF DriveNot, PatienceGood, Snapshot
<1> QED
  BY <1>2, <1>6

-----------------------------------------------------------------------------
\* The engine's judgement.

LEMMA WordKept ==
  ASSUME DiligenceTyped, TurnOver, diligence' # "broken"
  PROVE  pc = "turn" /\ diligence = "kept" /\ diligence' = "kept"
  BY DEF TurnOver, DiligenceTyped

\* A turn without a completed step has failed the first one.
LEMMA ReturnPatient ==
  ASSUME PlanTyped, DaemonTyped, PatienceGood, WordGood, pc # "idle", diligence = "kept",
         Returns, UNCHANGED <<steps, task, lastDone>>
  PROVE  PatienceGood'
<1>1. DoneCount' = DoneCount
  BY CountStays DEF Completed
<1>2. ASSUME lastDone = DoneCount, NEW k \in DOMAIN steps, First(k)'
      PROVE  stagnant' <= steps[k].attempts
  <2>1. First(k)
    BY <1>2 DEF First
  <2>2. stagnant < steps[k].attempts /\ steps[k].attempts \in Nat
    BY <1>2, <2>1, PlanDomain DEF PatienceGood
  <2> QED
    BY <2>2, Limits DEF Returns, DaemonTyped
<1>3. RestsPatient'
  BY <1>1 DEF PatienceGood, RestsPatient, WordGood, Returns
<1> QED
  BY <1>1, <1>2, <1>3 DEF PatienceGood, Returns

LEMMA ForgottenDrives ==
  ASSUME CountsTyped, ForgetsDrives
  PROVE  \A m \in Number : drives'[m] \in {0, drives[m]}
  BY DEF ForgetsDrives

LEMMA ReturnWord ==
  ASSUME Returns, diligence' = "kept"
  PROVE  WordGood'
  BY DEF Returns, WordGood

LEMMA FindsMarkedGoesOn ==
  ASSUME TypeOK, GoesOn, FindsMarked
  PROVE  GoesOn'
<1> SUFFICES ASSUME Orderly', diligence' # "broken"
             PROVE  StepsGood' /\ TaskGood' /\ DrivesGood' /\ WordGood' /\ PatienceGood'
  BY GoesOnThen DEF Diligent
<1> USE Groups
<1>1. pc = "turn" /\ diligence = "kept" /\ diligence' = "kept"
  BY WordKept DEF FindsMarked
<1>2. StepsGood /\ TaskGood /\ DrivesGood /\ WordGood /\ PatienceGood
  BY <1>1, GoodBefore DEF FindsMarked, Orderly
<1>3. StepsGood' /\ TaskGood'
  BY <1>2 DEF FindsMarked, StepsGood, TaskGood
<1>4. DrivesGood'
  <2>1. /\ steps' = steps
        /\ \A m \in DOMAIN steps : steps[m].attempts \in Nat /\ steps[m].attempts >= steps[m].attempts
    BY PlanDomain DEF FindsMarked
  <2>2. \A m \in Number : drives'[m] \in {0, drives[m]}
    BY ForgottenDrives DEF FindsMarked
  <2> QED
    BY <1>2, <2>1, <2>2, DrivesStillGood
<1>5. WordGood'
  BY <1>1, ReturnWord DEF FindsMarked
<1>6. PatienceGood'
  BY <1>1, <1>2, ReturnPatient DEF FindsMarked
<1> QED
  BY <1>3, <1>4, <1>5, <1>6

LEMMA FindsNothingGoesOn ==
  ASSUME TypeOK, GoesOn, FindsNothing
  PROVE  GoesOn'
<1> SUFFICES ASSUME Orderly', diligence' # "broken"
             PROVE  StepsGood' /\ TaskGood' /\ DrivesGood' /\ WordGood' /\ PatienceGood'
  BY GoesOnThen DEF Diligent
<1> USE Groups
<1>1. pc = "turn" /\ diligence = "kept" /\ diligence' = "kept"
  BY WordKept DEF FindsNothing
<1>2. StepsGood /\ TaskGood /\ DrivesGood /\ WordGood /\ PatienceGood
  BY <1>1, GoodBefore DEF FindsNothing, Orderly
<1>3. StepsGood' /\ TaskGood' /\ DrivesGood'
  BY <1>2 DEF FindsNothing, StepsGood, TaskGood, DrivesGood
<1>4. WordGood'
  BY <1>1, ReturnWord DEF FindsNothing
<1>5. PatienceGood'
  BY <1>1, <1>2, ReturnPatient DEF FindsNothing
<1> QED
  BY <1>3, <1>4, <1>5

LEMMA FindsUnmarkedGoesOn ==
  ASSUME TypeOK, GoesOn, FindsUnmarked
  PROVE  GoesOn'
<1> SUFFICES ASSUME Orderly', diligence' # "broken"
             PROVE  StepsGood' /\ TaskGood' /\ DrivesGood' /\ WordGood' /\ PatienceGood'
  BY GoesOnThen DEF Diligent
<1> USE Groups
<1>1. pc = "turn" /\ diligence = "kept" /\ diligence' = "kept"
  BY WordKept DEF FindsUnmarked
<1>2. StepsGood /\ TaskGood /\ DrivesGood /\ WordGood /\ PatienceGood
  BY <1>1, GoodBefore DEF FindsUnmarked, Orderly
<1>3. StepsGood' /\ TaskGood' /\ DrivesGood'
  BY <1>2 DEF FindsUnmarked, StepsGood, TaskGood, DrivesGood
<1>4. handed \in DOMAIN steps /\ handed # 0 /\ ~Is(steps, handed, {"done"})
  BY PlanDomain DEF FindsUnmarked, Is, Unmarked
<1>5. WordGood'
  BY <1>1, <1>2, <1>4 DEF FindsUnmarked, WordGood
<1>6. DoneCount' = DoneCount
  BY CountStays DEF Completed, FindsUnmarked
<1>7. PatienceGood'
  BY <1>1, <1>2, <1>4, <1>6 DEF FindsUnmarked, PatienceGood, RestsPatient, First
<1> QED
  BY <1>3, <1>5, <1>7

LEMMA ConfirmsGoesOn ==
  ASSUME TypeOK, GoesOn, Confirms
  PROVE  GoesOn'
<1> SUFFICES ASSUME Orderly', diligence' # "broken"
             PROVE  StepsGood' /\ TaskGood' /\ DrivesGood' /\ WordGood' /\ PatienceGood'
  BY GoesOnThen DEF Diligent
<1> USE Groups, PlanDomain
<1>1. diligence' = diligence /\ pc = "judge" /\ lastDone' = lastDone
  BY DEF Confirms
<1>2. \A m \in Number : drives'[m] \in {0, drives[m]}
  BY ForgottenDrives DEF Confirms
<1>3. CASE Advance(handed, "done")
  <2>1. /\ handed \in DOMAIN steps /\ Orderly
        /\ Becomes(handed, "done", steps[handed].attempts)
    BY <1>3, AdvanceBecomes DEF Status, Settled, Failed
  <2>2. StepsGood /\ TaskGood /\ DrivesGood /\ WordGood /\ PatienceGood
    BY <1>1, <2>1, GoodBefore
  <2>3. /\ StepsGood' /\ DOMAIN steps' # {}
        /\ DOMAIN steps' = DOMAIN steps
        /\ Is(steps', handed, {"done"})
        /\ \A m \in DOMAIN steps : steps'[m].attempts = steps[m].attempts
        /\ \A m \in DOMAIN steps : Is(steps, m, {"done"}) => Is(steps', m, {"done"})
    BY <2>1, <2>2, DoneMark
  <2>4. TaskGood'
    <3>1. task = "done" => AllSettled(steps')
      <4>1. \A m \in DOMAIN steps : steps'[m].status \in {steps[m].status, "done"}
        BY <2>1 DEF Becomes
      <4> QED
        BY <2>2, <2>3, <4>1 DEF TaskGood, AllSettled, Is, Settled
    <3> QED
      BY <1>3, <2>3, <3>1 DEF Advance, TaskGood
  <2>10. handed # 0
    BY <1>1 DEF DaemonTyped
  <2>5. DrivesGood'
    <3>1. \A m \in DOMAIN steps : steps'[m].attempts \in Nat /\ steps'[m].attempts >= steps[m].attempts
      BY <2>3
    <3> QED
      BY <1>2, <2>2, <2>3, <3>1, DrivesStillGood
  <2>6. diligence = "kept"
    BY <1>1, <2>2 DEF WordGood
  <2>7. WordGood'
    BY <1>1, <2>6, ReturnWord DEF Confirms
  <2>8. CASE Is(steps, handed, {"done"})
    <3>1. Completed' = Completed
      BY <2>1, <2>8 DEF Completed, Becomes, Is
    <3>2. DoneCount' = DoneCount
      BY <3>1, CountStays
    <3>3. ASSUME lastDone = DoneCount, NEW k \in DOMAIN steps, First(k)' PROVE FALSE
      <4>1. First(k)
        BY <2>1, <2>8, <3>3 DEF First, Becomes, Is
      <4>2. k = handed
        BY <1>1, <2>2, <3>3, <4>1 DEF PatienceGood
      <4> QED
        BY <2>8, <4>1, <4>2 DEF First, Is, Settled
    <3>4. AllSettled(steps') => AllSettled(steps)
      BY <2>1, <2>8 DEF AllSettled, Becomes, Is
    <3>5. RestsPatient'
      BY <1>1, <2>2, <2>10, <3>2, <3>4 DEF PatienceGood, RestsPatient
    <3> QED
      BY <1>1, <2>2, <2>3, <2>4, <2>5, <2>7, <3>2, <3>3, <3>5 DEF PatienceGood
  <2>9. CASE ~Is(steps, handed, {"done"})
    <3>1. DoneCount' = DoneCount + 1
      BY <2>1, <2>9, CountGrows
    <3>2. PatienceGood'
      BY <1>1, <2>2, <3>1, CountIsNat DEF PatienceGood, RestsPatient, DaemonTyped
    <3> QED
      BY <2>3, <2>4, <2>5, <2>7, <3>2
  <2> QED
    BY <2>8, <2>9
<1>4. CASE UNCHANGED <<steps, task, events>>
  <2>1. StepsGood /\ TaskGood /\ DrivesGood /\ WordGood /\ PatienceGood
    BY <1>1, <1>4, GoodBefore DEF Orderly
  <2>2. StepsGood' /\ TaskGood'
    BY <1>4, <2>1 DEF StepsGood, TaskGood
  <2>3. DrivesGood'
    <3>1. \A m \in DOMAIN steps : steps'[m].attempts \in Nat /\ steps'[m].attempts >= steps[m].attempts
      BY <1>4
    <3> QED
      BY <1>2, <1>4, <2>1, <3>1, DrivesStillGood
  <2>4. diligence = "kept"
    BY <1>1, <2>1 DEF WordGood
  <2>5. WordGood'
    BY <1>1, <2>4, ReturnWord DEF Confirms
  <2>6. PatienceGood'
    BY <1>1, <1>4, <2>1, <2>4, ReturnPatient DEF Confirms
  <2> QED
    BY <2>2, <2>3, <2>5, <2>6
<1> QED
  BY <1>3, <1>4 DEF Confirms

LEMMA CountsGoesOn ==
  ASSUME TypeOK, GoesOn, Counts
  PROVE  GoesOn'
<1> SUFFICES ASSUME Orderly', diligence' # "broken"
             PROVE  StepsGood' /\ TaskGood' /\ DrivesGood' /\ WordGood' /\ PatienceGood'
  BY GoesOnThen DEF Diligent
<1> USE Groups, PlanDomain
<1>1. StepsGood /\ TaskGood /\ DrivesGood /\ WordGood /\ PatienceGood
  BY GoodBefore DEF Counts, Orderly
<1>2. diligence = "kept" /\ diligence' = "kept" /\ pc = "judge"
  BY <1>1 DEF Counts, WordGood
<1>3. StepsGood' /\ TaskGood'
  BY <1>1 DEF Counts, StepsGood, TaskGood
<1>4. handed \in DOMAIN steps /\ drives[handed] < steps[handed].attempts
  BY <1>1, <1>2 DEF WordGood, DaemonTyped
<1>5. ASSUME NEW m \in Number
      PROVE  drives'[m] <= (IF m \in DOMAIN steps' THEN steps'[m].attempts ELSE 0)
  <2>1. /\ drives[m] \in Nat /\ steps' = steps
        /\ drives[m] <= (IF m \in DOMAIN steps THEN steps[m].attempts ELSE 0)
    BY <1>1, Limits DEF DrivesGood, CountsTyped, Counts
  <2>2. CASE m = handed
    <3>1. drives'[m] \in {drives[m], drives[m] + 1}
      BY <2>2 DEF Counts, CountsTyped
    <3>2. steps[m].attempts \in Nat /\ drives[m] < steps[m].attempts /\ m \in DOMAIN steps
      BY <1>4, <2>2
    <3> QED
      BY <2>1, <3>1, <3>2
  <2>3. CASE m # handed
    <3>1. drives'[m] = drives[m]
      BY <2>3 DEF Counts, CountsTyped
    <3> QED
      BY <2>1, <3>1
  <2> QED
    BY <2>2, <2>3
<1>6. DrivesGood'
  BY <1>5 DEF DrivesGood
<1>7. WordGood'
  BY <1>2, ReturnWord DEF Counts
<1>8. PatienceGood'
  BY <1>1, <1>2, ReturnPatient DEF Counts
<1> QED
  BY <1>3, <1>6, <1>7, <1>8

\* It cannot come to that.
LEMMA GivesUpGoesOn ==
  ASSUME TypeOK, GoesOn, GivesUp, RetryIsTiredFirst
  PROVE  GoesOn'
<1> SUFFICES ASSUME Orderly', diligence' # "broken"
             PROVE  FALSE
  BY GoesOnThen DEF Diligent
<1> USE Groups, PlanDomain
<1>1. ~Orderly /\ diligence # "broken" /\ pc = "judge"
  BY EngineWaits, GoodBefore DEF GivesUp
<1>2. CASE Advance(handed, "hopeless")
  BY <1>1, <1>2, AdvanceMarks DEF Status, Failed
<1>3. CASE UNCHANGED <<steps, task>>
  BY <1>1, <1>3 DEF Orderly
<1> QED
  BY <1>2, <1>3 DEF GivesUp

-----------------------------------------------------------------------------
\* The tools.

LEMMA NotSlack ==
  ASSUME NEW n \in DOMAIN steps, NEW status \in Status \ {"pending"}, ~Slack(n, status)
  PROVE  /\ ~Is(steps, n, Settled)
         /\ status \in {"running", "done", "failed"}
         /\ status \in Failed => status = "failed" /\ ~(steps[n].attempts + 1 >= MaxAttempts)
  BY DEF Slack, Failed

LEMMA OpenMarkGoesOn ==
  ASSUME TypeOK, GoesOn, Orderly, diligence # "broken", diligence' # "broken",
         NEW n \in DOMAIN steps, NEW status \in {"running", "failed"}, AdvanceTask(n, status),
         ~Is(steps, n, Settled), NEW attempts \in Nat, Becomes(n, status, attempts),
         attempts = IF status = "failed" THEN steps[n].attempts + 1 ELSE steps[n].attempts,
         attempts < MaxAttempts
  PROVE  StepsGood' /\ TaskGood' /\ DrivesGood' /\ WordGood' /\ PatienceGood'
<1> USE Groups, PlanDomain
<1>1. StepsGood /\ TaskGood /\ DrivesGood /\ WordGood /\ PatienceGood
  BY GoodBefore
<1>2. /\ PlanTyped /\ status \in Unmarked \cup {"failed"}
      /\ steps[n].attempts \in Nat /\ steps[n].attempts <= attempts
  BY DEF Unmarked
<1>3. /\ StepsGood' /\ DOMAIN steps' # {}
      /\ ~AllSettled(steps) /\ ~AllSettled(steps')
      /\ DoneCount' = DoneCount
      /\ DOMAIN steps' = DOMAIN steps
      /\ \A m \in DOMAIN steps : steps'[m].attempts \in Nat /\ steps'[m].attempts >= steps[m].attempts
      /\ \A k \in DOMAIN steps : First(k)' => First(k)
  BY <1>1, <1>2, OpenMark
<1>4. /\ UNCHANGED <<pc, handed, drives, lastDone, stagnant>>
      /\ task = "live" /\ task' = "live"
  BY <1>3 DEF AdvanceTask, Advance, daemonVars
<1>5. TaskGood'
  BY <1>3, <1>4 DEF TaskGood
<1>6. DrivesGood'
  <2>1. \A m \in Number : drives'[m] \in {0, drives[m]}
    BY <1>4
  <2> QED
    BY <1>1, <1>3, <2>1, DrivesStillGood
<1>7. \/ diligence' = diligence
      \/ /\ diligence = "owed" /\ diligence' = "kept"
         /\ n = handed /\ status = "failed"
  BY DEF AdvanceTask
<1>8. steps'[n].attempts = attempts
  BY DEF Becomes
<1>9. Is(steps, handed, {"done"}) => Is(steps', handed, {"done"})
  BY DEF Becomes, Is, Settled
<1>10. WordGood'
  <2>1. pc # "turn" => diligence' = "kept"
    BY <1>1, <1>7 DEF WordGood
  <2>2. handed # 0 => handed \in DOMAIN steps
    BY <1>1 DEF WordGood
  <2>3. ~(pc # "idle" /\ handed = 0)
    BY <1>1, <1>3 DEF WordGood
  <2>4. ASSUME pc = "turn", handed # 0, diligence' = "kept"
        PROVE  Is(steps', handed, {"done"}) \/ drives[handed] < steps'[handed].attempts
    <3>1. drives[handed] \in Nat /\ drives[handed] <= steps[handed].attempts
      BY <1>1, <2>2, <2>4, Limits DEF DrivesGood, CountsTyped
    <3>2. steps'[handed].attempts \in Nat /\ steps'[handed].attempts >= steps[handed].attempts
      BY <1>3, <2>2, <2>4
    <3>3. steps[handed].attempts \in Nat
      BY <2>2, <2>4
    <3>4. CASE diligence = "kept"
      BY <1>1, <1>9, <2>4, <3>1, <3>2, <3>3, <3>4 DEF WordGood
    <3>5. CASE diligence # "kept"
      <4>1. n = handed /\ steps'[handed].attempts = steps[handed].attempts + 1
        BY <1>7, <1>8, <2>4, <3>5
      <4> QED
        BY <3>1, <3>3, <4>1
    <3> QED
      BY <3>4, <3>5
  <2>5. ASSUME pc = "judge" PROVE drives[handed] < steps'[handed].attempts
    <3>1. handed \in DOMAIN steps /\ drives[handed] < steps[handed].attempts
      BY <1>1, <2>5 DEF WordGood, DaemonTyped
    <3>2. drives[handed] \in Nat /\ steps[handed].attempts \in Nat
      BY <3>1, Limits DEF CountsTyped
    <3>3. steps'[handed].attempts \in Nat /\ steps'[handed].attempts >= steps[handed].attempts
      BY <1>3, <3>1
    <3> QED
      BY <3>1, <3>2, <3>3
  <2> QED
    BY <1>3, <1>4, <2>1, <2>2, <2>3, <2>4, <2>5 DEF WordGood
<1>11. PatienceGood'
  <2>1. ASSUME lastDone = DoneCount, NEW k \in DOMAIN steps, First(k)'
        PROVE  /\ stagnant <= steps'[k].attempts
               /\ pc # "idle" => k = handed
               /\ pc # "idle" /\ diligence' = "kept" => stagnant < steps'[k].attempts
    <3>1. First(k)
      BY <1>3, <2>1
    <3>2. /\ stagnant <= steps[k].attempts
          /\ pc # "idle" => k = handed
          /\ pc # "idle" /\ diligence = "kept" => stagnant < steps[k].attempts
      BY <1>1, <2>1, <3>1 DEF PatienceGood
    <3>3. /\ steps[k].attempts \in Nat /\ steps'[k].attempts \in Nat /\ stagnant \in Nat
          /\ steps'[k].attempts >= steps[k].attempts
      BY <1>3, Limits DEF DaemonTyped
    <3>4. ASSUME pc # "idle", diligence' = "kept" PROVE stagnant < steps'[k].attempts
      <4>1. CASE diligence = "kept"
        BY <3>2, <3>3, <3>4, <4>1
      <4>2. CASE diligence # "kept"
        <5>1. k = n /\ steps'[k].attempts = steps[k].attempts + 1
          BY <1>7, <1>8, <3>2, <3>4, <4>2
        <5> QED
          BY <3>2, <3>3, <5>1
      <4> QED
        BY <4>1, <4>2
    <3> QED
      BY <3>2, <3>3, <3>4
  <2> QED
    BY <1>1, <1>3, <1>4, <2>1 DEF PatienceGood, RestsPatient
<1> QED
  BY <1>3, <1>5, <1>6, <1>10, <1>11

LEMMA DoneMarkGoesOn ==
  ASSUME TypeOK, GoesOn, Orderly, diligence # "broken", diligence' # "broken",
         NEW n \in DOMAIN steps, AdvanceTask(n, "done"),
         ~Is(steps, n, Settled), Becomes(n, "done", steps[n].attempts)
  PROVE  StepsGood' /\ TaskGood' /\ DrivesGood' /\ WordGood' /\ PatienceGood'
<1> USE Groups, PlanDomain
<1>1. StepsGood /\ TaskGood /\ DrivesGood /\ WordGood /\ PatienceGood
  BY GoodBefore
<1>2. /\ StepsGood' /\ DOMAIN steps' # {}
      /\ DOMAIN steps' = DOMAIN steps
      /\ Is(steps', n, {"done"})
      /\ \A m \in DOMAIN steps : steps'[m].attempts = steps[m].attempts
      /\ \A m \in DOMAIN steps : Is(steps, m, {"done"}) => Is(steps', m, {"done"})
  BY <1>1, DoneMark
<1>3. UNCHANGED <<pc, handed, drives, lastDone, stagnant>> /\ task = "live"
  BY DEF AdvanceTask, daemonVars
<1>4. TaskGood'
  BY <1>2 DEF AdvanceTask, Advance, TaskGood
<1>5. DrivesGood'
  <2>1. \A m \in DOMAIN steps : steps'[m].attempts \in Nat /\ steps'[m].attempts >= steps[m].attempts
    BY <1>2
  <2>2. \A m \in Number : drives'[m] \in {0, drives[m]}
    BY <1>3
  <2> QED
    BY <1>1, <1>2, <2>1, <2>2, DrivesStillGood
<1>6. diligence' = diligence \/ (diligence = "owed" /\ diligence' = "kept" /\ n = handed)
  BY DEF AdvanceTask
<1>7. WordGood'
  <2>1. pc # "turn" => diligence' = "kept"
    BY <1>1, <1>6 DEF WordGood
  <2>2. handed # 0 => handed \in DOMAIN steps
    BY <1>1 DEF WordGood
  <2>3. ~(pc # "idle" /\ handed = 0)
    BY <1>1, <1>3 DEF WordGood, TaskGood
  <2>4. ASSUME pc = "turn", handed # 0, diligence' = "kept"
        PROVE  Is(steps', handed, {"done"}) \/ drives[handed] < steps'[handed].attempts
    BY <1>1, <1>2, <1>6, <2>2, <2>4 DEF WordGood
  <2>5. ASSUME pc = "judge" PROVE drives[handed] < steps'[handed].attempts
    BY <1>1, <1>2, <2>5 DEF WordGood, DaemonTyped
  <2> QED
    BY <1>2, <1>3, <2>1, <2>2, <2>3, <2>4, <2>5 DEF WordGood
<1>8. DoneCount' = DoneCount + 1
  BY CountGrows DEF Is, Settled
<1>9. PatienceGood'
  BY <1>1, <1>3, <1>8, CountIsNat DEF PatienceGood, RestsPatient, DaemonTyped
<1> QED
  BY <1>2, <1>4, <1>5, <1>7, <1>9

LEMMA AdvanceTaskGoesOn ==
  ASSUME TypeOK, GoesOn, NEW n \in DOMAIN steps, NEW status \in Status \ {"pending"},
         AdvanceTask(n, status)
  PROVE  GoesOn'
<1> SUFFICES ASSUME Orderly', diligence' # "broken"
             PROVE  StepsGood' /\ TaskGood' /\ DrivesGood' /\ WordGood' /\ PatienceGood'
  BY GoesOnThen DEF Diligent
<1> USE Groups, PlanDomain
<1>1. diligence # "broken" /\ ~Slack(n, status) /\ Advance(n, status)
  BY DEF AdvanceTask
<1>2. /\ ~Is(steps, n, Settled)
      /\ status \in {"running", "done", "failed"}
      /\ status \in Failed => status = "failed" /\ ~(steps[n].attempts + 1 >= MaxAttempts)
  BY <1>1, NotSlack
<1>3. steps[n].attempts \in Nat
  OBVIOUS
<1>4. status \notin Failed \/ steps[n].attempts + 1 < MaxAttempts
  BY <1>2, <1>3, Limits
<1>5. /\ Orderly
      /\ Becomes(n, status, IF status \in Failed THEN steps[n].attempts + 1 ELSE steps[n].attempts)
  BY <1>1, <1>4, AdvanceBecomes
<1>6. steps[n].attempts < MaxAttempts
  BY <1>1, <1>5, GoodBefore DEF StepsGood
<1>7. CASE status = "done"
  <2>1. Becomes(n, "done", steps[n].attempts)
    BY <1>5, <1>7 DEF Failed
  <2> QED
    BY <1>1, <1>2, <1>5, <1>7, <2>1, DoneMarkGoesOn
<1>8. CASE status = "running"
  <2>1. Becomes(n, "running", steps[n].attempts)
    BY <1>5, <1>8 DEF Failed
  <2> QED
    BY <1>1, <1>2, <1>3, <1>5, <1>6, <1>8, <2>1, OpenMarkGoesOn
<1>9. CASE status = "failed"
  <2>1. Becomes(n, "failed", steps[n].attempts + 1) /\ steps[n].attempts + 1 < MaxAttempts
    BY <1>4, <1>5, <1>9 DEF Failed
  <2>2. steps[n].attempts + 1 \in Nat
    BY <1>3
  <2> QED
    BY <1>1, <1>2, <1>5, <1>9, <2>1, <2>2, OpenMarkGoesOn
<1> QED
  BY <1>2, <1>7, <1>8, <1>9

LEMMA FinishTaskGoesOn ==
  ASSUME TypeOK, GoesOn, FinishTask
  PROVE  GoesOn'
<1> SUFFICES ASSUME Orderly', diligence' # "broken"
             PROVE  StepsGood' /\ TaskGood' /\ DrivesGood' /\ WordGood' /\ PatienceGood'
  BY GoesOnThen DEF Diligent
<1>1. StepsGood /\ TaskGood /\ DrivesGood /\ WordGood /\ PatienceGood
  BY GoodBefore DEF FinishTask, Orderly
<1>2. AllSettled(steps) /\ task' # "live" /\ UNCHANGED <<steps, daemonVars, diligence>>
  BY <1>1 DEF FinishTask, TaskGood
<1>3. StepsGood' /\ TaskGood' /\ DrivesGood' /\ WordGood'
  BY <1>1, <1>2 DEF StepsGood, TaskGood, DrivesGood, WordGood, daemonVars
<1>4. DoneCount' = DoneCount
  BY <1>2, CountStays DEF Completed
<1>5. PatienceGood'
  BY <1>1, <1>2, <1>4 DEF PatienceGood, RestsPatient, First, daemonVars
<1> QED
  BY <1>3, <1>5

\* A step at the end.  If it is the first, no turn was spent since the last was completed.
LEMMA AddStepGoesOn ==
  ASSUME TypeOK, GoesOn, NEW k \in Number, AddStep(k - 1)
  PROVE  GoesOn'
<1> SUFFICES ASSUME Orderly', diligence' # "broken"
             PROVE  StepsGood' /\ TaskGood' /\ DrivesGood' /\ WordGood' /\ PatienceGood'
  BY GoesOnThen DEF Diligent
<1> USE Groups, PlanDomain
<1>1. /\ {m \in DOMAIN steps : m <= k - 1} = DOMAIN steps
      /\ diligence' = diligence
  BY DEF AddStep
<1>2. k \in Nat /\ k # 0 /\ (k - 1) + 1 = k /\ \A m \in DOMAIN steps : m < k
  BY <1>1, Limits DEF Number
<1>3. steps' = [n \in DOMAIN steps \cup {k} |->
                   IF n <= k - 1 THEN steps[n] ELSE IF n = k THEN Fresh ELSE steps[n - 1]]
  BY <1>1, <1>2 DEF AddStep
<1>4. /\ DOMAIN steps' = DOMAIN steps \cup {k} /\ k \notin DOMAIN steps
      /\ \A m \in DOMAIN steps : steps'[m] = steps[m]
      /\ steps'[k] = Fresh
  BY <1>1, <1>2, <1>3
<1>7. UNCHANGED <<task, pc, handed, drives, lastDone, stagnant>> /\ task = "live"
  BY DEF AddStep, daemonVars
<1>8. Orderly
  BY <1>2, <1>4 DEF Orderly
<1>9. StepsGood /\ TaskGood /\ DrivesGood /\ WordGood /\ PatienceGood
  BY <1>1, <1>8, GoodBefore
<1>10. ~AllSettled(steps')
  BY <1>4 DEF AllSettled, Is, Fresh, Settled
<1>11. StepsGood'
  BY <1>4, <1>9, Limits DEF StepsGood, Fresh, Unmarked
<1>12. TaskGood'
  BY <1>4, <1>7 DEF TaskGood
<1>13. DrivesGood'
  <2>1. \A m \in Number : drives'[m] \in {0, drives[m]}
    BY <1>7
  <2>2. /\ \A m \in DOMAIN steps : steps'[m].attempts >= steps[m].attempts
        /\ \A m \in DOMAIN steps' : m \notin DOMAIN steps => steps'[m].attempts = 0
    BY <1>4 DEF Fresh
  <2>3. \A m \in DOMAIN steps' : steps'[m].attempts \in Nat
    BY <1>4 DEF Fresh
  <2> QED
    BY <1>4, <1>9, <2>1, <2>2, <2>3, DrivesStillGood
<1>14. WordGood'
  <2>1. handed \in DOMAIN steps => Is(steps', handed, {"done"}) = Is(steps, handed, {"done"})
    BY <1>4 DEF Is
  <2>2. ~(pc # "idle" /\ handed = 0)
    BY <1>7, <1>9 DEF WordGood
  <2>3. handed # 0 => handed \in DOMAIN steps
    BY <1>9 DEF WordGood
  <2>4. pc = "judge" => handed \in DOMAIN steps
    BY <2>2, <2>3
  <2> QED
    BY <1>1, <1>4, <1>7, <1>9, <2>1, <2>2, <2>3, <2>4 DEF WordGood
<1>15. DoneCount' = DoneCount
  <2>1. Completed' = Completed
    BY <1>4 DEF Completed, Is, Fresh
  <2> QED
    BY <2>1, CountStays
<1>16. ASSUME lastDone = DoneCount, NEW m \in DOMAIN steps', First(m)'
       PROVE  /\ stagnant <= steps'[m].attempts
              /\ pc # "idle" => m = handed
              /\ pc # "idle" /\ diligence = "kept" => stagnant < steps'[m].attempts
  <2>1. CASE m = k
    <3>1. \A j \in DOMAIN steps : Is(steps, j, Settled)
      BY <1>2, <1>4, <1>16, <2>1 DEF First, Is
    <3>2. AllSettled(steps)
      BY <1>9, <3>1 DEF AllSettled, TaskGood
    <3>3. stagnant = 0 /\ pc = "idle"
      BY <1>7, <1>9, <1>16, <3>2 DEF PatienceGood, RestsPatient, WordGood
    <3> QED
      BY <1>4, <2>1, <3>3 DEF Fresh
  <2>2. CASE m # k
    <3>1. m \in DOMAIN steps
      BY <1>4, <2>2
    <3>2. First(m)
      BY <1>4, <1>16, <3>1 DEF First, Is
    <3> QED
      BY <1>4, <1>9, <1>16, <3>1, <3>2 DEF PatienceGood
  <2> QED
    BY <2>1, <2>2
<1>17. PatienceGood'
  BY <1>1, <1>7, <1>9, <1>10, <1>15, <1>16 DEF PatienceGood, RestsPatient
<1> QED
  BY <1>11, <1>12, <1>13, <1>14, <1>17

-----------------------------------------------------------------------------
\* Lessons and the restart.

LEMMA LessonGoesOn ==
  ASSUME TypeOK, GoesOn, NEW n \in DOMAIN steps, Lesson(n)
  PROVE  GoesOn'
<1> SUFFICES ASSUME Orderly', diligence' # "broken"
             PROVE  StepsGood' /\ TaskGood' /\ DrivesGood' /\ WordGood' /\ PatienceGood'
  BY GoesOnThen DEF Diligent
<1> USE Groups, PlanDomain
<1>1. Becomes(n, "pending", steps[n].attempts)
  <2>1. steps \in Plan /\ "pending" \in Status /\ "pending" \notin Failed
    BY DEF PlanTyped, Status, Unmarked, Failed
  <2> QED
    BY <2>1, Marked DEF Lesson, Becomes
<1>2. Orderly /\ diligence # "broken" /\ diligence' = diligence
  BY <1>1, OrderlyBefore DEF Lesson
<1>3. StepsGood /\ TaskGood /\ DrivesGood /\ WordGood /\ PatienceGood
  BY <1>2, GoodBefore
<1>4. ~Is(steps, n, Settled) /\ steps[n].attempts < MaxAttempts
  BY <1>3 DEF Lesson, Is, Failed, Settled, StepsGood
<1>5. PlanTyped /\ "pending" \in Unmarked /\ steps[n].attempts \in Nat /\ steps[n].attempts <= steps[n].attempts
  BY DEF Unmarked
<1>6. /\ StepsGood' /\ DOMAIN steps' # {}
      /\ ~AllSettled(steps) /\ ~AllSettled(steps')
      /\ DoneCount' = DoneCount
      /\ DOMAIN steps' = DOMAIN steps
      /\ \A m \in DOMAIN steps : steps'[m].attempts \in Nat /\ steps'[m].attempts >= steps[m].attempts
      /\ \A k \in DOMAIN steps : First(k)' => First(k)
  BY <1>1, <1>3, <1>4, <1>5, OpenMark
<1>7. UNCHANGED <<task, pc, handed, drives, lastDone, stagnant>>
  BY DEF Lesson, daemonVars
<1>8. \A m \in DOMAIN steps : steps'[m].attempts = steps[m].attempts
  BY <1>1 DEF Becomes
<1>9. TaskGood'
  BY <1>3, <1>6, <1>7 DEF TaskGood
<1>10. DrivesGood'
  BY <1>3, <1>6, <1>7, <1>8 DEF DrivesGood
<1>11. Is(steps, handed, {"done"}) => Is(steps', handed, {"done"})
  BY <1>1, <1>4 DEF Becomes, Is, Settled
<1>12. WordGood'
  <2>1. ~(pc # "idle" /\ handed = 0)
    BY <1>3, <1>6 DEF WordGood
  <2>2. handed # 0 => handed \in DOMAIN steps
    BY <1>3 DEF WordGood
  <2>3. pc = "judge" => handed \in DOMAIN steps
    BY <2>1, <2>2
  <2> QED
    BY <1>2, <1>3, <1>6, <1>7, <1>8, <1>11, <2>1, <2>2, <2>3 DEF WordGood
<1>13. PatienceGood'
  BY <1>2, <1>3, <1>6, <1>7, <1>8 DEF PatienceGood, RestsPatient
<1> QED
  BY <1>6, <1>9, <1>10, <1>12, <1>13

LEMMA RestartGoesOn ==
  ASSUME TypeOK, GoesOn, Restart
  PROVE  GoesOn'
<1> SUFFICES ASSUME Orderly', diligence' # "broken"
             PROVE  StepsGood' /\ TaskGood' /\ DrivesGood' /\ WordGood' /\ PatienceGood'
  BY GoesOnThen DEF Diligent
<1> USE Groups, PlanDomain
<1>1. diligence # "broken" /\ diligence' = "kept"
  BY DEF Restart, DiligenceTyped
<1>2. StepsGood /\ TaskGood /\ DrivesGood /\ WordGood /\ PatienceGood
  BY <1>1, GoodBefore DEF Restart, Orderly
<1>3. StepsGood' /\ TaskGood'
  BY <1>2 DEF Restart, StepsGood, TaskGood
<1>4. DrivesGood'
  BY DEF Restart, DrivesGood
<1>5. WordGood'
  BY <1>1 DEF Restart, WordGood
<1>6. DoneCount' = DoneCount
  BY CountStays DEF Restart, Completed
<1>7. PatienceGood'
  BY <1>6, CountIsNat DEF Restart, PatienceGood, RestsPatient
<1> QED
  BY <1>3, <1>4, <1>5, <1>7

LEMMA InitGoesOn == Init => GoesOn
<1> SUFFICES ASSUME Init, Orderly PROVE Good
  BY DEF GoesOn, Diligent
<1>1. /\ steps \in Seq(Step) /\ Len(steps) \in 1..MaxSteps /\ PlanTyped
      /\ \A n \in DOMAIN steps : steps[n].status = "pending" /\ steps[n].attempts = 0
  BY StepsAssumption, InitTyped, Groups DEF Init
<1>2. StepsGood
  BY <1>1, Limits DEF StepsGood, Unmarked
<1>3. 1 \in DOMAIN steps /\ DOMAIN steps # {}
  BY <1>1, Limits
<1>4. ~AllSettled(steps)
  BY <1>1, <1>3 DEF AllSettled, Is, Settled
<1>5. TaskGood
  BY <1>3, <1>4 DEF TaskGood, Init
<1>6. DrivesGood
  BY <1>1 DEF DrivesGood, Init
<1>7. WordGood
  BY DEF WordGood, Init
<1>8. PatienceGood
  BY <1>1, CountIsNat DEF PatienceGood, RestsPatient, Init
<1> QED
  BY <1>2, <1>5, <1>6, <1>7, <1>8 DEF Good

LEMMA StutterGoesOn ==
  ASSUME GoesOn, UNCHANGED vars
  PROVE  GoesOn'
  BY DEF vars, daemonVars, GoesOn, Good, Diligent, Orderly, StepsGood, TaskGood, DrivesGood,
         WordGood, PatienceGood, RestsPatient, First, DoneCount

LEMMA StepGoesOn ==
  ASSUME TypeOK, GoesOn, [Next]_vars, RetryIsTiredFirst
  PROVE  GoesOn'
<1>1. CASE Continuation
  BY <1>1, DriveGoesOn, DriveNotGoesOn, FindsMarkedGoesOn, FindsNothingGoesOn, FindsUnmarkedGoesOn,
     ConfirmsGoesOn, CountsGoesOn, GivesUpGoesOn DEF Continuation, Judges
<1>2. CASE Tools
  <2>1. ASSUME NEW n, RemoveStep(n) \/ ResetStep(n) PROVE GoesOn'
    BY <2>1 DEF RemoveStep, ResetStep, GoesOn, Diligent
  <2> QED
    BY <1>2, <2>1, AdvanceTaskGoesOn, FinishTaskGoesOn, AddStepGoesOn DEF Tools
<1>3. CASE Restart
  BY <1>3, RestartGoesOn
<1>4. CASE \E n \in DOMAIN steps : Lesson(n)
  BY <1>4, LessonGoesOn
<1>5. CASE UNCHANGED vars
  BY <1>5, StutterGoesOn
<1> QED
  BY <1>1, <1>2, <1>3, <1>4, <1>5 DEF Next

\* With the code's limits, a plan without sub-steps whose turns mark what they are
\* handed never stalls, whatever fails, is learned, added at its end or restarted: the
\* safety that PlanIsWorkedOff rests on, for plans of any length.
THEOREM NeverStallsHolds ==
  ASSUME RetryIsTiredFirst
  PROVE  Spec => []NeverStalls
<1>1. Init => TypeOK /\ GoesOn
  BY InitTyped, InitGoesOn
<1>2. TypeOK /\ GoesOn /\ [Next]_vars => (TypeOK /\ GoesOn)'
  BY StepTyped, StepGoesOn
<1>3. TypeOK /\ GoesOn => NeverStalls
  BY GoodNeverStalls
<1> QED
  BY <1>1, <1>2, <1>3, PTL DEF Spec
=============================================================================
