-------------------------- MODULE Coordinator_proofs --------------------------
(***************************************************************************)
(* Proofs about the cognition slot, for any messages and faculties.  That  *)
(* the asyncio lock excludes is not enough: turns are tasks, so the proof  *)
(* ties every task that executes to the user that holds the slot for it.   *)
(***************************************************************************)
EXTENDS Coordinator, FiniteSetTheorems, TLAPS

LoopInSlot == {"starting", "turn", "releasing", "announcing"}
FacultyInSlot == {"announce", "thinking", "closing"}

\* The slot is held by the user whose code is inside "async with _cognition", and
\* a task that may execute belongs to that user.
SlotInv ==
    /\ loop \in LoopInSlot <=> slot = Loop
    /\ \A f \in Faculty : bg[f] \in FacultyInSlot <=> slot = f
    /\ turn # "none" => loop = "turn"
    /\ \A f \in Faculty : task[f] # "none" => bg[f] = "thinking"

\* What the proofs need of the types.
SlotType ==
    /\ bg \in [Faculty -> {"idle", "gate", "slot", "announce", "thinking", "closing"}]
    /\ task \in [Faculty -> {"none", "running", "cancelling", "done"}]
    /\ bgTask \in Faculty \cup {Nobody}

IInv == SlotType /\ SlotInv

LEMMA InitIInv == Init => IInv
  BY CoordinatorAssumption
  DEF Init, IInv, SlotType, SlotInv, LoopInSlot, FacultyInSlot

LEMMA NextIInv == IInv /\ [Next]_vars => IInv'
<1> SUFFICES ASSUME IInv, [Next]_vars PROVE IInv'
  OBVIOUS
<1> USE CoordinatorAssumption
    DEF IInv, SlotType, SlotInv, LoopInSlot, FacultyInSlot
<1>1. ASSUME NEW m \in Msg, Submit(m) PROVE IInv'
  BY <1>1 DEF Submit, SubmitYielding, YieldOver, SubmitDirectly, SubmitReturns,
              SubmitTimesOut, YielderCancelled, Enqueue, CanYield, LiveTask, callVars, runVars, bgVars
<1>2. CASE LoopTakes \/ LoopEnds \/ LeaseBusy \/ PauseOver \/ LeaseRaises
  BY <1>2 DEF LoopTakes, LoopEnds, LeaseBusy, PauseOver, LeaseRaises, runVars, bgVars
<1>3. CASE LeaseAcquired \/ LoopGetsSlot
  BY <1>3 DEF LeaseAcquired, LoopGetsSlot, StartRun, Barging, MyTurn, Free, runVars, bgVars
<1>4. CASE TurnBegins \/ LoopReleases \/ LeaseReleased \/ LoopAnswers
  BY <1>4 DEF TurnBegins, LoopReleases, LeaseReleased, LoopAnswers, runVars, bgVars
<1>5. CASE Turn
  BY <1>5 DEF Turn, TurnFinal, TurnCompletes, TurnFails, TurnNotices, TurnUnwinds,
              TurnEnds, LiveTurn, runVars, bgVars
<1>6. CASE Stop \/ Row
  BY <1>6 DEF Stop, CancelCurrent, HeartbeatLost, HeartbeatRenews, Preempted, Row,
              LeaseExpires, OtherClears, OtherTakes, OtherReleases, HardCancel, LiveTurn,
              runVars, bgVars
<1>7. ASSUME NEW f \in Faculty, Background(f) PROVE IInv'
  <2>1. CASE BgCalls(f) \/ BgShed(f) \/ TaskEnds(f)
    BY <2>1 DEF BgCalls, BgShed, TaskEnds, At, LiveTask, runVars, bgVars
  <2>2. CASE BgAsksSlot(f) \/ BgGetsSlot(f)
    BY <2>2 DEF BgAsksSlot, BgGetsSlot, BgEnters, Barging, MyTurn, Free, At, runVars, bgVars
  <2>3. CASE BgBegins(f) \/ BgCollects(f) \/ BgTimesOut(f) \/ BgReturns(f)
    BY <2>3 DEF BgBegins, BgCollects, BgTimesOut, BgReturns, At, LiveTask, runVars, bgVars
  <2>4. QED
    BY <1>7, <2>1, <2>2, <2>3 DEF Background
<1>8. CASE StrayEnds \/ UNCHANGED vars
  BY <1>8 DEF StrayEnds, vars, runVars, bgVars
<1>9. QED
  BY <1>1, <1>2, <1>3, <1>4, <1>5, <1>6, <1>7, <1>8 DEF Next, ProcessLoop

LEMMA Invariance == Spec => []IInv
  BY InitIInv, NextIInv, PTL DEF Spec

\* Whoever thinks holds the slot.
LEMMA ThinkersHoldSlot == IInv => Thinkers \subseteq {slot}
  BY CoordinatorAssumption
  DEF IInv, SlotType, SlotInv, Thinkers, LiveTask, LiveTurn, LoopInSlot, FacultyInSlot

LEMMA StepSimulates == IInv /\ [Next]_vars => [Abstract!Next]_Thinkers
<1> SUFFICES ASSUME IInv, [Next]_vars PROVE [Abstract!Next]_Thinkers
  OBVIOUS
<1> USE CoordinatorAssumption
    DEF Thinkers, LiveTask, LiveTurn, User, Abstract!Next, Abstract!Begin, Abstract!End
<1>t. SlotType
  BY DEF IInv
<1>1. ASSUME NEW m \in Msg, Submit(m) PROVE UNCHANGED Thinkers
  <2>1. CASE SubmitYielding(m)
    <3>1. bgTask \in Faculty /\ task[bgTask] \in {"running", "cancelling"}
      BY <1>t, <2>1 DEF SubmitYielding, CanYield, SlotType
    <3>2. turn' = turn /\ task' = [task EXCEPT ![bgTask] = "cancelling"]
      BY <2>1 DEF SubmitYielding, runVars
    <3>3. \A f \in Faculty : task'[f] \in {"running", "cancelling"}
                               <=> task[f] \in {"running", "cancelling"}
      BY <1>t, <3>1, <3>2 DEF SlotType
    <3>4. QED
      BY <3>2, <3>3
  <2>2. CASE YieldOver(m) \/ SubmitDirectly(m) \/ SubmitReturns(m) \/ SubmitTimesOut(m) \/ YielderCancelled(m)
    BY <2>2 DEF YieldOver, SubmitDirectly, SubmitReturns, SubmitTimesOut, YielderCancelled, runVars, bgVars
  <2>3. QED
    BY <1>1, <2>1, <2>2 DEF Submit
<1>2. CASE LoopTakes \/ LoopEnds \/ LeaseBusy \/ PauseOver \/ LeaseRaises
           \/ LeaseAcquired \/ LoopGetsSlot \/ LoopReleases \/ LeaseReleased \/ LoopAnswers
  BY <1>2 DEF LoopTakes, LoopEnds, LeaseBusy, PauseOver, LeaseRaises, LeaseAcquired,
              LoopGetsSlot, LoopReleases, LeaseReleased, LoopAnswers, StartRun,
              runVars, bgVars
<1>3. CASE TurnBegins
  <2>1. slot = Loop
    BY <1>3 DEF TurnBegins, IInv, SlotInv, LoopInSlot
  <2>2. Thinkers = {}
    BY <1>3, <2>1, ThinkersHoldSlot
    DEF TurnBegins, IInv, SlotInv, LoopInSlot
  <2>3. Thinkers' = {Loop}
    BY <1>3, <2>2 DEF TurnBegins, bgVars
  <2>4. QED
    BY <2>2, <2>3
<1>4. CASE TurnFinal
  BY <1>4 DEF TurnFinal, bgVars
<1>5. CASE TurnCompletes \/ TurnFails \/ TurnNotices \/ TurnUnwinds
  BY <1>5 DEF TurnCompletes, TurnFails, TurnNotices, TurnUnwinds, TurnEnds, bgVars
<1>6. CASE Stop \/ Row
  BY <1>6 DEF Stop, CancelCurrent, HeartbeatLost, HeartbeatRenews, Preempted, Row,
              LeaseExpires, OtherClears, OtherTakes, OtherReleases, HardCancel, runVars, bgVars
<1>7. ASSUME NEW f \in Faculty, Background(f) PROVE [Abstract!Next]_Thinkers
  <2>1. CASE BgCalls(f) \/ BgShed(f) \/ BgAsksSlot(f) \/ BgGetsSlot(f) \/ BgReturns(f)
    BY <2>1 DEF BgCalls, BgShed, BgAsksSlot, BgGetsSlot, BgReturns, runVars
  <2>2. CASE BgBegins(f)
    <3>1. slot = f /\ Thinkers \subseteq {f}
      BY <2>2, ThinkersHoldSlot DEF BgBegins, IInv, SlotInv, FacultyInSlot
    <3>2. Thinkers = {}
      BY <2>2, <3>1, <1>t DEF BgBegins, IInv, SlotInv, SlotType
    <3>3. turn' = turn /\ task' = [task EXCEPT ![f] = "running"]
      BY <2>2 DEF BgBegins, runVars
    <3>4. Thinkers' = {f}
      BY <1>t, <3>2, <3>3 DEF SlotType
    <3>5. QED
      BY <3>2, <3>4
  <2>3. CASE TaskEnds(f) \/ BgTimesOut(f)
    <3>1. turn' = turn /\ f \in Thinkers /\ Thinkers' = Thinkers \ {f}
      BY <1>t, <2>3 DEF TaskEnds, BgTimesOut, SlotType, runVars
    <3>2. QED
      BY <3>1
  <2>4. CASE BgCollects(f)
    BY <1>t, <2>4 DEF BgCollects, SlotType, runVars
  <2>5. QED
    BY <1>7, <2>1, <2>2, <2>3, <2>4 DEF Background
<1>8. CASE StrayEnds \/ UNCHANGED vars
  BY <1>8 DEF StrayEnds, vars, runVars, bgVars
<1>9. QED
  BY <1>1, <1>2, <1>3, <1>4, <1>5, <1>6, <1>7, <1>8 DEF Next, ProcessLoop, Turn

\* The cognition slot implements "one thing at a time": a turn of the foreground
\* or of a faculty begins only when no other is executing.  (A background turn
\* that outlasts its timeout is abandoned: for the slot it has ended.)
THEOREM SlotImplementsOneTurn == Spec => ImplementsOneTurn
<1>1. Init => Abstract!Init
  BY DEF Init, Abstract!Init, Thinkers, LiveTask, LiveTurn
<1>2. QED
  BY <1>1, StepSimulates, Invariance, PTL DEF Spec, ImplementsOneTurn, Abstract!Spec

-----------------------------------------------------------------------------
\* _fg_waiting counts the callers that wait, whose increment comes before the first
\* await and whose decrement is in a finally block, and those cancelled before it.
Counted == {m \in Msg : sub[m] \in {"yielding", "waiting", "leaked"}}
DemandInv ==
    /\ sub \in [Msg -> {"new", "yielding", "waiting", "answered", "timedout", "leaked"}]
    /\ demand = Cardinality(Counted)

LEMMA CountedFinite == IsFiniteSet(Counted)
  BY CoordinatorAssumption, FS_Subset DEF Counted

LEMMA NoDemand == ASSUME DemandInv, demand = 0 PROVE Waiting = {}
<1>1. Counted = {}
  BY CountedFinite, FS_EmptySet DEF DemandInv
<1>2. QED
  BY <1>1 DEF Counted, Waiting

LEMMA NextDemandInv == DemandInv /\ [Next]_vars => DemandInv'
<1> SUFFICES ASSUME DemandInv, [Next]_vars PROVE DemandInv'
  OBVIOUS
<1>t. sub \in [Msg -> {"new", "yielding", "waiting", "answered", "timedout", "leaked"}]
  BY DEF DemandInv
<1>1. ASSUME NEW m \in Msg, SubmitYielding(m) \/ SubmitDirectly(m) PROVE DemandInv'
  <2>1. m \notin Counted /\ demand' = demand + 1
    BY <1>1 DEF SubmitYielding, SubmitDirectly, Counted
  <2>2. Counted' = Counted \cup {m} /\ sub' \in [Msg -> {"new", "yielding", "waiting", "answered", "timedout", "leaked"}]
    BY <1>1, <1>t DEF SubmitYielding, SubmitDirectly, Enqueue, Counted
  <2>3. Cardinality(Counted \cup {m}) = Cardinality(Counted) + 1
    BY <2>1, CountedFinite, FS_AddElement
  <2>4. QED
    BY <2>1, <2>2, <2>3 DEF DemandInv
<1>2. ASSUME NEW m \in Msg, YieldOver(m) PROVE DemandInv'
  BY <1>2, <1>t DEF YieldOver, Enqueue, Counted, DemandInv
<1>3. ASSUME NEW m \in Msg, SubmitReturns(m) \/ SubmitTimesOut(m) PROVE DemandInv'
  <2>1. m \in Counted /\ demand' = demand - 1
    BY <1>3 DEF SubmitReturns, SubmitTimesOut, Counted
  <2>2. Counted' = Counted \ {m} /\ sub' \in [Msg -> {"new", "yielding", "waiting", "answered", "timedout", "leaked"}]
    BY <1>3, <1>t DEF SubmitReturns, SubmitTimesOut, Counted
  <2>3. Cardinality(Counted \ {m}) = Cardinality(Counted) - 1
    BY <2>1, CountedFinite, FS_RemoveElement
  <2>4. QED
    BY <2>1, <2>2, <2>3 DEF DemandInv
<1>w. ASSUME NEW m \in Msg, YielderCancelled(m) PROVE DemandInv'
  BY <1>w, <1>t DEF YielderCancelled, Counted, DemandInv
<1>4. ASSUME ProcessLoop \/ Turn \/ Stop \/ Row \/ StrayEnds
             \/ (\E f \in Faculty : Background(f)) \/ UNCHANGED vars
      PROVE  UNCHANGED <<sub, demand>>
  BY <1>4
  DEF ProcessLoop, LoopTakes, LoopEnds, LeaseBusy, PauseOver,
      LeaseRaises, LeaseAcquired, LoopGetsSlot, TurnBegins, LoopReleases,
      LeaseReleased, LoopAnswers, Turn, TurnFinal, TurnCompletes, TurnFails,
      TurnNotices, TurnUnwinds, TurnEnds, Stop, CancelCurrent, HeartbeatLost,
      HeartbeatRenews, Preempted, Row, LeaseExpires, OtherClears, OtherTakes, OtherReleases,
      StrayEnds, Background, BgCalls, BgShed, BgAsksSlot, BgGetsSlot, BgBegins,
      TaskEnds, BgCollects, BgTimesOut, BgReturns, vars, callVars
<1>5. UNCHANGED <<sub, demand>> => DemandInv'
  BY DEF DemandInv, Counted
<1>6. QED
  BY <1>1, <1>2, <1>3, <1>w, <1>4, <1>5 DEF Next, Submit

LEMMA DemandCounts == Spec => []DemandInv
<1>1. Init => DemandInv
  <2> SUFFICES ASSUME Init PROVE DemandInv
    OBVIOUS
  <2>1. Counted = {}
    BY DEF Init, Counted
  <2>2. QED
    BY <2>1, FS_EmptySet DEF Init, DemandInv
<1>2. QED
  BY <1>1, NextDemandInv, PTL DEF Spec

\* Whatever timed out, returned or was answered in between, a faculty that obtains
\* the slot for a turn does so while no caller of submit waits.
THEOREM PriorityAtTheDoorHolds == Spec => PriorityAtTheDoor
<1>1. IInv /\ DemandInv /\ [Next]_vars =>
        [\A f \in Faculty : bg[f] # "announce" /\ bg'[f] = "announce" => Waiting = {}]_vars
  <2> SUFFICES ASSUME IInv, DemandInv, [Next]_vars,
                      NEW g \in Faculty, bg[g] # "announce", bg'[g] = "announce"
               PROVE  Waiting = {}
    OBVIOUS
  <2>1. demand = 0
    BY DEF IInv, SlotType,
      Next, Submit, SubmitYielding, YieldOver, SubmitDirectly, SubmitReturns,
      SubmitTimesOut, YielderCancelled, Enqueue, ProcessLoop, LoopTakes, LoopEnds, LeaseBusy, PauseOver,
      LeaseRaises, LeaseAcquired, LoopGetsSlot, TurnBegins, LoopReleases,
      LeaseReleased, LoopAnswers, Turn, TurnFinal, TurnCompletes, TurnFails,
      TurnNotices, TurnUnwinds, TurnEnds, Stop, CancelCurrent, HeartbeatLost,
      HeartbeatRenews, Preempted, Row, LeaseExpires, OtherClears, OtherTakes, OtherReleases,
      StrayEnds, Background, BgCalls, BgShed, BgAsksSlot, BgGetsSlot, BgEnters, At,
      BgBegins, TaskEnds, BgCollects, BgTimesOut, BgReturns, vars, bgVars
  <2>2. QED
    BY <2>1, NoDemand
<1>2. QED
  BY <1>1, Invariance, DemandCounts, PTL DEF Spec, PriorityAtTheDoor

-----------------------------------------------------------------------------
\* Types.  The queues are sequences that only Append and Tail change.

Calls ==
    /\ sub \in [Msg -> {"new", "yielding", "waiting", "answered", "timedout", "leaked"}]
    /\ future \in [Msg -> {"none", "pending", "abandoned", "completed", "cancelled", "error"}]
    /\ queue \in Seq(Msg)
    /\ cur \in Msg \cup {Nobody}
    /\ loop \in {"none", "get", "acquiring", "pause", "slot", "starting", "turn",
                 "releasing", "announcing"}
\* A message is in the loop's hands exactly while it handles one.
InHand == cur # Nobody <=> loop \notin {"none", "get", "pause"}
Runs ==
    /\ current \in {"none", "running", "cancelling", "idle"}
    /\ turn \in {"none", "running", "final", "cancelling", "done"}
    /\ outcome \in {"none", "completed", "cancelled", "error"}
    /\ turn = "done" => outcome # "none"
    /\ loop \in {"releasing", "announcing"} => outcome # "none"
    /\ told \in [Msg -> {"no", "in time", "late"}]
    /\ ran \in [Msg -> Nat]
    /\ current = "running" => loop \in {"starting", "turn", "releasing"}
Flags == flagged \in BOOLEAN /\ event \in BOOLEAN /\ asked \in BOOLEAN
Slots ==
    /\ lease \in {"free", "mine", "expired", "other"}
    /\ slot \in User \cup {Nobody}
    /\ slotQueue \in Seq(User)
    /\ stray \in 0..MaxStray
    /\ faults \in 0..MaxFaults
    /\ others \in 0..MaxOthers

Typed == Calls /\ InHand /\ Runs /\ Slots

LEMMA InitTyped == Init => Typed
  BY CoordinatorAssumption DEF Init, Typed, Calls, InHand, Runs, Slots, User

LEMMA FlagsInvariant == Spec => []Flags
<1>1. Init => Flags
  BY DEF Init, Flags
<1>2. Flags /\ [Next]_vars => Flags'
  <2> SUFFICES ASSUME Flags, [Next]_vars PROVE Flags'
    OBVIOUS
  <2>1. ASSUME UNCHANGED <<flagged, event, asked>> PROVE Flags'
    BY <2>1 DEF Flags
  <2>2. CASE LeaseAcquired \/ LoopGetsSlot
    <3>1. StartRun \/ UNCHANGED <<flagged, event, asked>>
      BY <2>2 DEF LeaseAcquired, LoopGetsSlot
    <3>2. StartRun => Flags'
      BY Zenon DEF StartRun, Flags
    <3>3. QED
      BY <3>1, <3>2, <2>1
  <2>3. CASE Stop
    BY <2>3, Zenon DEF Stop, CancelCurrent, HeartbeatLost, HeartbeatRenews, Preempted,
                       runVars, history, Flags
  <2>4. ASSUME \/ \E m \in Msg : Submit(m)
               \/ LoopTakes \/ LoopEnds \/ LeaseBusy \/ PauseOver \/ LeaseRaises
               \/ TurnBegins \/ LoopReleases \/ LeaseReleased \/ LoopAnswers
               \/ Turn \/ Row \/ StrayEnds
               \/ \E f \in Faculty : Background(f)
               \/ UNCHANGED vars
        PROVE  UNCHANGED <<flagged, event, asked>>
    BY <2>4
    DEF Submit, SubmitYielding, YieldOver, SubmitDirectly, SubmitReturns,
        SubmitTimesOut, YielderCancelled, LoopTakes, LoopEnds, LeaseBusy, PauseOver,
        LeaseRaises, TurnBegins, LoopReleases,
        LeaseReleased, LoopAnswers, Turn, TurnFinal, TurnCompletes, TurnFails,
        TurnNotices, TurnUnwinds, TurnEnds, Row, LeaseExpires, OtherClears, OtherTakes, OtherReleases,
        StrayEnds, Background, BgCalls, BgShed, BgAsksSlot, BgGetsSlot,
        BgBegins, TaskEnds, BgCollects, BgTimesOut, BgReturns, vars, runVars, history
  <2>5. QED
    BY <2>1, <2>2, <2>3, <2>4 DEF Next, ProcessLoop
<1>3. QED
  BY <1>1, <1>2, PTL DEF Spec

LEMMA TypedTypeOK == ASSUME Typed, Flags, IInv, DemandInv PROVE TypeOK
<1>1. demand \in 0..Cardinality(Msg)
  <2>1. Counted \subseteq Msg /\ IsFiniteSet(Msg)
    BY CoordinatorAssumption DEF Counted
  <2>2. Cardinality(Counted) <= Cardinality(Msg) /\ IsFiniteSet(Counted)
    BY <2>1, FS_Subset
  <2>3. Cardinality(Counted) \in Nat /\ Cardinality(Msg) \in Nat
    BY <2>1, <2>2, FS_CardinalityType
  <2>4. QED
    BY <2>2, <2>3 DEF DemandInv
<1>2. QED
  BY <1>1, Zenon DEF Typed, Calls, Runs, Flags, Slots, IInv, SlotType, DemandInv, TypeOK

\* What leaves the variables of a group alone leaves its types alone.
RunsRead == <<current, turn, outcome, loop, told, ran>>
SlotsRead == <<lease, slot, slotQueue, stray, faults, others>>
LEMMA CallsKept == ASSUME Calls, InHand, UNCHANGED <<sub, future, queue, cur, loop>>
                   PROVE  Calls' /\ InHand'
  BY DEF Calls, InHand
LEMMA RunsKept == ASSUME Runs, UNCHANGED RunsRead PROVE Runs'
  BY DEF Runs, RunsRead
LEMMA SlotsKept == ASSUME Slots, UNCHANGED SlotsRead PROVE Slots'
  BY DEF Slots, SlotsRead

LEMMA SubmitTyped == ASSUME Typed, NEW m \in Msg, Submit(m) PROVE Typed'
<1> USE CoordinatorAssumption
<1>1. Runs' /\ Slots'
  <2>1. UNCHANGED <<runVars, told, ran, asked, lease, slot, slotQueue, stray, faults, others>>
    BY DEF Submit, SubmitYielding, YieldOver, SubmitDirectly, SubmitReturns,
           SubmitTimesOut, YielderCancelled, history, bgVars
  <2>2. loop' = loop \/ (loop = "none" /\ loop' = "get")
    BY DEF Submit, SubmitYielding, YieldOver, SubmitDirectly, SubmitReturns,
           SubmitTimesOut, YielderCancelled, Enqueue
  <2>3. QED
    BY <2>1, <2>2 DEF Typed, Runs, Slots, runVars
<1>2. Calls' /\ InHand'
  <2>1. CASE SubmitYielding(m) \/ SubmitReturns(m) \/ SubmitTimesOut(m) \/ YielderCancelled(m)
    BY <2>1 DEF SubmitYielding, SubmitReturns, SubmitTimesOut, YielderCancelled, Typed, Calls, InHand
  <2>2. CASE YieldOver(m) \/ SubmitDirectly(m)
    <3>1. Enqueue(m) /\ cur' = cur
      BY <2>2 DEF YieldOver, SubmitDirectly
    <3>2. QED
      BY <3>1 DEF Enqueue, Typed, Calls, InHand
  <2>3. QED
    BY <2>1, <2>2 DEF Submit
<1>3. QED
  BY <1>1, <1>2 DEF Typed

LEMMA LoopTyped == ASSUME Typed, IInv, ProcessLoop PROVE Typed'
<1> USE CoordinatorAssumption
<1>1. CASE LoopTakes \/ LoopEnds \/ LeaseBusy \/ PauseOver \/ LeaseRaises
  <2>1. UNCHANGED <<runVars, told, ran, asked, lease, slot, slotQueue, stray, others>>
    BY <1>1 DEF LoopTakes, LoopEnds, LeaseBusy, PauseOver, LeaseRaises, history, bgVars
  <2>2. faults' \in 0..MaxFaults
    BY <1>1 DEF LoopTakes, LoopEnds, LeaseBusy, PauseOver, LeaseRaises, Typed, Slots
  <2>3. loop \in {"get", "acquiring", "pause"} /\ loop' \in {"none", "get", "acquiring", "pause"}
    BY <1>1 DEF LoopTakes, LoopEnds, LeaseBusy, PauseOver, LeaseRaises
  <2>4. Runs' /\ Slots'
    BY <2>1, <2>2, <2>3 DEF Typed, Runs, Slots, runVars
  <2>5. Calls' /\ InHand'
    BY <1>1 DEF LoopTakes, LoopEnds, LeaseBusy, PauseOver, LeaseRaises, callVars, Typed,
                Calls, InHand
  <2>6. QED
    BY <2>4, <2>5 DEF Typed
<1>2. CASE LeaseAcquired \/ LoopGetsSlot
  <2>1. UNCHANGED <<callVars, cur, outcome, turn, told, ran, stray, faults, others>>
    BY <1>2 DEF LeaseAcquired, LoopGetsSlot, bgVars
  <2>2. loop \in {"acquiring", "slot"} /\ loop' \in {"slot", "starting"} /\ turn = "none"
    BY <1>2 DEF LeaseAcquired, LoopGetsSlot, StartRun, IInv, SlotInv
  <2>3. Calls' /\ InHand'
    BY <2>1, <2>2 DEF callVars, Typed, Calls, InHand
  <2>4. current' = current \/ (current' = "running" /\ loop' = "starting")
    BY <1>2 DEF LeaseAcquired, LoopGetsSlot, StartRun
  <2>5. Runs'
    BY <2>1, <2>2, <2>4 DEF Typed, Runs
  <2>6. lease' \in {"mine", lease} /\ slot' \in {slot, Loop}
    BY <1>2 DEF LeaseAcquired, LoopGetsSlot, StartRun
  <2>7. \/ slotQueue' \in {slotQueue, Append(slotQueue, Loop)}
        \/ slotQueue # <<>> /\ slotQueue' = Tail(slotQueue)
    BY <1>2 DEF LeaseAcquired, LoopGetsSlot, MyTurn
  <2>8. Loop \in User /\ slotQueue \in Seq(User)
    BY DEF User, Typed, Slots
  <2>9. slotQueue' \in Seq(User)
    BY <2>7, <2>8
  <2>10. Slots'
    BY <2>1, <2>6, <2>8, <2>9 DEF Typed, Slots
  <2>11. QED
    BY <2>3, <2>5, <2>10 DEF Typed
<1>3. CASE TurnBegins
  <2>1. cur \in Msg
    BY <1>3 DEF TurnBegins, Typed, Calls, InHand
  <2>r. ran \in [Msg -> Nat] /\ ran' = [ran EXCEPT ![cur] = @ + 1]
    BY <1>3 DEF TurnBegins, Typed, Runs
  <2>2. ran' \in [Msg -> Nat]
    BY <2>1, <2>r
  <2>3. Runs'
    BY <1>3, <2>2 DEF TurnBegins, Typed, Runs
  <2>4. Calls' /\ InHand'
    BY <1>3 DEF TurnBegins, callVars, Typed, Calls, InHand
  <2>5. Slots'
    BY <1>3, SlotsKept DEF TurnBegins, SlotsRead, bgVars, Typed
  <2>6. QED
    BY <2>3, <2>4, <2>5 DEF Typed
<1>4. CASE LoopReleases
  <2>1. Runs'
    BY <1>4 DEF LoopReleases, history, Typed, Runs
  <2>2. Calls' /\ InHand'
    BY <1>4 DEF LoopReleases, callVars, Typed, Calls, InHand
  <2>3. Slots'
    BY <1>4, SlotsKept DEF LoopReleases, SlotsRead, bgVars, Typed
  <2>4. QED
    BY <2>1, <2>2, <2>3 DEF Typed
<1>5. CASE LeaseReleased
  <2>1. Runs'
    BY <1>5 DEF LeaseReleased, history, Typed, Runs
  <2>2. Calls' /\ InHand'
    BY <1>5 DEF LeaseReleased, callVars, Typed, Calls, InHand
  <2>3. Slots'
    BY <1>5 DEF LeaseReleased, bgVars, Typed, Slots
  <2>4. QED
    BY <2>1, <2>2, <2>3 DEF Typed
<1>6. CASE LoopAnswers
  <2>1. Runs'
    BY <1>6 DEF LoopAnswers, history, IInv, SlotInv, Typed, Runs
  <2>2. Calls' /\ InHand'
    BY <1>6 DEF LoopAnswers, Typed, Calls, InHand, Runs
  <2>3. Slots'
    BY <1>6 DEF LoopAnswers, bgVars, Typed, Slots
  <2>4. QED
    BY <2>1, <2>2, <2>3 DEF Typed
<1>7. QED
  BY <1>1, <1>2, <1>3, <1>4, <1>5, <1>6 DEF ProcessLoop

LEMMA TurnTyped == ASSUME Typed, IInv, Turn \/ Stop \/ Row PROVE Typed'
<1>1. Calls' /\ InHand'
  <2>1. UNCHANGED <<sub, future, queue, cur, loop>>
    BY DEF Turn, TurnFinal, TurnCompletes, TurnFails, TurnNotices, TurnUnwinds, TurnEnds,
           Stop, CancelCurrent, HeartbeatLost, HeartbeatRenews, Preempted, Row,
           LeaseExpires, OtherClears, OtherTakes, OtherReleases, callVars
  <2>2. QED
    BY <2>1, CallsKept DEF Typed
<1>2. Slots'
  <2>1. UNCHANGED <<slot, slotQueue, stray, faults>> /\ lease' \in {lease, "free", "mine", "expired", "other"}
    BY DEF Turn, TurnFinal, TurnCompletes, TurnFails, TurnNotices, TurnUnwinds, TurnEnds,
           Stop, CancelCurrent, HeartbeatLost, HeartbeatRenews, Preempted, Row,
           LeaseExpires, OtherClears, OtherTakes, OtherReleases, bgVars
  <2>2. others' = others \/ (others < MaxOthers /\ others' = others + 1)
    BY DEF Turn, TurnFinal, TurnCompletes, TurnFails, TurnNotices, TurnUnwinds, TurnEnds,
           Stop, CancelCurrent, HeartbeatLost, HeartbeatRenews, Preempted, Row,
           LeaseExpires, OtherClears, OtherTakes, OtherReleases
  <2>3. others' \in 0..MaxOthers
    BY <2>2, CoordinatorAssumption DEF Typed, Slots
  <2>4. QED
    BY <2>1, <2>3 DEF Typed, Slots
<1>3. CASE Turn
  <2>1. UNCHANGED <<current, told, ran, loop>>
    BY <1>3 DEF Turn, TurnFinal, TurnCompletes, TurnFails, TurnNotices, TurnUnwinds, TurnEnds,
                history
  <2>2. /\ loop = "turn"
        /\ \/ turn' = "final" /\ outcome' = outcome
           \/ turn' = "done" /\ outcome' \in {"completed", "cancelled", "error"}
    BY <1>3 DEF Turn, TurnFinal, TurnCompletes, TurnFails, TurnNotices, TurnUnwinds,
                TurnEnds, LiveTurn, IInv, SlotInv
  <2>3. Runs'
    BY <2>1, <2>2 DEF Typed, Runs
  <2>4. QED
    BY <1>1, <1>2, <2>3 DEF Typed
<1>4. CASE Stop
  <2>1. /\ UNCHANGED <<outcome, ran, loop>>
        /\ current' = current \/ current' = "cancelling"
        /\ turn' = turn \/ turn' = "cancelling"
    BY <1>4 DEF Stop, CancelCurrent, HeartbeatLost, HeartbeatRenews, Preempted, HardCancel,
                runVars, history
  <2>2. told' \in [Msg -> {"no", "in time", "late"}]
    BY <1>4 DEF Stop, CancelCurrent, HeartbeatLost, HeartbeatRenews, Preempted, history,
                Typed, Runs
  <2>3. Runs'
    BY <2>1, <2>2 DEF Typed, Runs
  <2>4. QED
    BY <1>1, <1>2, <2>3 DEF Typed
<1>5. CASE Row
  <2>1. UNCHANGED RunsRead
    BY <1>5 DEF Row, LeaseExpires, OtherClears, OtherTakes, OtherReleases, runVars, history, RunsRead
  <2>2. QED
    BY <1>1, <1>2, <2>1, RunsKept DEF Typed
<1>6. QED
  BY <1>3, <1>4, <1>5

LEMMA BackgroundTyped ==
  ASSUME Typed, (\E f \in Faculty : Background(f)) \/ StrayEnds \/ UNCHANGED vars
  PROVE  Typed'
<1>1. UNCHANGED <<sub, future, queue, cur, loop>> /\ UNCHANGED RunsRead
      /\ UNCHANGED <<lease, faults, others>>
  BY DEF Background, BgCalls, BgShed, BgAsksSlot, BgGetsSlot, BgBegins, TaskEnds,
         BgCollects, BgTimesOut, BgReturns, StrayEnds, vars, callVars, runVars, history,
         RunsRead
<1>2. stray' \in 0..MaxStray
  BY CoordinatorAssumption
  DEF Background, BgCalls, BgShed, BgAsksSlot, BgGetsSlot, BgBegins, TaskEnds,
      BgCollects, BgTimesOut, BgReturns, StrayEnds, vars, bgVars, Typed, Slots
<1>3. slot' \in User \cup {Nobody} /\ slotQueue' \in Seq(User)
  <2>1. slot \in User \cup {Nobody} /\ slotQueue \in Seq(User)
    BY DEF Typed, Slots
  <2>2. CASE StrayEnds \/ UNCHANGED vars
    BY <2>1, <2>2 DEF StrayEnds, vars
  <2>3. ASSUME NEW f \in Faculty, Background(f)
        PROVE  slot' \in User \cup {Nobody} /\ slotQueue' \in Seq(User)
    <3>1. f \in User
      BY DEF User
    <3>2. slot' \in {slot, f, Nobody}
      BY <2>3 DEF Background, BgCalls, BgShed, BgAsksSlot, BgGetsSlot, BgEnters, BgBegins,
                  TaskEnds, BgCollects, BgTimesOut, BgReturns
    <3>3. \/ slotQueue' \in {slotQueue, Append(slotQueue, f)}
          \/ slotQueue # <<>> /\ slotQueue' = Tail(slotQueue)
      BY <2>3 DEF Background, BgCalls, BgShed, BgAsksSlot, BgGetsSlot, MyTurn, BgBegins,
                  TaskEnds, BgCollects, BgTimesOut, BgReturns
    <3>4. QED
      BY <2>1, <3>1, <3>2, <3>3
  <2>4. QED
    BY <2>2, <2>3
<1>4. Slots'
  BY <1>1, <1>2, <1>3 DEF Typed, Slots
<1>5. QED
  BY <1>1, <1>4, CallsKept, RunsKept DEF Typed

LEMMA NextTyped == Typed /\ IInv /\ [Next]_vars => Typed'
  BY SubmitTyped, LoopTyped, TurnTyped, BackgroundTyped DEF Next

\* The types hold, for every number of messages and faculties.
THEOREM TypeCorrect == Spec => []TypeOK
<1>1. Typed /\ Flags /\ IInv /\ DemandInv => TypeOK
  BY TypedTypeOK
<1>2. QED
  BY <1>1, NextTyped, InitTyped, FlagsInvariant, Invariance, DemandCounts, PTL DEF Spec

-----------------------------------------------------------------------------
\* A message runs once: it is in one place at a time.

In(s, m) == \E i \in 1..Len(s) : s[i] = m
Distinct(s) == \A i, j \in 1..Len(s) : s[i] = s[j] => i = j

LEMMA Appended ==
  ASSUME NEW S, NEW s \in Seq(S), NEW m \in S
  PROVE  /\ \A x : In(Append(s, m), x) => In(s, x) \/ x = m
         /\ Distinct(s) /\ ~In(s, m) => Distinct(Append(s, m))
<1> DEFINE t == Append(s, m)
<1>1. Len(s) \in Nat /\ Len(t) = Len(s) + 1 /\ t[Len(s) + 1] = m
      /\ \A i \in 1..Len(s) : t[i] = s[i]
  OBVIOUS
<1>2. 1..Len(t) = 1..Len(s) \cup {Len(s) + 1}
  BY <1>1
<1> HIDE DEF t
<1>3. \A x : In(t, x) => In(s, x) \/ x = m
  BY <1>1, <1>2 DEF In
<1>4. Distinct(s) /\ ~In(s, m) => Distinct(t)
  BY <1>1, <1>2 DEF In, Distinct
<1>5. QED
  BY <1>3, <1>4 DEF t

LEMMA TakenFrom ==
  ASSUME NEW S, NEW s \in Seq(S), s # <<>>, Distinct(s)
  PROVE  /\ Head(s) \in S /\ In(s, Head(s))
         /\ Distinct(Tail(s)) /\ ~In(Tail(s), Head(s))
         /\ \A x : In(Tail(s), x) => In(s, x)
<1> DEFINE t == Tail(s)
<1>1. /\ Len(s) \in Nat /\ Len(s) >= 1 /\ Len(t) = Len(s) - 1 /\ Head(s) = s[1] /\ Head(s) \in S
      /\ \A i \in 1..Len(t) : t[i] = s[i + 1]
  OBVIOUS
<1>2. \A i \in 1..Len(t) : i + 1 \in 1..Len(s) /\ i + 1 # 1 /\ t[i] = s[i + 1]
  BY <1>1
<1>3. 1 \in 1..Len(s)
  BY <1>1
<1> HIDE DEF t
<1>4. Distinct(t)
  <2> SUFFICES ASSUME NEW i \in 1..Len(t), NEW j \in 1..Len(t), t[i] = t[j] PROVE i = j
    BY DEF Distinct
  <2>1. i + 1 = j + 1
    BY <1>2 DEF Distinct
  <2>2. QED
    BY <2>1, <1>1
<1>5. ~In(t, s[1])
  BY <1>2, <1>3 DEF In, Distinct
<1>6. \A x : In(t, x) => In(s, x)
  BY <1>2 DEF In
<1>7. QED
  BY <1>1, <1>3, <1>4, <1>5, <1>6 DEF t, In

\* It has not been taken up: nothing has run, and no cancel was about it.
Fresh(m) == ran[m] = 0 /\ told[m] = "no"
OnePlace ==
    /\ Distinct(queue)
    /\ \A m \in Msg :
          /\ ran[m] <= 1
          /\ In(queue, m) => Fresh(m) /\ m # cur /\ sub[m] \notin {"new", "yielding"}
          /\ sub[m] \in {"new", "yielding"} => Fresh(m) /\ m # cur
          /\ m = cur /\ loop \in {"acquiring", "slot", "starting"} => ran[m] = 0
          /\ m = cur /\ loop \in {"acquiring", "slot"} => told[m] = "no"

LEMMA SubmitOnePlace ==
  ASSUME Typed, OnePlace, NEW m \in Msg, Submit(m)
  PROVE  OnePlace'
<1>u. sub \in [Msg -> {"new", "yielding", "waiting", "answered", "timedout", "leaked"}] /\ queue \in Seq(Msg)
  BY DEF Typed, Calls
<1>1. UNCHANGED <<cur, ran, told>>
  BY DEF Submit, SubmitYielding, YieldOver, SubmitDirectly, SubmitReturns, SubmitTimesOut, YielderCancelled, history
<1>2. CASE SubmitYielding(m) \/ SubmitReturns(m) \/ SubmitTimesOut(m) \/ YielderCancelled(m)
  <2>1. UNCHANGED <<queue, loop>>
    BY <1>2 DEF SubmitYielding, SubmitReturns, SubmitTimesOut, YielderCancelled
  <2>2. \A n \in Msg : /\ sub'[n] \in {"new", "yielding"} => sub[n] \in {"new", "yielding"}
                       /\ sub[n] \notin {"new", "yielding"} => sub'[n] \notin {"new", "yielding"}
    BY <1>2, <1>u DEF SubmitYielding, SubmitReturns, SubmitTimesOut, YielderCancelled
  <2>3. QED
    BY <1>1, <2>1, <2>2 DEF OnePlace, Fresh
<1>3. CASE YieldOver(m) \/ SubmitDirectly(m)
  <2>1. sub[m] \in {"new", "yielding"} /\ Enqueue(m)
    BY <1>3 DEF YieldOver, SubmitDirectly
  <2>2. queue' = Append(queue, m) /\ sub' = [sub EXCEPT ![m] = "waiting"]
        /\ (loop' = loop \/ loop' = "get")
    BY <2>1 DEF Enqueue
  <2>3. ~In(queue, m) /\ Fresh(m) /\ m # cur
    BY <2>1 DEF OnePlace
  <2>4. Distinct(queue') /\ \A x : In(queue', x) => In(queue, x) \/ x = m
    BY <2>2, <2>3, <1>u, Appended DEF OnePlace
  <2>5. sub'[m] = "waiting" /\ \A n \in Msg \ {m} : sub'[n] = sub[n]
    BY <2>2, <1>u
  <2>6. QED
    BY <1>1, <2>2, <2>3, <2>4, <2>5 DEF OnePlace, Fresh
<1>4. QED
  BY <1>2, <1>3 DEF Submit

LEMMA LoopOnePlace ==
  ASSUME Typed, OnePlace, ProcessLoop
  PROVE  OnePlace'
<1>u. queue \in Seq(Msg) /\ ran \in [Msg -> Nat] /\ (cur \in Msg \/ cur = Nobody) /\ InHand
      /\ Nobody \notin Msg
  BY CoordinatorAssumption DEF Typed, Calls, Runs
<1>s. UNCHANGED <<sub, told>>
  BY DEF ProcessLoop, LoopTakes, LoopEnds, LeaseBusy, PauseOver, LeaseRaises, LeaseAcquired,
         LoopGetsSlot, TurnBegins, LoopReleases, LeaseReleased, LoopAnswers, callVars, history
<1>1. CASE LoopTakes
  <2>1. queue # <<>> /\ cur' = Head(queue) /\ queue' = Tail(queue) /\ loop' = "acquiring"
        /\ UNCHANGED ran
    BY <1>1 DEF LoopTakes, history
  <2>2. /\ cur' \in Msg /\ In(queue, cur') /\ Distinct(queue') /\ ~In(queue', cur')
        /\ \A x : In(queue', x) => In(queue, x)
    BY <2>1, <1>u, TakenFrom DEF OnePlace
  <2>3. QED
    BY <1>s, <2>1, <2>2 DEF OnePlace, Fresh
<1>2. CASE LeaseBusy
  <2>1. queue' = Append(queue, cur) /\ cur' = Nobody /\ loop = "acquiring" /\ loop' = "pause"
        /\ UNCHANGED ran
    BY <1>2 DEF LeaseBusy, history
  <2>2. cur \in Msg /\ ~In(queue, cur) /\ Fresh(cur) /\ sub[cur] \notin {"new", "yielding"}
    BY <2>1, <1>u DEF InHand, OnePlace, Fresh
  <2>3. Distinct(queue') /\ \A x : In(queue', x) => In(queue, x) \/ x = cur
    BY <2>1, <2>2, <1>u, Appended DEF OnePlace
  <2>4. QED
    BY <1>s, <1>u, <2>1, <2>2, <2>3 DEF OnePlace, Fresh
<1>3. CASE TurnBegins
  <2>1. /\ loop = "starting" /\ loop' = "turn" /\ ran' = [ran EXCEPT ![cur] = @ + 1]
        /\ UNCHANGED <<queue, cur>>
    BY <1>3 DEF TurnBegins, callVars
  <2>2. cur \in Msg /\ ran[cur] = 0
    BY <2>1, <1>u DEF InHand, OnePlace
  <2>3. ran'[cur] = 1 /\ \A n \in Msg \ {cur} : ran'[n] = ran[n]
    BY <2>1, <2>2, <1>u
  <2>4. QED
    BY <1>s, <2>1, <2>2, <2>3 DEF OnePlace, Fresh
<1>4. CASE LeaseAcquired \/ LoopGetsSlot
  <2>1. UNCHANGED <<queue, cur, ran>> /\ loop \in {"acquiring", "slot"} /\ loop' \in {"slot", "starting"}
    BY <1>4 DEF LeaseAcquired, LoopGetsSlot, StartRun, callVars
  <2>2. QED
    BY <1>s, <2>1 DEF OnePlace, Fresh
<1>5. CASE LoopEnds \/ PauseOver \/ LeaseRaises \/ LoopReleases \/ LeaseReleased \/ LoopAnswers
  <2>1. UNCHANGED <<queue, ran>> /\ cur' \in {cur, Nobody}
        /\ loop' \notin {"acquiring", "slot", "starting"}
    BY <1>5 DEF LoopEnds, PauseOver, LeaseRaises, LoopReleases, LeaseReleased, LoopAnswers,
                callVars, history
  <2>2. QED
    BY <1>s, <1>u, <2>1 DEF OnePlace, Fresh
<1>6. QED
  BY <1>1, <1>2, <1>3, <1>4, <1>5 DEF ProcessLoop

LEMMA NextOnePlace == Typed /\ OnePlace /\ [Next]_vars => OnePlace'
<1> SUFFICES ASSUME Typed, OnePlace, [Next]_vars PROVE OnePlace'
  OBVIOUS
<1>1. CASE CancelCurrent
  <2>1. UNCHANGED <<queue, cur, sub, loop, ran>> /\ loop \in {"starting", "turn", "releasing"}
        /\ cur \in Msg /\ told \in [Msg -> {"no", "in time", "late"}]
    BY <1>1 DEF CancelCurrent, callVars, Typed, Calls, InHand, Runs
  <2>2. \A n \in Msg \ {cur} : told'[n] = told[n]
    BY <1>1, <2>1 DEF CancelCurrent
  <2>3. QED
    BY <2>1, <2>2 DEF OnePlace, Fresh
<1>2. CASE Turn \/ HeartbeatLost \/ HeartbeatRenews \/ Preempted \/ Row \/ StrayEnds
           \/ (\E f \in Faculty : Background(f)) \/ UNCHANGED vars
  <2>1. UNCHANGED <<queue, cur, sub, loop, told, ran>>
    BY <1>2
    DEF Turn, TurnFinal, TurnCompletes, TurnFails, TurnNotices, TurnUnwinds, TurnEnds,
        HeartbeatLost, HeartbeatRenews, Preempted, Row, LeaseExpires, OtherClears, OtherTakes,
        OtherReleases, StrayEnds, Background, BgCalls, BgShed, BgAsksSlot, BgGetsSlot,
        BgBegins, TaskEnds, BgCollects, BgTimesOut, BgReturns, vars, callVars, history
  <2>2. QED
    BY <2>1 DEF OnePlace, Fresh
<1>3. QED
  BY <1>1, <1>2, SubmitOnePlace, LoopOnePlace DEF Next, Stop

LEMMA InitOnePlace == Init => OnePlace
<1>1. Init => Len(queue) = 0 /\ 1..0 = {}
  BY DEF Init
<1>2. QED
  BY <1>1, CoordinatorAssumption DEF Init, OnePlace, Fresh, In, Distinct

\* However often a busy lease sends it back to the queue, a message's turn is
\* started at most once.
THEOREM RunsOnceHolds == Spec => []RunsOnce
<1>1. OnePlace => RunsOnce
  BY DEF OnePlace, RunsOnce
<1>2. QED
  BY <1>1, InitTyped, NextTyped, InitIInv, NextIInv, InitOnePlace, NextOnePlace, PTL DEF Spec

-----------------------------------------------------------------------------
\* A cancel hits the run it was meant for.

\* Whoever was told "yes" in time finds the event set and the turn short of its end.
InTime ==
    cur \in Msg /\ told[cur] = "in time" =>
        /\ loop \in {"starting", "turn"} => event
        /\ turn # "final"
        /\ turn = "done" \/ loop \in {"releasing", "announcing"} => outcome # "completed"

\* What stops a turn was asked of its own run.
OwnRun ==
    /\ event /\ loop \in {"starting", "turn"} => asked
    /\ turn = "cancelling" => asked
    /\ turn = "done" /\ outcome = "cancelled" => asked

NotCompleted == \A m \in Msg : told[m] = "in time" => future[m] # "completed"

LEMMA NextOwnRun == ASSUME IInv, OwnRun, [Next]_vars PROVE OwnRun'
<1>1. CASE LeaseAcquired \/ LoopGetsSlot
  <2>1. turn = "none" /\ turn' = turn /\ (loop' = "slot" \/ ~event')
    BY <1>1, Zenon DEF LeaseAcquired, LoopGetsSlot, StartRun, IInv, SlotInv
  <2>2. QED
    BY <2>1 DEF OwnRun
<1>2. CASE TurnBegins
  BY <1>2 DEF TurnBegins, OwnRun
<1>3. CASE Turn
  BY <1>3 DEF Turn, TurnFinal, TurnCompletes, TurnFails, TurnNotices, TurnUnwinds, TurnEnds,
              history, OwnRun, IInv, SlotInv
<1>4. CASE CancelCurrent \/ HeartbeatLost \/ Preempted
  <2>1. asked'
    BY <1>4 DEF CancelCurrent, HeartbeatLost, Preempted
  <2>2. QED
    BY <2>1 DEF OwnRun
<1>5. CASE \/ \E m \in Msg : Submit(m)
           \/ LoopTakes \/ LoopEnds \/ LeaseBusy \/ PauseOver \/ LeaseRaises
           \/ LoopReleases \/ LeaseReleased \/ LoopAnswers
           \/ HeartbeatRenews \/ Row \/ StrayEnds
           \/ \E f \in Faculty : Background(f)
           \/ UNCHANGED vars
  <2>1. /\ UNCHANGED <<event, asked, outcome>>
        /\ turn' = turn \/ turn' = "none"
        /\ loop' = loop \/ loop' \notin {"starting", "turn"}
    BY <1>5
    DEF Submit, SubmitYielding, YieldOver, SubmitDirectly, SubmitReturns,
        SubmitTimesOut, YielderCancelled, Enqueue, LoopTakes, LoopEnds, LeaseBusy, PauseOver,
        LeaseRaises, LoopReleases, LeaseReleased, LoopAnswers, HeartbeatRenews, Row,
        LeaseExpires, OtherClears, OtherTakes, OtherReleases, StrayEnds, Background, BgCalls, BgShed,
        BgAsksSlot, BgGetsSlot, BgBegins, TaskEnds, BgCollects, BgTimesOut, BgReturns,
        vars, runVars, history
  <2>2. QED
    BY <2>1 DEF OwnRun
<1>6. QED
  BY <1>1, <1>2, <1>3, <1>4, <1>5 DEF Next, ProcessLoop, Stop

LEMMA NextInTime ==
  ASSUME Typed, IInv, OnePlace, InTime, [Next]_vars
  PROVE  InTime'
<1>u. /\ InHand /\ Nobody \notin Msg /\ told \in [Msg -> {"no", "in time", "late"}]
      /\ current = "running" => loop \in {"starting", "turn", "releasing"}
      /\ turn # "none" => loop = "turn"
  BY CoordinatorAssumption DEF Typed, Calls, Runs, IInv, SlotInv
<1>1. CASE LoopTakes
  <2>1. cur' \in Msg => told'[cur'] = "no"
    <3>1. queue \in Seq(Msg) /\ queue # <<>> /\ cur' = Head(queue) /\ told' = told
      BY <1>1 DEF LoopTakes, history, Typed, Calls
    <3>2. cur' \in Msg /\ In(queue, cur')
      BY <3>1, TakenFrom DEF OnePlace
    <3>3. QED
      BY <3>1, <3>2 DEF OnePlace, Fresh
  <2>2. QED
    BY <2>1 DEF InTime
<1>2. CASE LeaseAcquired \/ LoopGetsSlot
  <2>1. loop \in {"acquiring", "slot"} /\ UNCHANGED <<cur, told>>
    BY <1>2 DEF LeaseAcquired, LoopGetsSlot
  <2>2. QED
    BY <2>1 DEF OnePlace, InTime
<1>3. CASE TurnBegins
  <2>1. loop = "starting" /\ loop' = "turn" /\ turn' = "running" /\ UNCHANGED <<cur, told, event>>
    BY <1>3 DEF TurnBegins
  <2>2. QED
    BY <2>1 DEF InTime
<1>4. CASE Turn
  BY <1>4, <1>u DEF Turn, TurnFinal, TurnCompletes, TurnFails, TurnNotices, TurnUnwinds,
                    TurnEnds, LiveTurn, history, InTime
<1>5. CASE CancelCurrent
  <2>1. /\ cur \in Msg /\ UNCHANGED <<cur, loop, outcome>> /\ event' /\ HardCancel
        /\ loop \in {"starting", "turn", "releasing"}
    BY <1>5, <1>u DEF CancelCurrent, InHand, Typed, Calls
  <2>2. told'[cur] = (IF loop = "starting" \/ turn \in LiveTurn THEN "in time" ELSE "late")
    BY <1>5, <1>u, <2>1 DEF CancelCurrent
  <2>3. CASE loop = "starting" \/ turn \in LiveTurn
    BY <2>1, <2>3, <1>u DEF HardCancel, LiveTurn, InTime
  <2>4. CASE ~(loop = "starting" \/ turn \in LiveTurn)
    BY <2>1, <2>2, <2>4 DEF InTime
  <2>5. QED
    BY <2>3, <2>4
<1>6. CASE HeartbeatLost \/ Preempted
  <2>1. /\ UNCHANGED <<cur, loop, outcome, told>> /\ event'
        /\ turn' = turn \/ turn' = "cancelling"
    BY <1>6 DEF HeartbeatLost, Preempted, HardCancel
  <2>2. QED
    BY <2>1 DEF InTime
<1>7. CASE LoopReleases \/ LeaseReleased
  <2>1. /\ UNCHANGED <<cur, outcome, told>> /\ loop' \in {"releasing", "announcing"}
        /\ turn = "done" \/ loop = "releasing"
        /\ turn' = turn \/ turn' = "none"
    BY <1>7 DEF LoopReleases, LeaseReleased, history
  <2>2. QED
    BY <2>1 DEF InTime
<1>8. CASE LoopAnswers \/ LeaseBusy \/ LeaseRaises
  <2>1. cur' = Nobody
    BY <1>8 DEF LoopAnswers, LeaseBusy, LeaseRaises
  <2>2. QED
    BY <2>1, <1>u DEF InTime
<1>9. CASE LoopEnds \/ PauseOver
  <2>1. cur' = cur /\ loop \in {"get", "pause"}
    BY <1>9 DEF LoopEnds, PauseOver
  <2>2. QED
    BY <2>1, <1>u DEF InHand, InTime
<1>10. ASSUME NEW m \in Msg, Submit(m) PROVE InTime'
  <2>1. /\ UNCHANGED <<cur, outcome, told, event, turn>>
        /\ loop' = loop \/ (loop = "none" /\ loop' = "get")
    BY <1>10
    DEF Submit, SubmitYielding, YieldOver, SubmitDirectly, SubmitReturns,
        SubmitTimesOut, YielderCancelled, Enqueue, runVars, history
  <2>2. QED
    BY <2>1 DEF InTime
<1>11. CASE HeartbeatRenews \/ Row \/ StrayEnds \/ (\E f \in Faculty : Background(f))
            \/ UNCHANGED vars
  <2>1. UNCHANGED <<cur, outcome, told, event, turn, loop>>
    BY <1>11
    DEF HeartbeatRenews, Row, LeaseExpires, OtherClears, OtherTakes, OtherReleases, StrayEnds,
        Background, BgCalls, BgShed, BgAsksSlot, BgGetsSlot, BgBegins, TaskEnds,
        BgCollects, BgTimesOut, BgReturns, vars, runVars, history
  <2>2. QED
    BY <2>1 DEF InTime
<1>12. QED
  BY <1>1, <1>2, <1>3, <1>4, <1>5, <1>6, <1>7, <1>8, <1>9, <1>10, <1>11
  DEF Next, ProcessLoop, Stop

\* A message in the queue or in hand has not been answered.
Answers == {"completed", "cancelled", "error"}
Unanswered == \A m \in Msg : In(queue, m) \/ m = cur => future[m] \notin Answers

LEMMA NextUnanswered ==
  ASSUME Typed, OnePlace, Unanswered, [Next]_vars
  PROVE  Unanswered'
<1>u. /\ future \in [Msg -> {"none", "pending", "abandoned", "completed", "cancelled", "error"}]
      /\ queue \in Seq(Msg) /\ Nobody \notin Msg /\ InHand
      /\ (cur \in Msg \/ cur = Nobody)
  BY CoordinatorAssumption DEF Typed, Calls
<1>1. CASE LoopTakes
  <2>1. queue # <<>> /\ cur' = Head(queue) /\ queue' = Tail(queue) /\ future' = future
    BY <1>1 DEF LoopTakes
  <2>2. /\ In(queue, cur') /\ \A x : In(queue', x) => In(queue, x)
    BY <2>1, <1>u, TakenFrom DEF OnePlace
  <2>3. QED
    BY <2>1, <2>2 DEF Unanswered
<1>2. CASE LeaseBusy
  <2>1. queue' = Append(queue, cur) /\ cur \in Msg /\ cur' = Nobody /\ future' = future
    BY <1>2, <1>u DEF LeaseBusy, InHand
  <2>2. \A x : In(queue', x) => In(queue, x) \/ x = cur
    BY <2>1, <1>u, Appended
  <2>3. QED
    BY <2>1, <2>2, <1>u DEF Unanswered
<1>3. CASE LoopAnswers
  <2>1. cur' = Nobody /\ queue' = queue
    BY <1>3 DEF LoopAnswers
  <2>2. \A m \in Msg \ {cur} : future'[m] = future[m]
    BY <1>3, <1>u DEF LoopAnswers
  <2>3. QED
    BY <2>1, <2>2, <1>u DEF OnePlace, Unanswered
<1>4. ASSUME NEW m \in Msg, Submit(m) PROVE Unanswered'
  <2>1. cur' = cur
    BY <1>4 DEF Submit, SubmitYielding, YieldOver, SubmitDirectly, SubmitReturns, SubmitTimesOut, YielderCancelled
  <2>2. CASE YieldOver(m) \/ SubmitDirectly(m)
    <3>1. queue' = Append(queue, m) /\ future' = [future EXCEPT ![m] = "pending"]
      BY <2>2 DEF YieldOver, SubmitDirectly, Enqueue
    <3>2. \A x : In(queue', x) => In(queue, x) \/ x = m
      BY <3>1, <1>u, Appended
    <3>3. QED
      BY <2>1, <3>1, <3>2, <1>u DEF Unanswered, Answers
  <2>3. CASE SubmitYielding(m) \/ SubmitReturns(m) \/ SubmitTimesOut(m) \/ YielderCancelled(m)
    BY <2>1, <2>3, <1>u DEF SubmitYielding, SubmitReturns, SubmitTimesOut, YielderCancelled, Unanswered, Answers
  <2>4. QED
    BY <1>4, <2>2, <2>3 DEF Submit
<1>5. CASE \/ LoopEnds \/ PauseOver \/ LeaseRaises \/ LeaseAcquired \/ LoopGetsSlot
           \/ TurnBegins \/ LoopReleases \/ LeaseReleased
           \/ Turn \/ Stop \/ Row \/ StrayEnds
           \/ (\E f \in Faculty : Background(f)) \/ UNCHANGED vars
  <2>1. UNCHANGED <<queue, future>> /\ cur' \in {cur, Nobody}
    BY <1>5
    DEF LoopEnds, PauseOver, LeaseRaises, LeaseAcquired, LoopGetsSlot, TurnBegins,
        LoopReleases, LeaseReleased, Turn, TurnFinal, TurnCompletes, TurnFails,
        TurnNotices, TurnUnwinds, TurnEnds, Stop, CancelCurrent, HeartbeatLost,
        HeartbeatRenews, Preempted, Row, LeaseExpires, OtherClears, OtherTakes, OtherReleases,
        StrayEnds, Background, BgCalls, BgShed, BgAsksSlot, BgGetsSlot, BgBegins,
        TaskEnds, BgCollects, BgTimesOut, BgReturns, vars, callVars
  <2>2. QED
    BY <2>1, <1>u DEF Unanswered
<1>6. QED
  BY <1>1, <1>2, <1>3, <1>4, <1>5 DEF Next, ProcessLoop

LEMMA NextNotCompleted ==
  ASSUME Typed, InTime, Unanswered, NotCompleted, [Next]_vars
  PROVE  NotCompleted'
<1>u. /\ future \in [Msg -> {"none", "pending", "abandoned", "completed", "cancelled", "error"}]
      /\ InHand /\ told \in [Msg -> {"no", "in time", "late"}]
      /\ (cur \in Msg \/ cur = Nobody)
      /\ current = "running" => loop \in {"starting", "turn", "releasing"}
  BY DEF Typed, Calls, Runs
<1>1. CASE LoopAnswers
  <2>1. cur \in Msg /\ told' = told /\ loop = "announcing"
    BY <1>1, <1>u DEF LoopAnswers, history, InHand
  <2>2. \A m \in Msg \ {cur} : future'[m] = future[m]
    BY <1>1, <1>u DEF LoopAnswers
  <2>3. future'[cur] = "abandoned" \/ future'[cur] = outcome
    BY <1>1, <1>u, <2>1 DEF LoopAnswers
  <2>4. QED
    BY <2>1, <2>2, <2>3 DEF InTime, NotCompleted
<1>2. CASE CancelCurrent
  <2>1. /\ cur \in Msg /\ future' = future
        /\ \A m \in Msg \ {cur} : told'[m] = told[m]
    BY <1>2, <1>u DEF CancelCurrent, callVars, InHand
  <2>2. QED
    BY <2>1 DEF NotCompleted, Unanswered, Answers
<1>3. ASSUME NEW m \in Msg, Submit(m) PROVE NotCompleted'
  <2>1. told' = told
    BY <1>3
    DEF Submit, SubmitYielding, YieldOver, SubmitDirectly, SubmitReturns,
        SubmitTimesOut, YielderCancelled, history
  <2>2. \A n \in Msg : future'[n] \in {future[n], "pending", "abandoned"}
    BY <1>3, <1>u
    DEF Submit, SubmitYielding, YieldOver, SubmitDirectly, SubmitReturns,
        SubmitTimesOut, YielderCancelled, Enqueue
  <2>3. QED
    BY <2>1, <2>2 DEF NotCompleted
<1>4. CASE \/ LoopTakes \/ LeaseBusy \/ LoopEnds \/ PauseOver \/ LeaseRaises
           \/ LeaseAcquired \/ LoopGetsSlot \/ TurnBegins \/ LoopReleases \/ LeaseReleased
           \/ Turn \/ HeartbeatLost \/ HeartbeatRenews \/ Preempted \/ Row \/ StrayEnds
           \/ (\E f \in Faculty : Background(f)) \/ UNCHANGED vars
  <2>1. UNCHANGED <<future, told>>
    BY <1>4
    DEF LoopTakes, LeaseBusy, LoopEnds, PauseOver, LeaseRaises, LeaseAcquired,
        LoopGetsSlot, TurnBegins, LoopReleases, LeaseReleased, Turn, TurnFinal,
        TurnCompletes, TurnFails, TurnNotices, TurnUnwinds, TurnEnds, HeartbeatLost,
        HeartbeatRenews, Preempted, Row, LeaseExpires, OtherClears, OtherTakes, OtherReleases,
        StrayEnds, Background, BgCalls, BgShed, BgAsksSlot, BgGetsSlot, BgBegins,
        TaskEnds, BgCollects, BgTimesOut, BgReturns, vars, callVars, history
  <2>2. QED
    BY <2>1 DEF NotCompleted
<1>5. QED
  BY <1>1, <1>2, <1>3, <1>4 DEF Next, ProcessLoop, Stop

\* A cancel that came before the turn's end stops that turn, and no turn is stopped
\* by what was asked of another.
THEOREM CancelHitsItsRunHolds == Spec => []CancelHitsItsRun
<1>1. Init => OwnRun /\ InTime /\ Unanswered /\ NotCompleted
  <2>1. Init => OwnRun /\ InTime /\ NotCompleted
    BY CoordinatorAssumption DEF Init, OwnRun, InTime, NotCompleted
  <2>2. Init => Unanswered
    BY CoordinatorAssumption DEF Init, Unanswered, Answers
  <2>3. QED
    BY <2>1, <2>2
<1>2. OwnRun /\ NotCompleted => CancelHitsItsRun
  BY DEF OwnRun, NotCompleted, CancelHitsItsRun
<1>3. /\ Typed /\ IInv /\ OnePlace /\ OwnRun /\ InTime /\ Unanswered /\ NotCompleted
      /\ [Next]_vars
      => OwnRun' /\ InTime' /\ Unanswered' /\ NotCompleted'
  BY NextOwnRun, NextInTime, NextUnanswered, NextNotCompleted
<1>4. QED
  BY <1>1, <1>2, <1>3, InitTyped, NextTyped, InitIInv, NextIInv, InitOnePlace,
     NextOnePlace, PTL DEF Spec

-----------------------------------------------------------------------------
\* The coordinator keeps the promise of TurnSlot.  A message that is submitted and not
\* begun stays so while it goes from the caller to the queue, to the loop and back.

Elements(s) == {s[i] : i \in 1..Len(s)}

LEMMA ElementsAre == ASSUME NEW s PROVE \A x : x \in Elements(s) <=> In(s, x)
  BY DEF Elements, In

LEMMA AppendedElements ==
  ASSUME NEW S, NEW s \in Seq(S), NEW m \in S
  PROVE  Elements(Append(s, m)) = Elements(s) \cup {m}
<1> DEFINE t == Append(s, m)
<1>1. Len(s) \in Nat /\ Len(t) = Len(s) + 1 /\ t[Len(s) + 1] = m
      /\ \A i \in 1..Len(s) : t[i] = s[i]
  OBVIOUS
<1>2. 1..Len(t) = 1..Len(s) \cup {Len(s) + 1}
  BY <1>1
<1> HIDE DEF t
<1>3. Elements(t) = Elements(s) \cup {m}
  BY <1>1, <1>2 DEF Elements
<1>4. QED
  BY <1>3 DEF t

LEMMA TakenElements ==
  ASSUME NEW S, NEW s \in Seq(S), s # <<>>
  PROVE  Elements(s) = Elements(Tail(s)) \cup {Head(s)}
<1> DEFINE t == Tail(s)
<1>1. /\ Len(s) \in Nat /\ Len(s) >= 1 /\ Len(t) = Len(s) - 1 /\ Head(s) = s[1]
      /\ \A i \in 1..Len(t) : t[i] = s[i + 1]
  OBVIOUS
<1> HIDE DEF t
<1>2. ASSUME NEW x \in Elements(s) PROVE x \in Elements(t) \cup {Head(s)}
  <2>1. PICK i \in 1..Len(s) : x = s[i]
    BY DEF Elements
  <2>2. i = 1 \/ (i - 1 \in 1..Len(t) /\ t[i - 1] = s[i])
    BY <1>1
  <2>3. QED
    BY <1>1, <2>1, <2>2 DEF Elements
<1>3. ASSUME NEW x \in Elements(t) \cup {Head(s)} PROVE x \in Elements(s)
  <2>1. CASE x = Head(s)
    BY <1>1, <2>1 DEF Elements
  <2>2. CASE x \in Elements(t)
    <3>1. PICK i \in 1..Len(t) : x = t[i]
      BY <2>2 DEF Elements
    <3>2. i + 1 \in 1..Len(s) /\ t[i] = s[i + 1]
      BY <1>1
    <3>3. QED
      BY <3>1, <3>2 DEF Elements
  <2>3. QED
    BY <1>3, <2>1, <2>2
<1>4. QED
  BY <1>2, <1>3 DEF t

\* Submitted and Spent in the terms of the other proofs.
LEMMA SubmittedIs ==
  Submitted = {m \in Msg : sub[m] = "yielding"} \cup Elements(queue)
              \cup (IF loop \in {"acquiring", "slot"} THEN {cur} ELSE {})
  BY DEF Submitted, Elements

LEMMA SubmittedIsNext ==
  Submitted' = {m \in Msg : sub'[m] = "yielding"} \cup Elements(queue')
               \cup (IF loop' \in {"acquiring", "slot"} THEN {cur'} ELSE {})
  BY DEF Submitted, Elements

\* What submitted, running, spent and waiting say of each other.
LEMMA PlacesAreApart ==
  ASSUME Typed, OnePlace
  PROVE  /\ Submitted \cap Spent = {}
         /\ \A m \in Msg : sub[m] = "new" => m \notin Submitted \cup Spent \cup Waiting
<1>u. /\ InHand /\ Nobody \notin Msg /\ (cur \in Msg \/ cur = Nobody)
      /\ ran \in [Msg -> Nat] /\ queue \in Seq(Msg)
  BY CoordinatorAssumption DEF Typed, Calls, Runs
<1>1. ASSUME NEW m \in Submitted PROVE m \notin Spent /\ (m \in Msg => sub[m] # "new")
  <2>1. m \in Msg
    BY <1>u, SubmittedIs DEF Elements, InHand
  <2>2. \/ sub[m] = "yielding"
        \/ In(queue, m)
        \/ m = cur /\ loop \in {"acquiring", "slot"}
    BY SubmittedIs, ElementsAre
  <2>3. ran[m] = 0 /\ (loop = "starting" => m # cur) /\ sub[m] # "new"
    BY <2>1, <2>2, <1>u DEF OnePlace, Fresh
  <2>4. QED
    BY <2>1, <2>3 DEF Spent
<1>2. ASSUME NEW m \in Msg, sub[m] = "new" PROVE m \notin Spent \cup Waiting
  BY <1>2, <1>u DEF OnePlace, Fresh, Spent, Waiting
<1>3. QED
  BY <1>1, <1>2

LEMMA SubmitPromised ==
  ASSUME Typed, OnePlace, NEW m \in Msg, Submit(m)
  PROVE  [Promised!Next]_(Promised!vars)
<1>u. sub \in [Msg -> {"new", "yielding", "waiting", "answered", "timedout", "leaked"}] /\ queue \in Seq(Msg)
  BY DEF Typed, Calls
<1>k. UNCHANGED <<RunningNow, BackgroundNow, Spent>>
  <2>1. UNCHANGED <<cur, slot, ran>> /\ (loop' = loop \/ (loop = "none" /\ loop' = "get"))
    BY DEF Submit, SubmitYielding, YieldOver, SubmitDirectly, SubmitReturns, SubmitTimesOut, YielderCancelled,
           Enqueue, history
  <2>2. QED
    BY <2>1 DEF RunningNow, BackgroundNow, Spent
<1>1. CASE SubmitYielding(m) \/ SubmitDirectly(m)
  <2>1. m \notin Spent \cup Submitted
    BY <1>1, PlacesAreApart DEF SubmitYielding, SubmitDirectly
  <2>2. Waiting' = Waiting \cup {m}
    BY <1>1, <1>u DEF SubmitYielding, SubmitDirectly, Enqueue, Waiting
  <2>3. Submitted' = Submitted \cup {m}
    <3>1. CASE SubmitYielding(m)
      BY <3>1, <1>u DEF SubmitYielding, Submitted
    <3>2. CASE SubmitDirectly(m)
      <4>1. /\ queue' = Append(queue, m) /\ cur' = cur
            /\ loop' = loop \/ (loop = "none" /\ loop' = "get")
            /\ sub' = [sub EXCEPT ![m] = "waiting"] /\ sub[m] = "new"
        BY <3>2 DEF SubmitDirectly, Enqueue
      <4>2. Elements(queue') = Elements(queue) \cup {m}
        BY <4>1, <1>u, AppendedElements
      <4>3. QED
        BY <4>1, <4>2, <1>u, SubmittedIs, SubmittedIsNext
    <3>3. QED
      BY <1>1, <3>1, <3>2
  <2>4. Promised!Submit(m)
    BY <1>k, <2>1, <2>2, <2>3 DEF Promised!Submit
  <2>5. QED
    BY <2>4 DEF Promised!Next
<1>2. CASE YieldOver(m)
  <2>1. /\ queue' = Append(queue, m) /\ cur' = cur /\ sub[m] = "yielding"
        /\ loop' = loop \/ (loop = "none" /\ loop' = "get")
        /\ sub' = [sub EXCEPT ![m] = "waiting"]
    BY <1>2 DEF YieldOver, Enqueue
  <2>2. Elements(queue') = Elements(queue) \cup {m}
    BY <2>1, <1>u, AppendedElements
  <2>3. Submitted' = Submitted
    BY <2>1, <2>2, <1>u, SubmittedIs, SubmittedIsNext
  <2>4. Waiting' = Waiting
    BY <2>1, <1>u DEF Waiting
  <2>5. QED
    BY <1>k, <2>3, <2>4 DEF Promised!vars
<1>w. CASE YielderCancelled(m)
  <2>1. sub[m] = "yielding" /\ sub' = [sub EXCEPT ![m] = "leaked"] /\ UNCHANGED <<queue, loop, cur>>
    BY <1>w DEF YielderCancelled
  <2>2. ~In(queue, m) /\ m # cur
    BY <2>1 DEF OnePlace
  <2>3. m \in Submitted \cap Waiting /\ Waiting' = Waiting \ {m}
    BY <2>1, <1>u DEF Submitted, Waiting
  <2>4. Submitted' = Submitted \ {m}
    BY <2>1, <2>2, <1>u, SubmittedIs, SubmittedIsNext, ElementsAre
  <2>5. Promised!Withdraw(m)
    BY <1>k, <2>3, <2>4 DEF Promised!Withdraw
  <2>6. QED
    BY <2>5 DEF Promised!Next
<1>3. CASE SubmitReturns(m) \/ SubmitTimesOut(m)
  <2>1. m \in Waiting /\ Waiting' = Waiting \ {m}
    BY <1>3, <1>u DEF SubmitReturns, SubmitTimesOut, Waiting
  <2>2. UNCHANGED Submitted
    BY <1>3, <1>u DEF SubmitReturns, SubmitTimesOut, Submitted
  <2>3. Promised!Leave(m)
    BY <1>k, <2>1, <2>2 DEF Promised!Leave
  <2>4. QED
    BY <2>3 DEF Promised!Next
<1>4. QED
  BY <1>1, <1>2, <1>w, <1>3 DEF Submit

LEMMA LoopPromised ==
  ASSUME Typed, IInv, OnePlace, ProcessLoop
  PROVE  [Promised!Next]_(Promised!vars)
<1>u. /\ InHand /\ Nobody \notin Msg /\ Loop \notin Faculty /\ Nobody \notin Faculty
      /\ Loop # Nobody /\ (cur \in Msg \/ cur = Nobody)
      /\ ran \in [Msg -> Nat] /\ queue \in Seq(Msg)
      /\ loop \in {"starting", "turn", "releasing", "announcing"} <=> slot = Loop
  BY CoordinatorAssumption DEF Typed, Calls, Runs, IInv, SlotInv, LoopInSlot
<1>k. UNCHANGED sub /\ UNCHANGED Waiting
  BY DEF ProcessLoop, LoopTakes, LoopEnds, LeaseBusy, PauseOver, LeaseRaises, LeaseAcquired,
         LoopGetsSlot, TurnBegins, LoopReleases, LeaseReleased, LoopAnswers, callVars, Waiting
<1>1. CASE LoopTakes
  <2>1. /\ queue # <<>> /\ cur' = Head(queue) /\ queue' = Tail(queue) /\ loop = "get"
        /\ loop' = "acquiring" /\ UNCHANGED <<slot, ran>>
    BY <1>1 DEF LoopTakes, history
  <2>2. Elements(queue) = Elements(queue') \cup {cur'}
    BY <2>1, <1>u, TakenElements
  <2>3. UNCHANGED Submitted
    BY <1>k, <2>1, <2>2, SubmittedIs, SubmittedIsNext
  <2>4. UNCHANGED <<RunningNow, BackgroundNow, Spent>>
    BY <2>1 DEF RunningNow, BackgroundNow, Spent
  <2>5. QED
    BY <1>k, <2>3, <2>4 DEF Promised!vars
<1>2. CASE LeaseBusy
  <2>1. /\ queue' = Append(queue, cur) /\ cur \in Msg /\ loop = "acquiring"
        /\ loop' = "pause" /\ UNCHANGED <<slot, ran>>
    BY <1>2, <1>u DEF LeaseBusy, history, InHand
  <2>2. Elements(queue') = Elements(queue) \cup {cur}
    BY <2>1, <1>u, AppendedElements
  <2>3. UNCHANGED Submitted
    BY <1>k, <2>1, <2>2, SubmittedIs, SubmittedIsNext
  <2>4. UNCHANGED <<RunningNow, BackgroundNow, Spent>>
    BY <2>1 DEF RunningNow, BackgroundNow, Spent
  <2>5. QED
    BY <1>k, <2>3, <2>4 DEF Promised!vars
<1>3. CASE LeaseRaises
  <2>1. /\ loop = "acquiring" /\ loop' = "none" /\ cur \in Msg /\ cur' = Nobody
        /\ UNCHANGED <<queue, slot, ran>>
    BY <1>3, <1>u DEF LeaseRaises, callVars, history, InHand
  <2>2. ~In(queue, cur) /\ sub[cur] # "yielding"
    BY <2>1 DEF OnePlace
  <2>3. cur \in Submitted /\ Submitted' = Submitted \ {cur}
    BY <1>k, <2>1, <2>2, SubmittedIs, SubmittedIsNext, ElementsAre
  <2>4. UNCHANGED <<RunningNow, BackgroundNow, Spent>>
    BY <2>1 DEF RunningNow, BackgroundNow, Spent
  <2>5. Promised!Lose(cur)
    BY <1>k, <2>3, <2>4 DEF Promised!Lose
  <2>6. QED
    BY <2>1, <2>5 DEF Promised!Next
<1>4. CASE (LeaseAcquired \/ LoopGetsSlot) /\ loop' = "slot"
  <2>1. /\ loop \in {"acquiring", "slot"} /\ UNCHANGED <<queue, cur, ran>> /\ slot' = slot
    BY <1>4 DEF LeaseAcquired, LoopGetsSlot, StartRun, callVars
  <2>2. UNCHANGED <<Submitted, RunningNow, BackgroundNow, Spent>>
    BY <1>4, <1>k, <2>1 DEF Submitted, RunningNow, BackgroundNow, Spent
  <2>3. QED
    BY <1>k, <2>2 DEF Promised!vars
<1>5. CASE (LeaseAcquired \/ LoopGetsSlot) /\ loop' # "slot"
  <2>1. /\ loop \in {"acquiring", "slot"} /\ UNCHANGED <<queue, cur, ran>>
        /\ slot = Nobody /\ slot' = Loop /\ loop' = "starting"
    BY <1>5 DEF LeaseAcquired, LoopGetsSlot, StartRun, Barging, MyTurn, Free, callVars
  <2>2. cur \in Msg /\ ~In(queue, cur) /\ sub[cur] # "yielding"
    BY <1>u, <2>1 DEF InHand, OnePlace
  <2>3. cur \in Submitted /\ Submitted' = Submitted \ {cur}
    BY <1>k, <2>1, <2>2, SubmittedIs, SubmittedIsNext, ElementsAre
  <2>4. cur \notin Spent
    BY <2>3, PlacesAreApart
  <2>5. RunningNow = Nobody /\ BackgroundNow = Nobody /\ RunningNow' = cur /\ BackgroundNow' = Nobody
    BY <1>u, <2>1 DEF RunningNow, BackgroundNow
  <2>6. Spent' = Spent \cup {cur}
    BY <2>1 DEF Spent
  <2>7. Promised!Start(cur)
    BY <1>k, <2>3, <2>4, <2>5, <2>6 DEF Promised!Start, Promised!Free
  <2>8. QED
    BY <2>2, <2>7 DEF Promised!Next
<1>6. CASE TurnBegins
  <2>1. /\ loop = "starting" /\ loop' = "turn" /\ UNCHANGED <<queue, cur, slot>>
        /\ ran' = [ran EXCEPT ![cur] = @ + 1] /\ cur \in Msg
    BY <1>6, <1>u DEF TurnBegins, callVars, InHand
  <2>2. ran'[cur] > 0 /\ \A m \in Msg \ {cur} : ran'[m] = ran[m]
    BY <1>u, <2>1
  <2>3. Spent' = Spent
    BY <2>1, <2>2 DEF Spent
  <2>4. UNCHANGED <<Submitted, RunningNow, BackgroundNow>>
    BY <1>k, <2>1 DEF Submitted, RunningNow, BackgroundNow
  <2>5. QED
    BY <1>k, <2>3, <2>4 DEF Promised!vars
<1>7. CASE LoopEnds \/ PauseOver \/ LoopReleases \/ LeaseReleased
  <2>1. /\ UNCHANGED <<queue, cur, slot, ran>>
        /\ \/ loop \in {"get", "pause"} /\ loop' \in {"none", "get"}
           \/ loop \in {"turn", "releasing"} /\ loop' \in {"releasing", "announcing"}
    BY <1>7 DEF LoopEnds, PauseOver, LoopReleases, LeaseReleased, callVars, history
  <2>2. UNCHANGED <<Submitted, RunningNow, BackgroundNow, Spent>>
    BY <1>k, <2>1 DEF Submitted, RunningNow, BackgroundNow, Spent
  <2>3. QED
    BY <1>k, <2>2 DEF Promised!vars
<1>8. CASE LoopAnswers
  <2>1. /\ loop = "announcing" /\ loop' = "get" /\ cur \in Msg /\ slot = Loop /\ slot' = Nobody
        /\ UNCHANGED <<queue, ran>>
    BY <1>8, <1>u DEF LoopAnswers, history, InHand
  <2>2. RunningNow = cur /\ cur # Nobody /\ RunningNow' = Nobody /\ UNCHANGED BackgroundNow
    BY <1>u, <2>1 DEF RunningNow, BackgroundNow
  <2>3. UNCHANGED <<Submitted, Spent>>
    BY <1>k, <2>1 DEF Submitted, Spent
  <2>4. Promised!End
    BY <1>k, <2>2, <2>3 DEF Promised!End
  <2>5. QED
    BY <2>4 DEF Promised!Next
<1>9. QED
  BY <1>1, <1>2, <1>3, <1>4, <1>5, <1>6, <1>7, <1>8 DEF ProcessLoop

LEMMA BackgroundPromised ==
  ASSUME IInv, DemandInv, NEW f \in Faculty, Background(f)
  PROVE  [Promised!Next]_(Promised!vars)
<1>u. /\ Loop \notin Faculty /\ Nobody \notin Faculty /\ Loop # Nobody
      /\ loop \in {"starting", "turn", "releasing", "announcing"} <=> slot = Loop
      /\ bg[f] \in FacultyInSlot <=> slot = f
  BY CoordinatorAssumption DEF IInv, SlotInv, LoopInSlot
<1>k. UNCHANGED <<sub, queue, loop, cur, ran>>
  BY DEF Background, BgCalls, BgShed, BgAsksSlot, BgGetsSlot, BgBegins, TaskEnds, BgCollects,
         BgTimesOut, BgReturns, callVars, history
<1>1. UNCHANGED <<Submitted, RunningNow, Spent, Waiting>>
  BY <1>k DEF Submitted, RunningNow, Spent, Waiting
<1>2. CASE slot' = slot
  BY <1>1, <1>2 DEF BackgroundNow, Promised!vars
<1>3. CASE (BgAsksSlot(f) \/ BgGetsSlot(f)) /\ slot' # slot
  <2>1. slot = Nobody /\ demand = 0 /\ slot' = f
    BY <1>3 DEF BgAsksSlot, BgGetsSlot, BgEnters, Barging, MyTurn, Free
  <2>2. Waiting = {}
    BY <2>1, NoDemand
  <2>3. BackgroundNow = Nobody /\ BackgroundNow' = f /\ RunningNow = Nobody
    BY <1>u, <2>1 DEF BackgroundNow, RunningNow
  <2>4. Promised!BackgroundBegins(f)
    BY <1>1, <2>2, <2>3 DEF Promised!BackgroundBegins, Promised!Free
  <2>5. QED
    BY <2>4 DEF Promised!Next
<1>4. CASE BgReturns(f)
  <2>1. slot = f /\ slot' = Nobody
    BY <1>4, <1>u DEF BgReturns, FacultyInSlot
  <2>2. BackgroundNow # Nobody /\ BackgroundNow' = Nobody
    BY <1>u, <2>1 DEF BackgroundNow
  <2>3. Promised!BackgroundEnds
    BY <1>1, <2>2 DEF Promised!BackgroundEnds
  <2>4. QED
    BY <2>3 DEF Promised!Next
<1>5. CASE BgCalls(f) \/ BgShed(f) \/ BgBegins(f) \/ TaskEnds(f) \/ BgCollects(f) \/ BgTimesOut(f)
  BY <1>2, <1>5 DEF BgCalls, BgShed, BgBegins, TaskEnds, BgCollects, BgTimesOut
<1>6. QED
  BY <1>2, <1>3, <1>4, <1>5 DEF Background

\* For any messages and faculties: each message is run once at most, one at a time, and
\* a background turn begins only when nothing runs and no caller of submit waits,
\* however often the lease is refused, calls time out and turns are cancelled.
THEOREM PromiseKept == Spec => KeepsPromise
<1>1. Init => Promised!Init
  <2> SUFFICES ASSUME Init PROVE Promised!Init
    OBVIOUS
  <2>1. Len(queue) = 0 /\ 1..0 = {}
    BY DEF Init
  <2>2. Submitted = {}
    BY <2>1 DEF Init, Submitted
  <2>3. Spent = {} /\ Waiting = {} /\ RunningNow = Nobody /\ BackgroundNow = Nobody
    BY CoordinatorAssumption DEF Init, Spent, Waiting, RunningNow, BackgroundNow
  <2>4. QED
    BY <2>2, <2>3 DEF Promised!Init
<1>2. Typed /\ IInv /\ OnePlace /\ DemandInv /\ [Next]_vars => [Promised!Next]_(Promised!vars)
  <2> SUFFICES ASSUME Typed, IInv, OnePlace, DemandInv, [Next]_vars
               PROVE  [Promised!Next]_(Promised!vars)
    OBVIOUS
  <2>1. CASE Turn \/ Stop \/ Row \/ StrayEnds \/ UNCHANGED vars
    <3>1. UNCHANGED <<sub, queue, loop, cur, slot, ran>>
      BY <2>1
      DEF Turn, TurnFinal, TurnCompletes, TurnFails, TurnNotices, TurnUnwinds, TurnEnds,
          Stop, CancelCurrent, HeartbeatLost, HeartbeatRenews, Preempted, Row, LeaseExpires, OtherClears,
          OtherTakes, OtherReleases, StrayEnds, vars, callVars, history
    <3>2. QED
      BY <3>1 DEF Submitted, RunningNow, BackgroundNow, Spent, Waiting, Promised!vars
  <2>2. QED
    BY <2>1, SubmitPromised, LoopPromised, BackgroundPromised DEF Next
<1>3. QED
  BY <1>1, <1>2, InitTyped, NextTyped, Invariance, NextIInv, InitIInv, InitOnePlace,
     NextOnePlace, DemandCounts, PTL DEF Spec, KeepsPromise, Promised!Spec

-----------------------------------------------------------------------------
\* Nobody is stranded: the waiters of the slot, and the messages of the callers.

SlotQueueInv == Elements(slotQueue) = AskedSlot /\ Distinct(slotQueue)

LEMMA SlotAsked ==
  ASSUME Typed, IInv, SlotQueueInv, NEW u \in User, slotQueue' = Append(slotQueue, u),
         u \notin AskedSlot, AskedSlot' = AskedSlot \cup {u}
  PROVE  SlotQueueInv'
<1>1. slotQueue \in Seq(User) /\ ~In(slotQueue, u)
  BY ElementsAre DEF Typed, Slots, SlotQueueInv
<1>2. Elements(slotQueue') = Elements(slotQueue) \cup {u}
  BY <1>1, AppendedElements
<1>3. Distinct(slotQueue')
  BY <1>1, Appended DEF SlotQueueInv
<1>4. Elements(slotQueue)' = Elements(slotQueue') /\ Distinct(slotQueue)' = Distinct(slotQueue')
  BY DEF Elements, Distinct
<1> QED
  BY <1>2, <1>3, <1>4 DEF SlotQueueInv

LEMMA SlotGiven ==
  ASSUME Typed, IInv, SlotQueueInv, NEW u \in User, slotQueue # <<>>, Head(slotQueue) = u,
         slotQueue' = Tail(slotQueue), AskedSlot' = AskedSlot \ {u}
  PROVE  SlotQueueInv'
<1>1. slotQueue \in Seq(User) /\ Distinct(slotQueue)
  BY DEF Typed, Slots, SlotQueueInv
<1>2. Elements(slotQueue) = Elements(slotQueue') \cup {u}
  BY <1>1, TakenElements
<1>3. Distinct(slotQueue') /\ ~In(slotQueue', u)
  BY <1>1, TakenFrom
<1>4. u \notin Elements(slotQueue')
  BY <1>3, ElementsAre
<1>5. Elements(slotQueue)' = Elements(slotQueue') /\ Distinct(slotQueue)' = Distinct(slotQueue')
  BY DEF Elements, Distinct
<1> QED
  BY <1>2, <1>3, <1>4, <1>5 DEF SlotQueueInv

LEMMA SlotUnasked ==
  ASSUME SlotQueueInv, slotQueue' = slotQueue, AskedSlot' = AskedSlot
  PROVE  SlotQueueInv'
  BY DEF SlotQueueInv, Elements, Distinct

LEMMA NextSlotQueueInv ==
  ASSUME Typed, IInv, SlotQueueInv, [Next]_vars
  PROVE  SlotQueueInv'
<1>u. /\ bg \in [Faculty -> {"idle", "gate", "slot", "announce", "thinking", "closing"}]
      /\ Loop \notin Faculty /\ Loop \in User /\ Faculty \subseteq User
  BY CoordinatorAssumption DEF IInv, SlotType, User
<1>1. CASE LeaseAcquired
  <2>1. loop = "acquiring" /\ bg' = bg
    BY <1>1 DEF LeaseAcquired, bgVars
  <2>2. CASE slotQueue' = slotQueue /\ loop' = "starting"
    BY <2>1, <2>2, SlotUnasked DEF AskedSlot
  <2>3. CASE slotQueue' = Append(slotQueue, Loop) /\ loop' = "slot"
    <3>1. Loop \notin AskedSlot /\ AskedSlot' = AskedSlot \cup {Loop}
      BY <2>1, <2>3, <1>u DEF AskedSlot
    <3> QED
      BY <2>3, <3>1, <1>u, SlotAsked
  <2> QED
    BY <1>1, <2>2, <2>3 DEF LeaseAcquired, StartRun
<1>2. CASE LoopGetsSlot
  <2>1. /\ loop = "slot" /\ loop' = "starting" /\ bg' = bg
        /\ slotQueue # <<>> /\ Head(slotQueue) = Loop /\ slotQueue' = Tail(slotQueue)
    BY <1>2 DEF LoopGetsSlot, MyTurn, StartRun, bgVars
  <2>2. AskedSlot' = AskedSlot \ {Loop}
    BY <2>1, <1>u DEF AskedSlot
  <2> QED
    BY <2>1, <2>2, <1>u, SlotGiven
<1>3. ASSUME NEW f \in Faculty, BgAsksSlot(f) PROVE SlotQueueInv'
  <2>1. bg[f] = "gate" /\ loop' = loop
    BY <1>3 DEF BgAsksSlot
  <2>2. CASE slotQueue' = slotQueue /\ (At(f, "idle") \/ At(f, "announce"))
    <3>1. AskedSlot' = AskedSlot
      BY <2>1, <2>2, <1>u DEF AskedSlot, At
    <3> QED
      BY <2>2, <3>1, SlotUnasked
  <2>3. CASE slotQueue' = Append(slotQueue, f) /\ At(f, "slot")
    <3>1. f \notin AskedSlot /\ AskedSlot' = AskedSlot \cup {f}
      BY <2>1, <2>3, <1>u DEF AskedSlot, At
    <3> QED
      BY <2>3, <3>1, <1>u, SlotAsked
  <2> QED
    BY <1>3, <2>2, <2>3 DEF BgAsksSlot, BgEnters
<1>4. ASSUME NEW f \in Faculty, BgGetsSlot(f) PROVE SlotQueueInv'
  <2>1. /\ bg[f] = "slot" /\ loop' = loop /\ (At(f, "idle") \/ At(f, "announce"))
        /\ slotQueue # <<>> /\ Head(slotQueue) = f /\ slotQueue' = Tail(slotQueue)
    BY <1>4 DEF BgGetsSlot, MyTurn, BgEnters
  <2>2. AskedSlot' = AskedSlot \ {f}
    BY <2>1, <1>u DEF AskedSlot, At
  <2> QED
    BY <2>1, <2>2, <1>u, SlotGiven
<1>5. ASSUME NEW f \in Faculty,
             \/ BgCalls(f) \/ BgShed(f) \/ BgBegins(f) \/ TaskEnds(f) \/ BgCollects(f)
             \/ BgTimesOut(f) \/ BgReturns(f)
      PROVE  SlotQueueInv'
  <2>1. slotQueue' = slotQueue /\ loop' = loop
    BY <1>5 DEF BgCalls, BgShed, BgBegins, TaskEnds, BgCollects, BgTimesOut, BgReturns
  <2>2. bg' = bg \/ (bg[f] # "slot" /\ \E there : there # "slot" /\ bg' = [bg EXCEPT ![f] = there])
    BY <1>5 DEF BgCalls, BgShed, BgBegins, TaskEnds, BgCollects, BgTimesOut, BgReturns, At
  <2>3. AskedSlot' = AskedSlot
    BY <2>1, <2>2, <1>u DEF AskedSlot
  <2> QED
    BY <2>1, <2>3, SlotUnasked
<1>6. CASE \/ (\E m \in Msg : Submit(m))
           \/ LoopTakes \/ LoopEnds \/ LeaseBusy \/ PauseOver \/ LeaseRaises
           \/ TurnBegins \/ LoopReleases \/ LeaseReleased \/ LoopAnswers
           \/ Turn \/ Stop \/ Row \/ StrayEnds \/ UNCHANGED vars
  <2>1. slotQueue' = slotQueue /\ bg' = bg /\ (loop' = loop \/ (loop # "slot" /\ loop' # "slot"))
    BY <1>6
    DEF Submit, SubmitYielding, YieldOver, SubmitDirectly, SubmitReturns, SubmitTimesOut, YielderCancelled, Enqueue,
        LoopTakes, LoopEnds, LeaseBusy, PauseOver, LeaseRaises, TurnBegins, LoopReleases,
        LeaseReleased, LoopAnswers, Turn, TurnFinal, TurnCompletes, TurnFails,
        TurnNotices, TurnUnwinds, TurnEnds, Stop, CancelCurrent, HeartbeatLost,
        HeartbeatRenews, Preempted, Row, LeaseExpires, OtherClears, OtherTakes, OtherReleases,
        StrayEnds, vars, bgVars
  <2>2. AskedSlot' = AskedSlot
    BY <2>1 DEF AskedSlot
  <2> QED
    BY <2>1, <2>2, SlotUnasked
<1> QED
  BY <1>1, <1>2, <1>3, <1>4, <1>5, <1>6 DEF Next, ProcessLoop, Background

\* What a caller waits for is queued or in hand, and a queue has its loop.
QueueInv ==
    faults = 0 =>
        /\ queue # <<>> => loop # "none"
        /\ \A m \in Msg : sub[m] = "waiting" /\ future[m] = "pending" => m = cur \/ m \in Elements(queue)

LEMMA NextQueueInv ==
  ASSUME Typed, QueueInv, [Next]_vars
  PROVE  QueueInv'
<1>u. /\ sub \in [Msg -> {"new", "yielding", "waiting", "answered", "timedout", "leaked"}]
      /\ future \in [Msg -> {"none", "pending", "abandoned", "completed", "cancelled", "error"}]
      /\ queue \in Seq(Msg) /\ Nobody \notin Msg /\ InHand /\ faults \in Nat
      /\ (cur \in Msg \/ cur = Nobody)
  BY CoordinatorAssumption DEF Typed, Calls, Slots
<1>e. Elements(queue)' = Elements(queue')
  BY DEF Elements
<1>f. faults' = faults \/ faults' = faults + 1
  BY DEF Next, Submit, SubmitYielding, YieldOver, SubmitDirectly, SubmitReturns, SubmitTimesOut, YielderCancelled,
      ProcessLoop, LoopTakes, LoopEnds, LeaseBusy, PauseOver, LeaseRaises, LeaseAcquired,
      LoopGetsSlot, TurnBegins, LoopReleases, LeaseReleased, LoopAnswers, Turn, TurnFinal,
      TurnCompletes, TurnFails, TurnNotices, TurnUnwinds, TurnEnds, Stop, CancelCurrent,
      HeartbeatLost, HeartbeatRenews, Preempted, Row, LeaseExpires, OtherClears, OtherTakes, OtherReleases,
      StrayEnds, Background, BgCalls, BgShed, BgAsksSlot, BgGetsSlot, BgBegins, TaskEnds,
      BgCollects, BgTimesOut, BgReturns, vars
<1> SUFFICES ASSUME faults' = 0
             PROVE  /\ queue' # <<>> => loop' # "none"
                    /\ \A m \in Msg : sub'[m] = "waiting" /\ future'[m] = "pending"
                                         => m = cur' \/ m \in Elements(queue')
  BY <1>e DEF QueueInv
<1>g. faults = 0
  BY <1>f, <1>u
<1>q. /\ queue # <<>> => loop # "none"
      /\ \A m \in Msg : sub[m] = "waiting" /\ future[m] = "pending" => m = cur \/ m \in Elements(queue)
  BY <1>g DEF QueueInv
<1>1. ASSUME NEW m \in Msg, YieldOver(m) \/ SubmitDirectly(m)
      PROVE  /\ loop' # "none"
             /\ \A n \in Msg : sub'[n] = "waiting" /\ future'[n] = "pending"
                                  => n = cur' \/ n \in Elements(queue')
  <2>1. Enqueue(m) /\ cur' = cur
    BY <1>1 DEF YieldOver, SubmitDirectly
  <2>2. Elements(queue') = Elements(queue) \cup {m}
    BY <2>1, <1>u, AppendedElements DEF Enqueue
  <2>3. \A n \in Msg \ {m} : sub'[n] = sub[n] /\ future'[n] = future[n]
    BY <2>1, <1>u DEF Enqueue
  <2> QED
    BY <2>1, <2>2, <2>3, <1>q DEF Enqueue
<1>2. ASSUME NEW m \in Msg, SubmitYielding(m) \/ SubmitReturns(m) \/ SubmitTimesOut(m) \/ YielderCancelled(m)
      PROVE  /\ queue' # <<>> => loop' # "none"
             /\ \A n \in Msg : sub'[n] = "waiting" /\ future'[n] = "pending"
                                  => n = cur' \/ n \in Elements(queue')
  <2>1. UNCHANGED <<queue, cur, loop>>
    BY <1>2 DEF SubmitYielding, SubmitReturns, SubmitTimesOut, YielderCancelled
  <2>2. \A n \in Msg : sub'[n] = "waiting" /\ future'[n] = "pending"
                          => sub[n] = "waiting" /\ future[n] = "pending"
    BY <1>2, <1>u DEF SubmitYielding, SubmitReturns, SubmitTimesOut, YielderCancelled
  <2> QED
    BY <2>1, <2>2, <1>q
<1>3. CASE LoopTakes
  <2>1. queue # <<>> /\ cur' = Head(queue) /\ queue' = Tail(queue) /\ loop' = "acquiring"
        /\ UNCHANGED <<sub, future>> /\ cur = Nobody
    BY <1>3, <1>u DEF LoopTakes, InHand
  <2>2. Elements(queue) = Elements(queue') \cup {cur'}
    BY <2>1, <1>u, TakenElements
  <2> QED
    BY <2>1, <2>2, <1>q, <1>u
<1>4. CASE LeaseBusy
  <2>1. queue' = Append(queue, cur) /\ cur \in Msg /\ loop' = "pause" /\ UNCHANGED <<sub, future>>
    BY <1>4, <1>u DEF LeaseBusy, InHand
  <2>2. Elements(queue') = Elements(queue) \cup {cur}
    BY <2>1, <1>u, AppendedElements
  <2> QED
    BY <2>1, <2>2, <1>q
<1>5. CASE LoopEnds
  <2>1. queue' = <<>> /\ UNCHANGED <<sub, future, cur, queue>>
    BY <1>5 DEF LoopEnds, callVars
  <2> QED
    BY <2>1, <1>q
<1>6. CASE LoopAnswers
  <2>1. /\ loop = "announcing" /\ loop' = "get" /\ UNCHANGED <<sub, queue>>
        /\ cur \in Msg /\ outcome \in {"completed", "cancelled", "error"}
    BY <1>6, <1>u DEF LoopAnswers, InHand, Typed, Runs
  <2>2. future'[cur] # "pending" /\ \A n \in Msg \ {cur} : future'[n] = future[n]
    BY <1>6, <2>1, <1>u DEF LoopAnswers
  <2> QED
    BY <2>1, <2>2, <1>q
<1>7. CASE LeaseRaises
  BY <1>7, <1>g DEF LeaseRaises
<1>8. CASE \/ PauseOver \/ LeaseAcquired \/ LoopGetsSlot
           \/ TurnBegins \/ LoopReleases \/ LeaseReleased
           \/ Turn \/ Stop \/ Row \/ StrayEnds
           \/ (\E f \in Faculty : Background(f)) \/ UNCHANGED vars
  <2>1. UNCHANGED <<sub, future, queue, cur>> /\ (loop' = loop \/ loop' # "none")
    BY <1>8
    DEF PauseOver, LeaseAcquired, LoopGetsSlot, StartRun, TurnBegins,
        LoopReleases, LeaseReleased, Turn, TurnFinal, TurnCompletes, TurnFails,
        TurnNotices, TurnUnwinds, TurnEnds, Stop, CancelCurrent, HeartbeatLost,
        HeartbeatRenews, Preempted, Row, LeaseExpires, OtherClears, OtherTakes, OtherReleases,
        StrayEnds, Background, BgCalls, BgShed, BgAsksSlot, BgGetsSlot, BgBegins,
        TaskEnds, BgCollects, BgTimesOut, BgReturns, vars, callVars
  <2> QED
    BY <2>1, <1>q
<1> QED
  BY <1>1, <1>2, <1>3, <1>4, <1>5, <1>6, <1>7, <1>8 DEF Next, Submit, ProcessLoop

LEMMA InitStranded == Init => QueueInv /\ SlotQueueInv
<1> SUFFICES ASSUME Init PROVE QueueInv /\ SlotQueueInv
  OBVIOUS
<1>1. queue = <<>> /\ slotQueue = <<>> /\ 1..Len(slotQueue) = {}
  BY DEF Init
<1>2. Elements(slotQueue) = {} /\ Distinct(slotQueue)
  BY <1>1 DEF Elements, Distinct
<1>3. AskedSlot = {}
  BY DEF Init, AskedSlot
<1>4. QueueInv
  BY <1>1 DEF Init, QueueInv
<1> QED
  BY <1>2, <1>3, <1>4 DEF SlotQueueInv

\* Whatever is refused, times out, is cancelled or ends itself when idle, nobody waits
\* for what will not come: the safety that EveryCallerAnswered and ForegroundGetsSlot
\* rest on, for any number of messages and faculties.
THEOREM NobodyStrandedHolds == Spec => []NobodyStranded
<1>1. Init => Typed /\ IInv /\ QueueInv /\ SlotQueueInv
  BY InitTyped, InitIInv, InitStranded
<1>2. Typed /\ IInv /\ QueueInv /\ SlotQueueInv /\ [Next]_vars
         => (Typed /\ IInv /\ QueueInv /\ SlotQueueInv)'
  BY NextTyped, NextIInv, NextQueueInv, NextSlotQueueInv
<1>3. QueueInv /\ SlotQueueInv => NobodyStranded
  BY DEF QueueInv, SlotQueueInv, NobodyStranded, Elements, Distinct
<1> QED
  BY <1>1, <1>2, <1>3, PTL DEF Spec
=============================================================================
