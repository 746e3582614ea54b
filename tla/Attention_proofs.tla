--------------------------- MODULE Attention_proofs ---------------------------
(***************************************************************************)
(* For any number of messages, tasks and schedules, with crashes and       *)
(* failed calls: types, that no message is given two turns and none is     *)
(* lost, that what an interruption paused has a handler that will resume   *)
(* it, that what was stopped stays so, that a schedule is fired once each  *)
(* time it is due, and that the slot is used as module TurnSlot promises.  *)
(***************************************************************************)
EXTENDS Attention, TLAPS

-----------------------------------------------------------------------------
\* Types, variable group by variable group.

Place == {"new", "replying", "heard", "forgetting", "forgot", "routed", "looked", "suspending",
          "ending", "ready", "waiting", "answered", "owing", "waking", "allowed",
          "recovering", "resuming", "done", "gone"}

Messages ==
    /\ row \in [Msg -> {"none", "pending", "processing", "completed"}]
    /\ kind \in [Msg -> Kind \cup {"none"}]
    /\ at \in [Msg -> Place]
    /\ prior \in [Msg -> Task \cup {Nothing}]
    /\ live \in [Msg -> BOOLEAN]
    /\ suspended \in [Msg -> BOOLEAN]

\* A handler that is about to act on a task has read which.
Reads ==
    \A m \in Msg :
        /\ at[m] \in {"replying", "forgetting", "suspending", "ending", "owing", "waking",
                      "allowed"} => prior[m] \in Task
        /\ at[m] = "looked" /\ live[m] => prior[m] \in Task
        /\ suspended[m] => prior[m] \in Task
        /\ at[m] \in {"new", "replying", "heard", "forgetting", "forgot", "routed", "looked",
                      "suspending"} => ~suspended[m]

Status == Live \cup Terminal \cup {"absent"}
Rows ==
    /\ status \in [Task -> Status]
    /\ primary \in Task \cup {Nothing}
    /\ replaced \in [Task -> BOOLEAN]
    /\ byUser \in [Task -> BOOLEAN]
    /\ outdone \in [Task -> BOOLEAN]
    /\ \A t \in Task : replaced[t] => outdone[t]

Turns ==
    /\ queued \subseteq Turn
    /\ current \in Turn \cup {Nothing}
    /\ turns \in [Msg -> Nat]
    /\ background \in {"nobody", "continuation", "schedule"}
    /\ background # "nobody" => current = Nothing

Drainer ==
    /\ drain \in {"idle", "free", "clear", "waiting", "answered"}
    /\ taken \in Msg \cup {Nothing}
    /\ taken # Nothing <=> drain \in {"waiting", "answered"}

Counts == calls \in Nat /\ faults \in Nat /\ calls + faults <= MaxEvents

Clock ==
    /\ entry \in [Schedule -> {"on", "off", "gone"}]
    /\ due \in [Schedule -> BOOLEAN]
    /\ batch \subseteq Schedule
    /\ firing \in Schedule \cup {NoSchedule}
    /\ stage \in {"idle", "asked", "thinking", "ran"}
    /\ firing # NoSchedule <=> stage \in {"asked", "thinking", "ran"}
    /\ times \in [Schedule -> 0..MaxTimes]
    /\ fired \in [Schedule -> Nat] /\ passed \in [Schedule -> Nat]

Shared == stage = "thinking" <=> background = "schedule"

Typed == Messages /\ Reads /\ Rows /\ Turns /\ Drainer /\ Counts /\ Clock /\ Shared

\* The parts of the invariant give the type invariant of the runs.
LEMMA TypedTypeOK == Typed => TypeOK
  BY AttentionAssumption
  DEF Typed, TypeOK, Messages, Reads, Place, Rows, Status, Turns, Drainer, Counts, Clock,
      Shared

\* The initial states are typed.
LEMMA InitTyped == Init => Typed
  BY AttentionAssumption, SchedulerAssumption
  DEF Init, SchedInit, Typed, Messages, Reads, Place, Rows, Status, Live, Terminal,
      Turns, Drainer, Counts, Clock, Shared

\* What the parts of an action do to the rows of the tasks.
LEMMA ActiveTask == Active \subseteq Task /\ \A t \in Active : t = primary /\ status[t] \in Live
  BY DEF Active

LEMMA RevokesRows == ASSUME Rows, NEW t \in Task, Revokes(t) PROVE Rows'
  BY DEF Rows, Status, Terminal, Live, Revokes, Becomes

LEMMA ResumesRows == ASSUME Rows, NEW t \in Task, Resumes(t) PROVE Rows'
<1>1. CASE replaced[t] \/ status[t] = "paused"
  BY <1>1 DEF Rows, Status, Terminal, Live, Resumes, Becomes
<1>2. CASE ~(replaced[t] \/ status[t] = "paused")
  BY <1>2 DEF Rows, Resumes
<1>3. QED
  BY <1>1, <1>2

LEMMA SuspendsRows ==
  ASSUME Rows, NEW t \in Task, Suspends(t), UNCHANGED <<primary, replaced, outdone>>,
         byUser' \in [Task -> BOOLEAN]
  PROVE  Rows'
<1>1. status' \in [Task -> Status]
  BY DEF Rows, Status, Terminal, Live, Suspends, Becomes
<1>2. QED
  BY <1>1 DEF Rows

LEMMA TurnWorksRows == ASSUME Rows, NEW t \in Task, TurnWorks(t) PROVE Rows'
<1>1. CASE Plans(t)
  <2>1. status' \in [Task -> Status] /\ primary' = t /\ byUser' = byUser
    BY <1>1 DEF Plans, Becomes, Rows, Status, Live
  <2>2. /\ replaced' \in [Task -> BOOLEAN] /\ outdone' \in [Task -> BOOLEAN]
        /\ \A u \in Task : replaced'[u] => outdone'[u]
    BY <1>1 DEF Plans, Rows
  <2>3. QED
    BY <2>1, <2>2 DEF Rows
<1>2. CASE Finishes(t)
  BY <1>2 DEF Finishes, Becomes, Rows, Status, Terminal
<1>3. CASE Asks(t)
  BY <1>3 DEF Asks, Becomes, Rows, Status, Live
<1>4. CASE TakesUp(t)
  BY <1>4, ResumesRows DEF TakesUp
<1>5. QED
  BY <1>1, <1>2, <1>3, <1>4 DEF TurnWorks

-----------------------------------------------------------------------------
\* A handler's step keeps the types: it disturbs its own message, the rows of the
\* tasks, or what is submitted.

LEMMA MessagesMove ==
  ASSUME Messages, NEW m \in Msg, NEW there \in Place, Goes(m, there)
  PROVE  /\ at' \in [Msg -> Place] /\ at'[m] = there
         /\ \A n \in Msg \ {m} : at'[n] = at[n]
  BY DEF Messages, Goes

LEMMA ArrivesTyped ==
  ASSUME Typed, NEW m \in Msg, Arrives(m) \/ Replies(m) \/ Forgets(m)
  PROVE  Messages' /\ Reads' /\ Rows'
<1>1. CASE Arrives(m)
  <2>1. Rows'
    BY <1>1 DEF Arrives, Typed, Rows, taskVars
  <2>2. CASE \E t \in Active : status[t] = "asking"
    <3>1. primary \in Task
      BY <2>2, ActiveTask
    <3>2. Messages' /\ Reads'
      BY <1>1, <2>2, <3>1 DEF Arrives, Goes, Typed, Messages, Reads, Place
    <3>3. QED
      BY <2>1, <3>2
  <2>3. CASE ~\E t \in Active : status[t] = "asking"
    <3>1. Messages' /\ Reads'
      BY <1>1, <2>3 DEF Arrives, Goes, Typed, Messages, Reads, Place
    <3>2. QED
      BY <2>1, <3>1
  <2>4. QED
    BY <2>2, <2>3
<1>2. CASE Replies(m)
  <2>1. Rows'
    BY <1>2 DEF Replies, Typed, Rows, Status, Live, Becomes
  <2>2. Messages' /\ Reads'
    BY <1>2 DEF Replies, Goes, Typed, Messages, Reads, Place
  <2>3. QED
    BY <2>1, <2>2
<1>3. CASE Forgets(m)
  <2>1. Rows'
    BY <1>3 DEF Forgets, Typed, Rows, taskVars
  <2>2. PICK t \in Active : prior' = [prior EXCEPT ![m] = t]
    BY <1>3 DEF Forgets
  <2>3. t \in Task
    BY <2>2, ActiveTask
  <2>4. Messages' /\ Reads'
    BY <1>3, <2>2, <2>3 DEF Forgets, Goes, Typed, Messages, Reads, Place
  <2>5. QED
    BY <2>1, <2>4
<1>4. QED
  BY <1>1, <1>2, <1>3

LEMMA RoutingTyped ==
  ASSUME Typed, NEW m \in Msg, Forgotten(m) \/ Routed(m) \/ Looks(m) \/ Weighs(m)
  PROVE  Messages' /\ Reads' /\ Rows'
<1> USE DEF Typed
<1>1. CASE Forgotten(m)
  <2>1. prior[m] \in Task
    BY <1>1 DEF Forgotten, Reads
  <2>2. Rows'
    BY <1>1, <2>1, RevokesRows DEF Forgotten
  <2>3. Messages' /\ Reads'
    BY <1>1 DEF Forgotten, Goes, Messages, Reads, Place
  <2>4. QED
    BY <2>2, <2>3
<1>2. CASE Routed(m)
  BY <1>2 DEF Routed, Goes, Messages, Reads, Place, Rows, taskVars
<1>3. CASE Looks(m)
  <2>1. Rows'
    BY <1>3 DEF Looks, Rows, taskVars
  <2>2. (IF Active = {} THEN Nothing ELSE primary) \in Task \cup {Nothing}
    BY DEF Rows
  <2>3. (\E t \in Active : status[t] = "running") =>
           (IF Active = {} THEN Nothing ELSE primary) \in Task
    BY ActiveTask
  <2>4. QED
    BY <1>3, <2>1, <2>2, <2>3 DEF Looks, Goes, Messages, Reads, Place
<1>4. CASE Weighs(m)
  <2>1. Rows'
    BY <1>4 DEF Weighs, Rows, taskVars
  <2>2. PICK busy \in {current # Nothing, TRUE} :
          Goes(m, CASE busy /\ kind[m] = "passing" /\ live[m] -> "suspending"
                    [] kind[m] = "stop" /\ prior[m] # Nothing -> "ending"
                    [] OTHER -> "ready")
    BY <1>4 DEF Weighs
  <2>3. CASE busy /\ kind[m] = "passing" /\ live[m]
    BY <1>4, <2>2, <2>3, <2>1 DEF Weighs, Goes, Messages, Reads, Place
  <2>4. CASE kind[m] = "stop" /\ prior[m] # Nothing
    <3>1. Goes(m, "ending") /\ prior[m] \in Task
      BY <2>2, <2>4 DEF Messages
    <3>2. QED
      BY <1>4, <3>1, <2>1 DEF Weighs, Goes, Messages, Reads, Place
  <2>5. CASE ~(busy /\ kind[m] = "passing" /\ live[m]) /\ ~(kind[m] = "stop" /\ prior[m] # Nothing)
    BY <1>4, <2>2, <2>5, <2>1 DEF Weighs, Goes, Messages, Reads, Place
  <2>6. QED
    BY <2>3, <2>4, <2>5
<1>5. QED
  BY <1>1, <1>2, <1>3, <1>4

LEMMA ActingTyped ==
  ASSUME Typed, NEW m \in Msg,
         SuspendsIt(m) \/ EndsIt(m) \/ Completes(m) \/ LooksAgain(m) \/ MayWake(m)
         \/ Wakes(m)
  PROVE  Messages' /\ Reads' /\ Rows'
<1> USE DEF Typed
<1>1. CASE SuspendsIt(m)
  <2>1. prior[m] \in Task
    BY <1>1 DEF SuspendsIt, Reads
  <2>2. Rows'
    BY <1>1, <2>1, SuspendsRows DEF SuspendsIt, Rows
  <2>3. QED
    BY <1>1, <2>1, <2>2 DEF SuspendsIt, Goes, Messages, Reads, Place
<1>2. CASE EndsIt(m)
  <2>1. prior[m] \in Task
    BY <1>2 DEF EndsIt, Reads
  <2>2. Rows'
    BY <1>2, <2>1, RevokesRows DEF EndsIt, Rows, taskVars
  <2>3. QED
    BY <1>2, <2>1, <2>2 DEF EndsIt, Goes, Messages, Reads, Place
<1>3. CASE Completes(m)
  BY <1>3 DEF Completes, Goes, Messages, Reads, Place, Rows, taskVars
<1>4. CASE LooksAgain(m)
  BY <1>4 DEF LooksAgain, Goes, Messages, Reads, Place, Rows, taskVars
<1>5. CASE MayWake(m)
  BY <1>5 DEF MayWake, Goes, Messages, Reads, Place, Rows, taskVars
<1>6. CASE Wakes(m)
  <2>1. prior[m] \in Task
    BY <1>6 DEF Wakes, Reads
  <2>2. Rows'
    BY <1>6, <2>1, ResumesRows DEF Wakes
  <2>3. QED
    BY <1>6, <2>2 DEF Wakes, Goes, Messages, Reads, Place
<1>7. QED
  BY <1>1, <1>2, <1>3, <1>4, <1>5, <1>6

LEMMA SubmittingTyped ==
  ASSUME Typed, NEW m \in Msg, Submits(m) \/ Recovers(m)
  PROVE  Messages' /\ Reads' /\ Rows' /\ Turns'
<1> USE DEF Typed
<1>1. <<"message", m>> \in Turn /\ <<"resume", m>> \in Turn
  BY DEF Turn
<1>2. Turns'
  BY <1>1 DEF Submits, Recovers, Submit, Turns
<1>3. Messages' /\ Reads' /\ Rows'
  BY DEF Submits, Recovers, Goes, Messages, Reads, Place, Rows, taskVars
<1>4. QED
  BY <1>2, <1>3

LEMMA LeavingTyped ==
  ASSUME Typed, NEW m \in Msg, TimesOut(m) \/ Breaks(m)
  PROVE  Messages' /\ Reads' /\ Rows' /\ Counts'
<1> USE DEF Typed
<1>1. CASE TimesOut(m)
  BY <1>1 DEF TimesOut, Waits, Inward, bounds, Goes, Messages, Reads, Place, Rows, taskVars, Counts
<1>2. CASE Breaks(m)
  <2>1. Counts' /\ Rows'
    BY <1>2, AttentionAssumption DEF Breaks, Counts, Rows, taskVars
  <2>2. Messages' /\ Reads'
    BY <1>2 DEF Breaks, UnderWay, Short, Goes, Messages, Reads, Place
  <2>3. QED
    BY <2>1, <2>2
<1>3. QED
  BY <1>1, <1>2

-----------------------------------------------------------------------------
\* What leaves a group of variables alone leaves its types alone.

LEMMA MessagesKept == ASSUME Messages, Reads, UNCHANGED msgVars PROVE Messages' /\ Reads'
  BY DEF Messages, Reads, msgVars
LEMMA RowsKept == ASSUME Rows, UNCHANGED taskVars PROVE Rows'
  BY DEF Rows, taskVars
LEMMA TurnsKept == ASSUME Turns, UNCHANGED turnVars PROVE Turns'
  BY DEF Turns, turnVars
LEMMA DrainerKept == ASSUME Drainer, UNCHANGED drainVars PROVE Drainer'
  BY DEF Drainer, drainVars
LEMMA CountsKept == ASSUME Counts, UNCHANGED bounds PROVE Counts'
  BY DEF Counts, bounds
LEMMA ClockKept == ASSUME Clock, UNCHANGED schedVars PROVE Clock'
  BY DEF Clock, schedVars

\* The handler.
LEMMA HandlerTyped ==
  ASSUME Typed, NEW m \in Msg,
         Arrives(m) \/ Forgets(m) \/ Handler(m) \/ TimesOut(m) \/ Breaks(m)
  PROVE  Typed'
<1> USE MessagesKept, RowsKept, TurnsKept, DrainerKept, CountsKept, ClockKept
<1>1. UNCHANGED <<drainVars, schedVars>> /\ UNCHANGED background
  BY DEF Handler, Arrives, Forgets, Replies, Forgotten, Routed, Looks, Weighs, SuspendsIt,
         EndsIt, Submits, TimesOut, Completes, LooksAgain, MayWake, Wakes, Recovers,
         Breaks, Inward, turnVars
<1>2. Drainer' /\ Clock' /\ Shared'
  BY <1>1 DEF Typed, Shared, schedVars
<1>3. CASE Arrives(m) \/ Replies(m) \/ Forgets(m)
  <2>1. UNCHANGED <<turnVars, bounds>>
    BY <1>3 DEF Arrives, Replies, Forgets, Inward
  <2>2. QED
    BY <1>2, <1>3, <2>1, ArrivesTyped DEF Typed
<1>4. CASE Forgotten(m) \/ Routed(m) \/ Looks(m) \/ Weighs(m)
  <2>1. UNCHANGED <<turnVars, bounds>>
    BY <1>4 DEF Replies, Forgotten, Routed, Looks, Weighs, Inward
  <2>2. QED
    BY <1>2, <1>4, <2>1, RoutingTyped DEF Typed
<1>5. CASE \/ SuspendsIt(m) \/ EndsIt(m) \/ Completes(m) \/ LooksAgain(m)
           \/ MayWake(m) \/ Wakes(m)
  <2>1. UNCHANGED <<turnVars, bounds>>
    BY <1>5 DEF SuspendsIt, EndsIt, Completes, LooksAgain, MayWake, Wakes, Inward
  <2>2. QED
    BY <1>2, <1>5, <2>1, ActingTyped DEF Typed
<1>6. CASE Submits(m) \/ Recovers(m)
  <2>1. UNCHANGED bounds
    BY <1>6 DEF Submits, Recovers
  <2>2. QED
    BY <1>2, <1>6, <2>1, SubmittingTyped DEF Typed
<1>7. CASE TimesOut(m) \/ Breaks(m)
  <2>1. UNCHANGED turnVars
    BY <1>7 DEF TimesOut, Breaks, Inward
  <2>2. QED
    BY <1>2, <1>7, <2>1, LeavingTyped DEF Typed
<1>8. QED
  BY <1>3, <1>4, <1>5, <1>6, <1>7 DEF Handler

\* The coordinator.
LEMMA CoordinatorTyped ==
  ASSUME Typed,
         (\E r \in Turn : TurnStarts(r)) \/ TurnEnded \/ (\E t \in Task : TurnWorks(t))
  PROVE  Typed'
<1> USE MessagesKept, RowsKept, TurnsKept, DrainerKept, CountsKept, ClockKept
<1> USE DEF Typed
<1>1. ASSUME NEW r \in Turn, TurnStarts(r) PROVE Typed'
  <2>1. r[2] \in Msg
    BY DEF Turn
  <2>2. turns' \in [Msg -> Nat]
    BY <1>1, <2>1 DEF TurnStarts, Turns
  <2>3. Turns'
    BY <1>1, <2>2 DEF TurnStarts, Turns
  <2>4. QED
    BY <1>1, <2>3 DEF TurnStarts, Shared, schedVars
<1>2. CASE TurnEnded
  <2>1. Messages' /\ Reads'
    BY <1>2 DEF TurnEnded, Messages, Reads, Place
  <2>2. Turns'
    BY <1>2 DEF TurnEnded, Turns
  <2>3. Drainer'
    BY <1>2 DEF TurnEnded, Drainer
  <2>4. QED
    BY <1>2, <2>1, <2>2, <2>3 DEF TurnEnded, Shared, schedVars
<1>3. ASSUME NEW t \in Task, TurnWorks(t) PROVE Typed'
  BY <1>3, TurnWorksRows DEF TurnWorks, Shared, schedVars, turnVars
<1>4. QED
  BY <1>1, <1>2, <1>3

\* The drainer.
LEMMA DrainerTyped ==
  ASSUME Typed, Drains \/ DrainTimesOut \/ DrainBreaks
  PROVE  Typed'
<1> USE MessagesKept, RowsKept, TurnsKept, DrainerKept, CountsKept, ClockKept
<1> USE DEF Typed
<1>1. UNCHANGED schedVars /\ UNCHANGED <<taskVars, background>> /\ Clock' /\ Rows' /\ Shared'
  <2>1. UNCHANGED schedVars /\ UNCHANGED <<taskVars, background>>
    BY DEF Drains, DrainLooks, DrainSees, DrainFindsNone, DrainClaims, DrainCompletes,
           DrainTimesOut, DrainBreaks, Idling, turnVars
  <2>2. QED
    BY <2>1 DEF Shared, schedVars
<1>2. CASE DrainLooks \/ DrainSees \/ DrainFindsNone \/ DrainTimesOut
  <2>1. Drainer'
    BY <1>2 DEF DrainLooks, DrainSees, DrainFindsNone, DrainTimesOut, Drain, Idling, Drainer
  <2>2. UNCHANGED <<msgVars, turnVars, bounds>>
    BY <1>2 DEF DrainLooks, DrainSees, DrainFindsNone, DrainTimesOut, Idling
  <2>3. QED
    BY <1>1, <2>1, <2>2
<1>3. ASSUME NEW m \in Msg, DrainClaims(m) PROVE Typed'
  <2>1. Messages' /\ Reads'
    BY <1>3 DEF DrainClaims, Messages, Reads
  <2>2. Turns'
    BY <1>3 DEF DrainClaims, Submit, Turns, Turn
  <2>3. Drainer'
    BY <1>3, AttentionAssumption DEF DrainClaims, Drain, Drainer
  <2>4. QED
    BY <1>1, <1>3, <2>1, <2>2, <2>3 DEF DrainClaims
<1>4. CASE DrainCompletes
  <2>1. Messages' /\ Reads'
    BY <1>4 DEF DrainCompletes, Messages, Reads
  <2>2. Drainer'
    BY <1>4 DEF DrainCompletes, Drain, Drainer
  <2>3. QED
    BY <1>1, <1>4, <2>1, <2>2 DEF DrainCompletes
<1>5. CASE DrainBreaks
  <2>1. Counts' /\ Drainer'
    BY <1>5, AttentionAssumption DEF DrainBreaks, Drain, Counts, Drainer
  <2>2. QED
    BY <1>1, <1>5, <2>1 DEF DrainBreaks
<1>6. QED
  BY <1>2, <1>3, <1>4, <1>5 DEF Drains

\* The tick goes on with something it read, or is over.
LEMMA GoesOnTyped ==
  ASSUME NEW rest \in SUBSET Schedule, GoesOn(rest)
  PROVE  /\ batch' \subseteq Schedule /\ firing' \in Schedule \cup {NoSchedule}
         /\ stage' \in {"idle", "asked"}
         /\ firing' # NoSchedule <=> stage' = "asked"
  BY SchedulerAssumption DEF GoesOn, Stage

LEMMA ClockTyped ==
  ASSUME Typed,
         \/ Tick \/ NotRun \/ TurnBegins \/ TurnEnds \/ Mark \/ TickLost
         \/ \E s \in Schedule : ComesDue(s) \/ Toggle(s) \/ Delete(s)
  PROVE  Clock'
<1> USE DEF Typed
<1>1. CASE Tick
  BY <1>1, GoesOnTyped DEF Tick, Due, Clock
<1>2. CASE NotRun \/ TurnBegins \/ TurnEnds
  BY <1>2 DEF NotRun, TurnBegins, TurnEnds, Stage, Clock
<1>3. CASE Mark
  <2>1. due' \in [Schedule -> BOOLEAN]
    BY <1>3 DEF Mark, Clock
  <2>2. QED
    BY <1>3, <2>1, GoesOnTyped DEF Mark, Clock
<1>4. CASE TickLost
  BY <1>4, GoesOnTyped DEF TickLost, Clock
<1>5. ASSUME NEW s \in Schedule, ComesDue(s) \/ Toggle(s) \/ Delete(s) PROVE Clock'
  <2>1. CASE ComesDue(s)
    BY <1>5, <2>1, SchedulerAssumption DEF ComesDue, Clock
  <2>2. CASE Toggle(s) \/ Delete(s)
    BY <2>2 DEF Toggle, Delete, Clock
  <2>3. QED
    BY <1>5, <2>1, <2>2
<1>6. QED
  BY <1>1, <1>2, <1>3, <1>4, <1>5

\* The background turns and the scheduler.
LEMMA DaemonTyped ==
  ASSUME Typed, ContinueBegins \/ DaemonTurns \/ SchedulerAlone \/ MarkFails
  PROVE  Typed'
<1> USE MessagesKept, RowsKept, TurnsKept, DrainerKept, CountsKept, ClockKept
<1> USE DEF Typed
<1>1. CASE ContinueBegins \/ ContinueEnds
  <2>1. Turns' /\ Shared'
    BY <1>1 DEF ContinueBegins, ContinueEnds, SlotForBackground, Outward, Turns, Shared,
                schedVars
  <2>2. QED
    BY <1>1, <2>1 DEF ContinueBegins, ContinueEnds, Outward
<1>2. CASE ScheduleBegins \/ ScheduleEnds
  <2>1. TurnBegins \/ TurnEnds
    BY <1>2 DEF ScheduleBegins, ScheduleEnds
  <2>2. Clock'
    BY <2>1, ClockTyped
  <2>3. Turns' /\ Shared'
    BY <1>2 DEF ScheduleBegins, ScheduleEnds, TurnBegins, TurnEnds, Stage,
                SlotForBackground, Outward, Turns, Shared
  <2>4. QED
    BY <1>2, <2>2, <2>3 DEF ScheduleBegins, ScheduleEnds, Outward
<1>3. CASE SchedulerAlone
  <2>1. \/ Tick \/ NotRun \/ Mark
        \/ \E s \in Schedule : ComesDue(s)
    BY <1>3 DEF SchedulerAlone, DaemonSteps
  <2>2. Clock'
    BY <2>1, ClockTyped
  <2>3. UNCHANGED <<msgVars, taskVars, turnVars, drainVars, bounds>>
    BY <1>3 DEF SchedulerAlone, Outward, turnVars
  <2>4. Shared'
    <3>1. CASE Tick
      <4>1. stage = "idle" /\ stage' # "thinking"
        BY <3>1 DEF Tick, GoesOn, Stage
      <4>2. QED
        BY <4>1, <2>3 DEF Shared, turnVars
    <3>2. CASE NotRun
      BY <3>2, <2>3 DEF NotRun, Stage, Shared, turnVars
    <3>3. CASE Mark
      <4>1. stage = "ran" /\ stage' # "thinking"
        BY <3>3 DEF Mark, GoesOn, Stage
      <4>2. QED
        BY <4>1, <2>3 DEF Shared, turnVars
    <3>4. CASE \E s \in Schedule : ComesDue(s)
      BY <3>4, <2>3 DEF ComesDue, Shared, turnVars
    <3>5. QED
      BY <2>1, <3>1, <3>2, <3>3, <3>4
  <2>5. QED
    BY <2>2, <2>3, <2>4
<1>4. CASE MarkFails
  <2>1. TickLost /\ stage = "ran" /\ stage' # "thinking"
    BY <1>4 DEF MarkFails, MarkRaises, TickLost, GoesOn, Stage
  <2>2. Clock'
    BY <2>1, ClockTyped
  <2>3. Counts'
    BY <1>4, AttentionAssumption DEF MarkFails, Counts
  <2>4. UNCHANGED <<msgVars, taskVars, turnVars, drainVars>>
    BY <1>4 DEF MarkFails
  <2>5. Shared'
    BY <2>1, <2>4 DEF Shared, turnVars
  <2>6. QED
    BY <2>2, <2>3, <2>4, <2>5
<1>5. QED
  BY <1>1, <1>2, <1>3, <1>4, ClockTyped DEF DaemonTurns

\* The app and a crash.
LEMMA OutsideTyped ==
  ASSUME Typed,
         \/ \E t \in Task : AppTask(t)
         \/ \E s \in Schedule : AppSchedule(s)
         \/ Crash
  PROVE  Typed'
<1> USE MessagesKept, RowsKept, TurnsKept, DrainerKept, CountsKept, ClockKept
<1> USE DEF Typed
<1>1. ASSUME NEW t \in Task, AppTask(t) PROVE Typed'
  <2>1. Counts'
    BY <1>1, AttentionAssumption DEF AppTask, Called, Counts
  <2>2. CASE AppPauses(t)
    BY <1>1, <2>1, <2>2, SuspendsRows DEF AppTask, AppPauses, Rows, Shared, turnVars, schedVars
  <2>3. CASE AppResumes(t) \/ AppRevokes(t)
    BY <1>1, <2>1, <2>3, ResumesRows, RevokesRows
    DEF AppTask, AppResumes, AppRevokes, Shared, turnVars, schedVars
  <2>4. QED
    BY <1>1, <2>2, <2>3 DEF AppTask
<1>2. ASSUME NEW s \in Schedule, AppSchedule(s) PROVE Typed'
  <2>1. Counts'
    BY <1>2, AttentionAssumption DEF AppSchedule, Called, Counts
  <2>2. Clock' /\ UNCHANGED stage
    BY <1>2, ClockTyped DEF AppSchedule, Toggle, Delete
  <2>3. QED
    BY <1>2, <2>1, <2>2 DEF AppSchedule, Shared, turnVars
<1>3. CASE Crash
  <2>1. Messages' /\ Reads'
    BY <1>3 DEF Crash, UnderWay, Short, Messages, Reads, Place
  <2>2. Turns' /\ Drainer' /\ Counts'
    BY <1>3, AttentionAssumption DEF Crash, Drain, Turns, Drainer, Counts
  <2>3. Clock' /\ stage' # "thinking"
    BY <1>3, ClockTyped DEF Crash, TickLost, GoesOn, Stage
  <2>4. QED
    BY <1>3, <2>1, <2>2, <2>3 DEF Crash, Shared
<1>4. QED
  BY <1>1, <1>2, <1>3

\* Every step keeps the types.
LEMMA NextTyped == Typed /\ [Next]_vars => Typed'
<1> SUFFICES ASSUME Typed, [Next]_vars PROVE Typed'
  OBVIOUS
<1>1. CASE Next
  BY <1>1, HandlerTyped, CoordinatorTyped, DrainerTyped, DaemonTyped, OutsideTyped DEF Next
<1>2. CASE UNCHANGED vars
  BY <1>2, MessagesKept, RowsKept, TurnsKept, DrainerKept, CountsKept, ClockKept
  DEF vars, Typed, Shared, turnVars, schedVars
<1>3. QED
  BY <1>1, <1>2

\* Types, that the drainer has a message and the scheduler a schedule exactly while
\* they work on one, and that a replaced task has been outdone.
THEOREM TypeCorrect == Spec => []TypeOK
<1>1. QED
  BY InitTyped, NextTyped, TypedTypeOK, PTL DEF Spec

-----------------------------------------------------------------------------
\* One turn for each message.  A message that has not been submitted, or that the
\* drainer may still claim, has had no turn and has none ahead; the drainer may claim
\* only what the handler has let go.

Unrouted(m) == at[m] \in {"new", "replying", "heard", "forgetting", "forgot"}
Unsubmitted(m) ==
    Unrouted(m) \/ at[m] \in {"routed", "looked", "suspending", "ending", "ready"}
Ahead(m) == <<"message", m>> \in queued \/ <<"aside", m>> \in queued

OneTurn(m) ==
    /\ turns[m] <= 1
    /\ turns[m] = 1 => ~Ahead(m)
    /\ ~(<<"message", m>> \in queued /\ <<"aside", m>> \in queued)
    /\ Unsubmitted(m) \/ SetAside(m) => turns[m] = 0 /\ ~Ahead(m)
    /\ Unrouted(m) => row[m] = "none"
    /\ at[m] \in {"routed", "looked", "suspending", "ending", "ready"} => kind[m] # "aside"
    /\ taken = m => ~Unrouted(m)

OneTurnEach == \A m \in Msg : OneTurn(m)

\* What a step leaves alone when it does not concern message m.
OthersKept(m) ==
    \A n \in Msg \ {m} :
        /\ at'[n] = at[n] /\ row'[n] = row[n] /\ kind'[n] = kind[n] /\ turns'[n] = turns[n]
        /\ \A k \in {"message", "aside"} : <<k, n>> \in queued' => <<k, n>> \in queued
        /\ taken' = n => taken = n

LEMMA OthersOneTurn ==
  ASSUME OneTurnEach, NEW m \in Msg, OthersKept(m), OneTurn(m)'
  PROVE  OneTurnEach'
<1> SUFFICES ASSUME NEW n \in Msg, n # m PROVE OneTurn(n)'
  BY DEF OneTurnEach
<1>1. OneTurn(n)
  BY DEF OneTurnEach
<1>2. QED
  BY <1>1 DEF OthersKept, OneTurn, Ahead, Unsubmitted, Unrouted, SetAside

\* A handler's step.
LEMMA HandlerOneTurn ==
  ASSUME Typed, OneTurnEach, NEW m \in Msg,
         Arrives(m) \/ Forgets(m) \/ Handler(m) \/ TimesOut(m) \/ Breaks(m)
  PROVE  OneTurnEach'
<1> USE DEF OneTurn, Ahead, Unsubmitted, Unrouted, SetAside
<1>o. OneTurn(m)
  BY DEF OneTurnEach
<1>u. at \in [Msg -> Place] /\ row \in [Msg -> {"none", "pending", "processing", "completed"}]
      /\ kind \in [Msg -> Kind \cup {"none"}]
  BY DEF Typed, Messages
<1>1. CASE Arrives(m)
  <2>1. OthersKept(m)
    BY <1>1, <1>u DEF Arrives, Goes, Inward, turnVars, drainVars, OthersKept
  <2>2. OneTurn(m)'
    BY <1>1, <1>u, <1>o DEF Arrives, Goes, Inward, turnVars, drainVars
  <2>3. QED
    BY <2>1, <2>2, OthersOneTurn
<1>2. CASE Replies(m) \/ Forgets(m) \/ Forgotten(m) \/ Looks(m) \/ SuspendsIt(m) \/ EndsIt(m)
           \/ LooksAgain(m) \/ MayWake(m) \/ Wakes(m) \/ TimesOut(m)
  <2>1. OthersKept(m)
    BY <1>2, <1>u
    DEF Replies, Forgets, Forgotten, Looks, SuspendsIt, EndsIt, LooksAgain, MayWake,
        Wakes, TimesOut, Goes, Inward, turnVars, drainVars, OthersKept
  <2>2. OneTurn(m)'
    BY <1>2, <1>u, <1>o
    DEF Replies, Forgets, Forgotten, Looks, SuspendsIt, EndsIt, LooksAgain, MayWake,
        Wakes, TimesOut, Waits, Goes, Inward, turnVars, drainVars
  <2>3. QED
    BY <2>1, <2>2, OthersOneTurn
<1>3. CASE Weighs(m)
  <2>1. PICK there \in {"suspending", "ending", "ready"} : Goes(m, there)
    BY <1>3 DEF Weighs
  <2>2. OthersKept(m)
    BY <1>3, <2>1, <1>u DEF Weighs, Goes, Inward, turnVars, drainVars, OthersKept
  <2>3. OneTurn(m)'
    BY <1>3, <2>1, <1>u, <1>o DEF Weighs, Goes, Inward, turnVars, drainVars
  <2>4. QED
    BY <2>2, <2>3, OthersOneTurn
<1>4. CASE Routed(m)
  <2>1. OthersKept(m)
    BY <1>4, <1>u DEF Routed, Goes, Inward, turnVars, drainVars, OthersKept
  <2>2. OneTurn(m)'
    BY <1>4, <1>u, <1>o DEF Routed, Goes, Inward, turnVars, drainVars
  <2>3. QED
    BY <2>1, <2>2, OthersOneTurn
<1>5. CASE Completes(m)
  <2>1. OthersKept(m)
    BY <1>5, <1>u DEF Completes, Goes, Inward, turnVars, drainVars, OthersKept
  <2>2. OneTurn(m)'
    BY <1>5, <1>u, <1>o DEF Completes, Goes, Inward, turnVars, drainVars
  <2>3. QED
    BY <2>1, <2>2, OthersOneTurn
<1>6. CASE Submits(m)
  <2>1. OthersKept(m)
    BY <1>6, <1>u DEF Submits, Submit, Goes, drainVars, OthersKept
  <2>2. OneTurn(m)'
    BY <1>6, <1>u, <1>o DEF Submits, Submit, Goes, drainVars
  <2>3. QED
    BY <2>1, <2>2, OthersOneTurn
<1>7. CASE Recovers(m)
  <2>1. OthersKept(m)
    BY <1>7, <1>u DEF Recovers, Submit, Goes, drainVars, OthersKept
  <2>2. OneTurn(m)'
    BY <1>7, <1>u, <1>o DEF Recovers, Submit, Goes, drainVars
  <2>3. QED
    BY <2>1, <2>2, OthersOneTurn
<1>8. CASE Breaks(m)
  <2>1. PICK there \in {"heard", "forgot", "ready", "done", "gone"} :
           /\ Goes(m, there)
           /\ there = "heard" => at[m] = "replying"
           /\ there = "forgot" => at[m] = "forgetting"
           /\ there = "ready" => at[m] = "ending"
    BY <1>8 DEF Breaks, Short
  <2>2. OthersKept(m)
    BY <1>8, <2>1, <1>u DEF Breaks, Goes, turnVars, drainVars, OthersKept
  <2>3. OneTurn(m)'
    BY <1>8, <2>1, <1>u, <1>o DEF Breaks, Goes, turnVars, drainVars
  <2>4. QED
    BY <2>2, <2>3, OthersOneTurn
<1>9. QED
  BY <1>1, <1>2, <1>3, <1>4, <1>5, <1>6, <1>7, <1>8 DEF Handler

\* A turn that begins is no longer ahead.
LEMMA StartOneTurn ==
  ASSUME Typed, OneTurnEach, NEW r \in Turn, TurnStarts(r)
  PROVE  OneTurnEach'
<1>1. PICK k \in {"message", "resume", "aside"}, m \in Msg : r = <<k, m>>
  BY DEF Turn
<1>u. turns \in [Msg -> Nat]
  BY DEF Typed, Turns
<1>2. turns' = (IF k = "resume" THEN turns ELSE [turns EXCEPT ![m] = @ + 1])
  BY <1>1 DEF TurnStarts
<1>3. <<k, m>> \in queued /\ queued' = queued \ {<<k, m>>}
  BY <1>1 DEF TurnStarts
<1>4. UNCHANGED <<at, row, kind, taken>>
  BY DEF TurnStarts, msgVars, drainVars
<1>5. OthersKept(m)
  BY <1>2, <1>3, <1>4, <1>u DEF OthersKept
<1>6. OneTurn(m)
  BY DEF OneTurnEach
<1>7. OneTurn(m)'
  <2>1. CASE k = "resume"
    BY <2>1, <1>2, <1>3, <1>4, <1>6 DEF OneTurn, Ahead, Unsubmitted, Unrouted, SetAside
  <2>2. CASE k # "resume"
    <3>1. Ahead(m) /\ turns[m] = 0 /\ turns'[m] = 1
      BY <2>2, <1>2, <1>3, <1>6, <1>u DEF OneTurn, Ahead
    <3>2. ~Ahead(m)' /\ ~Unsubmitted(m) /\ ~SetAside(m)
      BY <2>2, <1>3, <1>6, <3>1 DEF OneTurn, Ahead
    <3>3. QED
      BY <3>1, <3>2, <1>4, <1>6 DEF OneTurn, Ahead, Unsubmitted, Unrouted, SetAside
  <2>3. QED
    BY <2>1, <2>2
<1>8. QED
  BY <1>5, <1>7, OthersOneTurn

\* The drainer.
LEMMA DrainerOneTurn ==
  ASSUME Typed, OneTurnEach, Drains \/ DrainTimesOut \/ DrainBreaks
  PROVE  OneTurnEach'
<1> USE DEF OneTurn, Ahead, Unsubmitted, Unrouted, SetAside
<1>u. /\ row \in [Msg -> {"none", "pending", "processing", "completed"}]
      /\ taken \in Msg \cup {Nothing}
      /\ taken # Nothing <=> drain \in {"waiting", "answered"}
  BY DEF Typed, Messages, Drainer
<1>1. CASE DrainLooks \/ DrainSees \/ DrainFindsNone \/ DrainTimesOut \/ DrainBreaks
  <2>1. UNCHANGED <<at, row, kind, turns, queued>> /\ taken' \in {taken, Nothing}
    BY <1>1 DEF DrainLooks, DrainSees, DrainFindsNone, DrainTimesOut, DrainBreaks, Idling,
                msgVars, turnVars
  <2>2. QED
    BY <2>1, AttentionAssumption DEF OneTurnEach
<1>2. ASSUME NEW m \in Msg, DrainClaims(m) PROVE OneTurnEach'
  <2>1. OthersKept(m)
    BY <1>2, <1>u DEF DrainClaims, Submit, OthersKept
  <2>2. OneTurn(m)
    BY DEF OneTurnEach
  <2>3. OneTurn(m)'
    BY <1>2, <2>2, <1>u DEF DrainClaims, Submit
  <2>4. QED
    BY <2>1, <2>3, OthersOneTurn
<1>3. CASE DrainCompletes
  <2>1. taken \in Msg
    BY <1>3, <1>u DEF DrainCompletes
  <2>2. OneTurn(taken)
    BY <2>1 DEF OneTurnEach
  <2>3. OthersKept(taken)
    BY <1>3, <1>u, <2>1, AttentionAssumption DEF DrainCompletes, turnVars, OthersKept
  <2>4. row'[taken] = "completed" /\ taken' = Nothing /\ UNCHANGED <<at, kind, turns, queued>>
    BY <1>3, <1>u, <2>1 DEF DrainCompletes, turnVars
  <2>5. QED
    <3> DEFINE m == taken
    <3>1. m \in Msg /\ OneTurn(m) /\ OthersKept(m)
      BY <2>1, <2>2, <2>3
    <3>2. row'[m] = "completed" /\ taken # Nothing /\ taken' = Nothing /\ m # Nothing
      BY <2>1, <2>4, AttentionAssumption
    <3> SUFFICES ASSUME NEW n \in Msg PROVE OneTurn(n)'
      BY DEF OneTurnEach
    <3>3. OneTurn(n) /\ taken' # n
      BY <3>2, AttentionAssumption DEF OneTurnEach
    <3>4. CASE n = m
      BY <3>2, <3>3, <3>4, <2>4
    <3>5. CASE n # m
      BY <3>1, <3>3, <3>5, <2>4 DEF OthersKept
    <3>6. QED
      BY <3>4, <3>5
<1>4. QED
  BY <1>1, <1>2, <1>3 DEF Drains

\* Nothing else gives a message a turn.
LEMMA ElsewhereOneTurn ==
  ASSUME Typed, OneTurnEach,
         \/ \E t \in Task : TurnWorks(t) \/ AppTask(t)
         \/ ContinueBegins \/ DaemonTurns \/ SchedulerAlone \/ MarkFails
         \/ \E s \in Schedule : AppSchedule(s)
         \/ UNCHANGED vars
  PROVE  OneTurnEach'
<1>1. UNCHANGED <<at, row, kind, turns, queued, taken>>
  BY DEF TurnWorks, AppTask, ContinueBegins, DaemonTurns, ContinueEnds, ScheduleBegins,
         ScheduleEnds, SchedulerAlone, MarkFails, AppSchedule, vars, msgVars, turnVars,
         drainVars, Outward
<1>2. QED
  BY <1>1 DEF OneTurnEach, OneTurn, Ahead, Unsubmitted, Unrouted, SetAside

\* A turn's end and a crash take what is ahead away, and move no message back.
LEMMA EndOneTurn ==
  ASSUME Typed, OneTurnEach, TurnEnded \/ Crash
  PROVE  OneTurnEach'
<1>u. at \in [Msg -> Place]
  BY DEF Typed, Messages
<1>1. UNCHANGED <<row, kind, turns>> /\ queued' \subseteq queued /\ taken' \in {taken, Nothing}
  BY DEF TurnEnded, Crash
<1>2. \A m \in Msg : at'[m] = at[m] \/ at'[m] \in {"answered", "done", "gone"}
  BY <1>u DEF TurnEnded, Crash, Short
<1>3. QED
  <2> SUFFICES ASSUME NEW m \in Msg PROVE OneTurn(m)'
    BY DEF OneTurnEach
  <2>1. OneTurn(m) /\ (taken' = m => taken = m)
    BY <1>1, AttentionAssumption DEF OneTurnEach
  <2>2. at'[m] = at[m] \/ at'[m] \in {"answered", "done", "gone"}
    BY <1>2
  <2>3. Ahead(m)' => Ahead(m)
    BY <1>1 DEF Ahead
  <2>4. QED
    BY <1>1, <2>1, <2>2, <2>3 DEF OneTurn, Unsubmitted, Unrouted, SetAside

LEMMA NextOneTurn == Typed /\ OneTurnEach /\ [Next]_vars => OneTurnEach'
  BY HandlerOneTurn, StartOneTurn, DrainerOneTurn, ElsewhereOneTurn, EndOneTurn DEF Next

\* No message is given two turns.
THEOREM TurnOnceHolds == Spec => []TurnOnce
<1>1. Init => OneTurnEach
  BY AttentionAssumption
  DEF Init, OneTurnEach, OneTurn, Ahead, Unsubmitted, Unrouted, SetAside
<1>2. OneTurnEach => TurnOnce
  BY DEF OneTurnEach, OneTurn, TurnOnce
<1>3. QED
  BY <1>1, <1>2, InitTyped, NextTyped, NextOneTurn, PTL DEF Spec

-----------------------------------------------------------------------------
\* No message falls between its handler and the drainer.  A handler that has its
\* answer records it before it goes on, so that whatever it does then, and however
\* early it gives that up, the message is done with.

Safe(m) ==
    /\ at[m] # "new" => UnderWay(m) \/ SetAside(m) \/ taken = m \/ row[m] = "completed"
    /\ at[m] \in {"owing", "waking", "allowed", "recovering", "resuming"}
          => row[m] = "completed"
    /\ at[m] # "gone"
AllSafe == faults = 0 => \A m \in Msg : Safe(m)

LEMMA HandlerSafe ==
  ASSUME Typed, OneTurnEach, AllSafe, NEW m \in Msg,
         Arrives(m) \/ Forgets(m) \/ Handler(m) \/ TimesOut(m) \/ Breaks(m)
  PROVE  AllSafe'
<1>u. at \in [Msg -> Place] /\ row \in [Msg -> {"none", "pending", "processing", "completed"}]
      /\ kind \in [Msg -> Kind \cup {"none"}] /\ faults \in Nat
  BY DEF Typed, Messages, Counts
<1>1. CASE Breaks(m)
  BY <1>1, <1>u DEF Breaks, AllSafe
<1>2. CASE Arrives(m) \/ Forgets(m) \/ Handler(m) \/ TimesOut(m)
  <2>1. faults' = faults /\ taken' = taken
    BY <1>2
    DEF Arrives, Forgets, Handler, Replies, Forgotten, Routed, Looks, Weighs, SuspendsIt, EndsIt,
        Submits, TimesOut, Completes, LooksAgain, MayWake, Wakes, Recovers, Inward,
        bounds, drainVars
  <2>2. SUFFICES ASSUME faults = 0, NEW n \in Msg PROVE Safe(n)'
    BY <2>1 DEF AllSafe
  <2>3. Safe(n) /\ Safe(m)
    BY <2>2 DEF AllSafe
  <2>4. CASE n # m
    <3>1. at'[n] = at[n] /\ row'[n] = row[n] /\ kind'[n] = kind[n]
      BY <1>2, <1>u, <2>4
      DEF Arrives, Forgets, Handler, Replies, Forgotten, Routed, Looks, Weighs, SuspendsIt, EndsIt,
          Submits, TimesOut, Completes, LooksAgain, MayWake, Wakes, Recovers, Goes
    <3>2. QED
      BY <2>1, <2>3, <3>1 DEF Safe, UnderWay, SetAside
  <2>5. CASE n = m
    <3> USE DEF Safe, UnderWay, SetAside, Goes
    <3>1. CASE Arrives(m) \/ Replies(m) \/ Forgets(m) \/ Forgotten(m) \/ Routed(m) \/ Looks(m)
      BY <1>u, <2>1, <2>3, <2>5, <3>1 DEF Arrives, Replies, Forgets, Forgotten, Routed, Looks
    <3>2. CASE Weighs(m)
      BY <1>u, <2>1, <2>3, <2>5, <3>2 DEF Weighs
    <3>3. CASE SuspendsIt(m) \/ EndsIt(m) \/ Submits(m) \/ TimesOut(m) \/ Completes(m)
      BY <1>u, <2>1, <2>3, <2>5, <3>3
      DEF SuspendsIt, EndsIt, Submits, TimesOut, Completes, Waits
    <3>4. CASE LooksAgain(m) \/ MayWake(m) \/ Wakes(m) \/ Recovers(m)
      BY <1>u, <2>1, <2>3, <2>5, <3>4 DEF LooksAgain, MayWake, Wakes, Recovers
    <3>5. QED
      BY <1>2, <3>1, <3>2, <3>3, <3>4 DEF Handler
  <2>6. QED
    BY <2>4, <2>5
<1>3. QED
  BY <1>1, <1>2

LEMMA DrainerSafe ==
  ASSUME Typed, OneTurnEach, AllSafe, Drains \/ DrainTimesOut \/ DrainBreaks
  PROVE  AllSafe'
<1>u. /\ row \in [Msg -> {"none", "pending", "processing", "completed"}]
      /\ taken \in Msg \cup {Nothing} /\ (taken # Nothing <=> drain \in {"waiting", "answered"})
      /\ faults \in Nat
  BY DEF Typed, Messages, Drainer, Counts
<1> USE DEF AllSafe, Safe, UnderWay, SetAside
<1>1. CASE DrainBreaks
  BY <1>1, <1>u DEF DrainBreaks
<1>2. CASE DrainLooks \/ DrainSees \/ DrainFindsNone \/ DrainTimesOut
  BY <1>2 DEF DrainLooks, DrainSees, DrainFindsNone, DrainTimesOut, Idling, msgVars, bounds
<1>3. ASSUME NEW m \in Msg, DrainClaims(m) PROVE AllSafe'
  <2>1. taken = Nothing /\ faults' = faults
    BY <1>3, <1>u DEF DrainClaims, bounds
  <2>2. QED
    BY <1>3, <2>1, <1>u, AttentionAssumption DEF DrainClaims
<1>4. CASE DrainCompletes
  BY <1>4, <1>u, AttentionAssumption DEF DrainCompletes, bounds
<1>5. QED
  BY <1>1, <1>2, <1>3, <1>4 DEF Drains

LEMMA ElsewhereSafe ==
  ASSUME Typed, AllSafe,
         \/ \E r \in Turn : TurnStarts(r)
         \/ TurnEnded
         \/ \E t \in Task : TurnWorks(t) \/ AppTask(t)
         \/ ContinueBegins \/ DaemonTurns \/ SchedulerAlone \/ MarkFails
         \/ \E s \in Schedule : AppSchedule(s)
         \/ Crash \/ UNCHANGED vars
  PROVE  AllSafe'
<1>u. at \in [Msg -> Place] /\ faults \in Nat
  BY DEF Typed, Messages, Counts
<1> USE DEF AllSafe, Safe, UnderWay, SetAside
<1>1. CASE MarkFails \/ Crash
  BY <1>1, <1>u DEF MarkFails, Crash
<1>2. CASE TurnEnded
  BY <1>2, <1>u DEF TurnEnded, bounds
<1>3. CASE \/ \E r \in Turn : TurnStarts(r)
           \/ \E t \in Task : TurnWorks(t) \/ AppTask(t)
           \/ ContinueBegins \/ DaemonTurns \/ SchedulerAlone
           \/ \E s \in Schedule : AppSchedule(s)
           \/ UNCHANGED vars
  <2>1. UNCHANGED <<at, row, kind, taken, faults>>
    BY <1>3
    DEF TurnStarts, TurnWorks, AppTask, ContinueBegins, DaemonTurns, ContinueEnds,
        ScheduleBegins, ScheduleEnds, SchedulerAlone, AppSchedule, Called, Outward, vars,
        msgVars, drainVars, bounds
  <2>2. QED
    BY <2>1
<1>4. QED
  BY <1>1, <1>2, <1>3

\* A message that has arrived is in its handler's hands, set aside or with the drainer
\* until its row says completed.
THEOREM NoMessageIsLostHolds == Spec => []NoMessageIsLost
<1>1. Init => AllSafe
  BY DEF Init, AllSafe, Safe
<1>2. Typed /\ OneTurnEach /\ AllSafe /\ [Next]_vars => AllSafe'
  BY HandlerSafe, DrainerSafe, ElsewhereSafe DEF Next
<1>3. AllSafe => NoMessageIsLost
  BY DEF AllSafe, Safe, NoMessageIsLost
<1>4. Init => OneTurnEach
  BY AttentionAssumption
  DEF Init, OneTurnEach, OneTurn, Ahead, Unsubmitted, Unrouted, SetAside
<1>5. QED
  BY <1>1, <1>2, <1>3, <1>4, InitTyped, NextTyped, NextOneTurn, PTL DEF Spec

-----------------------------------------------------------------------------
\* What an interruption paused is owed a resume.

\* A task that a step leaves paused, in its place and not by the app was so before.
PausedBefore ==
    \A t \in Task :
        primary' = t /\ status'[t] = "paused" /\ ~byUser'[t]
            => primary = t /\ status[t] = "paused" /\ ~byUser[t]

\* The handlers that owe something still do.
OwersKept == \A m \in Msg, t \in Task : Owes(m, t) => Owes(m, t)'

LEMMA OwedStill == ASSUME PausedIsOwed, faults' = 0 => faults = 0, PausedBefore, OwersKept
                   PROVE  PausedIsOwed'
  BY DEF PausedIsOwed, PausedBefore, OwersKept

\* No operation on the rows but suspend and the app's pause leaves a task paused.
LEMMA RevokesBefore == ASSUME Rows, NEW t \in Task, Revokes(t) PROVE PausedBefore
  BY AttentionAssumption DEF Rows, Revokes, Becomes, PausedBefore
LEMMA ResumesBefore == ASSUME Rows, NEW t \in Task, Resumes(t) PROVE PausedBefore
<1>1. CASE replaced[t] \/ status[t] = "paused"
  BY <1>1 DEF Rows, Resumes, Becomes, PausedBefore
<1>2. CASE ~(replaced[t] \/ status[t] = "paused")
  BY <1>2, AttentionAssumption DEF Rows, Resumes, PausedBefore
<1>3. QED
  BY <1>1, <1>2
LEMMA RowsBefore == ASSUME UNCHANGED taskVars PROVE PausedBefore
  BY DEF taskVars, PausedBefore

LEMMA TurnWorksBefore == ASSUME Rows, NEW t \in Task, TurnWorks(t) PROVE PausedBefore
<1>1. CASE Plans(t)
  BY <1>1 DEF Plans, Becomes, Rows, PausedBefore
<1>2. CASE Finishes(t) \/ Asks(t)
  BY <1>2, AttentionAssumption DEF Finishes, Asks, Becomes, Rows, PausedBefore
<1>3. CASE TakesUp(t)
  BY <1>3, ResumesBefore DEF TakesUp
<1>4. QED
  BY <1>1, <1>2, <1>3 DEF TurnWorks

\* A step of a handler that owed nothing leaves the others' debts.
LEMMA OwersKeptBy ==
  ASSUME NEW m \in Msg, \A t \in Task : ~Owes(m, t),
         \A n \in Msg \ {m} : at'[n] = at[n] /\ prior'[n] = prior[n] /\ suspended'[n] = suspended[n]
  PROVE  OwersKept
  BY DEF OwersKept, Owes

LEMMA HandlerOwed ==
  ASSUME Typed, PausedIsOwed, NEW m \in Msg,
         Arrives(m) \/ Forgets(m) \/ Handler(m) \/ TimesOut(m) \/ Breaks(m)
  PROVE  PausedIsOwed'
<1>u. /\ at \in [Msg -> Place] /\ prior \in [Msg -> Task \cup {Nothing}]
      /\ suspended \in [Msg -> BOOLEAN] /\ Reads /\ Rows
  BY DEF Typed, Messages
<1>f. ~Breaks(m) => faults' = faults
  BY DEF Handler, Arrives, Forgets, Replies, Forgotten, Routed, Looks, Weighs, SuspendsIt, EndsIt,
         Submits, TimesOut, Completes, LooksAgain, MayWake, Wakes, Recovers, Inward, bounds
<1>1. CASE Replies(m)
  <2>1. PausedBefore
    <3>1. UNCHANGED <<primary, byUser>>
      BY <1>1 DEF Replies
    <3>2. \A t \in Task : status'[t] = "paused" => status[t] = "paused"
      BY <1>1, <1>u DEF Replies, Becomes, Rows
    <3>3. QED
      BY <3>1, <3>2 DEF PausedBefore
  <2>2. OwersKept
    BY <1>1, <1>u, OwersKeptBy DEF Replies, Goes, Owes
  <2>3. faults' = faults
    BY <1>1, <1>f DEF Replies, Inward, bounds
  <2>4. QED
    BY <2>1, <2>2, <2>3, OwedStill
<1>2. CASE Arrives(m) \/ Forgets(m) \/ Routed(m) \/ Looks(m)
  <2>1. PausedBefore
    BY <1>2, RowsBefore DEF Arrives, Forgets, Routed, Looks
  <2>2. OwersKept
    BY <1>2, <1>u, OwersKeptBy DEF Arrives, Forgets, Routed, Looks, Goes, Owes
  <2>3. faults' = faults
    BY <1>2 DEF Arrives, Forgets, Routed, Looks, Inward, bounds
  <2>4. QED
    BY <2>1, <2>2, <2>3, OwedStill
<1>3. CASE Forgotten(m) \/ EndsIt(m)
  <2>1. prior[m] \in Task
    BY <1>3, <1>u DEF Forgotten, EndsIt, Reads
  <2>2. PausedBefore
    BY <1>3, <1>u, <2>1, RevokesBefore, RowsBefore DEF Forgotten, EndsIt
  <2>3. OwersKept
    BY <1>3, <1>u, OwersKeptBy DEF Forgotten, EndsIt, Goes, Owes
  <2>4. faults' = faults
    BY <1>3 DEF Forgotten, EndsIt, Inward, bounds
  <2>5. QED
    BY <2>2, <2>3, <2>4, OwedStill
<1>4. CASE Weighs(m)
  <2>1. PausedBefore
    BY <1>4, RowsBefore DEF Weighs
  <2>2. OwersKept
    <3>1. \A t \in Task : ~Owes(m, t)
      BY <1>4 DEF Weighs, Owes
    <3>2. PICK there \in Place : Goes(m, there)
      BY <1>4 DEF Weighs, Place
    <3>3. UNCHANGED <<prior, suspended>>
      BY <1>4 DEF Weighs
    <3>4. \A n \in Msg \ {m} : at'[n] = at[n]
      BY <3>2, <1>u DEF Goes
    <3>5. QED
      BY <3>1, <3>3, <3>4, OwersKeptBy
  <2>3. faults' = faults
    BY <1>4 DEF Weighs, Inward, bounds
  <2>4. QED
    BY <2>1, <2>2, <2>3, OwedStill
<1>5. CASE SuspendsIt(m)
  <2>1. prior[m] \in Task
    BY <1>5, <1>u DEF SuspendsIt, Reads
  <2>2. /\ at'[m] = "ready" /\ prior'[m] = prior[m] /\ suspended'[m]
        /\ UNCHANGED <<primary, byUser>> /\ faults' = faults
    BY <1>5, <1>u DEF SuspendsIt, Goes, Inward, bounds
  <2>3. OwersKept
    BY <1>5, <1>u, OwersKeptBy DEF SuspendsIt, Goes, Owes
  <2>4. \A t \in Task \ {prior[m]} : status'[t] = status[t]
    BY <1>5, <1>u DEF SuspendsIt, Suspends, Becomes, Rows
  <2>5. QED
    <3> SUFFICES ASSUME faults' = 0, NEW t \in Task,
                        primary' = t, status'[t] = "paused", ~byUser'[t]
                 PROVE  \E n \in Msg : Owes(n, t)'
      BY DEF PausedIsOwed
    <3>1. CASE t = prior[m]
      BY <3>1, <2>1, <2>2 DEF Owes
    <3>2. CASE t # prior[m]
      <4>1. PICK n \in Msg : Owes(n, t)
        BY <3>2, <2>2, <2>4 DEF PausedIsOwed
      <4>2. QED
        BY <4>1, <2>3 DEF OwersKept
    <3>3. QED
      BY <3>1, <3>2
<1>6. CASE Submits(m) \/ Completes(m) \/ TimesOut(m) \/ Recovers(m)
  <2>1. PausedBefore
    BY <1>6, RowsBefore DEF Submits, Completes, TimesOut, Recovers
  <2>2. OwersKept
    BY <1>6, <1>u DEF Submits, Completes, TimesOut, Waits, Recovers, Goes, Owes, OwersKept
  <2>3. faults' = faults
    BY <1>6 DEF Submits, Completes, TimesOut, Recovers, Inward, bounds
  <2>4. QED
    BY <2>1, <2>2, <2>3, OwedStill
<1>7. CASE LooksAgain(m) \/ MayWake(m)
  <2>1. UNCHANGED <<taskVars, prior, suspended>> /\ faults' = faults
    BY <1>7 DEF LooksAgain, MayWake, Inward, bounds
  <2>2. \A t \in Task, n \in Msg :
           /\ primary = t /\ status[t] = "paused" /\ Owes(n, t)
           => Owes(n, t)'
    <3> SUFFICES ASSUME NEW t \in Task, NEW n \in Msg, primary = t, status[t] = "paused",
                        Owes(n, t)
                 PROVE  Owes(n, t)'
      OBVIOUS
    <3>1. CASE n # m
      BY <3>1, <1>7, <1>u, <2>1 DEF LooksAgain, MayWake, Goes, Owes
    <3>2. CASE n = m /\ LooksAgain(m)
      BY <3>2, <1>u, <2>1 DEF LooksAgain, Goes, Owes
    <3>3. CASE n = m /\ MayWake(m)
      BY <3>3, <1>u, <2>1 DEF MayWake, Goes, Owes
    <3>4. QED
      BY <3>1, <3>2, <3>3, <1>7
  <2>3. QED
    BY <2>1, <2>2 DEF PausedIsOwed, taskVars
<1>8. CASE Wakes(m)
  <2>1. prior[m] \in Task
    BY <1>8, <1>u DEF Wakes, Reads
  <2>2. UNCHANGED <<prior, suspended>> /\ faults' = faults /\ \A n \in Msg \ {m} : at'[n] = at[n]
    BY <1>8, <1>u DEF Wakes, Goes, Inward, bounds
  <2>3. primary' = prior[m] => status'[prior[m]] # "paused"
    BY <1>8, <2>1, <1>u, AttentionAssumption DEF Wakes, Resumes, Becomes, Rows
  <2>4. PausedBefore
    BY <1>8, <2>1, <1>u, ResumesBefore DEF Wakes
  <2>5. QED
    <3> SUFFICES ASSUME faults' = 0, NEW t \in Task,
                        primary' = t, status'[t] = "paused", ~byUser'[t]
                 PROVE  \E n \in Msg : Owes(n, t)'
      BY DEF PausedIsOwed
    <3>1. PICK n \in Msg : Owes(n, t)
      BY <2>2, <2>4 DEF PausedBefore, PausedIsOwed
    <3>2. n # m
      BY <2>3, <3>1 DEF Owes
    <3>3. QED
      BY <2>2, <3>1, <3>2 DEF Owes
<1>9. CASE Breaks(m)
  BY <1>9 DEF Breaks, PausedIsOwed, Typed, Counts
<1>10. QED
  BY <1>1, <1>2, <1>3, <1>4, <1>5, <1>6, <1>7, <1>8, <1>9 DEF Handler

\* The other steps.
LEMMA ElsewhereOwed ==
  ASSUME Typed, PausedIsOwed,
         \/ \E r \in Turn : TurnStarts(r)
         \/ TurnEnded
         \/ \E t \in Task : TurnWorks(t) \/ AppTask(t)
         \/ Drains \/ DrainTimesOut \/ DrainBreaks
         \/ ContinueBegins \/ DaemonTurns \/ SchedulerAlone \/ MarkFails
         \/ \E s \in Schedule : AppSchedule(s)
         \/ Crash \/ UNCHANGED vars
  PROVE  PausedIsOwed'
<1>u. /\ at \in [Msg -> Place] /\ Rows /\ faults \in Nat
  BY DEF Typed, Messages, Counts
<1>1. CASE DrainBreaks \/ MarkFails \/ Crash
  BY <1>1, <1>u DEF DrainBreaks, MarkFails, Crash, PausedIsOwed
<1>2. CASE TurnEnded
  <2>1. UNCHANGED <<taskVars, prior, suspended>> /\ faults' = faults
    BY <1>2 DEF TurnEnded, bounds
  <2>2. OwersKept
    BY <1>2, <1>u DEF TurnEnded, Owes, OwersKept
  <2>3. QED
    BY <2>1, <2>2, OwedStill, RowsBefore
<1>3. CASE \/ \E r \in Turn : TurnStarts(r)
           \/ Drains \/ DrainTimesOut
           \/ ContinueBegins \/ DaemonTurns \/ SchedulerAlone
           \/ \E s \in Schedule : AppSchedule(s)
           \/ UNCHANGED vars
  <2>1. UNCHANGED <<taskVars, at, prior, suspended>> /\ faults' = faults
    BY <1>3
    DEF TurnStarts, Drains, DrainLooks, DrainSees, DrainFindsNone, DrainClaims,
        DrainCompletes, DrainTimesOut, Idling, ContinueBegins, DaemonTurns, ContinueEnds,
        ScheduleBegins, ScheduleEnds, SchedulerAlone, AppSchedule, Called, Outward, vars,
        msgVars, bounds
  <2>2. OwersKept
    BY <2>1 DEF Owes, OwersKept
  <2>3. QED
    BY <2>1, <2>2, OwedStill, RowsBefore
<1>4. ASSUME NEW t \in Task, TurnWorks(t) PROVE PausedIsOwed'
  <2>1. UNCHANGED <<at, prior, suspended>> /\ faults' = faults
    BY <1>4 DEF TurnWorks, msgVars, bounds
  <2>2. OwersKept
    BY <2>1 DEF Owes, OwersKept
  <2>3. QED
    BY <1>4, <1>u, <2>1, <2>2, OwedStill, TurnWorksBefore
<1>5. ASSUME NEW t \in Task, AppTask(t) PROVE PausedIsOwed'
  <2>1. UNCHANGED <<at, prior, suspended>> /\ faults' = faults
    BY <1>5 DEF AppTask, Called, msgVars
  <2>2. OwersKept
    BY <2>1 DEF Owes, OwersKept
  <2>3. PausedBefore
    <3>1. CASE AppPauses(t)
      BY <3>1, <1>u DEF AppPauses, Suspends, Becomes, Rows, PausedBefore
    <3>2. CASE AppResumes(t) \/ AppRevokes(t)
      BY <3>2, <1>u, ResumesBefore, RevokesBefore DEF AppResumes, AppRevokes
    <3>3. QED
      BY <1>5, <3>1, <3>2 DEF AppTask
  <2>4. QED
    BY <2>1, <2>2, <2>3, OwedStill
<1>6. QED
  BY <1>1, <1>2, <1>3, <1>4, <1>5

\* A primary task that an interruption paused has a handler that will resume it.
THEOREM PausedIsOwedHolds == Spec => []PausedIsOwed
<1>1. Init => PausedIsOwed
  BY DEF Init, PausedIsOwed
<1>2. Typed /\ PausedIsOwed /\ [Next]_vars => PausedIsOwed'
  BY HandlerOwed, ElsewhereOwed DEF Next
<1>3. QED
  BY <1>1, <1>2, InitTyped, NextTyped, PTL DEF Spec

-----------------------------------------------------------------------------
\* A stopped task stays over.

\* Only a passing message suspends and resumes; a stop ends what it was sent to
\* before the handler goes on.
Purposes ==
    \A m \in Msg :
        at[m] \in {"suspending", "owing", "waking", "allowed", "recovering", "resuming"}
        \/ suspended[m] => kind[m] = "passing"

\* A task that is over and was never replaced is beyond everybody's reach.
OverForGood ==
    \A t \in Task : status[t] \in Terminal /\ ~outdone[t]' => status'[t] \in Terminal
OutdoneStays == \A t \in Task : outdone[t] => outdone'[t]

LEMMA RevokesOver == ASSUME Rows, NEW t \in Task, Revokes(t)
                     PROVE  OverForGood /\ OutdoneStays /\ status'[t] \in Terminal
  BY DEF Rows, Revokes, Becomes, Terminal, OverForGood, OutdoneStays

LEMMA ResumesOver == ASSUME Rows, NEW t \in Task, Resumes(t)
                     PROVE  OverForGood /\ OutdoneStays
<1>1. CASE replaced[t] \/ status[t] = "paused"
  BY <1>1 DEF Rows, Resumes, Becomes, Terminal, OverForGood, OutdoneStays
<1>2. CASE ~(replaced[t] \/ status[t] = "paused")
  BY <1>2 DEF Rows, Resumes, OverForGood, OutdoneStays
<1>3. QED
  BY <1>1, <1>2

LEMMA SuspendsOver == ASSUME Rows, NEW t \in Task, Suspends(t), UNCHANGED outdone
                      PROVE  OverForGood /\ OutdoneStays
  BY DEF Rows, Suspends, Becomes, Terminal, OverForGood, OutdoneStays

LEMMA RowsOver == ASSUME UNCHANGED taskVars PROVE OverForGood /\ OutdoneStays
  BY DEF taskVars, OverForGood, OutdoneStays

LEMMA TurnWorksOver == ASSUME Rows, NEW t \in Task, TurnWorks(t)
                       PROVE  OverForGood /\ OutdoneStays
<1>1. CASE Plans(t)
  BY <1>1 DEF Plans, Becomes, Rows, Terminal, OverForGood, OutdoneStays
<1>2. CASE Finishes(t) \/ Asks(t)
  BY <1>2, ActiveTask DEF Finishes, Asks, Becomes, Rows, Terminal, Live, OverForGood, OutdoneStays
<1>3. CASE TakesUp(t)
  BY <1>3, ResumesOver DEF TakesUp
<1>4. QED
  BY <1>1, <1>2, <1>3 DEF TurnWorks

\* What a handler that has gone on may rely on, message by message.
Ended(m) ==
    Told(m) /\ prior[m] # Nothing /\ ~outdone[prior[m]] => status[prior[m]] \in Terminal

LEMMA EndedStill ==
  ASSUME Typed, OverForGood, OutdoneStays, NEW n \in Msg, Ended(n),
         prior'[n] = prior[n], Told(n)' => Told(n)
  PROVE  Ended(n)'
<1>1. prior[n] = Nothing \/ prior[n] \in Task
  BY DEF Typed, Messages
<1>2. QED
  BY <1>1 DEF Ended, OverForGood, OutdoneStays

StopsEach == faults = 0 => \A m \in Msg : Ended(m)

LEMMA HandlerStops ==
  ASSUME Typed, Purposes, StopsEach, NEW m \in Msg,
         Arrives(m) \/ Forgets(m) \/ Handler(m) \/ TimesOut(m) \/ Breaks(m)
  PROVE  Purposes' /\ StopsEach'
<1>u. /\ at \in [Msg -> Place] /\ prior \in [Msg -> Task \cup {Nothing}]
      /\ kind \in [Msg -> Kind \cup {"none"}]
      /\ suspended \in [Msg -> BOOLEAN] /\ Reads /\ Rows
  BY DEF Typed, Messages
\* The other messages need only that what is over stays so.
<1>k. ASSUME OverForGood, OutdoneStays, faults' = faults, NEW M \in SUBSET Msg,
             \A n \in M : prior'[n] = prior[n] /\ (Told(n)' => Told(n)),
             \A n \in Msg \ M : Ended(n)'
      PROVE  StopsEach'
  BY <1>k, EndedStill DEF StopsEach
<1>1. CASE Replies(m)
  <2>1. OverForGood /\ OutdoneStays
    <3>1. UNCHANGED outdone
      BY <1>1 DEF Replies
    <3>2. \A t \in Task : status[t] \in Terminal => status'[t] = status[t]
      BY <1>1, <1>u DEF Replies, Becomes, Rows, Terminal
    <3>3. QED
      BY <3>1, <3>2 DEF OverForGood, OutdoneStays
  <2>2. Ended(m)'
    BY <1>1, <1>u DEF Replies, Goes, Ended, Told
  <2>3. \A n \in Msg \ {m} : kind'[n] = kind[n] /\ prior'[n] = prior[n] /\ at'[n] = at[n]
    BY <1>1, <1>u DEF Replies, Goes
  <2>4. faults' = faults
    BY <1>1 DEF Replies, Inward, bounds
  <2>5. StopsEach'
    BY <1>k, <2>1, <2>2, <2>3, <2>4 DEF Told
  <2>6. Purposes'
    BY <1>1, <1>u DEF Replies, Goes, Reads, Purposes
  <2>7. QED
    BY <2>5, <2>6
<1>2. CASE Arrives(m) \/ Forgets(m) \/ Looks(m)
  <2>1. OverForGood /\ OutdoneStays
    BY <1>2, RowsOver DEF Arrives, Forgets, Looks
  <2>2. Ended(m)'
    BY <1>2, <1>u DEF Arrives, Forgets, Looks, Goes, Ended, Told
  <2>3. \A n \in Msg \ {m} : kind'[n] = kind[n] /\ prior'[n] = prior[n] /\ at'[n] = at[n]
    BY <1>2, <1>u DEF Arrives, Forgets, Looks, Goes
  <2>4. faults' = faults
    BY <1>2 DEF Arrives, Forgets, Looks, Inward, bounds
  <2>5. StopsEach'
    BY <1>k, <2>1, <2>2, <2>3, <2>4 DEF Told
  <2>6. Purposes'
    BY <1>2, <1>u DEF Arrives, Forgets, Looks, Goes, Reads, Purposes
  <2>7. QED
    BY <2>5, <2>6
<1>3. CASE Forgotten(m) \/ EndsIt(m)
  <2>1. prior[m] \in Task
    BY <1>3, <1>u DEF Forgotten, EndsIt, Reads
  <2>2. OverForGood /\ OutdoneStays /\ status'[prior[m]] \in Terminal
    <3>1. Revokes(prior[m]) \/ (UNCHANGED taskVars /\ status[prior[m]] = "revoked")
      BY <1>3 DEF Forgotten, EndsIt
    <3>2. QED
      BY <3>1, <2>1, <1>u, RevokesOver, RowsOver DEF taskVars, Terminal
  <2>3. UNCHANGED <<kind, prior, suspended>> /\ faults' = faults
    BY <1>3 DEF Forgotten, EndsIt, Inward, bounds
  <2>4. \A n \in Msg \ {m} : at'[n] = at[n]
    BY <1>3, <1>u DEF Forgotten, EndsIt, Goes
  <2>5. Ended(m)'
    BY <2>2, <2>3 DEF Ended
  <2>6. StopsEach'
    BY <1>k, <2>2, <2>3, <2>4, <2>5 DEF Told
  <2>7. Purposes'
    BY <1>3, <1>u, <2>3 DEF Forgotten, EndsIt, Goes, Purposes
  <2>8. QED
    BY <2>6, <2>7
<1>4. CASE Weighs(m)
  <2>1. OverForGood /\ OutdoneStays
    BY <1>4, RowsOver DEF Weighs
  <2>2. UNCHANGED <<kind, prior, suspended>> /\ faults' = faults
    BY <1>4 DEF Weighs, Inward, bounds
  <2>3. PICK there \in {"suspending", "ending", "ready"} :
           /\ Goes(m, there)
           /\ there = "suspending" => kind[m] = "passing"
           /\ there = "ready" => ~(kind[m] = "stop" /\ prior[m] # Nothing)
    BY <1>4 DEF Weighs
  <2>4. \A n \in Msg \ {m} : at'[n] = at[n]
    BY <2>3, <1>u DEF Goes
  <2>5. Ended(m)'
    BY <2>2, <2>3, <1>u DEF Goes, Ended, Told
  <2>6. StopsEach'
    BY <1>k, <2>1, <2>2, <2>4, <2>5 DEF Told
  <2>7. Purposes'
    BY <1>u, <2>2, <2>3 DEF Goes, Purposes
  <2>8. QED
    BY <2>6, <2>7
<1>5. CASE \/ Routed(m) \/ SuspendsIt(m) \/ Submits(m) \/ Completes(m) \/ TimesOut(m)
           \/ LooksAgain(m) \/ MayWake(m) \/ Wakes(m) \/ Recovers(m)
  <2>1. OverForGood /\ OutdoneStays
    <3>1. CASE SuspendsIt(m)
      BY <3>1, <1>u, SuspendsOver DEF SuspendsIt, Reads
    <3>2. CASE Wakes(m)
      BY <3>2, <1>u, ResumesOver DEF Wakes, Reads
    <3>3. CASE ~SuspendsIt(m) /\ ~Wakes(m)
      BY <3>3, <1>5, RowsOver DEF Routed, Submits, Completes, TimesOut, LooksAgain, MayWake, Recovers
    <3>4. QED
      BY <3>1, <3>2, <3>3
  <2>2. UNCHANGED <<kind, prior>> /\ faults' = faults
    BY <1>5 DEF Routed, SuspendsIt, Submits, Completes, TimesOut, LooksAgain, MayWake,
                Wakes, Recovers, Inward, bounds
  <2>3. \A n \in Msg \ {m} : at'[n] = at[n] /\ suspended'[n] = suspended[n]
    BY <1>5, <1>u DEF Routed, SuspendsIt, Submits, Completes, TimesOut, LooksAgain,
                      MayWake, Wakes, Recovers, Goes
  <2>4. Purposes'
    BY <1>5, <1>u, <2>2, <2>3
    DEF Routed, SuspendsIt, Submits, Completes, TimesOut, Waits, LooksAgain,
        MayWake, Wakes, Recovers, Goes, Purposes
  <2>5. CASE kind[m] = "stop"
    <3>1. Told(m)' => Told(m)
      BY <1>5, <1>u, <2>2, <2>5
      DEF Told, Purposes, Routed, SuspendsIt, Submits, Completes, TimesOut, Waits,
          LooksAgain, MayWake, Wakes, Recovers, Goes
    <3>2. QED
      BY <1>k, <2>1, <2>2, <2>3, <2>4, <3>1 DEF Told
  <2>6. CASE kind[m] # "stop"
    <3>1. ~Told(m)'
      BY <1>5, <1>u, <2>2, <2>6
      DEF Told, Routed, SuspendsIt, Submits, Completes, TimesOut, Waits,
          LooksAgain, MayWake, Wakes, Recovers, Goes
    <3>2. Ended(m)'
      BY <3>1 DEF Ended
    <3>3. QED
      BY <1>k, <2>1, <2>2, <2>3, <2>4, <3>2 DEF Told
  <2>7. QED
    BY <2>5, <2>6
<1>6. CASE Breaks(m)
  <2>1. faults' # 0
    BY <1>6 DEF Breaks, Typed, Counts
  <2>2. Purposes'
    BY <1>6, <1>u DEF Breaks, UnderWay, Short, Goes, Purposes
  <2>3. QED
    BY <2>1, <2>2 DEF StopsEach
<1>7. QED
  BY <1>1, <1>2, <1>3, <1>4, <1>5, <1>6 DEF Handler

LEMMA ElsewhereStops ==
  ASSUME Typed, Purposes, StopsEach,
         \/ \E r \in Turn : TurnStarts(r)
         \/ TurnEnded
         \/ \E t \in Task : TurnWorks(t) \/ AppTask(t)
         \/ Drains \/ DrainTimesOut \/ DrainBreaks
         \/ ContinueBegins \/ DaemonTurns \/ SchedulerAlone \/ MarkFails
         \/ \E s \in Schedule : AppSchedule(s)
         \/ Crash \/ UNCHANGED vars
  PROVE  Purposes' /\ StopsEach'
<1>u. /\ at \in [Msg -> Place] /\ Rows /\ faults \in Nat
  BY DEF Typed, Messages, Counts
<1>1. CASE Crash
  BY <1>1, <1>u DEF Crash, UnderWay, Short, StopsEach, Purposes
<1>2. CASE ~Crash
  <2>1. UNCHANGED <<kind, prior, suspended>>
    BY <1>2
    DEF TurnStarts, TurnEnded, TurnWorks, AppTask, Drains, DrainLooks, DrainSees,
        DrainFindsNone, DrainClaims, DrainCompletes, DrainTimesOut, DrainBreaks, Idling,
        ContinueBegins, DaemonTurns, ContinueEnds, ScheduleBegins, ScheduleEnds,
        SchedulerAlone, MarkFails, AppSchedule, Outward, vars, msgVars
  <2>2. \A m \in Msg : \/ at'[m] = at[m]
                       \/ at[m] = "waiting" /\ at'[m] = "answered"
                       \/ at[m] = "resuming" /\ at'[m] = "done"
    BY <1>2, <1>u
    DEF TurnStarts, TurnEnded, TurnWorks, AppTask, Drains, DrainLooks, DrainSees,
        DrainFindsNone, DrainClaims, DrainCompletes, DrainTimesOut, DrainBreaks, Idling,
        ContinueBegins, DaemonTurns, ContinueEnds, ScheduleBegins, ScheduleEnds,
        SchedulerAlone, MarkFails, AppSchedule, Outward, vars, msgVars
  <2>3. Purposes'
    BY <2>1, <2>2 DEF Purposes
  <2>4. CASE DrainBreaks \/ MarkFails
    BY <2>3, <2>4, <1>u DEF DrainBreaks, MarkFails, StopsEach
  <2>5. CASE ~DrainBreaks /\ ~MarkFails
    <3>1. faults' = faults
      BY <1>2, <2>5
      DEF TurnStarts, TurnEnded, TurnWorks, AppTask, Drains, DrainLooks, DrainSees,
          DrainFindsNone, DrainClaims, DrainCompletes, DrainTimesOut, Idling,
          ContinueBegins, DaemonTurns, ContinueEnds, ScheduleBegins, ScheduleEnds,
          SchedulerAlone, AppSchedule, Called, Outward, vars, bounds
    <3>2. OverForGood /\ OutdoneStays
      <4>1. ASSUME NEW t \in Task, TurnWorks(t) PROVE OverForGood /\ OutdoneStays
        BY <4>1, <1>u, TurnWorksOver
      <4>2. ASSUME NEW t \in Task, AppTask(t) PROVE OverForGood /\ OutdoneStays
        BY <4>2, <1>u, ResumesOver, RevokesOver, SuspendsOver
        DEF AppTask, AppPauses, AppResumes, AppRevokes
      <4>3. CASE ~\E t \in Task : TurnWorks(t) \/ AppTask(t)
        <5>1. UNCHANGED taskVars
          BY <4>3, <1>2, <2>5
          DEF TurnStarts, TurnEnded, Drains, DrainLooks, DrainSees,
              DrainFindsNone, DrainClaims, DrainCompletes, DrainTimesOut, Idling,
              ContinueBegins, DaemonTurns, ContinueEnds, ScheduleBegins, ScheduleEnds,
              SchedulerAlone, AppSchedule, Outward, vars
        <5>2. QED
          BY <5>1, RowsOver
      <4>4. QED
        BY <4>1, <4>2, <4>3
    <3>3. ASSUME NEW m \in Msg, Ended(m) PROVE Ended(m)'
      <4>1. CASE kind[m] = "stop"
        <5>1. at[m] # "resuming"
          BY <4>1 DEF Purposes
        <5>2. QED
          BY <5>1, <2>1, <2>2, <3>2, <3>3, EndedStill DEF Told
      <4>2. CASE kind[m] # "stop"
        BY <4>2, <2>1, <2>2, <3>2, <3>3, EndedStill DEF Told
      <4>3. QED
        BY <4>1, <4>2
    <3>4. QED
      BY <2>3, <3>1, <3>3 DEF StopsEach
  <2>6. QED
    BY <2>4, <2>5
<1>3. QED
  BY <1>1, <1>2

\* Once the handler that was told to stop a task has gone on, the task is over for
\* good, unless a new task had replaced it.
THEOREM StopsForGoodHolds == Spec => []StopsForGood
<1>1. Init => Purposes /\ StopsEach
  BY DEF Init, Purposes, StopsEach, Ended, Told
<1>2. Typed /\ Purposes /\ StopsEach /\ [Next]_vars => Purposes' /\ StopsEach'
  BY HandlerStops, ElsewhereStops DEF Next
<1>3. StopsEach => StopsForGood
  BY DEF StopsEach, Ended, StopsForGood
<1>4. QED
  BY <1>1, <1>2, <1>3, InitTyped, NextTyped, PTL DEF Spec

-----------------------------------------------------------------------------
\* A schedule is fired once each time it is due.

\* The tick means to fire it, or will find it due.
InHand(s) == s \in batch \/ (firing = s /\ stage = "asked")
Open == {s \in Schedule : entry[s] # "gone" /\ due[s]}
Pending(s) == (s \in Open \/ InHand(s)) /\ ~Begun(s)

\* Until something fails, what the tick has in hand is due, and what is due is all that
\* has no outcome.
Even(s) ==
    entry[s] # "gone" =>
        /\ InHand(s) \/ Begun(s) => due[s]
        /\ times[s] = Outcomes(s) + (IF due[s] /\ ~Begun(s) THEN 1 ELSE 0)

Counted ==
    /\ firing \notin batch
    /\ stage = "idle" => batch = {}
    /\ \A s \in Schedule : /\ Outcomes(s) <= times[s] + faults
                           /\ Pending(s) => Outcomes(s) < times[s] + faults
                           /\ faults = 0 => Even(s)

\* Going on with what was read makes nothing pending that was not.
LEMMA GoesOnPending ==
  ASSUME Typed, NEW rest \in SUBSET Schedule, GoesOn(rest)
  PROVE  /\ firing' \notin batch' /\ (stage' = "idle" => batch' = {})
         /\ \A s \in Schedule : (InHand(s)' => s \in rest) /\ ~Begun(s)'
  BY SchedulerAssumption DEF GoesOn, Stage, InHand, Begun

LEMMA SchedulerCounted ==
  ASSUME Typed, Counted, UNCHANGED faults,
         \/ Tick \/ NotRun \/ TurnBegins \/ TurnEnds \/ Mark
         \/ \E s \in Schedule : ComesDue(s) \/ Toggle(s) \/ Delete(s)
  PROVE  Counted'
<1>u. Clock /\ faults \in Nat
  BY DEF Typed, Counts
<1>n. /\ MaxTimes \in Nat
      /\ \A s \in Schedule : times[s] \in Nat /\ fired[s] \in Nat /\ passed[s] \in Nat
      /\ \A s \in Schedule : Outcomes(s) \in Nat
  BY <1>u, SchedulerAssumption DEF Clock, Outcomes
<1>1. CASE Tick
  <2>1. /\ GoesOn(Due) /\ Due \in SUBSET Schedule /\ stage = "idle"
        /\ UNCHANGED <<entry, due, times, fired, passed>>
    BY <1>1 DEF Tick, Due
  <2>2. Open' = Open /\ Due \subseteq Open /\ \A s \in Schedule : Outcomes(s)' = Outcomes(s)
    BY <2>1 DEF Due, Open, Outcomes
  <2>3. ASSUME NEW s \in Schedule, Pending(s)' PROVE Pending(s)
    BY <2>1, <2>2, <2>3, GoesOnPending DEF Pending, Begun
  <2>4. ASSUME NEW s \in Schedule, Even(s) PROVE Even(s)'
    <3>1. ~Begun(s) /\ ~Begun(s)' /\ (InHand(s)' => due[s])
      BY <2>1, GoesOnPending DEF Begun, Due
    <3>2. QED
      BY <2>1, <2>2, <2>4, <3>1 DEF Even
  <2>5. QED
    BY <2>1, <2>2, <2>3, <2>4, GoesOnPending DEF Counted
<1>2. CASE TurnEnds
  <2>1. /\ UNCHANGED <<entry, due, batch, firing, times, fired, passed>> /\ Open' = Open
        /\ stage = "thinking" /\ stage' = "ran"
    BY <1>2 DEF TurnEnds, Stage, Open
  <2>2. \A s \in Schedule : /\ Outcomes(s)' = Outcomes(s)
                            /\ (InHand(s)' <=> InHand(s)) /\ (Begun(s)' <=> Begun(s))
    BY <2>1 DEF Outcomes, InHand, Begun
  <2>3. QED
    BY <2>1, <2>2 DEF Counted, Pending, Even
<1>3. CASE TurnBegins \/ NotRun
  <2>1. /\ UNCHANGED <<entry, due, batch, firing, times>> /\ Open' = Open
        /\ stage = "asked" /\ stage' \in {"thinking", "ran"}
        /\ \/ fired' = [fired EXCEPT ![firing] = @ + 1] /\ passed' = passed
           \/ passed' = [passed EXCEPT ![firing] = @ + 1] /\ fired' = fired
    BY <1>3 DEF TurnBegins, NotRun, Stage, Open
  <2>2. firing \in Schedule /\ Pending(firing) /\ InHand(firing) /\ ~Begun(firing)
    BY <1>u, <2>1 DEF Clock, Pending, InHand, Begun
  <2>3. Outcomes(firing)' = Outcomes(firing) + 1
    BY <1>u, <1>n, <2>1, <2>2 DEF Outcomes, Clock
  <2>4. Outcomes(firing)' <= times[firing] + faults
    BY <1>u, <1>n, <2>2, <2>3 DEF Counted
  <2>5. Begun(firing)' /\ ~Pending(firing)'
    BY <2>1 DEF Pending, Begun
  <2>6. faults = 0 => Even(firing)'
    <3> SUFFICES ASSUME faults = 0, entry[firing] # "gone" PROVE Even(firing)'
      BY <2>1 DEF Even
    <3>1. due[firing] /\ times[firing] = Outcomes(firing) + 1
      BY <2>2 DEF Counted, Even
    <3>2. QED
      BY <1>n, <2>1, <2>2, <2>3, <2>5, <3>1 DEF Even
  <2>7. ASSUME NEW s \in Schedule, s # firing
        PROVE  /\ Outcomes(s)' = Outcomes(s) /\ ~Begun(s) /\ ~Begun(s)'
               /\ (InHand(s)' <=> InHand(s))
    BY <1>u, <2>1, <2>7 DEF Clock, Outcomes, InHand, Begun
  <2>8. ASSUME NEW s \in Schedule, s # firing
        PROVE  (Pending(s)' => Pending(s)) /\ (Even(s) => Even(s)')
    BY <2>1, <2>7, <2>8 DEF Pending, Even
  <2>9. QED
    BY <2>1, <2>4, <2>5, <2>6, <2>7, <2>8 DEF Counted
<1>4. CASE Mark
  <2>1. /\ GoesOn(batch) /\ batch \in SUBSET Schedule
        /\ UNCHANGED <<entry, times, fired, passed>>
        /\ stage = "ran" /\ firing \in Schedule
        /\ due' = IF entry[firing] = "gone" THEN due ELSE [due EXCEPT ![firing] = FALSE]
    BY <1>4, <1>u DEF Mark, Clock
  <2>2. /\ firing \notin Open' /\ Open' \subseteq Open
        /\ \A s \in Schedule : Outcomes(s)' = Outcomes(s)
        /\ \A s \in Schedule \ {firing} : due'[s] = due[s]
        /\ entry[firing] # "gone" => ~due'[firing]
    BY <1>u, <2>1 DEF Open, Clock, Outcomes
  <2>3. ASSUME NEW s \in Schedule, Pending(s)' PROVE Pending(s)
    <3>1. s # firing
      BY <2>1, <2>2, <2>3, GoesOnPending DEF Pending, Counted
    <3>2. s \in Open \/ s \in batch
      BY <2>1, <2>2, <2>3, GoesOnPending DEF Pending
    <3>3. QED
      BY <3>1, <3>2 DEF Pending, InHand, Begun
  <2>4. ASSUME NEW s \in Schedule, Even(s) PROVE Even(s)'
    <3>1. (InHand(s)' => s \in batch) /\ ~Begun(s)'
      BY <2>1, GoesOnPending
    <3>2. CASE s = firing
      <4>1. Begun(s) /\ s \notin batch
        BY <2>1, <3>2 DEF Begun, Counted
      <4>2. QED
        BY <1>n, <2>1, <2>2, <2>4, <3>1, <3>2, <4>1 DEF Even
    <3>3. CASE s # firing
      <4>1. ~Begun(s) /\ (s \in batch => InHand(s))
        BY <3>3 DEF Begun, InHand
      <4>2. QED
        BY <2>1, <2>2, <2>4, <3>1, <3>3, <4>1 DEF Even
    <3>4. QED
      BY <3>2, <3>3
  <2>5. QED
    BY <2>1, <2>2, <2>3, <2>4, GoesOnPending DEF Counted
<1>5. ASSUME NEW s \in Schedule, ComesDue(s) PROVE Counted'
  <2>1. /\ UNCHANGED <<entry, batch, firing, stage, fired, passed>>
        /\ ~due[s] /\ entry[s] # "gone"
        /\ times' = [times EXCEPT ![s] = @ + 1]
        /\ due' = [due EXCEPT ![s] = TRUE]
    BY <1>5 DEF ComesDue
  <2>2. times'[s] = times[s] + 1 /\ due'[s]
    BY <1>u, <2>1 DEF Clock
  <2>3. \A u \in Schedule \ {s} : times'[u] = times[u] /\ due'[u] = due[u]
    BY <1>u, <2>1 DEF Clock
  <2>4. \A u \in Schedule : /\ Outcomes(u)' = Outcomes(u)
                            /\ (InHand(u)' <=> InHand(u)) /\ (Begun(u)' <=> Begun(u))
    BY <2>1 DEF Outcomes, InHand, Begun
  <2>5. ASSUME NEW u \in Schedule, u # s
        PROVE  (Pending(u)' => Pending(u)) /\ (Even(u) => Even(u)')
    BY <2>1, <2>3, <2>4, <2>5 DEF Pending, Open, Even
  <2>6. Outcomes(s)' < times'[s] + faults' /\ Outcomes(s)' <= times'[s] + faults'
    BY <1>n, <1>u, <2>2, <2>4 DEF Counted
  <2>7. faults = 0 => Even(s)'
    BY <1>n, <2>1, <2>2, <2>4 DEF Counted, Even
  <2>8. QED
    BY <1>n, <2>1, <2>3, <2>4, <2>5, <2>6, <2>7 DEF Counted
<1>6. ASSUME NEW s \in Schedule, Toggle(s) \/ Delete(s) PROVE Counted'
  <2>1. UNCHANGED <<due, batch, firing, stage, times, fired, passed>>
    BY <1>6 DEF Toggle, Delete
  <2>2. \A u \in Schedule : entry'[u] # "gone" => entry[u] # "gone"
    BY <1>6, <1>u DEF Toggle, Delete, Clock
  <2>3. \A u \in Schedule : /\ Outcomes(u)' = Outcomes(u)
                            /\ (InHand(u)' <=> InHand(u)) /\ (Begun(u)' <=> Begun(u))
    BY <2>1 DEF Outcomes, InHand, Begun
  <2>4. ASSUME NEW u \in Schedule
        PROVE  (Pending(u)' => Pending(u)) /\ (Even(u) => Even(u)')
    BY <2>1, <2>2, <2>3, <2>4 DEF Pending, Open, Even
  <2>5. QED
    BY <2>1, <2>3, <2>4 DEF Counted
<1>7. QED
  BY <1>1, <1>2, <1>3, <1>4, <1>5, <1>6

\* A tick that is lost may fire again what it had begun: that is the fault.
LEMMA LostCounted ==
  ASSUME Typed, Counted, TickLost, faults' = faults + 1
  PROVE  Counted'
<1>1. UNCHANGED <<times, fired, passed>> /\ firing' = NoSchedule /\ batch' = {}
  BY DEF TickLost, GoesOn
<1>2. \A s \in Schedule : times[s] \in Nat /\ Outcomes(s) \in Nat /\ Outcomes(s)' = Outcomes(s)
  BY <1>1, SchedulerAssumption DEF Typed, Clock, Outcomes
<1>3. faults \in Nat
  BY DEF Typed, Counts
<1>4. QED
  BY <1>1, <1>2, <1>3 DEF Counted

LEMMA CountedKept == ASSUME Typed, Counted, UNCHANGED schedVars, faults' \in {faults, faults + 1}
                     PROVE  Counted'
<1>1. \A s \in Schedule : times[s] \in Nat /\ Outcomes(s) \in Nat /\ Outcomes(s)' = Outcomes(s)
  BY SchedulerAssumption DEF Typed, Clock, Outcomes, schedVars
<1>2. faults \in Nat
  BY DEF Typed, Counts
<1>3. \A s \in Schedule : (Pending(s)' <=> Pending(s)) /\ (Even(s)' <=> Even(s))
  BY <1>1 DEF schedVars, Pending, InHand, Begun, Open, Even
<1>4. QED
  BY <1>1, <1>2, <1>3 DEF Counted, schedVars

LEMMA NextCounted == Typed /\ Counted /\ [Next]_vars => Counted'
<1> SUFFICES ASSUME Typed, Counted, [Next]_vars PROVE Counted'
  OBVIOUS
<1>1. CASE ScheduleBegins \/ ScheduleEnds \/ SchedulerAlone
  BY <1>1, SchedulerCounted DEF ScheduleBegins, ScheduleEnds, SchedulerAlone, DaemonSteps,
                                Outward, bounds
<1>2. CASE \E s \in Schedule : AppSchedule(s)
  BY <1>2, SchedulerCounted DEF AppSchedule, Called
<1>3. CASE MarkFails \/ Crash
  BY <1>3, LostCounted DEF MarkFails, MarkRaises, Crash
<1>4. CASE \/ \E m \in Msg : Arrives(m) \/ Forgets(m) \/ Handler(m) \/ TimesOut(m) \/ Breaks(m)
           \/ \E r \in Turn : TurnStarts(r)
           \/ TurnEnded
           \/ \E t \in Task : TurnWorks(t) \/ AppTask(t)
           \/ Drains \/ DrainTimesOut \/ DrainBreaks
           \/ ContinueBegins \/ ContinueEnds
           \/ UNCHANGED vars
  <2>1. UNCHANGED schedVars /\ faults' \in {faults, faults + 1}
    BY <1>4
    DEF Handler, Arrives, Forgets, Replies, Forgotten, Routed, Looks, Weighs, SuspendsIt,
        EndsIt, Submits, TimesOut, Completes, LooksAgain, MayWake, Wakes, Recovers,
        Breaks, Inward, TurnStarts, TurnEnded, TurnWorks, AppTask, Called, Drains,
        DrainLooks, DrainSees, DrainFindsNone, DrainClaims, DrainCompletes,
        DrainTimesOut, DrainBreaks, Idling, ContinueBegins, ContinueEnds, Outward,
        vars, bounds
  <2>2. QED
    BY <2>1, CountedKept
<1>5. QED
  BY <1>1, <1>2, <1>3, <1>4 DEF Next, DaemonTurns

\* Each time a schedule comes due it has one outcome, a turn or a recorded pass-over: not
\* two, but for faults, and until something fails none is missing but of what is due.
THEOREM OncePerDueHolds == Spec => []OncePerDue
<1>1. Init => Counted
  BY SchedulerAssumption
  DEF Init, SchedInit, Counted, Pending, InHand, Begun, Open, Outcomes, Even
<1>2. Counted => OncePerDue
  BY DEF Counted, OncePerDue, Even
<1>3. QED
  BY <1>1, <1>2, InitTyped, NextTyped, NextCounted, PTL DEF Spec

-----------------------------------------------------------------------------
\* What this module asks of the coordinator, the coordinator promises.

Submitted == {"waiting", "answered", "owing", "waking", "allowed", "recovering", "resuming",
              "done", "gone"}
Resumed == {"resuming", "done"}
Claimed == {"processing", "completed"}

\* A turn that is queued or runs was asked for, as was what the drainer waits for.
AskedFor ==
    /\ \A r \in queued : Made(r)
    /\ current # Nothing => Made(current)
    /\ taken # Nothing => row[taken] \in Claimed

\* A message's handler, and its row, do not go back.
Forward ==
    \A m \in Msg :
        /\ at[m] \in Submitted => at'[m] \in Submitted
        /\ at[m] \in Resumed => at'[m] \in Resumed
        /\ row[m] \in Claimed => row'[m] \in Claimed

LEMMA TurnParts == \A r \in Turn : r[1] \in {"message", "resume", "aside"} /\ r[2] \in Msg
  BY DEF Turn

\* Two requests for the same thing and the same message are one.
LEMMA TurnsAreEqual == \A r, s \in Turn : r[1] = s[1] /\ r[2] = s[2] => r = s
  BY DEF Turn

LEMMA MadeIs ==
  \A r : Made(r) <=> \/ r[1] = "message" /\ at[r[2]] \in Submitted
                     \/ r[1] = "resume" /\ at[r[2]] \in Resumed
                     \/ r[1] = "aside" /\ row[r[2]] \in Claimed
  BY DEF Made, Submitted, Resumed, Claimed
LEMMA MadeIsNext ==
  \A r : Made(r)' <=> \/ r[1] = "message" /\ at'[r[2]] \in Submitted
                      \/ r[1] = "resume" /\ at'[r[2]] \in Resumed
                      \/ r[1] = "aside" /\ row'[r[2]] \in Claimed
  BY DEF Made, Submitted, Resumed, Claimed

LEMMA MadeStays == ASSUME Forward PROVE \A r \in Turn : Made(r) => Made(r)'
<1> SUFFICES ASSUME NEW r \in Turn, Made(r) PROVE Made(r)'
  OBVIOUS
<1>1. r[2] \in Msg
  BY TurnParts
<1>2. QED
  BY <1>1, MadeIs, MadeIsNext DEF Forward

\* Whoever waits has asked.
LEMMA AwaitedIsMade ==
  ASSUME Drainer, AskedFor, NEW r \in Turn, Awaited(r)
  PROVE  Made(r)
<1>1. CASE r[1] = "aside"
  <2>1. taken = r[2] /\ drain = "waiting"
    BY <1>1 DEF Awaited
  <2>2. taken # Nothing
    BY <2>1 DEF Drainer
  <2>3. QED
    BY <1>1, <2>1, <2>2, MadeIs DEF AskedFor
<1>2. CASE r[1] # "aside"
  BY <1>2 DEF Awaited, Made
<1>3. QED
  BY <1>1, <1>2

\* Every step goes forward.
LEMMA HandlerForward ==
  ASSUME Typed, OneTurnEach, NEW m \in Msg,
         Arrives(m) \/ Forgets(m) \/ Handler(m) \/ TimesOut(m) \/ Breaks(m)
  PROVE  Forward
<1>u. at \in [Msg -> Place] /\ row \in [Msg -> {"none", "pending", "processing", "completed"}]
  BY DEF Typed, Messages
<1>1. PICK there : Goes(m, there)
  BY DEF Handler, Arrives, Forgets, Replies, Forgotten, Routed, Looks, Weighs, SuspendsIt, EndsIt,
         Submits, TimesOut, Completes, LooksAgain, MayWake, Wakes, Recovers, Breaks
<1>2. at'[m] = there /\ \A n \in Msg \ {m} : at'[n] = at[n]
  BY <1>1, <1>u DEF Goes
<1>3. /\ at[m] \in Submitted => there \in Submitted
      /\ at[m] \in Resumed => there \in Resumed
  BY <1>2, <1>u
  DEF Handler, Arrives, Forgets, Replies, Forgotten, Routed, Looks, Weighs, SuspendsIt, EndsIt,
      Submits, TimesOut, Waits, Completes, LooksAgain, MayWake, Wakes, Recovers, Breaks,
      UnderWay, Short, Goes, Submitted, Resumed
<1>4. CASE Routed(m)
  <2>1. row[m] = "none"
    BY <1>4 DEF Routed, OneTurnEach, OneTurn, Unrouted
  <2>2. \A n \in Msg \ {m} : row'[n] = row[n]
    BY <1>4, <1>u DEF Routed
  <2>3. QED
    BY <1>2, <1>3, <2>1, <2>2 DEF Forward, Claimed
<1>5. CASE Completes(m)
  <2>1. row'[m] = "completed" /\ \A n \in Msg \ {m} : row'[n] = row[n]
    BY <1>5, <1>u DEF Completes
  <2>2. QED
    BY <1>2, <1>3, <2>1 DEF Forward, Claimed
<1>6. CASE row' = row
  BY <1>2, <1>3, <1>6 DEF Forward
<1>7. QED
  BY <1>4, <1>5, <1>6
  DEF Handler, Arrives, Forgets, Replies, Forgotten, Looks, Weighs, SuspendsIt, EndsIt,
      Submits, TimesOut, LooksAgain, MayWake, Wakes, Recovers, Breaks

LEMMA OthersForward ==
  ASSUME Typed,
         \/ \E r \in Turn : TurnStarts(r)
         \/ TurnEnded \/ Drains \/ DrainTimesOut \/ DrainBreaks
         \/ \E t \in Task : TurnWorks(t) \/ AppTask(t)
         \/ ContinueBegins \/ DaemonTurns \/ SchedulerAlone \/ MarkFails
         \/ \E s \in Schedule : AppSchedule(s)
         \/ Crash \/ UNCHANGED vars
  PROVE  Forward
<1>u. /\ at \in [Msg -> Place] /\ row \in [Msg -> {"none", "pending", "processing", "completed"}]
      /\ taken \in Msg \cup {Nothing} /\ (taken # Nothing <=> drain \in {"waiting", "answered"})
  BY DEF Typed, Messages, Drainer
<1>1. CASE TurnEnded \/ Crash
  <2>1. row' = row
    BY <1>1 DEF TurnEnded, Crash
  <2>2. \A m \in Msg : \/ at'[m] = at[m]
                       \/ at'[m] = "done"
                       \/ at'[m] = "gone" /\ at[m] \notin Resumed
                       \/ at[m] = "waiting" /\ at'[m] = "answered"
    BY <1>1, <1>u DEF TurnEnded, Crash, UnderWay, Short, Resumed
  <2>3. QED
    BY <2>1, <2>2 DEF Forward, Submitted, Resumed
<1>2. ASSUME NEW m \in Msg, DrainClaims(m) PROVE Forward
  BY <1>2, <1>u DEF DrainClaims, Forward, Claimed
<1>3. CASE DrainCompletes
  BY <1>3, <1>u DEF DrainCompletes, Forward, Claimed
<1>4. CASE \/ \E r \in Turn : TurnStarts(r)
           \/ DrainLooks \/ DrainSees \/ DrainFindsNone \/ DrainTimesOut \/ DrainBreaks
           \/ \E t \in Task : TurnWorks(t) \/ AppTask(t)
           \/ ContinueBegins \/ DaemonTurns \/ SchedulerAlone \/ MarkFails
           \/ \E s \in Schedule : AppSchedule(s)
           \/ UNCHANGED vars
  <2>1. UNCHANGED <<at, row>>
    BY <1>4 DEF TurnStarts, DrainLooks, DrainSees, DrainFindsNone, DrainTimesOut, DrainBreaks,
      TurnWorks, AppTask, ContinueBegins, DaemonTurns, ContinueEnds, ScheduleBegins,
      ScheduleEnds, SchedulerAlone, MarkFails, AppSchedule, Outward, Idling, vars, msgVars
  <2>2. QED
    BY <2>1 DEF Forward
<1>5. QED
  BY <1>1, <1>2, <1>3, <1>4 DEF Drains

LEMMA NextForward == ASSUME Typed, OneTurnEach, [Next]_vars PROVE Forward
  BY HandlerForward, OthersForward DEF Next

\* AskedFor is kept by what adds no request ...
LEMMA AskedForStays ==
  ASSUME Typed, AskedFor, Forward,
         queued' \subseteq queued, current' \in queued \cup {current, Nothing},
         taken' \in {taken, Nothing}
  PROVE  AskedFor'
<1>u. queued \subseteq Turn /\ current \in Turn \cup {Nothing} /\ taken \in Msg \cup {Nothing}
  BY DEF Typed, Turns, Drainer
<1>1. \A r \in Turn : Made(r) => Made(r)'
  BY MadeStays
<1>2. \A r \in queued' : Made(r)'
  BY <1>1, <1>u DEF AskedFor
<1>3. current' # Nothing => Made(current)'
  <2> SUFFICES ASSUME current' # Nothing PROVE Made(current)'
    OBVIOUS
  <2>1. current' \in Turn /\ Made(current')
    BY <1>u DEF AskedFor
  <2> DEFINE c == current'
  <2>3. c \in Turn /\ Made(c)
    BY <2>1
  <2>4. c[2] \in Msg
    BY <2>3, TurnParts
  <2>5. \/ c[1] = "message" /\ at'[c[2]] \in Submitted
        \/ c[1] = "resume" /\ at'[c[2]] \in Resumed
        \/ c[1] = "aside" /\ row'[c[2]] \in Claimed
    BY <2>3, <2>4, MadeIs DEF Forward
  <2>6. QED
    BY <2>5 DEF Made, Submitted, Resumed, Claimed
<1>4. taken' # Nothing => row'[taken'] \in Claimed
  BY <1>u DEF AskedFor, Forward
<1>5. QED
  BY <1>2, <1>3, <1>4 DEF AskedFor

\* ... and by a request, which is made as it is queued.
LEMMA AskedForGrows ==
  ASSUME Typed, AskedFor, Forward, NEW q \in Turn, Made(q)',
         queued' = queued \cup {q}, current' = current,
         taken' # taken => row'[taken'] \in Claimed
  PROVE  AskedFor'
<1>u. queued \subseteq Turn /\ current \in Turn \cup {Nothing} /\ taken \in Msg \cup {Nothing}
  BY DEF Typed, Turns, Drainer
<1>1. \A r \in Turn : Made(r) => Made(r)'
  BY MadeStays
<1>2. \A r \in queued' : Made(r)'
  BY <1>1, <1>u DEF AskedFor
<1>3. current' # Nothing => Made(current)'
  <2> SUFFICES ASSUME current # Nothing PROVE Made(current)'
    OBVIOUS
  <2>1. current \in Turn /\ Made(current)
    BY <1>u DEF AskedFor
  <2>2. current[2] \in Msg /\ current' = current
    BY <2>1, TurnParts
  <2>3. \/ current'[1] = "message" /\ at'[current'[2]] \in Submitted
        \/ current'[1] = "resume" /\ at'[current'[2]] \in Resumed
        \/ current'[1] = "aside" /\ row'[current'[2]] \in Claimed
    BY <2>1, <2>2, MadeIs DEF Forward
  <2>4. QED
    BY <2>3 DEF Made, Submitted, Resumed, Claimed
<1>4. taken' # Nothing => row'[taken'] \in Claimed
  BY <1>u DEF AskedFor, Forward
<1>5. QED
  BY <1>2, <1>3, <1>4 DEF AskedFor

LEMMA NextAskedFor == ASSUME Typed, OneTurnEach, AskedFor, [Next]_vars PROVE AskedFor'
<1>f. Forward
  BY NextForward
<1>u. /\ at \in [Msg -> Place] /\ row \in [Msg -> {"none", "pending", "processing", "completed"}]
  BY DEF Typed, Messages
<1>1. ASSUME NEW m \in Msg, Submits(m) PROVE AskedFor'
  <2>1. <<"message", m>> \in Turn /\ Made(<<"message", m>>)'
    BY <1>1, <1>u DEF Submits, Goes, Turn, Made
  <2>2. queued' = queued \cup {<<"message", m>>} /\ UNCHANGED <<current, taken>>
    BY <1>1 DEF Submits, Submit, drainVars
  <2>3. QED
    BY <1>f, <2>1, <2>2, AskedForGrows
<1>2. ASSUME NEW m \in Msg, Recovers(m) PROVE AskedFor'
  <2>1. <<"resume", m>> \in Turn /\ Made(<<"resume", m>>)'
    BY <1>2, <1>u DEF Recovers, Goes, Turn, Made
  <2>2. queued' = queued \cup {<<"resume", m>>} /\ UNCHANGED <<current, taken>>
    BY <1>2 DEF Recovers, Submit, drainVars
  <2>3. QED
    BY <1>f, <2>1, <2>2, AskedForGrows
<1>3. ASSUME NEW m \in Msg, DrainClaims(m) PROVE AskedFor'
  <2>1. <<"aside", m>> \in Turn /\ Made(<<"aside", m>>)'
    BY <1>3, <1>u DEF DrainClaims, Turn, Made
  <2>2. /\ queued' = queued \cup {<<"aside", m>>} /\ UNCHANGED current
        /\ taken' = m /\ row'[m] \in Claimed
    BY <1>3, <1>u DEF DrainClaims, Submit, Claimed
  <2>3. QED
    BY <1>f, <2>1, <2>2, AskedForGrows
<1>4. ASSUME NEW r \in Turn, TurnStarts(r) PROVE AskedFor'
  <2>1. queued' \subseteq queued /\ current' \in queued /\ taken' = taken
    BY <1>4 DEF TurnStarts, drainVars
  <2>2. QED
    BY <1>f, <2>1, AskedForStays
<1>5. ASSUME NEW m \in Msg,
             \/ Arrives(m) \/ Forgets(m) \/ TimesOut(m) \/ Breaks(m)
             \/ Replies(m) \/ Forgotten(m) \/ Routed(m) \/ Looks(m) \/ Weighs(m)
             \/ SuspendsIt(m) \/ EndsIt(m) \/ Completes(m)
             \/ LooksAgain(m) \/ MayWake(m) \/ Wakes(m)
      PROVE  AskedFor'
  <2>1. UNCHANGED <<queued, current, taken>>
    BY <1>5
    DEF Arrives, Forgets, TimesOut, Breaks, Replies, Forgotten, Routed, Looks, Weighs, SuspendsIt,
        EndsIt, Completes, LooksAgain, MayWake, Wakes, Inward, turnVars, drainVars
  <2>2. QED
    BY <1>f, <2>1, AskedForStays
<1>6. ASSUME \/ TurnEnded \/ Crash
             \/ DrainLooks \/ DrainSees \/ DrainFindsNone \/ DrainCompletes
             \/ DrainTimesOut \/ DrainBreaks
             \/ \E t \in Task : TurnWorks(t) \/ AppTask(t)
             \/ ContinueBegins \/ DaemonTurns \/ SchedulerAlone \/ MarkFails
             \/ \E s \in Schedule : AppSchedule(s)
             \/ UNCHANGED vars
      PROVE  AskedFor'
  <2>1. queued' \subseteq queued /\ current' \in {current, Nothing} /\ taken' \in {taken, Nothing}
    BY <1>6
    DEF TurnEnded, Crash, DrainLooks, DrainSees, DrainFindsNone, DrainCompletes, DrainTimesOut,
        DrainBreaks, Drain, TurnWorks, AppTask, ContinueBegins, DaemonTurns, ContinueEnds,
        ScheduleBegins, ScheduleEnds, SchedulerAlone, MarkFails, AppSchedule, Outward, Idling,
        vars, turnVars, drainVars
  <2>2. QED
    BY <1>f, <2>1, AskedForStays
<1>7. QED
  BY <1>1, <1>2, <1>3, <1>4, <1>5, <1>6 DEF Next, Handler, Drains

-----------------------------------------------------------------------------
\* Step by step.  Where no request is made, begun or ended, no more happens than that
\* some will not be made.
LEMMA Forgoes ==
  ASSUME Typed, AskedFor, Forward, UNCHANGED <<queued, current, background>>,
         Awaiting' = Awaiting
  PROVE  [Promised!Next]_(Promised!vars)
<1>1. \A r \in Turn : Made(r) => Made(r)'
  BY MadeStays
<1>2. Spent' \in SUBSET Turn /\ Spent \subseteq Spent'
  BY <1>1 DEF Spent
<1>3. Spent' \cap queued = {}
  BY DEF Spent
<1>4. Spent' \cap Awaiting \subseteq Spent
  BY <1>3, AwaitedIsMade DEF Spent, Awaiting, Typed
<1>5. Promised!Forgo
  BY <1>2, <1>3, <1>4 DEF Promised!Forgo, Promised!MoreSpent, BackgroundNow
<1>6. QED
  BY <1>5 DEF Promised!Next

LEMMA AwaitedIsNext ==
  \A r : Awaited(r)' <=> \/ r[1] = "message" /\ at'[r[2]] = "waiting"
                         \/ r[1] = "resume" /\ at'[r[2]] = "resuming"
                         \/ r[1] = "aside" /\ drain' = "waiting" /\ taken' = r[2]
  BY DEF Awaited

\* A handler's step.
LEMMA HandlerPromised ==
  ASSUME Typed, OneTurnEach, AskedFor, NEW m \in Msg,
         Arrives(m) \/ Forgets(m) \/ Handler(m) \/ TimesOut(m) \/ Breaks(m)
  PROVE  [Promised!Next]_(Promised!vars)
<1>f. Forward
  BY HandlerForward
<1>u. /\ at \in [Msg -> Place] /\ row \in [Msg -> {"none", "pending", "processing", "completed"}]
      /\ queued \subseteq Turn
  BY DEF Typed, Messages, Turns
<1>1. ASSUME NEW k \in {"message", "resume"}, NEW before, NEW after,
             k = "message" => before = "ready" /\ after = "waiting",
             k = "resume" => before = "recovering" /\ after = "resuming",
             at[m] = before, Goes(m, after), Submit(k, m),
             UNCHANGED <<row, current, background, drain, taken>>
      PROVE  [Promised!Next]_(Promised!vars)
  <2> DEFINE q == <<k, m>>
  <2>1. q \in Turn /\ queued' = queued \cup {q} /\ ~Made(q) /\ q[1] = k /\ q[2] = m
    BY <1>1 DEF Turn, Submit, Made
  <2>2. at'[m] = after /\ \A n \in Msg \ {m} : at'[n] = at[n]
    BY <1>1, <1>u DEF Goes
  <2>3. \A r \in Turn : r # q => (Made(r)' <=> Made(r)) /\ (Awaited(r)' <=> Awaited(r))
    <3> SUFFICES ASSUME NEW r \in Turn, r # q
                 PROVE  (Made(r)' <=> Made(r)) /\ (Awaited(r)' <=> Awaited(r))
      OBVIOUS
    <3>1. r[2] \in Msg /\ r[1] \in {"message", "resume", "aside"} /\ (r[2] = m => r[1] # k)
      BY <2>1, TurnParts, TurnsAreEqual
    <3>2. CASE r[2] # m
      BY <1>1, <2>2, <3>1, <3>2, MadeIs, MadeIsNext, AwaitedIsNext DEF Awaited
    <3>3. CASE r[2] = m
      BY <1>1, <2>2, <3>1, <3>3, MadeIs, MadeIsNext, AwaitedIsNext
      DEF Awaited, Submitted, Resumed
    <3>4. QED
      BY <3>2, <3>3
  <2>4. Awaited(q)'
    BY <1>1, <2>1, <2>2, AwaitedIsNext
  <2>5. q \notin queued
    BY <2>1 DEF AskedFor
  <2> HIDE DEF q
  <2>6. Spent' = Spent
    BY <2>1, <2>3 DEF Spent
  <2>7. Awaiting' = Awaiting \cup {q}
    BY <2>1, <2>3, <2>4 DEF Awaiting
  <2>8. Promised!Submit(q)
    BY <1>1, <2>1, <2>5, <2>6, <2>7 DEF Promised!Submit, Spent, BackgroundNow
  <2>9. QED
    BY <2>1, <2>8 DEF Promised!Next
<1>2. CASE Submits(m)
  BY <1>1, <1>2 DEF Submits, drainVars
<1>3. CASE Recovers(m)
  BY <1>1, <1>3 DEF Recovers, drainVars
<1>4. ASSUME NEW k \in {"message", "resume"}, NEW before, NEW after,
             k = "message" => before = "waiting" /\ after \in {"answered", "gone"},
             k = "resume" => before = "resuming" /\ after = "done",
             at[m] = before, Goes(m, after),
             UNCHANGED <<row, queued, current, background, drain, taken>>
      PROVE  [Promised!Next]_(Promised!vars)
  <2> DEFINE q == <<k, m>>
  <2>1. at[m] = before /\ UNCHANGED <<row, queued, current, background, drain, taken>>
    BY <1>4
  <2>2. at'[m] = after /\ \A n \in Msg \ {m} : at'[n] = at[n]
    BY <1>4, <1>u DEF Goes
  <2>3. q \in Turn /\ q[1] = k /\ q[2] = m /\ Awaited(q) /\ ~Awaited(q)'
    BY <1>4, <2>2, AwaitedIsNext DEF Turn, Awaited
  <2>4. \A r \in Turn : r # q => (Awaited(r)' <=> Awaited(r))
    <3> SUFFICES ASSUME NEW r \in Turn, r # q PROVE Awaited(r)' <=> Awaited(r)
      OBVIOUS
    <3>1. r[2] \in Msg /\ r[1] \in {"message", "resume", "aside"} /\ (r[2] = m => r[1] # k)
      BY <2>3, TurnParts, TurnsAreEqual
    <3>2. QED
      BY <1>4, <2>2, <3>1, AwaitedIsNext DEF Awaited
  <2>5. \A r \in Turn : Made(r)' <=> Made(r)
    <3> SUFFICES ASSUME NEW r \in Turn PROVE Made(r)' <=> Made(r)
      OBVIOUS
    <3>1. r[2] \in Msg
      BY TurnParts
    <3>2. QED
      BY <1>4, <2>2, <3>1, MadeIs, MadeIsNext DEF Submitted, Resumed
  <2> HIDE DEF q
  <2>6. Spent' = Spent
    BY <2>1, <2>5 DEF Spent
  <2>7. q \in Awaiting /\ Awaiting' = Awaiting \ {q}
    BY <2>3, <2>4 DEF Awaiting
  <2>8. Promised!Leave(q)
    BY <2>1, <2>6, <2>7 DEF Promised!Leave, BackgroundNow
  <2>9. QED
    BY <2>3, <2>8 DEF Promised!Next
<1>t. CASE TimesOut(m)
  <2>1. UNCHANGED <<row, queued, current, background, drain, taken>>
    BY <1>t DEF TimesOut, Inward, turnVars, drainVars
  <2>2. CASE at[m] = "waiting"
    BY <1>4, <1>t, <2>1, <2>2 DEF TimesOut
  <2>3. CASE at[m] = "resuming"
    BY <1>4, <1>t, <2>1, <2>3 DEF TimesOut
  <2>4. QED
    BY <1>t, <2>2, <2>3 DEF TimesOut, Waits
<1>b. CASE Breaks(m) /\ Waits(m)
  <2>1. UNCHANGED <<row, queued, current, background, drain, taken>>
    BY <1>b DEF Breaks, turnVars, drainVars
  <2>2. Goes(m, Short(m))
    BY <1>b DEF Breaks, Waits
  <2>3. CASE at[m] = "waiting"
    BY <1>4, <2>1, <2>2, <2>3 DEF Short
  <2>4. CASE at[m] = "resuming"
    BY <1>4, <2>1, <2>2, <2>4 DEF Short
  <2>5. QED
    BY <1>b, <2>3, <2>4 DEF Waits
<1>5. CASE \/ Arrives(m) \/ Forgets(m) \/ (Breaks(m) /\ ~Waits(m))
           \/ Replies(m) \/ Forgotten(m) \/ Routed(m) \/ Looks(m) \/ Weighs(m)
           \/ SuspendsIt(m) \/ EndsIt(m) \/ Completes(m)
           \/ LooksAgain(m) \/ MayWake(m) \/ Wakes(m)
  <2>1. UNCHANGED <<queued, current, background, drain, taken>>
    BY <1>5
    DEF Arrives, Forgets, Breaks, Replies, Forgotten, Routed, Looks, Weighs, SuspendsIt,
        EndsIt, Completes, LooksAgain, MayWake, Wakes, Inward, turnVars, drainVars
  <2>2. PICK there : Goes(m, there)
    BY <1>5
    DEF Arrives, Forgets, Breaks, Replies, Forgotten, Routed, Looks, Weighs, SuspendsIt,
        EndsIt, Completes, LooksAgain, MayWake, Wakes
  <2>3. at'[m] = there /\ \A n \in Msg \ {m} : at'[n] = at[n]
    BY <2>2, <1>u DEF Goes
  <2>4. at[m] \notin {"waiting", "resuming"} /\ at'[m] \notin {"waiting", "resuming"}
    <3>1. CASE Weighs(m)
      <4>1. PICK to \in {"suspending", "ending", "ready"} : Goes(m, to)
        BY <3>1 DEF Weighs
      <4>2. QED
        BY <3>1, <4>1, <1>u DEF Weighs, Goes
    <3>2. CASE ~Weighs(m)
      BY <1>5, <3>2, <1>u
      DEF Arrives, Forgets, Breaks, UnderWay, Short, Waits, Replies, Forgotten, Routed, Looks, SuspendsIt,
          EndsIt, Completes, LooksAgain, MayWake, Wakes, Goes
    <3>3. QED
      BY <3>1, <3>2
  <2>5. \A r \in Turn : Awaited(r)' <=> Awaited(r)
    <3> SUFFICES ASSUME NEW r \in Turn PROVE Awaited(r)' <=> Awaited(r)
      OBVIOUS
    <3>1. r[2] \in Msg
      BY TurnParts
    <3>2. QED
      BY <2>1, <2>3, <2>4, <3>1, AwaitedIsNext DEF Awaited
  <2>6. Awaiting' = Awaiting
    BY <2>5 DEF Awaiting
  <2>7. QED
    BY <1>f, <2>1, <2>6, Forgoes
<1>6. QED
  BY <1>2, <1>3, <1>t, <1>b, <1>5 DEF Handler

\* The turns of the foreground.
LEMMA TurnsPromised ==
  ASSUME Typed, AskedFor, (\E r \in Turn : TurnStarts(r)) \/ TurnEnded
  PROVE  [Promised!Next]_(Promised!vars)
<1>u. /\ at \in [Msg -> Place] /\ queued \subseteq Turn /\ current \in Turn \cup {Nothing}
      /\ taken \in Msg \cup {Nothing} /\ (taken # Nothing <=> drain \in {"waiting", "answered"})
  BY DEF Typed, Messages, Turns, Drainer
<1>1. ASSUME NEW r \in Turn, TurnStarts(r) PROVE [Promised!Next]_(Promised!vars)
  <2>1. /\ r \in queued /\ current = Nothing /\ background = "nobody"
        /\ queued' = queued \ {r} /\ current' = r
        /\ UNCHANGED <<at, row, drain, taken, background>>
    BY <1>1 DEF TurnStarts, msgVars, drainVars
  <2>2. Awaiting' = Awaiting
    BY <2>1 DEF Awaiting, Awaited
  <2>3. Made(r)
    BY <2>1 DEF AskedFor
  <2>4. Spent' = Spent \cup {r} /\ r \notin Spent
    BY <2>1, <2>3 DEF Spent, Made
  <2>5. Promised!Start(r)
    BY <2>1, <2>2, <2>4 DEF Promised!Start, Promised!Free, BackgroundNow
  <2>6. QED
    BY <2>5 DEF Promised!Next
<1>2. CASE TurnEnded
  <2>1. /\ current # Nothing /\ current' = Nothing
        /\ UNCHANGED <<row, queued, background, taken>>
    BY <1>2 DEF TurnEnded
  <2>2. \A m \in Msg :
          at'[m] = IF current = <<"message", m>> /\ at[m] = "waiting" THEN "answered"
                   ELSE IF current = <<"resume", m>> /\ at[m] = "resuming" THEN "done"
                   ELSE at[m]
    BY <1>2 DEF TurnEnded
  <2>3. drain' = IF current = <<"aside", taken>> /\ drain = "waiting" THEN "answered" ELSE drain
    BY <1>2 DEF TurnEnded
  <2>4. \A r \in Turn : Made(r)' <=> Made(r)
    <3> SUFFICES ASSUME NEW r \in Turn PROVE Made(r)' <=> Made(r)
      OBVIOUS
    <3>1. r[2] \in Msg
      BY TurnParts
    <3>2. QED
      BY <2>1, <2>2, <3>1, MadeIs, MadeIsNext DEF Submitted, Resumed
  <2>5. \A r \in Turn : Awaited(r)' <=> Awaited(r) /\ r # current
    <3> SUFFICES ASSUME NEW r \in Turn PROVE Awaited(r)' <=> Awaited(r) /\ r # current
      OBVIOUS
    <3>1. PICK k \in {"message", "resume", "aside"}, m \in Msg : r = <<k, m>>
      BY DEF Turn
    <3>2. CASE k = "message"
      BY <2>2, <3>1, <3>2 DEF Awaited
    <3>3. CASE k = "resume"
      BY <2>2, <3>1, <3>3 DEF Awaited
    <3>4. CASE k = "aside"
      BY <2>1, <2>3, <3>1, <3>4 DEF Awaited
    <3>5. QED
      BY <3>2, <3>3, <3>4
  <2>6. Spent' = Spent /\ Awaiting' = Awaiting \ {current}
    BY <2>1, <2>4, <2>5 DEF Spent, Awaiting
  <2>7. Promised!End
    BY <2>1, <2>6 DEF Promised!End, BackgroundNow
  <2>8. QED
    BY <2>7 DEF Promised!Next
<1>3. QED
  BY <1>1, <1>2

\* The drainer.
LEMMA DrainerPromised ==
  ASSUME Typed, OneTurnEach, AskedFor, Drains \/ DrainTimesOut \/ DrainBreaks
  PROVE  [Promised!Next]_(Promised!vars)
<1>f. Forward
  BY OthersForward
<1>u. /\ at \in [Msg -> Place] /\ row \in [Msg -> {"none", "pending", "processing", "completed"}]
      /\ queued \subseteq Turn
      /\ taken \in Msg \cup {Nothing} /\ (taken # Nothing <=> drain \in {"waiting", "answered"})
  BY DEF Typed, Messages, Turns, Drainer
<1>1. ASSUME NEW m \in Msg, DrainClaims(m) PROVE [Promised!Next]_(Promised!vars)
  <2> DEFINE q == <<"aside", m>>
  <2>1. /\ q \in Turn /\ q[1] = "aside" /\ q[2] = m /\ queued' = queued \cup {q}
        /\ UNCHANGED <<at, current, background>>
        /\ drain = "clear" /\ drain' = "waiting" /\ taken' = m
        /\ row[m] = "pending" /\ \A n \in Msg \ {m} : row'[n] = row[n]
    BY <1>1, <1>u DEF DrainClaims, SetAside, Submit, Drain, Turn
  <2>2. \A r \in Turn : r # q => (Made(r)' <=> Made(r)) /\ (Awaited(r)' <=> Awaited(r))
    <3> SUFFICES ASSUME NEW r \in Turn, r # q
                 PROVE  (Made(r)' <=> Made(r)) /\ (Awaited(r)' <=> Awaited(r))
      OBVIOUS
    <3>1. r[2] \in Msg /\ (r[2] = m => r[1] # "aside")
      BY <2>1, TurnParts, TurnsAreEqual
    <3>2. QED
      BY <2>1, <3>1, MadeIs, MadeIsNext, AwaitedIsNext DEF Awaited
  <2>3. ~Made(q) /\ Awaited(q)'
    BY <2>1, AwaitedIsNext DEF Made
  <2>4. q \notin queued
    BY <2>3 DEF AskedFor
  <2> HIDE DEF q
  <2>5. Spent' = Spent
    BY <2>1, <2>2, <2>3 DEF Spent
  <2>6. Awaiting' = Awaiting \cup {q}
    BY <2>1, <2>2, <2>3 DEF Awaiting
  <2>7. Promised!Submit(q)
    BY <2>1, <2>3, <2>4, <2>5, <2>6 DEF Promised!Submit, Spent, BackgroundNow
  <2>8. QED
    BY <2>1, <2>7 DEF Promised!Next
<1>2. CASE DrainTimesOut
  <2> DEFINE q == <<"aside", taken>>
  <2>1. /\ drain = "waiting" /\ drain' = "answered" /\ taken \in Msg /\ taken' = taken
        /\ UNCHANGED <<at, row, queued, current, background>>
    BY <1>2, <1>u DEF DrainTimesOut, Drain, Idling, msgVars, turnVars
  <2>2. q \in Turn /\ q[1] = "aside" /\ q[2] = taken
    BY <2>1 DEF Turn
  <2>3. \A r \in Turn : Awaited(r)' <=> Awaited(r) /\ r # q
    <3> SUFFICES ASSUME NEW r \in Turn PROVE Awaited(r)' <=> Awaited(r) /\ r # q
      OBVIOUS
    <3>1. r[1] = "aside" /\ r[2] = taken => r = q
      BY <2>2, TurnsAreEqual
    <3>2. QED
      BY <2>1, <2>2, <3>1, AwaitedIsNext DEF Awaited
  <2>4. Awaited(q)
    BY <2>1, <2>2 DEF Awaited
  <2> HIDE DEF q
  <2>5. Spent' = Spent /\ q \in Awaiting /\ Awaiting' = Awaiting \ {q}
    BY <2>1, <2>2, <2>3, <2>4 DEF Spent, Made, Awaiting
  <2>6. Promised!Leave(q)
    BY <2>1, <2>5 DEF Promised!Leave, BackgroundNow
  <2>7. QED
    BY <2>2, <2>6 DEF Promised!Next
<1>3. CASE DrainLooks \/ DrainSees \/ DrainFindsNone \/ DrainCompletes \/ DrainBreaks
  <2>1. /\ UNCHANGED <<at, queued, current, background>>
        /\ drain # "waiting" /\ drain' # "waiting"
    BY <1>3 DEF DrainLooks, DrainSees, DrainFindsNone, DrainCompletes, DrainBreaks, Drain,
                Idling, msgVars, turnVars
  <2>2. Awaiting' = Awaiting
    BY <2>1 DEF Awaiting, Awaited
  <2>3. QED
    BY <1>f, <2>1, <2>2, Forgoes
<1>4. QED
  BY <1>1, <1>2, <1>3 DEF Drains

\* Background turns, and a crash.
LEMMA DaemonPromised ==
  ASSUME Typed, AskedFor,
         ContinueBegins \/ DaemonTurns \/ SchedulerAlone \/ MarkFails \/ Crash
  PROVE  [Promised!Next]_(Promised!vars)
<1>f. Forward
  BY OthersForward
<1>u. at \in [Msg -> Place] /\ background \in {"nobody", "continuation", "schedule"}
  BY DEF Typed, Messages, Turns
<1>1. CASE ContinueBegins \/ ScheduleBegins
  <2>1. /\ current = Nothing /\ background = "nobody" /\ ~Demand
        /\ background' \in {"continuation", "schedule"}
        /\ UNCHANGED <<at, row, queued, current, drain, taken>>
    BY <1>1 DEF ContinueBegins, ScheduleBegins, SlotForBackground, Outward, msgVars, drainVars
  <2>2. Awaiting = {}
    BY <2>1, TurnParts DEF Awaiting, Awaited, Demand, Waits
  <2>3. Awaiting' = {} /\ Spent' = Spent
    BY <2>1, <2>2 DEF Awaiting, Awaited, Spent, Made
  <2>4. BackgroundNow = Nothing /\ BackgroundNow' = background'
    BY <2>1 DEF BackgroundNow
  <2>5. Promised!BackgroundBegins(background')
    BY <2>1, <2>2, <2>3, <2>4 DEF Promised!BackgroundBegins, Promised!Free
  <2>6. QED
    BY <2>1, <2>5 DEF Promised!Next
<1>2. CASE ContinueEnds \/ ScheduleEnds
  <2>1. /\ background' = "nobody" /\ UNCHANGED <<at, row, queued, current, drain, taken>>
    BY <1>2 DEF ContinueEnds, ScheduleEnds, Outward, msgVars, drainVars
  <2>2. Awaiting' = Awaiting /\ Spent' = Spent /\ BackgroundNow' = Nothing
    BY <2>1 DEF Awaiting, Awaited, Spent, Made, BackgroundNow
  <2>3. CASE BackgroundNow = Nothing
    BY <2>1, <2>2, <2>3 DEF Promised!vars
  <2>4. CASE BackgroundNow # Nothing
    BY <2>1, <2>2, <2>4 DEF Promised!Next, Promised!BackgroundEnds
  <2>5. QED
    BY <2>3, <2>4
<1>3. CASE SchedulerAlone \/ MarkFails
  <2>1. UNCHANGED <<at, row, queued, current, background, drain, taken>>
    BY <1>3 DEF SchedulerAlone, MarkFails, Outward, msgVars, turnVars, drainVars
  <2>2. Awaiting' = Awaiting
    BY <2>1 DEF Awaiting, Awaited
  <2>3. QED
    BY <1>f, <2>1, <2>2, Forgoes
<1>4. CASE Crash
  <2>1. /\ queued' = {} /\ current' = Nothing /\ background' = "nobody" /\ drain' = "idle"
        /\ \A m \in Msg : at'[m] \in {"new", "done", "gone"}
    BY <1>4, <1>u DEF Crash, UnderWay, Short, Drain
  <2>2. Awaiting' = {}
    <3> SUFFICES ASSUME NEW r \in Turn PROVE ~Awaited(r)'
      BY DEF Awaiting
    <3>1. r[2] \in Msg
      BY TurnParts
    <3>2. QED
      BY <2>1, <3>1, AwaitedIsNext
  <2>3. \A r \in Turn : Made(r) => Made(r)'
    BY <1>f, MadeStays
  <2>4. Spent' \in SUBSET Turn /\ Spent \subseteq Spent'
    BY <2>1, <2>3 DEF Spent
  <2>5. Promised!Crash
    BY <2>1, <2>2, <2>4 DEF Promised!Crash, Promised!MoreSpent, BackgroundNow
  <2>6. QED
    BY <2>5 DEF Promised!Next
<1>5. QED
  BY <1>1, <1>2, <1>3, <1>4 DEF DaemonTurns

\* For any number of messages, tasks and schedules: handlers, drainer, continuation and
\* scheduler ask no more of the coordinator than it promises, whatever times out, fails
\* or crashes.
THEOREM PromiseUsed == Spec => KeepsPromise
<1>1. Init => AskedFor /\ Promised!Init
  <2> SUFFICES ASSUME Init PROVE AskedFor /\ Promised!Init
    OBVIOUS
  <2>1. \A r \in Turn : ~Made(r) /\ ~Awaited(r)
    BY TurnParts DEF Init, Made, Awaited
  <2>2. Spent = {} /\ Awaiting = {} /\ BackgroundNow = Nothing
    BY <2>1 DEF Init, Spent, Awaiting, BackgroundNow
  <2>3. QED
    BY <2>2 DEF Init, AskedFor, Promised!Init
<1>2. Typed /\ OneTurnEach /\ AskedFor /\ [Next]_vars
        => AskedFor' /\ [Promised!Next]_(Promised!vars)
  <2> SUFFICES ASSUME Typed, OneTurnEach, AskedFor, [Next]_vars
               PROVE  AskedFor' /\ [Promised!Next]_(Promised!vars)
    OBVIOUS
  <2>1. CASE \/ \E t \in Task : TurnWorks(t) \/ AppTask(t)
             \/ \E s \in Schedule : AppSchedule(s)
             \/ UNCHANGED vars
    <3>1. UNCHANGED <<at, row, queued, current, background, drain, taken>>
      BY <2>1 DEF TurnWorks, AppTask, AppSchedule, vars, msgVars, turnVars, drainVars
    <3>2. Forward
      BY <2>1, OthersForward
    <3>3. Awaiting' = Awaiting
      BY <3>1 DEF Awaiting, Awaited
    <3>4. QED
      BY <3>1, <3>2, <3>3, Forgoes, NextAskedFor
  <2>2. QED
    BY <2>1, NextAskedFor, HandlerPromised, TurnsPromised, DrainerPromised, DaemonPromised DEF Next
<1>3. Init => OneTurnEach
  BY AttentionAssumption
  DEF Init, OneTurnEach, OneTurn, Ahead, Unsubmitted, Unrouted, SetAside
<1>4. QED
  BY <1>1, <1>2, <1>3, InitTyped, NextTyped, NextOneTurn, PTL
  DEF Spec, KeepsPromise, Promised!Spec
=============================================================================
