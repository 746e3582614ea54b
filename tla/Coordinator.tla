----------------------------- MODULE Coordinator -----------------------------
(***************************************************************************)
(* runtime/coordinator.py: the one cognition slot of a sali process.       *)
(* asyncio runs one coroutine at a time, so a step is the code between two *)
(* awaits.  Foreground messages go through submit and the process loop;    *)
(* background faculties call submit_background.  Both want the asyncio     *)
(* lock _cognition, which hands over in the order it was asked for.        *)
(*                                                                         *)
(* The execution lease is reduced to what this process can tell of its     *)
(* row (module ExecutionLease has the row itself): free, ours, ours but    *)
(* expired, somebody else's.  The agent loop and the session are set when  *)
(* AgentRuntime is built (runtime.py:121-122), before anybody can call: the *)
(* "agent not initialized" answers (194, 395-397) are never given.         *)
(***************************************************************************)
EXTENDS Integers, Sequences, FiniteSets

CONSTANTS
    Msg,         \* foreground messages, each submitted once
    Faculty,     \* callers of submit_background, again and again
    Loop,        \* the process loop, as a user of the slot
    Nobody,
    MaxStray,    \* abandoned background turns are counted up to this number
    MaxFaults,   \* bound on the lease calls that raise
    MaxOthers    \* bound on the turns other processes take

ASSUME CoordinatorAssumption ==
    /\ IsFiniteSet(Msg)
    /\ Loop \notin Faculty /\ Nobody \notin Faculty \cup Msg /\ Loop # Nobody
    /\ MaxStray \in Nat
    /\ MaxFaults \in Nat
    /\ MaxOthers \in Nat

VARIABLES
    sub,         \* what each caller of submit is doing
    future,      \* the future each caller awaits
    demand,      \* _fg_waiting
    queue,       \* _queue
    loop,        \* where the process loop is
    cur,         \* the message it has taken from the queue
    lease,
    slot,        \* who holds _cognition
    slotQueue,   \* who waits for it, in order
    current,     \* _current.status, "none" when _current is None
    flagged,     \* _current.cancelled
    event,       \* _cancel_event
    turn,        \* _turn_task
    outcome,     \* status of the turn's result
    bg,          \* where each faculty is in submit_background
    bgTask,      \* _bg_task
    task,        \* the background task of each faculty
    stray,       \* background tasks that nobody refers to any more
    faults,
    others,      \* how often another process has taken the lease
    told,        \* history: what cancel_current answered about a message's run
    asked,       \* history: somebody asked the run in progress to stop
    ran          \* history: how often a message's turn was started

callVars == <<sub, future, demand, queue>>
runVars == <<current, flagged, event, turn, outcome>>
bgVars == <<bg, bgTask, task, stray>>
history == <<told, asked, ran>>
vars == <<callVars, loop, cur, lease, slot, slotQueue, runVars, bgVars, faults, others, history>>

User == Faculty \cup {Loop}

LiveTask == {"running", "cancelling"}
LiveTurn == {"running", "final", "cancelling"}

Init ==
    /\ sub = [m \in Msg |-> "new"]
    /\ future = [m \in Msg |-> "none"]
    /\ demand = 0
    /\ queue = <<>>
    /\ loop = "none"
    /\ cur = Nobody
    /\ lease = "free"
    /\ slot = Nobody
    /\ slotQueue = <<>>
    /\ current = "none"
    /\ flagged = FALSE
    /\ event = FALSE
    /\ turn = "none"
    /\ outcome = "none"
    /\ bg = [f \in Faculty |-> "idle"]
    /\ bgTask = Nobody
    /\ task = [f \in Faculty |-> "none"]
    /\ stray = 0
    /\ faults = 0
    /\ others = 0
    /\ told = [m \in Msg |-> "no"]
    /\ asked = FALSE
    /\ ran = [m \in Msg |-> 0]

-----------------------------------------------------------------------------
\* submit: claim priority, ask the background turn to yield, queue the message,
\* (re)start the process loop and wait.

Enqueue(m) ==
    /\ future' = [future EXCEPT ![m] = "pending"]
    /\ queue' = Append(queue, m)
    /\ loop' = IF loop = "none" THEN "get" ELSE loop
    /\ sub' = [sub EXCEPT ![m] = "waiting"]

CanYield == bgTask # Nobody /\ task[bgTask] \in LiveTask

\* _yield_background finds a background task it can cancel ...
SubmitYielding(m) ==
    /\ sub[m] = "new"
    /\ CanYield
    /\ demand' = demand + 1
    /\ task' = [task EXCEPT ![bgTask] = "cancelling"]
    /\ sub' = [sub EXCEPT ![m] = "yielding"]
    /\ UNCHANGED <<future, queue, loop, cur, lease, slot, slotQueue, runVars,
                   bg, bgTask, stray, faults, others, history>>

\* ... and waits until it ended or the grace period is over, whichever is first.
YieldOver(m) ==
    /\ sub[m] = "yielding"
    /\ Enqueue(m)
    /\ UNCHANGED <<demand, cur, lease, slot, slotQueue, runVars, bgVars, faults, others, history>>

SubmitDirectly(m) ==
    /\ sub[m] = "new"
    /\ ~CanYield
    /\ demand' = demand + 1
    /\ Enqueue(m)
    /\ UNCHANGED <<cur, lease, slot, slotQueue, runVars, bgVars, faults, others, history>>

SubmitReturns(m) ==
    /\ sub[m] = "waiting"
    /\ future[m] \notin {"pending", "abandoned"}
    /\ demand' = demand - 1
    /\ sub' = [sub EXCEPT ![m] = "answered"]
    /\ UNCHANGED <<future, queue, loop, cur, lease, slot, slotQueue, runVars,
                   bgVars, faults, others, history>>

\* Faulty variant: the demand is dropped and the caller goes on waiting.
SubmitTimesOutTwice(m) ==
    /\ sub[m] = "waiting"
    /\ future[m] = "pending"
    /\ demand' = demand - 1
    /\ UNCHANGED <<sub, future, queue, loop, cur, lease, slot, slotQueue, runVars,
                   bgVars, faults, others, history>>

\* The caller's task is cancelled as it waits for the background turn to yield: that
\* await stands before the try block, so that nothing takes its demand back.
YielderCancelled(m) ==
    /\ sub[m] = "yielding"
    /\ sub' = [sub EXCEPT ![m] = "leaked"]
    /\ UNCHANGED <<future, demand, queue, loop, cur, lease, slot, slotQueue, runVars,
                   bgVars, faults, others, history>>

\* The caller's patience is over or its task is cancelled, and its future with it; the
\* message stays queued or keeps running.
SubmitTimesOut(m) ==
    /\ sub[m] = "waiting"
    /\ future[m] = "pending"
    /\ future' = [future EXCEPT ![m] = "abandoned"]
    /\ demand' = demand - 1
    /\ sub' = [sub EXCEPT ![m] = "timedout"]
    /\ UNCHANGED <<queue, loop, cur, lease, slot, slotQueue, runVars, bgVars,
                   faults, others, history>>

-----------------------------------------------------------------------------
\* _cognition: a user takes the lock at once only if nobody holds or awaits it.

Free == slot = Nobody

\* Faulty variant: a waiter goes ahead before the holder has let go.
HeadGoes(u) == slotQueue # <<>> /\ Head(slotQueue) = u

Barging == Free /\ slotQueue = <<>>
MyTurn(u) == Free /\ slotQueue # <<>> /\ Head(slotQueue) = u

\* What the process loop does as soon as it has the slot: a fresh execution
\* context, a cleared cancel event, the heartbeat and the preemption poll.
StartRun ==
    /\ slot' = Loop
    /\ loop' = "starting"
    /\ current' = "running"
    /\ flagged' = FALSE
    /\ event' = FALSE
    /\ asked' = FALSE

-----------------------------------------------------------------------------
\* _process_loop.

LoopTakes ==
    /\ loop = "get"
    /\ queue # <<>>
    /\ cur' = Head(queue)
    /\ queue' = Tail(queue)
    /\ loop' = "acquiring"
    /\ UNCHANGED <<sub, future, demand, lease, slot, slotQueue, runVars, bgVars,
                   faults, others, history>>

\* Faulty variant: the loop ends after a second without looking at the queue.
LoopEndsBlindly ==
    /\ loop = "get"
    /\ loop' = "none"
    /\ UNCHANGED <<callVars, cur, lease, slot, slotQueue, runVars, bgVars, faults, others, history>>

\* A second passed with nothing in the queue: the task ends.
LoopEnds ==
    /\ loop = "get"
    /\ queue = <<>>
    /\ loop' = "none"
    /\ UNCHANGED <<callVars, cur, lease, slot, slotQueue, runVars, bgVars, faults, others, history>>

\* Faulty variant: the message is queued again and run all the same.
LeaseBusyFallsThrough ==
    /\ loop = "acquiring"
    /\ lease \in {"mine", "other"}
    /\ queue' = Append(queue, cur)
    /\ loop' = "slot"
    /\ slotQueue' = Append(slotQueue, Loop)
    /\ UNCHANGED <<sub, future, demand, cur, lease, slot, runVars, bgVars,
                   faults, others, history>>

\* Faulty variant: the refused message is not queued again.
LeaseBusyForgets ==
    /\ loop = "acquiring"
    /\ lease \in {"mine", "other"}
    /\ cur' = Nobody
    /\ loop' = "pause"
    /\ UNCHANGED <<callVars, lease, slot, slotQueue, runVars, bgVars, faults, others, history>>

\* try_acquire answered False: back to the end of the queue, and a pause.
LeaseBusy ==
    /\ loop = "acquiring"
    /\ lease \in {"mine", "other"}
    /\ queue' = Append(queue, cur)
    /\ cur' = Nobody
    /\ loop' = "pause"
    /\ UNCHANGED <<sub, future, demand, lease, slot, slotQueue, runVars, bgVars,
                   faults, others, history>>

PauseOver ==
    /\ loop = "pause"
    /\ loop' = "get"
    /\ UNCHANGED <<callVars, cur, lease, slot, slotQueue, runVars, bgVars, faults, others, history>>

\* try_acquire raised: the exception ends the loop's task and the message in hand
\* is forgotten.
LeaseRaises ==
    /\ loop = "acquiring"
    /\ faults < MaxFaults
    /\ faults' = faults + 1
    /\ loop' = "none"
    /\ cur' = Nobody
    /\ UNCHANGED <<callVars, lease, slot, slotQueue, runVars, bgVars, others, history>>

\* try_acquire answered True; the loop asks for the slot.
LeaseAcquired ==
    /\ loop = "acquiring"
    /\ lease \in {"free", "expired"}
    /\ lease' = "mine"
    /\ IF Barging
         THEN /\ StartRun
              /\ UNCHANGED slotQueue
         ELSE /\ loop' = "slot"
              /\ slotQueue' = Append(slotQueue, Loop)
              /\ UNCHANGED <<slot, current, flagged, event, asked>>
    /\ UNCHANGED <<callVars, cur, turn, outcome, bgVars, faults, others, told, ran>>

LoopGetsSlot ==
    /\ loop = "slot"
    /\ MyTurn(Loop)
    /\ slotQueue' = Tail(slotQueue)
    /\ StartRun
    /\ UNCHANGED <<callVars, cur, lease, turn, outcome, bgVars, faults, others, told, ran>>

\* execution.started has been published.
TurnBegins ==
    /\ loop = "starting"
    /\ loop' = "turn"
    /\ turn' = "running"
    /\ outcome' = "none"
    /\ ran' = [ran EXCEPT ![cur] = @ + 1]
    /\ UNCHANGED <<callVars, cur, lease, slot, slotQueue, current, flagged, event,
                   bgVars, faults, others, told, asked>>

TurnEnds(status) ==
    /\ turn' = "done"
    /\ outcome' = status
    /\ UNCHANGED <<callVars, loop, cur, lease, slot, slotQueue, current, flagged,
                   event, bgVars, faults, others, history>>

\* The last event passed the check of the cancel event.
TurnFinal ==
    /\ turn = "running"
    /\ ~event
    /\ turn' = "final"
    /\ UNCHANGED <<callVars, loop, cur, lease, slot, slotQueue, current, flagged,
                   event, outcome, bgVars, faults, others, history>>

TurnCompletes == turn = "final" /\ TurnEnds("completed")
TurnFails == turn \in LiveTurn /\ TurnEnds("error")
TurnNotices == turn = "running" /\ event /\ TurnEnds("cancelled")
TurnUnwinds == turn = "cancelling" /\ TurnEnds("cancelled")

\* The finally block: the helper tasks are stopped, then the lease is released,
\* the lifecycle event published, and the slot and the answer given.
LoopReleases ==
    /\ loop = "turn"
    /\ turn = "done"
    /\ turn' = "none"
    /\ loop' = "releasing"
    /\ UNCHANGED <<callVars, cur, lease, slot, slotQueue, current, flagged, event,
                   outcome, bgVars, faults, others, history>>

LeaseReleased ==
    /\ loop = "releasing"
    /\ \/ lease' = (IF lease = "other" THEN "other" ELSE "free") /\ UNCHANGED faults
       \/ faults < MaxFaults /\ faults' = faults + 1 /\ UNCHANGED lease
    /\ current' = "idle"
    /\ loop' = "announcing"
    /\ UNCHANGED <<callVars, cur, slot, slotQueue, flagged, event, turn, outcome,
                   bgVars, others, history>>

LoopAnswers ==
    /\ loop = "announcing"
    /\ current' = "none"
    /\ slot' = Nobody
    /\ future' = IF future[cur] = "abandoned" THEN future
                                              ELSE [future EXCEPT ![cur] = outcome]
    /\ cur' = Nobody
    /\ loop' = "get"
    /\ UNCHANGED <<sub, demand, queue, lease, slotQueue, flagged, event, turn,
                   outcome, bgVars, faults, others, history>>

-----------------------------------------------------------------------------
\* Who may stop a foreground turn.

HardCancel == turn' = IF turn \in LiveTurn THEN "cancelling" ELSE turn

\* Faulty variant: only the execution context learns of the cancellation.
CancelFlagOnly ==
    /\ current = "running"
    /\ current' = "cancelling"
    /\ flagged' = TRUE
    /\ asked' = TRUE
    /\ told' = [told EXCEPT ![cur] =
                  IF loop = "starting" \/ turn \in LiveTurn THEN "in time" ELSE "late"]
    /\ UNCHANGED <<callVars, loop, cur, lease, slot, slotQueue, event, turn, outcome,
                   bgVars, faults, others, ran>>

\* cancel_current, called by a route handler or by handle_message.
CancelCurrent ==
    /\ current = "running"
    /\ current' = "cancelling"
    /\ flagged' = TRUE
    /\ event' = TRUE
    /\ HardCancel
    /\ asked' = TRUE
    /\ told' = [told EXCEPT ![cur] =
                  IF loop = "starting" \/ turn \in LiveTurn THEN "in time" ELSE "late"]
    /\ UNCHANGED <<callVars, loop, cur, lease, slot, slotQueue, outcome, bgVars,
                   faults, others, ran>>

\* The heartbeat and poll tasks live from StartRun to the finally block.
Monitored == loop \in {"starting", "turn"}

\* The heartbeat found no active row of ours: taken over, or cleared by another process.
HeartbeatLost ==
    /\ Monitored
    /\ lease \in {"other", "free"}
    /\ event' = TRUE
    /\ HardCancel
    /\ asked' = TRUE
    /\ UNCHANGED <<callVars, loop, cur, lease, slot, slotQueue, current, flagged,
                   outcome, bgVars, faults, others, told, ran>>

HeartbeatRenews ==
    /\ Monitored
    /\ lease = "expired"
    /\ lease' = "mine"
    /\ UNCHANGED <<callVars, loop, cur, slot, slotQueue, runVars, bgVars, faults, others, history>>

Preempted ==
    /\ Monitored
    /\ lease \in {"mine", "expired"}
    /\ event' = TRUE
    /\ asked' = TRUE
    /\ UNCHANGED <<callVars, loop, cur, lease, slot, slotQueue, current, flagged,
                   turn, outcome, bgVars, faults, others, told, ran>>

-----------------------------------------------------------------------------
\* The row as other processes and time change it.

\* Also under a heartbeat, whose failing updates are passed over in silence.
LeaseExpires ==
    /\ lease = "mine"
    /\ lease' = "expired"
    /\ UNCHANGED <<callVars, loop, cur, slot, slotQueue, runVars, bgVars, faults, others, history>>

\* The start of another process: recover_stale clears a row that expired, and
\* reclaim_orphaned any row that is not its own.
OtherClears ==
    /\ lease \in {"mine", "expired"}
    /\ lease' = "free"
    /\ UNCHANGED <<callVars, loop, cur, slot, slotQueue, runVars, bgVars, faults, others, history>>

OtherTakes ==
    /\ lease \in {"free", "expired"}
    /\ others < MaxOthers
    /\ others' = others + 1
    /\ lease' = "other"
    /\ UNCHANGED <<callVars, loop, cur, slot, slotQueue, runVars, bgVars, faults, history>>

OtherReleases ==
    /\ lease = "other"
    /\ lease' = "free"
    /\ UNCHANGED <<callVars, loop, cur, slot, slotQueue, runVars, bgVars, faults, others, history>>

-----------------------------------------------------------------------------
\* submit_background.

At(f, there) == bg' = [bg EXCEPT ![f] = there]

\* Not deferred at the door; the resource verdict is awaited.
BgCalls(f) ==
    /\ bg[f] = "idle"
    /\ demand = 0
    /\ At(f, "gate")
    /\ UNCHANGED <<callVars, loop, cur, lease, slot, slotQueue, runVars, bgTask,
                   task, stray, faults, others, history>>

\* Shed for the sake of the host.
BgShed(f) ==
    /\ bg[f] = "gate"
    /\ At(f, "idle")
    /\ UNCHANGED <<callVars, loop, cur, lease, slot, slotQueue, runVars, bgTask,
                   task, stray, faults, others, history>>

\* Faulty variant: the demand that came up during the wait is not seen.
BgEntersAnyway(f) ==
    /\ At(f, "announce")
    /\ slot' = f

\* With the slot in hand the demand is looked at once more: the turn is deferred
\* (and the slot given back) or its start announced.
BgEnters(f) ==
    \/ /\ demand > 0
       /\ At(f, "idle")
       /\ slot' = Nobody
    \/ /\ demand = 0
       /\ At(f, "announce")
       /\ slot' = f

BgAsksSlot(f) ==
    /\ bg[f] = "gate"
    /\ IF Barging
         THEN BgEnters(f) /\ UNCHANGED slotQueue
         ELSE /\ At(f, "slot")
              /\ slotQueue' = Append(slotQueue, f)
              /\ UNCHANGED slot
    /\ UNCHANGED <<callVars, loop, cur, lease, runVars, bgTask, task, stray, faults, others, history>>

BgGetsSlot(f) ==
    /\ bg[f] = "slot"
    /\ MyTurn(f)
    /\ slotQueue' = Tail(slotQueue)
    /\ BgEnters(f)
    /\ UNCHANGED <<callVars, loop, cur, lease, runVars, bgTask, task, stray, faults, others, history>>

\* The announcement is out; only now is there a task submit could cancel.
BgBegins(f) ==
    /\ bg[f] = "announce"
    /\ At(f, "thinking")
    /\ task' = [task EXCEPT ![f] = "running"]
    /\ bgTask' = f
    /\ UNCHANGED <<callVars, loop, cur, lease, slot, slotQueue, runVars, stray,
                   faults, others, history>>

\* The turn ends by itself, by noticing the demand between two events, or because
\* it was cancelled.
TaskEnds(f) ==
    /\ task[f] \in LiveTask
    /\ task' = [task EXCEPT ![f] = "done"]
    /\ UNCHANGED <<callVars, loop, cur, lease, slot, slotQueue, runVars, bg, bgTask,
                   stray, faults, others, history>>

BgCollects(f) ==
    /\ bg[f] = "thinking"
    /\ task[f] = "done"
    /\ At(f, "closing")
    /\ task' = [task EXCEPT ![f] = "none"]
    /\ bgTask' = Nobody
    /\ UNCHANGED <<callVars, loop, cur, lease, slot, slotQueue, runVars, stray,
                   faults, others, history>>

\* Faulty variant: the timeout cancels the task and waits for it.
BgTimesOutWaiting(f) ==
    /\ bg[f] = "thinking"
    /\ task[f] = "running"
    /\ task' = [task EXCEPT ![f] = "cancelling"]
    /\ UNCHANGED <<callVars, loop, cur, lease, slot, slotQueue, runVars, bg, bgTask,
                   stray, faults, others, history>>

\* The timeout: the task is cancelled but nobody waits for it to end.
BgTimesOut(f) ==
    /\ bg[f] = "thinking"
    /\ task[f] \in LiveTask
    /\ At(f, "closing")
    /\ task' = [task EXCEPT ![f] = "none"]
    /\ bgTask' = Nobody
    /\ stray' = IF stray < MaxStray THEN stray + 1 ELSE stray
    /\ UNCHANGED <<callVars, loop, cur, lease, slot, slotQueue, runVars, faults, others, history>>

StrayEnds ==
    /\ stray > 0
    /\ stray' = stray - 1
    /\ UNCHANGED <<callVars, loop, cur, lease, slot, slotQueue, runVars, bg, bgTask,
                   task, faults, others, history>>

BgReturns(f) ==
    /\ bg[f] = "closing"
    /\ At(f, "idle")
    /\ slot' = Nobody
    /\ UNCHANGED <<callVars, loop, cur, lease, slotQueue, runVars, bgTask, task,
                   stray, faults, others, history>>

-----------------------------------------------------------------------------
Submit(m) == SubmitYielding(m) \/ YieldOver(m) \/ SubmitDirectly(m)
             \/ SubmitReturns(m) \/ SubmitTimesOut(m) \/ YielderCancelled(m)

ProcessLoop == LoopTakes \/ LoopEnds \/ LeaseBusy \/ PauseOver \/ LeaseRaises
               \/ LeaseAcquired \/ LoopGetsSlot \/ TurnBegins \/ LoopReleases
               \/ LeaseReleased \/ LoopAnswers

Turn == TurnFinal \/ TurnCompletes \/ TurnFails \/ TurnNotices \/ TurnUnwinds

Stop == CancelCurrent \/ HeartbeatLost \/ HeartbeatRenews \/ Preempted

Row == LeaseExpires \/ OtherClears \/ OtherTakes \/ OtherReleases

Background(f) == BgCalls(f) \/ BgShed(f) \/ BgAsksSlot(f) \/ BgGetsSlot(f)
                 \/ BgBegins(f) \/ TaskEnds(f) \/ BgCollects(f) \/ BgTimesOut(f)
                 \/ BgReturns(f)

Next == \/ \E m \in Msg : Submit(m)
        \/ ProcessLoop \/ Turn \/ Stop \/ Row \/ StrayEnds
        \/ \E f \in Faculty : Background(f)

\* The event loop runs every coroutine that is ready; a foreground turn ends; a
\* background turn is only known to meet its timeout; the other process lets go
\* of the lease.
Fairness ==
    /\ \A m \in Msg : WF_vars(YieldOver(m)) /\ WF_vars(SubmitReturns(m))
    /\ WF_vars(LoopTakes \/ LoopEnds \/ LeaseBusy \/ PauseOver \/ LeaseAcquired \/ LoopGetsSlot
               \/ TurnBegins \/ LoopReleases \/ LeaseReleased \/ LoopAnswers)
    /\ WF_vars(Turn)
    /\ WF_vars(~Monitored /\ LeaseExpires) /\ WF_vars(OtherReleases)
    /\ \A f \in Faculty : WF_vars(BgAsksSlot(f) \/ BgGetsSlot(f) \/ BgBegins(f)
                                  \/ BgCollects(f) \/ BgTimesOut(f) \/ BgReturns(f))

Spec == Init /\ [][Next]_vars
FairSpec == Spec /\ Fairness

-----------------------------------------------------------------------------
TypeOK ==
    /\ sub \in [Msg -> {"new", "yielding", "waiting", "answered", "timedout", "leaked"}]
    /\ future \in [Msg -> {"none", "pending", "abandoned", "completed", "cancelled", "error"}]
    /\ demand \in 0..Cardinality(Msg)
    /\ queue \in Seq(Msg)
    /\ loop \in {"none", "get", "acquiring", "pause", "slot", "starting", "turn",
                 "releasing", "announcing"}
    /\ cur \in Msg \cup {Nobody}
    /\ lease \in {"free", "mine", "expired", "other"}
    /\ slot \in User \cup {Nobody}
    /\ slotQueue \in Seq(User)
    /\ current \in {"none", "running", "cancelling", "idle"}
    /\ flagged \in BOOLEAN /\ event \in BOOLEAN /\ asked \in BOOLEAN
    /\ turn \in {"none", "running", "final", "cancelling", "done"}
    /\ outcome \in {"none", "completed", "cancelled", "error"}
    /\ bg \in [Faculty -> {"idle", "gate", "slot", "announce", "thinking", "closing"}]
    /\ bgTask \in Faculty \cup {Nobody}
    /\ task \in [Faculty -> {"none", "running", "cancelling", "done"}]
    /\ stray \in 0..MaxStray
    /\ faults \in 0..MaxFaults
    /\ others \in 0..MaxOthers
    /\ told \in [Msg -> {"no", "in time", "late"}]
    /\ ran \in [Msg -> Nat]

\* The actors whose turn is executing, not counting abandoned background turns.
Thinkers == {f \in Faculty : task[f] \in LiveTask}
            \cup (IF turn \in LiveTurn THEN {Loop} ELSE {})

\* "exactly one of them is thinking at any moment" (the module's docstring):
\* counting a background turn that was abandoned while it still executes.
OneThinker == stray + Cardinality(Thinkers) <= 1

\* The slot implements "one thing at a time" for the foreground and every faculty: a
\* background turn that outlasts its timeout counts as ended when it is abandoned.
Abstract == INSTANCE OneTurn WITH Actor <- User, thinking <- Thinkers
ImplementsOneTurn == Abstract!Spec

\* A message's turn is started at most once, however often a busy lease sent the
\* message back to the queue.
RunsOnce == \A m \in Msg : ran[m] <= 1

\* A cancel stops the run it was meant for, and no other: when cancel_current said
\* yes while the turn was about to start or executing, the caller is never told that
\* the turn completed, and a turn ends as cancelled only if it was asked to stop in
\* its own run, by a cancel, the heartbeat or the poll.
CancelHitsItsRun ==
    /\ \A m \in Msg : told[m] = "in time" => future[m] # "completed"
    /\ turn = "done" /\ outcome = "cancelled" => asked

\* The callers of submit that have not been answered.
Waiting == {m \in Msg : sub[m] \in {"yielding", "waiting"}}

\* What a user of the coordinator relies on (module TurnSlot): the messages submitted
\* and not begun are in the caller's hands while it yields, in the queue or in the
\* loop's, and a run is spent when the loop has the slot for it.
Submitted == {m \in Msg : sub[m] = "yielding"}
             \cup {queue[i] : i \in 1..Len(queue)}
             \cup (IF loop \in {"acquiring", "slot"} THEN {cur} ELSE {})
RunningNow == IF loop \in {"starting", "turn", "releasing", "announcing"} THEN cur ELSE Nobody
BackgroundNow == IF slot \in Faculty THEN slot ELSE Nobody
Spent == {m \in Msg : ran[m] > 0} \cup (IF loop = "starting" THEN {cur} ELSE {})

\* Through yields, refusals of the lease, timeouts, cancels and lost messages, the slot
\* gives each message one run at most, one at a time, and a background turn begins only
\* when nobody runs or waits.
Promised == INSTANCE TurnSlot WITH
    Request <- Msg,
    queued <- Submitted,
    running <- RunningNow,
    spent <- Spent,
    waiting <- Waiting,
    background <- BackgroundNow
KeepsPromise == Promised!Spec

\* Background cognition never obtains the slot for a turn while a caller of
\* submit is waiting, whatever timed out or returned in between.
PriorityAtTheDoor ==
    [][\A f \in Faculty :
         bg[f] # "announce" /\ bg'[f] = "announce"
            => Waiting = {}]_vars

\* Who has asked for the slot and not been given it.
AskedSlot == {f \in Faculty : bg[f] = "slot"} \cup (IF loop = "slot" THEN {Loop} ELSE {})

\* Nobody waits for something that will not come: unless a lease call raised, a caller's
\* message is queued or in the loop's hands and a queue that is not empty has a loop
\* that serves it, though the loop ends itself when idle; and the slot's waiters are
\* those who asked for it, once each, so that the one it is handed to will take it.
NobodyStranded ==
    /\ faults = 0 =>
          /\ queue # <<>> => loop # "none"
          /\ \A m \in Msg : sub[m] = "waiting" /\ future[m] = "pending"
                               => m = cur \/ \E i \in 1..Len(queue) : queue[i] = m
    /\ {slotQueue[i] : i \in 1..Len(slotQueue)} = AskedSlot
    /\ \A i, j \in 1..Len(slotQueue) : slotQueue[i] = slotQueue[j] => i = j

\* Every caller of submit that stays is answered (each calls once, so it is enough that again and
\* again nobody waits), though a background turn may ignore its cancellation and the
\* lease be elsewhere, unless a lease call raised: then the message in hand is lost and
\* only its timeout releases the caller.
EveryCallerAnswered == []<>(Waiting = {} \/ faults > 0)

\* The foreground, once it has the lease, gets the slot from any background turn: the
\* loop never waits for it for ever.
ForegroundGetsSlot == []<>(loop # "slot")
=============================================================================
