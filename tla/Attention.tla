------------------------------ MODULE Attention ------------------------------
(***************************************************************************)
(* runtime/runtime.py with tasks/inbox.py: how one mind that works on one  *)
(* task at a time attends to Almir.  Each message has a handler            *)
(* (handle_message) that routes it, may interrupt the turn in progress and *)
(* suspend the primary task, has the message answered in a turn of its     *)
(* own, and resumes what it suspended.  Messages set aside wait in the     *)
(* inbox for drain_queued; the daemon continues the primary task and fires *)
(* schedules (module Scheduler) in the background.                         *)
(*                                                                         *)
(* A step is the code between two awaits.  The coordinator is reduced to   *)
(* the turns that wait, the one that runs and the background turn (module  *)
(* Coordinator has the slot itself), a task's row to what the handlers     *)
(* read and write (module TaskLifecycle has the rest).                     *)
(***************************************************************************)
EXTENDS Scheduler

CONSTANTS
    Msg,         \* messages of Almir, each sent once
    Task,
    Nothing,     \* no task, no message, no turn
    MaxEvents    \* bound: requests of the app about tasks and schedules,
                 \* crashes and failed database calls, taken together

ASSUME AttentionAssumption ==
    /\ Nothing \notin Task \cup Msg
    /\ MaxEvents \in Nat

VARIABLES
    row,         \* status of each message's incoming_message row
    kind,        \* what classify made of it
    at,          \* where its handler is
    prior,       \* the task the handler read as the primary
    live,        \* its status was 'running' then
    suspended,   \* the handler has suspended it
    status, primary, replaced,   \* the task rows, as in TaskLifecycle
    byUser,      \* history: the last to pause the task was the app
    outdone,     \* history: a new task has replaced it
    queued,      \* turns submitted and not begun
    current,     \* the foreground turn
    turns,       \* history: how often a message was given a turn
    background,  \* who has a background turn: nobody, the continuation of
                 \* the primary task, or the scheduler
    drain,       \* where drain_queued is
    taken,       \* the message it claimed
    calls, faults

msgVars == <<row, kind, at, prior, live, suspended>>
taskVars == <<status, primary, replaced, byUser, outdone>>
turnVars == <<queued, current, turns, background>>
drainVars == <<drain, taken>>
bounds == <<calls, faults>>
vars == <<msgVars, taskVars, turnVars, drainVars, bounds, schedVars>>

\* "passing" stands for the categories that preempt and resume, "stop" for
\* cancel and replace, "work" for continue_primary, "aside" for queue_for_later.
Kind == {"passing", "stop", "work", "aside"}

Terminal == {"over", "revoked"}
Live == {"running", "paused", "asking"}

Init ==
    /\ row = [m \in Msg |-> "none"]
    /\ kind = [m \in Msg |-> "none"]
    /\ at = [m \in Msg |-> "new"]
    /\ prior = [m \in Msg |-> Nothing]
    /\ live = [m \in Msg |-> FALSE]
    /\ suspended = [m \in Msg |-> FALSE]
    /\ primary \in Task \cup {Nothing}
    /\ status = [t \in Task |-> IF t = primary THEN "running" ELSE "absent"]
    /\ replaced = [t \in Task |-> FALSE]
    /\ byUser = [t \in Task |-> FALSE]
    /\ outdone = [t \in Task |-> FALSE]
    /\ queued = {}
    /\ current = Nothing
    /\ turns = [m \in Msg |-> 0]
    /\ background = "nobody"
    /\ drain = "idle"
    /\ taken = Nothing
    /\ calls = 0 /\ faults = 0
    /\ SchedInit

-----------------------------------------------------------------------------
\* What the handlers do to a task's row.

Becomes(t, s) == status' = [status EXCEPT ![t] = s]
\* active_task: at most one.
Active == {t \in Task : t = primary /\ status[t] \in Live}

Suspends(t) ==
    IF status[t] \in Terminal THEN UNCHANGED status ELSE Becomes(t, "paused")

Revokes(t) ==
    /\ Becomes(t, "revoked")
    /\ primary' = IF primary = t THEN Nothing ELSE primary
    /\ UNCHANGED <<replaced, byUser, outdone>>

\* The transaction of resume: every primary flag is cleared, and the task
\* becomes the primary if its row still lets it.
Resumes(t) ==
    /\ IF replaced[t] \/ status[t] = "paused"
       THEN /\ primary' = t
            /\ Becomes(t, "running")
            /\ replaced' = [replaced EXCEPT ![t] = FALSE]
            /\ byUser' = [byUser EXCEPT ![t] = FALSE]
       ELSE primary' = Nothing /\ UNCHANGED <<status, replaced, byUser>>
    /\ UNCHANGED outdone

-----------------------------------------------------------------------------
\* The coordinator.  A turn is named by what it is for.  Any turn may end at any
\* time, so that it was cancelled makes no difference here.

Turn == {"message", "resume", "aside"} \X Msg
Waits(m) == at[m] \in {"waiting", "resuming"}
\* foreground_demanded
Demand == drain = "waiting" \/ \E m \in Msg : Waits(m)

Submit(kindOf, m) == queued' = queued \cup {<<kindOf, m>>}

Goes(m, there) == at' = [at EXCEPT ![m] = there]
UnderWay(m) == at[m] \notin {"new", "done", "gone"}

\* The slot is given to a submitted turn once the background turn has yielded.
TurnStarts(r) ==
    /\ r \in queued
    /\ current = Nothing /\ background = "nobody"
    /\ queued' = queued \ {r}
    /\ current' = r
    /\ turns' = IF r[1] = "resume" THEN turns ELSE [turns EXCEPT ![r[2]] = @ + 1]
    /\ UNCHANGED <<msgVars, taskVars, background, drainVars, bounds, schedVars>>

\* The result reaches whoever still waits for it.
TurnEnded ==
    /\ current # Nothing
    /\ at' = [m \in Msg |->
                IF current = <<"message", m>> /\ at[m] = "waiting" THEN "answered"
                ELSE IF current = <<"resume", m>> /\ at[m] = "resuming" THEN "done"
                ELSE at[m]]
    /\ drain' = IF current = <<"aside", taken>> /\ drain = "waiting" THEN "answered"
                                                                    ELSE drain
    /\ current' = Nothing
    /\ UNCHANGED <<row, kind, prior, live, suspended, taskVars, queued, turns,
                   background, taken, bounds, schedVars>>

\* What a turn, of the foreground or not, does to the tasks: it plans a new one,
\* finishes or asks about the one at hand, or takes up one that was replaced.
Thinking == current # Nothing \/ background # "nobody"

Plans(t) ==
    /\ status[t] = "absent"
    /\ Becomes(t, "running")
    /\ replaced' = [u \in Task |-> replaced[u] \/ u \in Active]
    /\ outdone' = [u \in Task |-> outdone[u] \/ u \in Active]
    /\ primary' = t
    /\ UNCHANGED byUser

Finishes(t) ==
    /\ t \in Active
    /\ Becomes(t, "over")
    /\ primary' = Nothing
    /\ UNCHANGED <<replaced, byUser, outdone>>

Asks(t) ==
    /\ t \in Active /\ status[t] = "running"
    /\ Becomes(t, "asking")
    /\ UNCHANGED <<primary, replaced, byUser, outdone>>

TakesUp(t) == replaced[t] /\ status[t] \in Live /\ Resumes(t)

TurnWorks(t) ==
    /\ Thinking
    /\ Plans(t) \/ Finishes(t) \/ Asks(t) \/ TakesUp(t)
    /\ UNCHANGED <<msgVars, turnVars, drainVars, bounds, schedVars>>

-----------------------------------------------------------------------------
\* handle_message.

\* The variables of a step that concerns the handler only.
Inward == UNCHANGED <<turnVars, drainVars, bounds, schedVars>>

\* The message is at the door.  When the primary task has asked a question, the
\* message is the answer.
Arrives(m) ==
    /\ at[m] = "new"
    /\ \E k \in Kind : kind' = [kind EXCEPT ![m] = k]
    /\ IF \E t \in Active : status[t] = "asking"
       THEN prior' = [prior EXCEPT ![m] = primary] /\ Goes(m, "replying")
       ELSE UNCHANGED prior /\ Goes(m, "heard")
    /\ UNCHANGED <<row, live, suspended, taskVars>>
    /\ Inward

\* The transaction of answer, for the task that was read and is of no use after this.
Replies(m) ==
    /\ at[m] = "replying"
    /\ IF status[prior[m]] = "asking" THEN Becomes(prior[m], "running") ELSE UNCHANGED status
    /\ prior' = [prior EXCEPT ![m] = Nothing]
    /\ Goes(m, "heard")
    /\ UNCHANGED <<row, kind, live, suspended, primary, replaced, byUser, outdone>>
    /\ Inward

\* It plainly abandons the primary task, whatever classify will make of it: the turn
\* is cancelled, then the task revoked.
Forgets(m) ==
    /\ at[m] = "heard"
    /\ \E t \in Active : prior' = [prior EXCEPT ![m] = t]
    /\ Goes(m, "forgetting")
    /\ UNCHANGED <<row, kind, live, suspended, taskVars>>
    /\ Inward

Forgotten(m) ==
    /\ at[m] = "forgetting"
    /\ Revokes(prior[m])
    /\ Goes(m, "forgot")
    /\ UNCHANGED <<row, kind, prior, live, suspended>>
    /\ Inward

\* route_incoming writes the row; a message set aside needs nothing more now.
Routed(m) ==
    /\ at[m] \in {"heard", "forgot"}
    /\ row' = [row EXCEPT ![m] = "pending"]
    /\ Goes(m, IF kind[m] = "aside" THEN "done" ELSE "routed")
    /\ UNCHANGED <<kind, prior, live, suspended, taskVars>>
    /\ Inward

Looks(m) ==
    /\ at[m] = "routed"
    /\ prior' = [prior EXCEPT ![m] = IF Active = {} THEN Nothing ELSE primary]
    /\ live' = [live EXCEPT ![m] = \E t \in Active : status[t] = "running"]
    /\ Goes(m, "looked")
    /\ UNCHANGED <<row, kind, suspended, taskVars>>
    /\ Inward

\* If the foreground is busy here, or the lease says that it is elsewhere, the turn
\* that runs is cancelled (CONTINUE_PRIMARY waits instead), and a task it worked on is
\* to be suspended.  The status that was read is of no use after this.
Weighs(m) ==
    /\ at[m] = "looked"
    /\ \E busy \in {current # Nothing, TRUE} :
          Goes(m, CASE busy /\ kind[m] = "passing" /\ live[m] -> "suspending"
                    [] kind[m] = "stop" /\ prior[m] # Nothing -> "ending"
                    [] OTHER -> "ready")
    /\ live' = [live EXCEPT ![m] = FALSE]
    /\ UNCHANGED <<row, kind, prior, suspended, taskVars>>
    /\ Inward

\* Faulty variant: the handler does not note that it suspended the task.
SuspendsUnnoted(m) ==
    /\ at[m] = "suspending"
    /\ Suspends(prior[m])
    /\ Goes(m, "ready")
    /\ UNCHANGED <<row, kind, prior, live, suspended, primary, replaced, byUser, outdone>>
    /\ Inward

SuspendsIt(m) ==
    /\ at[m] = "suspending"
    /\ Suspends(prior[m])
    /\ suspended' = [suspended EXCEPT ![m] = TRUE]
    /\ Goes(m, "ready")
    /\ UNCHANGED <<row, kind, prior, live, primary, replaced, byUser, outdone>>
    /\ Inward

\* Faulty variant: a stop or a replacement only suspends the task.
EndsSoftly(m) ==
    /\ at[m] = "ending"
    /\ Suspends(prior[m])
    /\ Goes(m, "ready")
    /\ UNCHANGED <<row, kind, prior, live, suspended, primary, replaced, byUser, outdone>>
    /\ Inward

\* A stop or a replacement revokes the task it was sent to, once.
EndsIt(m) ==
    /\ at[m] = "ending"
    /\ IF status[prior[m]] = "revoked" THEN UNCHANGED taskVars ELSE Revokes(prior[m])
    /\ Goes(m, "ready")
    /\ UNCHANGED <<row, kind, prior, live, suspended>>
    /\ Inward

Submits(m) ==
    /\ at[m] = "ready"
    /\ Submit("message", m)
    /\ Goes(m, "waiting")
    /\ UNCHANGED <<row, kind, prior, live, suspended, taskVars, current, turns,
                   background, drainVars, bounds, schedVars>>

\* submit gives up after ten minutes; the turn stays queued or keeps running.
TimesOut(m) ==
    /\ Waits(m)
    /\ Goes(m, IF at[m] = "waiting" THEN "answered" ELSE "done")
    /\ UNCHANGED <<row, kind, prior, live, suspended, taskVars>>
    /\ Inward

\* Faulty variant: the handler returns with the answer.
CompletesOnly(m) ==
    /\ at[m] = "answered"
    /\ row' = [row EXCEPT ![m] = "completed"]
    /\ Goes(m, "done")
    /\ UNCHANGED <<kind, prior, live, suspended, taskVars>>
    /\ Inward

Completes(m) ==
    /\ at[m] = "answered"
    /\ row' = [row EXCEPT ![m] = "completed"]
    /\ Goes(m, IF suspended[m] THEN "owing" ELSE "done")
    /\ UNCHANGED <<kind, prior, live, suspended, taskVars>>
    /\ Inward

\* _maybe_resume_primary: only what is still the primary and still paused.
LooksAgain(m) ==
    /\ at[m] = "owing"
    /\ Goes(m, IF primary = prior[m] /\ status[prior[m]] = "paused"
               THEN "waking" ELSE "done")
    /\ UNCHANGED <<row, kind, prior, live, suspended, taskVars>>
    /\ Inward

\* resume asks for a tombstone first, then does its transaction.  The turn is
\* submitted whether or not the task was resumed.
MayWake(m) ==
    /\ at[m] = "waking"
    /\ Goes(m, IF status[prior[m]] = "revoked" THEN "recovering" ELSE "allowed")
    /\ UNCHANGED <<row, kind, prior, live, suspended, taskVars>>
    /\ Inward

Wakes(m) ==
    /\ at[m] = "allowed"
    /\ Resumes(prior[m])
    /\ Goes(m, "recovering")
    /\ UNCHANGED <<row, kind, prior, live, suspended>>
    /\ Inward

Recovers(m) ==
    /\ at[m] = "recovering"
    /\ Submit("resume", m)
    /\ Goes(m, "resuming")
    /\ UNCHANGED <<row, kind, prior, live, suspended, taskVars, current, turns,
                   background, drainVars, bounds, schedVars>>

\* Where a handler ends that is cut short: its message is done with once its row
\* was completed.
Short(m) ==
    IF at[m] \in {"owing", "waking", "allowed", "recovering", "resuming", "done"}
    THEN "done" ELSE "gone"

\* A failed call is forgiven where a question is answered or a task revoked.  A call
\* that fails elsewhere, and a cancellation of the handler anywhere, ends it; what it
\* has submitted stays where it is.  (One that is cancelled while submit makes the
\* background turn yield ends at "ready" or "recovering": nothing is queued yet.)
Breaks(m) ==
    /\ calls + faults < MaxEvents
    /\ faults' = faults + 1
    /\ \/ at[m] = "replying" /\ Goes(m, "heard")
       \/ at[m] = "forgetting" /\ Goes(m, "forgot")
       \/ at[m] = "ending" /\ Goes(m, "ready")
       \/ UnderWay(m) /\ Goes(m, Short(m))
    /\ UNCHANGED <<row, kind, prior, live, suspended, taskVars, turnVars,
                   drainVars, calls, schedVars>>

Handler(m) ==
    \/ Replies(m)
    \/ Forgotten(m) \/ Routed(m) \/ Looks(m) \/ Weighs(m)
    \/ SuspendsIt(m) \/ EndsIt(m) \/ Submits(m) \/ Completes(m)
    \/ LooksAgain(m) \/ MayWake(m) \/ Wakes(m) \/ Recovers(m)

-----------------------------------------------------------------------------
\* drain_queued: a message set aside is handled when nobody is at work and there
\* is no primary task.

Drain(there) == drain' = there
\* What the steps before the claim leave alone.
Idling == UNCHANGED <<msgVars, taskVars, turnVars, taken, bounds, schedVars>>

DrainLooks ==
    /\ drain = "idle" /\ current = Nothing
    /\ Drain("free")
    /\ Idling

\* Faulty variant: any task that is not over keeps the drainer waiting.
DrainSeesAny ==
    /\ drain = "free"
    /\ Drain(IF \A t \in Task : status[t] \notin Live THEN "clear" ELSE "idle")
    /\ Idling

DrainSees ==
    /\ drain = "free"
    /\ Drain(IF Active = {} THEN "clear" ELSE "idle")
    /\ Idling

SetAside(m) == row[m] = "pending" /\ kind[m] = "aside"

DrainFindsNone ==
    /\ drain = "clear"
    /\ \A m \in Msg : ~SetAside(m)
    /\ Drain("idle")
    /\ Idling

\* Faulty variant: any message, also one its handler will answer (claim_next).
DrainClaimsAny(m) ==
    /\ drain = "clear"
    /\ row[m] = "pending"
    /\ row' = [row EXCEPT ![m] = "processing"]
    /\ taken' = m
    /\ Submit("aside", m)
    /\ Drain("waiting")
    /\ UNCHANGED <<kind, at, prior, live, suspended, taskVars, current, turns,
                   background, bounds, schedVars>>

DrainClaims(m) ==
    /\ drain = "clear"
    /\ SetAside(m)
    /\ row' = [row EXCEPT ![m] = "processing"]
    /\ taken' = m
    /\ Submit("aside", m)
    /\ Drain("waiting")
    /\ UNCHANGED <<kind, at, prior, live, suspended, taskVars, current, turns,
                   background, bounds, schedVars>>

\* Faulty variant: the timeout gives the message up without recording it.
DrainTimesOutAway ==
    /\ drain = "waiting"
    /\ Drain("idle")
    /\ taken' = Nothing
    /\ UNCHANGED <<msgVars, taskVars, turnVars, bounds, schedVars>>

DrainTimesOut ==
    /\ drain = "waiting"
    /\ Drain("answered")
    /\ Idling

DrainCompletes ==
    /\ drain = "answered"
    /\ row' = [row EXCEPT ![taken] = "completed"]
    /\ taken' = Nothing
    /\ Drain("idle")
    /\ UNCHANGED <<kind, at, prior, live, suspended, taskVars, turnVars, bounds, schedVars>>

\* A call of the database raises: the next pass starts afresh.
DrainBreaks ==
    /\ calls + faults < MaxEvents
    /\ faults' = faults + 1
    /\ drain \in {"free", "clear", "answered"}
    /\ Drain("idle")
    /\ taken' = Nothing
    /\ UNCHANGED <<msgVars, taskVars, turnVars, calls, schedVars>>

Drains ==
    DrainLooks \/ DrainSees \/ DrainFindsNone \/ DrainCompletes
    \/ \E m \in Msg : DrainClaims(m)

-----------------------------------------------------------------------------
\* Background turns: continue_primary and the scheduler's.  None begins while a
\* caller of submit waits; one that runs yields, so it may end at any time.

Outward == UNCHANGED <<msgVars, taskVars, queued, current, turns, drainVars, bounds>>

\* Faulty variant: the demand is looked at before the slot was awaited, not after.
SlotWhenFree == current = Nothing /\ background = "nobody"

SlotForBackground == current = Nothing /\ background = "nobody" /\ ~Demand

\* continue_primary saw a task that is running, then announced it and looked for
\* its next step: by now the task may have become anything.
ContinueBegins ==
    /\ \E t \in Task : status[t] # "absent"
    /\ SlotForBackground
    /\ background' = "continuation"
    /\ UNCHANGED schedVars
    /\ Outward

ContinueEnds ==
    /\ background = "continuation"
    /\ background' = "nobody"
    /\ UNCHANGED schedVars
    /\ Outward

ScheduleBegins ==
    /\ SlotForBackground
    /\ TurnBegins
    /\ background' = "schedule"
    /\ Outward

ScheduleEnds ==
    /\ background = "schedule"
    /\ TurnEnds
    /\ background' = "nobody"
    /\ Outward

DaemonTurns == ContinueEnds \/ ScheduleBegins \/ ScheduleEnds

\* The steps of the scheduler that no turn is part of.
DaemonSteps == Tick \/ NotRun \/ Mark

SchedulerAlone ==
    /\ DaemonSteps \/ \E s \in Schedule : ComesDue(s)
    /\ UNCHANGED background
    /\ Outward

MarkFails ==
    /\ calls + faults < MaxEvents
    /\ faults' = faults + 1
    /\ MarkRaises
    /\ UNCHANGED <<msgVars, taskVars, turnVars, drainVars, calls>>

-----------------------------------------------------------------------------
\* The app's own requests, and a crash.

Called == calls + faults < MaxEvents /\ calls' = calls + 1 /\ UNCHANGED faults

AppPauses(t) ==
    /\ status[t] \in Live
    /\ Suspends(t)
    /\ byUser' = [byUser EXCEPT ![t] = TRUE]
    /\ UNCHANGED <<primary, replaced, outdone>>

AppResumes(t) == status[t] \notin {"absent", "revoked"} /\ Resumes(t)

AppRevokes(t) == status[t] \in Live /\ Revokes(t)

AppTask(t) ==
    /\ Called
    /\ AppPauses(t) \/ AppResumes(t) \/ AppRevokes(t)
    /\ UNCHANGED <<msgVars, turnVars, drainVars, schedVars>>

AppSchedule(s) ==
    /\ Called
    /\ Toggle(s) \/ Delete(s)
    /\ UNCHANGED <<msgVars, taskVars, turnVars, drainVars>>

\* What was in memory is gone.  The daemon recovers running tasks when it comes
\* back (module TaskLifecycle), but no code reclaims a row or resumes a task that
\* was suspended.
Crash ==
    /\ calls + faults < MaxEvents
    /\ faults' = faults + 1
    /\ at' = [m \in Msg |-> IF UnderWay(m) THEN Short(m) ELSE at[m]]
    /\ prior' = [m \in Msg |-> Nothing]
    /\ live' = [m \in Msg |-> FALSE] /\ suspended' = [m \in Msg |-> FALSE]
    /\ queued' = {} /\ current' = Nothing /\ background' = "nobody"
    /\ Drain("idle") /\ taken' = Nothing
    /\ TickLost
    /\ UNCHANGED <<row, kind, taskVars, turns, calls>>

-----------------------------------------------------------------------------
Next ==
    \/ \E m \in Msg : Arrives(m) \/ Forgets(m) \/ Handler(m) \/ TimesOut(m) \/ Breaks(m)
    \/ \E r \in Turn : TurnStarts(r)
    \/ TurnEnded
    \/ \E t \in Task : TurnWorks(t) \/ AppTask(t)
    \/ Drains \/ DrainTimesOut \/ DrainBreaks
    \/ ContinueBegins \/ DaemonTurns
    \/ SchedulerAlone \/ MarkFails
    \/ \E s \in Schedule : AppSchedule(s)
    \/ Crash

\* The event loop runs what is ready; a turn ends, as Coordinator shows; the slot,
\* which is handed over in the order it was asked for, comes to a submitted turn
\* although background turns come in between.  A message has a handler and each of
\* its turns once, so fairness to some handler and to some turn reaches them all.
Fairness ==
    /\ WF_vars(\E m \in Msg : Handler(m))
    /\ SF_vars(\E r \in Turn : TurnStarts(r))
    /\ WF_vars(TurnEnded)
    /\ WF_vars(Drains)
    /\ WF_vars(DaemonTurns)
    /\ WF_vars(SchedulerAlone)

Spec == Init /\ [][Next]_vars
FairSpec == Spec /\ Fairness

-----------------------------------------------------------------------------
TypeOK ==
    /\ row \in [Msg -> {"none", "pending", "processing", "completed"}]
    /\ kind \in [Msg -> Kind \cup {"none"}]
    /\ at \in [Msg -> {"new", "replying", "heard", "forgetting", "forgot", "routed", "looked",
                       "suspending", "ending", "ready", "waiting", "answered",
                       "owing", "waking", "allowed", "recovering", "resuming",
                       "done", "gone"}]
    /\ prior \in [Msg -> Task \cup {Nothing}]
    /\ live \in [Msg -> BOOLEAN]
    /\ suspended \in [Msg -> BOOLEAN]
    /\ status \in [Task -> Live \cup Terminal \cup {"absent"}]
    /\ primary \in Task \cup {Nothing}
    /\ replaced \in [Task -> BOOLEAN]
    /\ byUser \in [Task -> BOOLEAN]
    /\ outdone \in [Task -> BOOLEAN]
    /\ \A t \in Task : replaced[t] => outdone[t]
    /\ queued \subseteq Turn
    /\ current \in Turn \cup {Nothing}
    /\ turns \in [Msg -> Nat]
    /\ background \in {"nobody", "continuation", "schedule"}
    /\ background # "nobody" => current = Nothing
    /\ drain \in {"idle", "free", "clear", "waiting", "answered"}
    /\ taken \in Msg \cup {Nothing}
    /\ taken # Nothing <=> drain \in {"waiting", "answered"}
    /\ calls \in 0..MaxEvents /\ faults \in 0..MaxEvents
    /\ entry \in [Schedule -> {"on", "off", "gone"}]
    /\ due \in [Schedule -> BOOLEAN]
    /\ batch \subseteq Schedule
    /\ firing \in Schedule \cup {NoSchedule}
    /\ stage \in {"idle", "asked", "thinking", "ran"}
    /\ firing # NoSchedule <=> stage \in {"asked", "thinking", "ran"}
    /\ stage = "thinking" <=> background = "schedule"
    /\ times \in [Schedule -> 0..MaxTimes]
    /\ fired \in [Schedule -> Nat] /\ passed \in [Schedule -> Nat]

\* However it came in, and whatever timed out, raised or crashed, a message is
\* given a turn at most once: the drainer takes no message that a handler has.
TurnOnce == \A m \in Msg : turns[m] <= 1

\* A handler on its way from suspending task t to resuming it.
Owes(m, t) ==
    /\ prior[m] = t /\ suspended[m]
    /\ at[m] \in {"ready", "waiting", "answered", "owing", "waking", "allowed"}

\* This module uses no more of the coordinator than module TurnSlot promises.  A
\* request is made at one place of its message's life, which the message leaves for good.
Made(r) ==
    \/ r[1] = "message" /\ at[r[2]] \in {"waiting", "answered", "owing", "waking", "allowed",
                                         "recovering", "resuming", "done", "gone"}
    \/ r[1] = "resume" /\ at[r[2]] \in {"resuming", "done"}
    \/ r[1] = "aside" /\ row[r[2]] \in {"processing", "completed"}

Awaited(r) ==
    \/ r[1] = "message" /\ at[r[2]] = "waiting"
    \/ r[1] = "resume" /\ at[r[2]] = "resuming"
    \/ r[1] = "aside" /\ drain = "waiting" /\ taken = r[2]

Spent == {r \in Turn \ queued : Made(r)}
Awaiting == {r \in Turn : Awaited(r)}
BackgroundNow == IF background = "nobody" THEN Nothing ELSE background

\* Handlers, drainer, continuation and scheduler, with crashes and failed calls, keep
\* within the coordinator's promise: no request of theirs is made twice, and no
\* background turn begins while one of them waits.
Promised == INSTANCE TurnSlot WITH
    Request <- Turn,
    Faculty <- {"continuation", "schedule"},
    Nobody <- Nothing,
    running <- current,
    spent <- Spent,
    waiting <- Awaiting,
    background <- BackgroundNow
KeepsPromise == Promised!Spec

\* The primary task is paused by an interruption that will resume it, or because
\* Almir paused it in the app: two interruptions that overlap, a timeout or a turn
\* that replaces the task never leave it paused with nobody to resume it.
PausedIsOwed ==
    faults = 0 =>
        \A t \in Task : primary = t /\ status[t] = "paused" /\ ~byUser[t]
                           => \E m \in Msg : Owes(m, t)

\* An interrupted primary task is resumed, unless the app paused it as well, it
\* lost its place, or the handler failed.
Interrupted(t) == primary = t /\ status[t] = "paused" /\ ~byUser[t] /\ faults = 0
InterruptedResumes == \A t \in Task : []<>~Interrupted(t)

\* Once a handler whose message abandons, stops or replaces a task has gone on, that
\* task is over for good: no resume, suspension or answer that was under way revives it.
\* (The code does not promise it of a task that a new one replaced meanwhile:
\* resume takes up what was replaced, whatever its status.)
Told(m) ==
    \/ at[m] = "forgot"
    \/ kind[m] = "stop" /\ at[m] \in {"ready", "waiting", "answered", "done"}
StopsForGood ==
    faults = 0 =>
        \A m \in Msg :
            Told(m) /\ prior[m] # Nothing /\ ~outdone[prior[m]] => status[prior[m]] \in Terminal

\* A message that has arrived is in somebody's hands until its row says completed: in
\* its handler's, among those set aside for the drainer, or in the drainer's.  No
\* timeout, no other message and no turn that ends late lets one fall between them.
NoMessageIsLost ==
    faults = 0 =>
        \A m \in Msg : at[m] # "new" =>
            UnderWay(m) \/ SetAside(m) \/ taken = m \/ row[m] = "completed"

\* A message set aside is handled unless a primary task takes the drainer's place
\* first, by the process that crashed or by the next one, except where a crash or a
\* failed call fell between its claim and its completion.
Stranded(m) == row[m] = "processing" /\ taken # m
Unserved(m) == kind[m] = "aside" /\ row[m] \in {"pending", "processing"}
SetAsideIsServed == \A m \in Msg : []<>(Unserved(m) => Stranded(m) \/ primary # Nothing)

\* The turn it came due for has begun, or was passed over.
Begun(s) == firing = s /\ stage \in {"thinking", "ran"}

\* Each time a schedule comes due has one outcome: it is given a turn, or it is passed
\* over (deferred, shed, failed) and recorded all the same.  It never has two, unless
\* the daemon crashed or failed between the outcome and its record; and until
\* something fails, the only one without an outcome is the one that is still due.
Outcomes(s) == fired[s] + passed[s]
OncePerDue ==
    \A s \in Schedule :
        /\ Outcomes(s) <= times[s] + faults
        /\ faults = 0 /\ entry[s] # "gone" =>
               times[s] = Outcomes(s) + (IF due[s] /\ ~Begun(s) THEN 1 ELSE 0)

\* A schedule that is due is taken up and recorded sooner or later, whatever the others
\* in its tick do and though a tick was lost, unless it is switched off or deleted.
\* That is all the daemon promises: one whose turn was deferred or shed is recorded too,
\* and does not come round again before its next time.
DueIsSettled == \A s \in Schedule : []<>(s \notin Due)
=============================================================================
