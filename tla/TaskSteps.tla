----------------------------- MODULE TaskSteps -----------------------------
(***************************************************************************)
(* The plan of the primary task: how the daemon hands its steps out one    *)
(* turn at a time (cli/main.py, Runtime.continue_primary), how they are    *)
(* marked (tools/builtins/task_tool.py, TaskStore.advance), failed, given  *)
(* up by the engine, retried (tasks/retry.py) and reopened by a lesson     *)
(* (learning/research.py), and how the plan is changed under way.          *)
(*                                                                         *)
(* What else befalls a task (pauses, revocations, recovery, the review in  *)
(* its parts) is module TaskLifecycle's; here it stays the primary one.    *)
(***************************************************************************)
EXTENDS Integers, Sequences, FiniteSets

CONSTANTS
    Plans,          \* what the task may begin with
    MaxSteps,       \* bound on the length of a plan
    MaxSeq,         \* bound on its seqs: an insertion can leave a gap
    MaxAttempts,    \* retry.py: failures after which a step is not tried again
    MaxDrives,      \* hand-outs without a mark after which the engine gives a step up
    MaxReopens,     \* how often a lesson reopens a step
    StagnantLimit,  \* turns without a completed step after which the daemon stops
    MaxEvents       \* bound on the changes of the plan, what fails, and the restarts

Number == 1..MaxSeq

\* "failed" with a class that the policy retries (transient, recoverable), "hopeless"
\* for status failed with any other class: an unclassified failure is among them,
\* because attempts is at least 1 when a failed step is looked at.
Settled == {"done", "skipped"}
Failed == {"failed", "hopeless"}
Unmarked == {"pending", "running"}
Status == Unmarked \cup {"blocked"} \cup Settled \cup Failed

\* attempts counts up to the number that the policy tells apart.
Step == [status : Status, deps : SUBSET Number, parent : 0..MaxSeq, attempts : 0..MaxAttempts]
Plan == UNION {[S -> Step] : S \in SUBSET Number}

ASSUME StepsAssumption ==
    /\ {MaxSteps, MaxSeq, MaxAttempts, MaxDrives, MaxReopens, StagnantLimit, MaxEvents}
          \subseteq Nat \ {0}
    /\ MaxSteps <= MaxSeq
    /\ \A plan \in Plans :
          /\ plan \in Seq(Step) /\ Len(plan) \in 1..MaxSteps
          /\ \A n \in DOMAIN plan : plan[n].status = "pending" /\ plan[n].attempts = 0

VARIABLES
    steps,      \* task_step by seq; the numbers in deps and parent are seqs too
    task,       \* live, rejected by the review, or done
    pc,         \* where the continuation is
    handed,     \* the seq it named in its prompt, 0 if none
    drives,     \* _step_drives: hand-outs of a seq without a mark
    forced,     \* _step_forced: the seqs the engine has given up
    lastDone,   \* the daemon's count of completed steps
    stagnant,   \* its count of turns since then
    reopened,   \* task.step_unblocked events of a seq
    events,
    diligence   \* history: every turn ran and marked what it was handed (kept), is to
                \* mark it still (owed), or not (broken); broken also when one is spent on a
                \* settled plan that the review has not judged

daemonVars == <<pc, handed, drives, forced, lastDone, stagnant>>
vars == <<steps, task, daemonVars, reopened, events, diligence>>

Fresh == [status |-> "pending", deps |-> {}, parent |-> 0, attempts |-> 0]

Init ==
    /\ steps \in Plans
    /\ task = "live"
    /\ pc = "idle"
    /\ handed = 0
    /\ drives = [n \in Number |-> 0]
    /\ forced = {}
    /\ lastDone = 0
    /\ stagnant = 0
    /\ reopened = [n \in Number |-> 0]
    /\ events = 0
    /\ diligence = "kept"

Is(plan, n, states) == n \in DOMAIN plan /\ plan[n].status \in states
AllSettled(plan) == DOMAIN plan # {} /\ \A n \in DOMAIN plan : Is(plan, n, Settled)
DoneCount == Cardinality({n \in DOMAIN steps : Is(steps, n, {"done"})})
Children(plan, n) == {c \in DOMAIN plan : plan[c].parent = n}

-----------------------------------------------------------------------------
\* TaskStore.advance, in one transaction: the status, the parent whose children are
\* then all settled (create nests one level), and the review once all are settled.

SetStatus(plan, n, status) ==
    [plan EXCEPT ![n].status = status,
                 ![n].attempts = IF status \in Failed /\ @ < MaxAttempts THEN @ + 1 ELSE @]

\* _parent_auto_close does not look at the parent's own dependencies.
Closes(plan, n) ==
    LET up == plan[n].parent
    IN  /\ Is(plan, n, Settled)
        /\ up # n
        /\ Is(plan, up, Unmarked \cup {"blocked"})
        /\ \A c \in Children(plan, up) : Is(plan, c, Settled)

CloseParent(plan, n) ==
    IF Closes(plan, n) THEN [plan EXCEPT ![plan[n].parent].status = "done"] ELSE plan

Event == events < MaxEvents /\ events' = events + 1

DepsSettled(n) == \A d \in steps[n].deps : Is(steps, d, Settled)

\* The evidence gate (tool executions without a verified one) may refuse any "done":
\* then nothing changes.  A review that raises, or whose verdict is not written, leaves
\* the task as it was.  The engine may mark a step of a task that is done: the row of
\* the task stays.
Advance(n, status) ==
    /\ n \in DOMAIN steps
    /\ status = "done" => DepsSettled(n)
    /\ steps' = CloseParent(SetStatus(steps, n, status), n)
    /\ task' \in IF task = "done" THEN {"done"}
                 ELSE IF AllSettled(steps') THEN {"done", "rejected", "live"} ELSE {"live"}

\* The reviews that fail are bounded.
Reviewed == IF AllSettled(steps') /\ task' = "live" THEN Event ELSE UNCHANGED events

-----------------------------------------------------------------------------
\* The daemon's loop and continue_primary.

\* Faulty variant: a step that is running is taken to be in hands.
ReadyUnlessRunning(n) ==
    /\ Is(steps, n, {"pending"} \cup Failed)
    /\ DepsSettled(n)
    /\ \A c \in Children(steps, n) : ~Is(steps, c, Unmarked)

\* A step, or one of its sub-steps, whose turn it is.
Ready(n) ==
    /\ Is(steps, n, Unmarked \cup Failed)
    /\ DepsSettled(n)
    /\ \A c \in Children(steps, n) : ~Is(steps, c, Unmarked)

\* Faulty variant: the attempt to come is counted with those that failed.
MayTryOneLess(n) == Is(steps, n, {"failed"}) => steps[n].attempts + 1 < MaxAttempts

\* retry_decision.
MayTry(n) == Is(steps, n, {"failed"}) => steps[n].attempts < MaxAttempts

\* The SELECT gives the first ready step and only then the policy is asked.
Chosen(n) ==
    /\ Ready(n) /\ \A m \in DOMAIN steps : Ready(m) => n <= m
    /\ ~Is(steps, n, {"hopeless"}) /\ MayTry(n)

\* That a pending step is now running is written, or the write fails and nobody notices.
Begins(n) ==
    \/ /\ steps' = IF Is(steps, n, {"pending"}) THEN SetStatus(steps, n, "running") ELSE steps
       /\ UNCHANGED events
    \/ Is(steps, n, {"pending"}) /\ Event /\ UNCHANGED steps

HandsOut ==
    \/ \E n \in DOMAIN steps : Chosen(n) /\ handed' = n /\ Begins(n)
    \/ /\ ~\E n \in DOMAIN steps : Chosen(n)
       /\ UNCHANGED <<handed, steps, events>>

\* Faulty variant: the daemon does not remember the count it saw.
SnapshotForgotten ==
    /\ stagnant' = IF lastDone = DoneCount THEN stagnant ELSE 0
    /\ UNCHANGED lastDone

\* active_task_snapshot: a new count of completed steps starts the patience anew.
Snapshot ==
    /\ stagnant' = IF lastDone = DoneCount THEN stagnant ELSE 0
    /\ lastDone' = DoneCount

Drive ==
    /\ pc = "idle"
    /\ task # "done"
    /\ Snapshot
    /\ stagnant' < StagnantLimit
    /\ HandsOut
    /\ pc' = "turn"
    /\ diligence' = IF diligence = "kept" /\ handed' # 0 THEN "owed"
                    ELSE IF task = "live" /\ AllSettled(steps) THEN "broken" ELSE diligence
    /\ UNCHANGED <<task, drives, forced, reopened>>

\* The foreground is busy, or continue_primary raises, which it can only do before it
\* has handed a step out: nothing is driven and nothing counted.
DriveNot ==
    /\ pc = "idle"
    /\ task # "done"
    /\ Snapshot
    /\ UNCHANGED <<steps, task, pc, handed, drives, forced, reopened, events, diligence>>

\* submit_background returns: the turn ended, timed out or yielded, or it was deferred
\* or shed and never ran.  Whatever the foreground does before the status is read counts
\* as done in the turn.
TurnOver ==
    /\ pc = "turn"
    /\ diligence' \in {"broken", IF diligence = "owed" THEN "broken" ELSE diligence}

-----------------------------------------------------------------------------
\* _maybe_autoadvance_step, after the turn and without the slot: it reads the status
\* of the seq it handed out and then acts on what it read.

ForgetsDrives == drives' = [n \in Number |-> IF n = handed THEN 0 ELSE drives[n]]

\* The daemon counts every continuation that returned something.
Returns ==
    /\ pc' = "idle"
    /\ handed' = 0
    /\ stagnant' = stagnant + 1

FindsMarked ==
    /\ TurnOver
    /\ ~Is(steps, handed, Unmarked)
    /\ ForgetsDrives
    /\ Returns
    /\ UNCHANGED <<steps, task, forced, lastDone, reopened, events>>

\* Its read fails, which nobody notices.
FindsNothing ==
    /\ TurnOver
    /\ Event
    /\ Returns
    /\ UNCHANGED <<steps, task, drives, forced, lastDone, reopened>>

FindsUnmarked ==
    /\ TurnOver
    /\ Is(steps, handed, Unmarked)
    /\ pc' = "judge"
    /\ UNCHANGED <<steps, task, handed, drives, forced, lastDone, stagnant, reopened, events>>

\* The files its definition of done names exist: done, unless advance refuses, which
\* the engine does not notice.
Confirms ==
    /\ pc = "judge"
    /\ \/ Advance(handed, "done") /\ Reviewed
       \/ UNCHANGED <<steps, task, events>>
    /\ ForgetsDrives
    /\ Returns
    /\ UNCHANGED <<forced, lastDone, reopened, diligence>>

GivesUpNow == drives[handed] + 1 >= MaxDrives /\ handed \notin forced

\* For a seq that was given up once the count no longer matters.
Counts ==
    /\ pc = "judge"
    /\ ~GivesUpNow
    /\ drives' = [drives EXCEPT ![handed] = IF handed \in forced THEN @ ELSE @ + 1]
    /\ Returns
    /\ UNCHANGED <<steps, task, forced, lastDone, reopened, events, diligence>>

\* The engine's own words for it are of no class that is retried.  A step that is gone
\* is not marked, and it does not notice when the mark fails.
GivesUp ==
    /\ pc = "judge"
    /\ GivesUpNow
    /\ forced' = forced \cup {handed}
    /\ Advance(handed, "hopeless") \/ UNCHANGED <<steps, task>>
    /\ ForgetsDrives
    /\ Returns
    /\ UNCHANGED <<lastDone, reopened, events, diligence>>

-----------------------------------------------------------------------------
\* What the model does with its tools, in the turn of the continuation or in one of
\* the foreground.  The tools know only an open task: after a rejection, none.

\* "steps are done in order and every one gets marked"
InOrder(n) == \A m \in 1..(n - 1) : ~Is(steps, m, Unmarked \cup {"blocked"})

\* Marks that take something back or block, bounded for TLC.
TakesBack(n, status) ==
    \/ status = "blocked"
    \/ Is(steps, n, Settled \cup Failed) /\ status \notin Settled

\* Marks that do not get the plan further: back from settled, skipped (the daemon
\* counts no completed step), blocked, and failed for good.
Slack(n, status) ==
    \/ Is(steps, n, Settled)
    \/ status \notin {"running", "done", "failed"}
    \/ status = "failed" /\ steps[n].attempts + 1 >= MaxAttempts

AdvanceTask(n, status) ==
    /\ task = "live"
    /\ status \in Settled => InOrder(n)
    /\ Advance(n, status)
    /\ diligence' = IF Slack(n, status) THEN "broken"
                    ELSE IF diligence = "owed" /\ n = handed /\ status # "running" THEN "kept"
                    ELSE diligence
    /\ IF TakesBack(n, status) THEN Event ELSE Reviewed
    /\ UNCHANGED <<daemonVars, reopened>>

\* finish('done'); a plan that has lost all its steps may be finished too.
FinishTask ==
    /\ task = "live"
    /\ DOMAIN steps = {} \/ AllSettled(steps)
    /\ task' \in {"done", "rejected"}
    /\ UNCHANGED <<steps, daemonVars, reopened, events, diligence>>

\* modify_task, add and remove, at any place: the seqs behind it move; what deps,
\* parents, drives and lessons say of a seq does not move with them.  A place behind
\* the last step leaves a gap.  (Numbers below 1, which the tool takes too, are left out.)
AddStep(after) ==
    /\ task = "live"
    /\ Cardinality(DOMAIN steps) < MaxSteps
    /\ Event
    /\ LET before == {m \in DOMAIN steps : m <= after}
           behind == DOMAIN steps \ before
       IN  /\ steps' = [n \in before \cup {after + 1} \cup {m + 1 : m \in behind} |->
                           IF n <= after THEN steps[n]
                           ELSE IF n = after + 1 THEN Fresh ELSE steps[n - 1]]
           /\ diligence' = IF behind # {} THEN "broken" ELSE diligence
    /\ DOMAIN steps' \subseteq Number
    /\ UNCHANGED <<task, daemonVars, reopened>>

\* Nothing is removed at a number that no step has, but those behind it move.
RemoveStep(n) ==
    /\ task = "live"
    /\ Event
    /\ LET before == {m \in DOMAIN steps : m < n}
           behind == {m \in DOMAIN steps : m > n}
       IN  steps' = [m \in before \cup {k - 1 : k \in behind} |->
                        IF m < n THEN steps[m] ELSE steps[m + 1]]
    /\ diligence' = "broken"
    /\ UNCHANGED <<task, daemonVars, reopened>>

\* modify_task, reset and replace.
ResetStep(n) ==
    /\ task = "live"
    /\ Event
    /\ steps' = [steps EXCEPT ![n].status = "pending", ![n].attempts = 0]
    /\ diligence' = "broken"
    /\ UNCHANGED <<task, daemonVars, reopened>>

\* _unblock_step: a lesson about the failure of a seq has been learned.
Lesson(n) ==
    /\ task # "done"
    /\ Is(steps, n, Failed)
    /\ reopened[n] < MaxReopens
    /\ steps' = SetStatus(steps, n, "pending")
    /\ reopened' = [reopened EXCEPT ![n] = @ + 1]
    /\ UNCHANGED <<task, daemonVars, events, diligence>>

\* The daemon dies and is started again: the rows stay, its memory is gone.
Restart ==
    /\ Event
    /\ pc' = "idle"
    /\ handed' = 0
    /\ drives' = [n \in Number |-> 0]
    /\ forced' = {}
    /\ lastDone' = 0
    /\ stagnant' = 0
    /\ diligence' = IF diligence = "owed" THEN "kept" ELSE diligence
    /\ UNCHANGED <<steps, task, reopened>>

-----------------------------------------------------------------------------
Judges == FindsMarked \/ FindsNothing \/ FindsUnmarked \/ Confirms \/ Counts \/ GivesUp

Continuation == Drive \/ DriveNot \/ Judges

Tools ==
    \/ \E n \in DOMAIN steps :
          \/ \E status \in Status \ {"pending"} : AdvanceTask(n, status)
          \/ ResetStep(n)
    \/ \E n \in Number : RemoveStep(n) \/ AddStep(n - 1)
    \/ FinishTask

Next == Continuation \/ Tools \/ Restart \/ \E n \in DOMAIN steps : Lesson(n)

Spec == Init /\ [][Next]_vars

\* The daemon's loop comes round every 45 seconds and finds the foreground idle some
\* time; a turn ends by itself or at its timeout.  What the model does in it, what
\* is learned and what the user wants is up to them.
Fairness ==
    /\ WF_vars(Drive)
    /\ WF_vars(Judges)

FairSpec == Spec /\ Fairness

-----------------------------------------------------------------------------
\* The bookkeeping keeps its bounds: the engine judges only what it handed out, gives
\* it up before its count passes the limit, and nothing is driven once the daemon's
\* patience is over.
TypeOK ==
    /\ steps \in Plan
    /\ task \in {"live", "rejected", "done"}
    /\ pc \in {"idle", "turn", "judge"}
    /\ handed \in {0} \cup Number
    /\ pc = "idle" => handed = 0
    /\ pc = "judge" => handed # 0
    /\ drives \in [Number -> 0..MaxDrives]
    /\ \A n \in Number : drives[n] < MaxDrives /\ (n \in forced => drives[n] = 0)
    /\ forced \subseteq Number
    /\ lastDone \in Nat
    /\ stagnant \in 0..StagnantLimit
    /\ pc # "idle" => stagnant < StagnantLimit
    /\ reopened \in [Number -> 0..MaxReopens]
    /\ events \in 0..MaxEvents
    /\ diligence \in {"kept", "owed", "broken"}

\* "Continuation must never become a treadmill" (the daemon's loop): whatever fails,
\* is reopened, added or forgotten in a restart, either the turns cease or steps go
\* on being completed.
NoTreadmill == <>[](pc = "idle") \/ []<><<DoneCount' # DoneCount>>_vars

\* No sub-steps, and every dependency earlier in the plan.  A sub-step that is handed
\* out can never be marked: its parent comes before it and is open as long (InOrder).
Orderly ==
    \A n \in DOMAIN steps : /\ steps[n].parent = 0
                            /\ steps[n].deps \subseteq {m \in DOMAIN steps : m < n}

\* While turns mark what they are handed, an orderly plan is never stuck, however often
\* steps fail, are reopened, added at its end or the daemon restarts: a step is there to
\* be handed out and advance_task would take its mark, the engine does not give up a
\* step that goes on, and the daemon's patience lasts.  (Not so once a review has given
\* no verdict: the turns then spent on the settled plan use the patience up, and a step
\* added later may never be driven.)
NeverStalls ==
    Orderly /\ diligence # "broken" /\ ~AllSettled(steps) =>
        /\ task = "live"
        /\ \E n \in DOMAIN steps : Chosen(n) /\ InOrder(n)
        /\ pc = "judge" => ~GivesUpNow
        /\ lastDone = DoneCount => stagnant < StagnantLimit

\* Whenever turns run and mark the step they are handed, even after failures that may
\* be retried, lessons, steps added at its end and restarts, an orderly plan is worked
\* to its end: what is handed out can be marked and all is handed out.
PlanIsWorkedOff == Orderly => <>(AllSettled(steps) \/ diligence = "broken")
=============================================================================
