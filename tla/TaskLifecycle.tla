---------------------------- MODULE TaskLifecycle ----------------------------
(***************************************************************************)
(* tasks/store.py with its callers: the row of each task, and the jobs     *)
(* that change it.  The one turn calls the task tools and, as it begins,   *)
(* applies the user's words (handle_new_turn, called by loop.py, astream); *)
(* after a turn of the continuation the engine marks the step that was     *)
(* left unmarked, without the slot, so that the next turn may be at work   *)
(* (runtime.py, _maybe_autoadvance_step).  Requests take no slot: those of *)
(* the API and of the messenger, and what the handler of a message does to *)
(* a task beside the turn (runtime.py, handle_message, module Attention:   *)
(* it answers, pauses, resumes or revokes).  After a crash the daemon      *)
(* recovers what was running (tasks/recovery.py).                          *)
(*                                                                         *)
(* A job is a sequence of database transactions with awaits between them:  *)
(* an action is one transaction, and job[a].at says which comes next.      *)
(* What a job read in an earlier one it keeps, stale or not.               *)
(***************************************************************************)
EXTENDS Integers, FiniteSets

CONSTANTS
    Task,
    Request,     \* each makes one call, of the app or of a message's handler
    Turn,        \* the one thinker: see Coordinator and ExecutionLease
    Engine,      \* the continuation's judgement of an unmarked step: module TaskSteps
    Boot,        \* the daemon's recovery after a restart
    NoTask,
    MaxCalls,    \* bound: what the turn, the engine and the requests do
    MaxFaults    \* bound: crashes and failed writes

ASSUME TaskAssumption ==
    /\ NoTask \notin Task
    /\ {Turn, Engine, Boot} \cap Request = {}
    /\ Turn # Engine /\ Turn # Boot /\ Engine # Boot
    /\ MaxCalls \in Nat /\ MaxFaults \in Nat

VARIABLES
    status,      \* of each row; "absent" before create
    primary,     \* the row with is_primary: a unique index allows one
    replaced,    \* superseded_by IS NOT NULL
    archived,    \* archived_at IS NOT NULL
    newer,       \* the tasks whose updated_at is later than this one's
    tombstone,   \* its revoked_intent: "none", "live", or "revived"
    steps,       \* its task_step rows: none, some to do, those not settled
                 \* failed, all settled, or (history) passed by the reviewer
    found,       \* what recovery detected and has not handled yet
    job,         \* what each actor is doing
    calls, faults,
    overlapped   \* history: tasks that the engine and the turn had work on at once

row == <<status, primary, replaced, archived, newer>>
bounds == <<calls, faults>>
vars == <<status, primary, replaced, archived, newer, tombstone, steps,
          found, job, calls, faults, overlapped>>

Actor == Request \cup {Turn, Engine, Boot}
Over == {"done", "failed", "abandoned"}
\* What the guards call terminal.  Only tests call TaskStore.cancel, so
\* 'cancelled' is left out.
Terminal == Over \cup {"superseded"}
\* The statuses of open_tasks that some code sets.
Open == {"open", "running", "paused"}
\* "needs_changes" is also 'blocked_by_review': what names one names both.
Live == Open \cup {"waiting_for_user", "needs_changes"}
Stage == {"idle", "gone", "place", "supersede", "activate", "link", "modify",
          "advance", "gate", "complete", "review", "close", "archive", "stamp", "record",
          "abandon", "give way", "ask", "resume", "shelve", "detect",
          "recover", "adopt"}

Settled == {"none", "settled", "passed"}

Idle == [at |-> "idle", on |-> NoTask, by |-> NoTask, to |-> "done"]

Init ==
    /\ status = [t \in Task |-> "absent"]
    /\ primary = NoTask
    /\ replaced = [t \in Task |-> FALSE]
    /\ archived = [t \in Task |-> FALSE]
    /\ newer = [t \in Task |-> {}]
    /\ tombstone = [t \in Task |-> "none"]
    /\ steps = [t \in Task |-> "none"]
    /\ found = [t \in Task |-> "no"]
    /\ job = [a \in Actor |-> Idle]
    /\ calls = 0 /\ faults = 0
    /\ overlapped = {}

Becomes(t, s) == status' = [status EXCEPT ![t] = s]
Has(t, w) == steps' = [steps EXCEPT ![t] = w]
\* updated_at = now()
Touch(t) == newer' = [u \in Task |-> IF u = t THEN {} ELSE newer[u] \cup {t}]
Unseat(t) == primary' = IF primary = t THEN NoTask ELSE primary
\* What active_task and current return: at most one task.
Active == {t \in Task : t = primary /\ status[t] \in Live}
OpenTasks == {t \in Task : status[t] \in Open}
Current == {t \in OpenTasks : newer[t] \cap OpenTasks = {}}
\* The CASE of activate and supersede.
Woken(s) == IF s \in Open THEN "running" ELSE s

\* Recovery needs no bound of its own.
Counts(a) ==
    /\ job[a].at = "idle"
    /\ IF a # Boot THEN calls < MaxCalls /\ calls' = calls + 1 ELSE UNCHANGED calls
    /\ UNCHANGED faults
Begins(a, stage, t, u, s) ==
    /\ Counts(a)
    /\ job' = [job EXCEPT ![a] = [at |-> stage, on |-> t, by |-> u, to |-> s]]
Goes(a, stage) == job' = [job EXCEPT ![a] = [@ EXCEPT !.at = stage]]
\* A request makes one call; the others go on.
Ends(a) ==
    job' = [job EXCEPT ![a] = IF a \in Request THEN [Idle EXCEPT !.at = "gone"]
                                               ELSE Idle]
At(a, stage, t) == job[a].at = stage /\ job[a].on = t

-----------------------------------------------------------------------------
(* Planning: create, then activate_task.                                   *)

\* plan_task refuses while the current task runs with steps unfinished.
Plan(t) ==
    /\ status[t] = "absent"
    /\ \A c \in Current : status[c] = "running" => steps[c] # "some"
    /\ Begins(Turn, "place", t, NoTask, "done")
    /\ Becomes(t, "open")
    /\ Has(t, "some")
    /\ Touch(t)
    /\ UNCHANGED <<primary, replaced, archived, tombstone, found>>

\* activate_task reads the active task.
Place(t) ==
    /\ At(Turn, "place", t)
    /\ IF \E c \in Active : c # t
       THEN \E c \in Active : job' =
              [job EXCEPT ![Turn] = [@ EXCEPT !.at = "supersede", !.by = c]]
       ELSE Goes(Turn, "activate")
    /\ UNCHANGED <<row, tombstone, steps, found, bounds>>

\* supersede(u, t).  Taking the primary flag while a third row has it breaks
\* the unique index: the transaction rolls back and the call raises.
Supersede(t, u, next) ==
    /\ LET dies == status[u] \in Terminal
           seat == IF primary = u /\ ~dies THEN NoTask ELSE primary
       IN  IF seat \in {NoTask, t}
           THEN /\ replaced' = [replaced EXCEPT ![u] = @ \/ ~dies]
                /\ primary' = t
                /\ Becomes(t, Woken(status[t]))
                /\ Touch(t)
                /\ Goes(Turn, next)
           ELSE Ends(Turn) /\ UNCHANGED <<replaced, primary, status, newer>>
    /\ UNCHANGED <<archived, tombstone, steps, found, bounds>>

PlanSupersedes(t) ==
    /\ At(Turn, "supersede", t)
    /\ Supersede(t, job[Turn].by, "activate")

\* The last transaction of plan_task, and the third of a revival.
Activate(a, t) ==
    /\ At(a, "activate", t)
    /\ primary' = t
    /\ Becomes(t, Woken(status[t]))
    /\ Touch(t)
    /\ IF a = Turn THEN Ends(a) ELSE Goes(a, "link")
    /\ UNCHANGED <<replaced, archived, tombstone, steps, found, bounds>>

-----------------------------------------------------------------------------
(* Work: advance_task, modify_task, ask_user, finish_task; each acts on    *)
(* current(), which it reads first.                                        *)

\* A call that names no step of the task is refused, and is no action here.
PicksUp(t) ==
    /\ t \in Current
    /\ \/ steps[t] # "none" /\ Begins(Turn, "advance", t, NoTask, "done")
       \/ Begins(Turn, "modify", t, NoTask, "done")
    /\ UNCHANGED <<row, tombstone, steps, found>>

\* The engine finds the step that the turn was handed unmarked, whatever has become of
\* the task meanwhile.
Judges(t) ==
    /\ status[t] # "absent" /\ steps[t] = "some"
    /\ Begins(Engine, "advance", t, NoTask, "done")
    /\ UNCHANGED <<row, tombstone, steps, found>>

\* Faulty variant: the UPDATE of advance names 'paused' too.
AdvanceAnyway(a, t) ==
    /\ At(a, "advance", t)
    /\ steps[t] # "none"
    /\ \/ (Has(t, "some") \/ Has(t, "failed")) /\ Ends(a)
       \/ Has(t, "settled") /\ Goes(a, "gate")
    /\ IF status[t] \in {"open", "running", "paused", "needs_changes"}
       THEN Becomes(t, "running") /\ Touch(t)
       ELSE UNCHANGED <<status, newer>>
    /\ UNCHANGED <<primary, replaced, archived, tombstone, found, bounds>>

\* The transaction of advance.  It may settle a step (and with it the parents
\* that this completes), or unsettle one; which steps may be marked is
\* abstracted.
Advance(a, t) ==
    /\ At(a, "advance", t)
    /\ steps[t] # "none"
    /\ \/ (Has(t, "some") \/ Has(t, "failed")) /\ Ends(a)
       \/ Has(t, "settled") /\ Goes(a, "gate")
    /\ IF status[t] \in {"open", "running", "needs_changes"}
       THEN Becomes(t, "running") /\ Touch(t)
       ELSE UNCHANGED <<status, newer>>
    /\ UNCHANGED <<primary, replaced, archived, tombstone, found, bounds>>

\* The step is gone, waits for another one or lacks evidence.
Refused(a, t) ==
    /\ At(a, "advance", t)
    /\ Ends(a)
    /\ UNCHANGED <<row, tombstone, steps, found, bounds>>

\* modify_task adds, removes, replaces or resets steps, or renames the task.
Modify(t) ==
    /\ At(Turn, "modify", t)
    /\ \/ Has(t, "some") /\ UNCHANGED newer
       \/ /\ steps[t] # "none"
          /\ \E w \in {"none", "failed", "settled"} : Has(t, w)
          /\ UNCHANGED newer
       \/ ~archived[t] /\ Touch(t) /\ UNCHANGED steps
    /\ Ends(Turn)
    /\ UNCHANGED <<status, primary, replaced, archived, tombstone, found, bounds>>

\* Of what is kept here, the watchdog's health_status and the name of the
\* tool in use change updated_at only.
Stirs(t) ==
    /\ status[t] = "running"
    /\ Touch(t)
    /\ UNCHANGED <<status, primary, replaced, archived, tombstone, steps, found,
                   job, bounds>>

\* What was learned reopens a failed step.
Reopens(t) ==
    /\ status[t] \in Live /\ ~archived[t] /\ tombstone[t] # "live"
    /\ steps[t] = "failed" /\ Has(t, "some")
    /\ UNCHANGED <<row, tombstone, found, job, bounds>>

AskUser(t) ==
    /\ Counts(Turn)
    /\ t \in Current
    /\ status[t] \in {"open", "running"}
    /\ Becomes(t, "waiting_for_user")
    /\ Touch(t)
    /\ UNCHANGED <<primary, replaced, archived, tombstone, steps, found, job>>

\* Faulty variant: the model's word is enough.
FinishUnreviewed(t) ==
    /\ t \in Current
    /\ \E s \in Over : Begins(Turn, "close", t, NoTask, s)
    /\ UNCHANGED <<row, tombstone, steps, found>>

\* finish('done') checks the steps, if any; the other outcomes go to the UPDATE.
Finish(t) ==
    /\ t \in Current
    /\ \/ steps[t] \in Settled /\ Begins(Turn, "review", t, NoTask, "done")
       \/ \E s \in {"failed", "abandoned"} : Begins(Turn, "close", t, NoTask, s)
    /\ UNCHANGED <<row, tombstone, steps, found>>

\* The review gate, of either path: a verdict on the steps, then a status.
\* Only steps that are all settled pass.
Passes(a, t, next) ==
    /\ steps[t] \in Settled
    /\ Has(t, "passed")
    /\ Touch(t)
    /\ Goes(a, next)
    /\ UNCHANGED status

\* Faulty variant: the UPDATE of a rejection without its WHERE.
RejectsAnyway(a, t) ==
    /\ Becomes(t, "needs_changes")
    /\ Touch(t)
    /\ Ends(a)
    /\ UNCHANGED steps

Rejects(a, t) ==
    /\ IF status[t] \in Terminal THEN UNCHANGED status ELSE Becomes(t, "needs_changes")
    /\ Touch(t)
    /\ Ends(a)
    /\ UNCHANGED steps

Review(a, t) ==
    /\ \/ At(a, "gate", t) /\ (Passes(a, t, "complete") \/ Rejects(a, t))
       \/ At(a, "review", t) /\ (Passes(a, t, "close") \/ Rejects(a, t))
    /\ UNCHANGED <<primary, replaced, archived, tombstone, found, bounds>>

\* advance, after a pass.
Complete(a, t) ==
    /\ At(a, "complete", t)
    /\ IF status[t] \in {"open", "running"}
       THEN Becomes(t, "done") /\ Unseat(t) /\ Touch(t)
       ELSE UNCHANGED <<status, primary, newer>>
    /\ Goes(a, "archive")
    /\ UNCHANGED <<replaced, archived, tombstone, steps, found, bounds>>

\* The UPDATE of finish has no condition on the status.
Close(a, t) ==
    /\ At(a, "close", t)
    /\ Becomes(t, job[a].to)
    /\ Unseat(t)
    /\ Touch(t)
    /\ Goes(a, "archive")
    /\ UNCHANGED <<replaced, archived, tombstone, steps, found, bounds>>

\* _archive_and_cleanup reads the status, copies files, then stamps the row.
Archive(a, t) ==
    /\ At(a, "archive", t)
    /\ IF status[t] \in Over THEN Goes(a, "stamp") ELSE Ends(a)
    /\ UNCHANGED <<row, tombstone, steps, found, bounds>>

Stamp(a, t) ==
    /\ At(a, "stamp", t)
    /\ archived' = [archived EXCEPT ![t] = TRUE]
    /\ Unseat(t)
    /\ Ends(a)
    /\ UNCHANGED <<status, replaced, newer, tombstone, steps, found, bounds>>

-----------------------------------------------------------------------------
(* Revocation and revival.                                                 *)

\* The user's words, as a turn reads them, revoke the active task; a request revokes
\* any, the active task included, which is what a handler read before it.  get() does
\* not see archived rows, and then only the tombstone is written.
Revoke(a, t) ==
    /\ a \notin {Engine, Boot} /\ status[t] # "absent"
    /\ a = Turn => t \in Active
    /\ Begins(a, "record", t, IF archived[t] THEN NoTask ELSE t, "abandoned")
    /\ UNCHANGED <<row, tombstone, steps, found>>

\* ON CONFLICT leaves superseded_by alone.  Then the dependents are cancelled.
Record(a, t) ==
    /\ At(a, "record", t)
    /\ tombstone' = [tombstone EXCEPT ![t] = IF @ = "none" THEN "live" ELSE @]
    /\ IF job[a].by = t THEN Goes(a, "abandon") ELSE Ends(a)
    /\ UNCHANGED <<row, steps, found, bounds>>

Abandon(a, t) ==
    /\ At(a, "abandon", t)
    /\ Becomes(t, "abandoned")
    /\ Unseat(t)
    /\ Touch(t)
    /\ Goes(a, "archive")
    /\ UNCHANGED <<replaced, archived, tombstone, steps, found, bounds>>

\* A write that fails in these is suppressed: the status of a rejection, or
\* what should follow a tombstone.
WriteFails(a, t) ==
    /\ faults < MaxFaults
    /\ job[a].at \in {"gate", "review", "abandon", "archive", "stamp"} /\ job[a].on = t
    /\ Ends(a)
    /\ faults' = faults + 1 /\ UNCHANGED calls
    /\ UNCHANGED <<row, tombstone, steps, found>>

\* /revive makes a new task without steps from the tombstone of u.
Revive(a, t) ==
    /\ a \in Request
    /\ status[t] = "absent"
    /\ \E u \in Task : tombstone[u] # "none" /\ Begins(a, "activate", t, u, "done")
    /\ Becomes(t, "open")
    /\ Touch(t)
    /\ UNCHANGED <<primary, replaced, archived, tombstone, steps, found>>

Link(a, t) ==
    /\ At(a, "link", t)
    /\ tombstone' = [tombstone EXCEPT ![job[a].by] = "revived"]
    /\ Ends(a)
    /\ UNCHANGED <<row, steps, found, bounds>>

-----------------------------------------------------------------------------
(* Pausing, resuming, answering, replacing.                                *)

\* suspend.
Pause(a, t) ==
    /\ a \in Request /\ status[t] \in Live
    /\ Counts(a)
    /\ Becomes(t, "paused")
    /\ Touch(t)
    /\ Ends(a)
    /\ UNCHANGED <<primary, replaced, archived, tombstone, steps, found>>

\* The user's answer to a pending question.
Answer(a, t) ==
    /\ a \in Request /\ status[t] = "waiting_for_user"
    /\ Counts(a)
    /\ Becomes(t, "running")
    /\ Touch(t)
    /\ Ends(a)
    /\ UNCHANGED <<primary, replaced, archived, tombstone, steps, found>>

\* Only a request names its task; "resume the previous task" takes the most
\* recent resumable, and supersedes the active one first.
Resumable == {t \in Task : t # primary /\ (replaced[t] \/ status[t] = "paused")}

Resume(a, t) ==
    /\ \/ a \in Request /\ status[t] # "absent" /\ Begins(a, "ask", t, NoTask, "done")
       \/ /\ a = Turn /\ t \in Resumable /\ newer[t] \cap Resumable = {}
          /\ IF Active = {}
             THEN Begins(a, "ask", t, NoTask, "done")
             ELSE \E c \in Active : Begins(a, "give way", t, c, "done")
    /\ UNCHANGED <<row, tombstone, steps, found>>

GiveWay(t) ==
    /\ At(Turn, "give way", t)
    /\ Supersede(t, job[Turn].by, "ask")

\* is_revoked, on a connection of its own.
AskRevoked(a, t) ==
    /\ At(a, "ask", t)
    /\ IF tombstone[t] = "live" THEN Ends(a) ELSE Goes(a, "resume")
    /\ UNCHANGED <<row, tombstone, steps, found, bounds>>

\* Every primary is cleared, whether or not the second UPDATE matches.
ResumeCommit(a, t) ==
    /\ At(a, "resume", t)
    /\ IF replaced[t] \/ status[t] = "paused"
       THEN /\ primary' = t
            /\ Becomes(t, "running")
            /\ replaced' = [replaced EXCEPT ![t] = FALSE]
            /\ Touch(t)
       ELSE primary' = NoTask /\ UNCHANGED <<status, replaced, newer>>
    /\ Ends(a)
    /\ UNCHANGED <<archived, tombstone, steps, found, bounds>>

\* A clearly new request: the active task goes, in an UPDATE of its own.
NewRequest(t) ==
    /\ t \in Active /\ Begins(Turn, "shelve", t, NoTask, "done")
    /\ UNCHANGED <<row, tombstone, steps, found>>

Shelve(t) ==
    /\ At(Turn, "shelve", t)
    /\ IF status[t] \in Terminal
       THEN UNCHANGED <<status, primary, newer>>
       ELSE Becomes(t, "superseded") /\ Unseat(t) /\ Touch(t)
    /\ Ends(Turn)
    /\ UNCHANGED <<replaced, archived, tombstone, steps, found, bounds>>

-----------------------------------------------------------------------------
(* Crash, and recovery at the next start.                                  *)

Crash ==
    /\ faults < MaxFaults
    /\ job' = [a \in Actor |->
                 IF a = Boot THEN [Idle EXCEPT !.at = "detect"]
                 ELSE IF a \in Request /\ job[a].at # "idle"
                 THEN [Idle EXCEPT !.at = "gone"] ELSE Idle]
    /\ found' = [t \in Task |-> "no"]
    /\ faults' = faults + 1 /\ UNCHANGED calls
    /\ UNCHANGED <<row, tombstone, steps>>

\* Which of the running tasks look stale, and which have used up their
\* retries, is left open.
Detect ==
    /\ job[Boot].at = "detect"
    /\ \E stale \in [Task -> {"no", "recover", "give up"}] :
          found' = [t \in Task |-> IF status[t] = "running" /\ tombstone[t] # "live"
                                   THEN stale[t] ELSE "no"]
    /\ Ends(Boot)
    /\ UNCHANGED <<row, tombstone, steps, bounds>>

GiveUp(t) ==
    /\ found[t] = "give up" /\ Begins(Boot, "close", t, NoTask, "failed")
    /\ found' = [found EXCEPT ![t] = "no"]
    /\ UNCHANGED <<row, tombstone, steps>>

\* mark_task_interrupted, then is_revoked.
Recover(t) ==
    /\ found[t] = "recover"
    /\ IF status[t] = "running" THEN Touch(t) ELSE UNCHANGED newer
    /\ IF tombstone[t] = "live" THEN Counts(Boot) /\ UNCHANGED job
       ELSE Begins(Boot, "adopt", t, NoTask, "done")
    /\ found' = [found EXCEPT ![t] = "no"]
    /\ UNCHANGED <<status, primary, replaced, archived, tombstone, steps>>

\* recover_task's transaction.  A primary that is over does not count as
\* one, but the unique index counts it: then the whole recovery raises.
Adopt(t) ==
    /\ At(Boot, "adopt", t)
    /\ IF primary \notin {NoTask, t} /\ Active = {}
       THEN found' = [u \in Task |-> "no"] /\ UNCHANGED <<primary, newer>>
       ELSE /\ primary' = IF Active = {} THEN t ELSE primary
            /\ Touch(t)
            /\ UNCHANGED found
    /\ Ends(Boot)
    /\ UNCHANGED <<status, replaced, archived, tombstone, steps, bounds>>

-----------------------------------------------------------------------------
TurnWorks(t) ==
    \/ Plan(t) \/ Place(t) \/ PlanSupersedes(t) \/ PicksUp(t) \/ Modify(t)
    \/ AskUser(t) \/ Finish(t) \/ GiveWay(t) \/ NewRequest(t) \/ Shelve(t)
    \/ Stirs(t) \/ Reopens(t)
Reviews(a, t) ==
    Advance(a, t) \/ Refused(a, t) \/ Review(a, t) \/ Complete(a, t)
Anyone(a, t) ==
    \/ Activate(a, t) \/ Close(a, t) \/ Archive(a, t) \/ Stamp(a, t)
    \/ Revoke(a, t) \/ Record(a, t) \/ Abandon(a, t) \/ WriteFails(a, t)
    \/ Revive(a, t) \/ Link(a, t) \/ Pause(a, t) \/ Answer(a, t)
    \/ Resume(a, t) \/ AskRevoked(a, t) \/ ResumeCommit(a, t)
BootWorks(t) == GiveUp(t) \/ Recover(t) \/ Adopt(t)

\* From reading the task to the status that a review leads to.
Works(a, t) ==
    /\ job[a].on = t
    /\ job[a].at \in {"modify", "advance", "gate", "complete", "review", "close"}
Overlap(t) == Works(Turn, t) /\ Works(Engine, t)

Step ==
    \/ \E t \in Task : TurnWorks(t) \/ Judges(t) \/ BootWorks(t)
    \/ \E a \in Actor, t \in Task : Reviews(a, t) \/ Anyone(a, t)
    \/ Crash \/ Detect

Next == Step /\ overlapped' = overlapped \cup {t \in Task : Overlap(t)'}

Spec == Init /\ [][Next]_vars

-----------------------------------------------------------------------------
\* Types, and that what does not exist has no part in anything: every job,
\* primary and tombstone is of a task that was created.
TypeOK ==
    /\ status \in [Task -> Terminal \cup Live \cup {"absent"}]
    /\ primary \in Task \cup {NoTask}
    /\ replaced \in [Task -> BOOLEAN]
    /\ archived \in [Task -> BOOLEAN]
    /\ newer \in [Task -> SUBSET Task]
    /\ tombstone \in [Task -> {"none", "live", "revived"}]
    /\ steps \in [Task -> Settled \cup {"some", "failed"}]
    /\ found \in [Task -> {"no", "recover", "give up"}]
    /\ job \in [Actor -> [at : Stage, on : Task \cup {NoTask},
                          by : Task \cup {NoTask}, to : Over]]
    /\ calls \in 0..MaxCalls /\ faults \in 0..MaxFaults
    /\ overlapped \subseteq Task
    /\ \A a \in Actor : job[a].on # NoTask => status[job[a].on] # "absent"
    /\ primary # NoTask => status[primary] # "absent"
    /\ \A t \in Task : tombstone[t] # "none" => status[t] # "absent"

\* "the task becomes 'done' only once the reviewer verifies the durable evidence"
\* (store.py, advance): a task is done only if the reviewer passed its steps, all settled,
\* and none was touched since, whatever ran between the check of the steps, the review
\* and the UPDATE, unless the engine and the turn had work on it at once: then one may
\* change the steps that the other's review has passed.
DoneIsEarned ==
    \A t \in Task \ overlapped : status[t] = "done" => steps[t] = "passed"

\* What is over stays over, through every job that read the row before it
\* ended: the late rejection of a review, a pause, a resume, an adoption, a
\* step that is marked after a revocation.  The exception is the code's: a
\* task that was superseded before it ended can be resumed.
OverIsOver ==
    [][\A t \in Task : status[t] \in Over /\ ~replaced[t] => status'[t] \in Over]_vars

\* A paused task runs again only by a job that means to run it: to mark a
\* step or to answer an old question does not unpause it.
OnlyResumeWakes ==
    [][\A t \in Task : status[t] = "paused" /\ status'[t] = "running" =>
          \E a \in Actor : job[a].on = t /\
             job[a].at \in {"supersede", "give way", "activate", "resume"}]_vars
=============================================================================
