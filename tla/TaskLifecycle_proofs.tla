------------------------ MODULE TaskLifecycle_proofs ------------------------
(***************************************************************************)
(* For any number of tasks and requests, crashes and failed writes: types, *)
(* that only what exists has a part in anything, that a task is done only  *)
(* as the reviewer passed it, and what may wake a task.                    *)
(*                                                                         *)
(* Each action is one transaction on one row, so the invariant says what a *)
(* job may rely on from the transactions before: only the turn and the     *)
(* engine review, and what one of them is about to set to done was passed  *)
(* and not touched since, unless they had work on it at once.              *)
(***************************************************************************)
EXTENDS TaskLifecycle, TLAPS

-----------------------------------------------------------------------------
\* Types.
Status == Terminal \cup Live \cup {"absent"}
Rows ==
    /\ status \in [Task -> Status]
    /\ primary \in Task \cup {NoTask}
    /\ replaced \in [Task -> BOOLEAN]
    /\ archived \in [Task -> BOOLEAN]
    /\ newer \in [Task -> SUBSET Task]
    /\ tombstone \in [Task -> {"none", "live", "revived"}]
    /\ steps \in [Task -> Settled \cup {"some", "failed"}]
    /\ found \in [Task -> {"no", "recover", "give up"}]

JobType == [at : Stage, on : Task \cup {NoTask}, by : Task \cup {NoTask}, to : Over]
Jobs ==
    /\ job \in [Actor -> JobType]
    /\ calls \in 0..MaxCalls /\ faults \in 0..MaxFaults

\* What does not exist has no part in anything.
Exist(t) == status[t] # "absent"
Existing ==
    /\ \A a \in Actor : /\ job[a].on # NoTask => Exist(job[a].on)
                        /\ job[a].by # NoTask => Exist(job[a].by)
    /\ primary # NoTask => Exist(primary)
    /\ \A t \in Task : tombstone[t] # "none" \/ replaced[t] \/ found[t] # "no" => Exist(t)

Typed == Rows /\ Jobs /\ overlapped \subseteq Task

\* The parts of the invariant give the type invariant of the run.
LEMMA TypedTypeOK == Typed /\ Existing => TypeOK
  BY DEF Typed, Rows, Status, Jobs, JobType, Existing, Exist, TypeOK

\* The turn, the engine and the recovery are three actors.
LEMMA Actors ==
  /\ Turn \in Actor /\ Engine \in Actor /\ Boot \in Actor
  /\ Turn # Boot /\ Turn # Engine /\ Engine # Boot
  BY TaskAssumption DEF Actor

\* What the parts of an action do.
LEMMA RowsWritten ==
  ASSUME Rows, NEW t \in Task
  PROVE  /\ \A s \in Status : Becomes(t, s) => status' \in [Task -> Status]
         /\ Touch(t) => newer' \in [Task -> SUBSET Task]
         /\ Unseat(t) => primary' \in Task \cup {NoTask}
         /\ \A w \in Settled \cup {"some", "failed"} :
               Has(t, w) => steps' \in [Task -> Settled \cup {"some", "failed"}]
         /\ status[t] \in Status /\ Woken(status[t]) \in Status
<1>1. \A s \in Status : Becomes(t, s) => status' \in [Task -> Status]
  BY DEF Rows, Becomes
<1>2. Touch(t) => newer' \in [Task -> SUBSET Task]
  <2>1. ASSUME NEW u \in Task
        PROVE (IF u = t THEN {} ELSE newer[u] \cup {t}) \in SUBSET Task
    <3>1. newer[u] \subseteq Task
      BY DEF Rows
    <3> QED
      BY <3>1
  <2> QED
    BY <2>1 DEF Touch
<1>3. Unseat(t) => primary' \in Task \cup {NoTask}
  BY DEF Rows, Unseat
<1>4. \A w \in Settled \cup {"some", "failed"} :
        Has(t, w) => steps' \in [Task -> Settled \cup {"some", "failed"}]
  BY DEF Rows, Has
<1>5. status[t] \in Status /\ Woken(status[t]) \in Status
  BY DEF Rows, Woken, Status, Live, Open
<1> QED
  BY <1>1, <1>2, <1>3, <1>4, <1>5

\* The names of the statuses and of the steps' states.
LEMMA Statuses ==
  /\ Over \subseteq Status /\ Live \subseteq Status /\ Terminal \subseteq Status
  /\ {"open", "running", "paused", "waiting_for_user", "needs_changes"} \subseteq Live
  /\ {"done", "failed", "abandoned"} \subseteq Over /\ "superseded" \in Terminal
  /\ {"none", "settled", "passed"} \subseteq Settled
  BY DEF Status, Over, Live, Open, Terminal, Settled

\* A job names what it named, or what exists.
RefsKeep ==
    \A b \in Actor :
       /\ job'[b].on \in {NoTask, job[b].on} \/ status'[job'[b].on] # "absent"
       /\ job'[b].by \in {NoTask, job[b].by} \/ status'[job'[b].by] # "absent"

\* A job that begins, goes on, ends or is left alone stays a job.
LEMMA Begun ==
  ASSUME Jobs, NEW a \in Actor, NEW stage \in Stage, NEW t \in Task,
         NEW u \in Task \cup {NoTask}, NEW s \in Over, Begins(a, stage, t, u, s),
         status'[t] # "absent", u = NoTask \/ status'[u] # "absent"
  PROVE  Jobs' /\ RefsKeep
  BY TaskAssumption DEF Jobs, JobType, Begins, Counts, RefsKeep

LEMMA Gone ==
  ASSUME Jobs, NEW a \in Actor, NEW stage \in Stage, Goes(a, stage)
  PROVE  job' \in [Actor -> JobType] /\ RefsKeep
  BY DEF Jobs, JobType, Goes, RefsKeep

LEMMA Ended ==
  ASSUME Jobs, NEW a \in Actor, Ends(a)
  PROVE  job' \in [Actor -> JobType] /\ RefsKeep
  BY DEF Jobs, JobType, Ends, Idle, Stage, Over, RefsKeep

LEMMA Untouched ==
  ASSUME Jobs, job' = job
  PROVE  job' \in [Actor -> JobType] /\ RefsKeep
  BY DEF Jobs, JobType, RefsKeep

LEMMA Counted ==
  ASSUME Jobs, NEW a \in Actor, UNCHANGED bounds \/ Counts(a)
  PROVE  calls' \in 0..MaxCalls /\ faults' \in 0..MaxFaults
  BY TaskAssumption DEF Jobs, Counts, bounds

LEMMA Faulted ==
  ASSUME Jobs, faults < MaxFaults, faults' = faults + 1, UNCHANGED calls
  PROVE  calls' \in 0..MaxCalls /\ faults' \in 0..MaxFaults
  BY TaskAssumption DEF Jobs

LEMMA Named ==
  ASSUME Jobs, NEW c \in Task, status'[c] # "absent",
         job' = [job EXCEPT ![Turn] = [@ EXCEPT !.at = "supersede", !.by = c]]
  PROVE  job' \in [Actor -> JobType] /\ RefsKeep
<1>1. job[Turn] \in JobType
  BY Actors DEF Jobs
<1>2. [job[Turn] EXCEPT !.at = "supersede", !.by = c] \in JobType
  BY <1>1 DEF JobType, Stage
<1>3. job' \in [Actor -> JobType]
  BY <1>2 DEF Jobs
<1>4. /\ \A b \in Actor : b # Turn => job'[b] = job[b]
      /\ job'[Turn].on = job[Turn].on /\ job'[Turn].by = c
  BY <1>1, Actors DEF Jobs, JobType
<1> QED
  BY <1>3, <1>4 DEF RefsKeep

\* Initially no task exists.
LEMMA InitTyped == Init => Typed /\ Existing
  BY TaskAssumption
  DEF Init, Typed, Rows, Status, Jobs, JobType, Existing, Exist, Idle, Settled, Stage, Over, Live, Open, Terminal

\* Every transaction writes what the columns hold.
LEMMA RowsStep == ASSUME Typed, Existing, Step PROVE Rows'
<1> USE DEF Rows, row, bounds
<1>a. Rows /\ Jobs
  BY DEF Typed
<1> USE RowsWritten, Statuses
<1>1. ASSUME NEW t \in Task, TurnWorks(t) PROVE Rows'
  <2>1. CASE Plan(t)
    BY <1>a, <2>1 DEF Plan
  <2>2. CASE Place(t)
    BY <1>a, <2>2 DEF Place
  <2>3. CASE PlanSupersedes(t)
    BY <1>a, <2>3 DEF PlanSupersedes, Supersede
  <2>4. CASE PicksUp(t)
    BY <1>a, <2>4 DEF PicksUp
  <2>6. CASE Modify(t)
    BY <1>a, <2>6 DEF Modify
  <2>7. CASE AskUser(t)
    BY <1>a, <2>7 DEF AskUser
  <2>8. CASE Finish(t)
    BY <1>a, <2>8 DEF Finish
  <2>11. CASE GiveWay(t)
    BY <1>a, <2>11 DEF GiveWay, Supersede
  <2>12. CASE NewRequest(t)
    BY <1>a, <2>12 DEF NewRequest
  <2>13. CASE Shelve(t)
    BY <1>a, <2>13 DEF Shelve
  <2>14. CASE Stirs(t)
    BY <1>a, <2>14 DEF Stirs
  <2>15. CASE Reopens(t)
    BY <1>a, <2>15 DEF Reopens
  <2> QED
    BY <1>1, <2>1, <2>2, <2>3, <2>4, <2>6, <2>7, <2>8, <2>11, <2>12, <2>13, <2>14, <2>15
    DEF TurnWorks
<1>2. ASSUME NEW t \in Task, BootWorks(t) PROVE Rows'
  BY <1>a, <1>2 DEF BootWorks, GiveUp, Recover, Adopt
<1>3. ASSUME NEW a \in Actor, NEW t \in Task, Anyone(a, t) PROVE Rows'
  <2>a. job[a].to \in Over /\ job[a].by \in Task \cup {NoTask}
    BY <1>a DEF Jobs, JobType
  <2>1. CASE Activate(a, t)
    BY <1>a, <2>1 DEF Activate
  <2>2. CASE Close(a, t)
    BY <1>a, <2>a, <2>2 DEF Close
  <2>3. CASE Archive(a, t)
    BY <1>a, <2>3 DEF Archive
  <2>4. CASE Stamp(a, t)
    BY <1>a, <2>4 DEF Stamp
  <2>5. CASE Revoke(a, t)
    BY <1>a, <2>5 DEF Revoke
  <2>6. CASE Record(a, t)
    BY <1>a, <2>6 DEF Record
  <2>7. CASE Abandon(a, t)
    BY <1>a, <2>7 DEF Abandon
  <2>8. CASE WriteFails(a, t)
    BY <1>a, <2>8 DEF WriteFails
  <2>9. CASE Revive(a, t)
    BY <1>a, <2>9 DEF Revive
  <2>10. CASE Link(a, t)
    BY <1>a, <2>10 DEF Link
  <2>11. CASE Pause(a, t)
    BY <1>a, <2>11 DEF Pause
  <2>12. CASE Answer(a, t)
    BY <1>a, <2>12 DEF Answer
  <2>13. CASE Resume(a, t)
    BY <1>a, <2>13 DEF Resume
  <2>14. CASE AskRevoked(a, t)
    BY <1>a, <2>14 DEF AskRevoked
  <2>15. CASE ResumeCommit(a, t)
    BY <1>a, <2>15 DEF ResumeCommit
  <2> QED
    BY <1>3, <2>1, <2>2, <2>3, <2>4, <2>5, <2>6, <2>7, <2>8, <2>9, <2>10, <2>11, <2>12,
       <2>13, <2>14, <2>15 DEF Anyone
<1>4. CASE Crash
  BY <1>a, <1>4 DEF Crash
<1>5. CASE Detect
  <2>1. PICK stale \in [Task -> {"no", "recover", "give up"}] :
           found' = [t \in Task |-> IF status[t] = "running" /\ tombstone[t] # "live"
                                    THEN stale[t] ELSE "no"]
    BY <1>5 DEF Detect
  <2>2. found' \in [Task -> {"no", "recover", "give up"}]
    BY <2>1
  <2> QED
    BY <1>a, <1>5, <2>2 DEF Detect
<1>7. ASSUME NEW t \in Task, Judges(t) PROVE Rows'
  BY <1>a, <1>7 DEF Judges
<1>8. ASSUME NEW a \in Actor, NEW t \in Task, Reviews(a, t) PROVE Rows'
  <2>1. CASE Advance(a, t)
    BY <1>a, <2>1 DEF Advance
  <2>2. CASE Refused(a, t)
    BY <1>a, <2>2 DEF Refused
  <2>3. CASE Review(a, t)
    BY <1>a, <2>3 DEF Review, Passes, Rejects
  <2>4. CASE Complete(a, t)
    BY <1>a, <2>4 DEF Complete
  <2> QED
    BY <1>8, <2>1, <2>2, <2>3, <2>4 DEF Reviews
<1> QED
  BY <1>1, <1>2, <1>3, <1>4, <1>5, <1>7, <1>8 DEF Step

\* What exists goes on existing.
LEMMA BecomesKeeps ==
  ASSUME Rows, NEW t \in Task, NEW s \in Status, s # "absent", Becomes(t, s)
  PROVE  status'[t] = s /\ \A u \in Task : Exist(u) => status'[u] # "absent"
  BY DEF Rows, Becomes, Exist

\* What is absent is neither over nor alive, and waking makes nothing absent.
LEMMA Alive ==
  /\ "absent" \notin Over \cup Live \cup Terminal
  /\ \A s \in Status : s # "absent" => Woken(s) # "absent"
  BY DEF Over, Live, Terminal, Open, Woken, Status

\* A job is on a task that exists.
LEMMA JobExists ==
  ASSUME Existing, NEW a \in Actor, NEW stage, NEW t \in Task, At(a, stage, t)
  PROVE  Exist(t)
  BY TaskAssumption DEF Existing, At

\* No transaction removes a task.
LEMMA Grows == ASSUME Typed, Existing, Step PROVE \A u \in Task : Exist(u) => Exist(u)'
<1> DEFINE G == \A u \in Task : Exist(u) => status'[u] # "absent"
<1>a. Rows /\ Jobs
  BY DEF Typed
<1> USE BecomesKeeps, Alive, Statuses DEF row, Exist
<1>1. ASSUME NEW t \in Task, TurnWorks(t) PROVE G
  <2>1. CASE Plan(t)
    BY <1>a, <2>1 DEF Plan
  <2>2. CASE Place(t)
    BY <1>a, <2>2 DEF Place
  <2>3. CASE PlanSupersedes(t)
    <3>1. Woken(status[t]) \in Status /\ Woken(status[t]) # "absent"
      BY <1>a, <2>3, RowsWritten, JobExists, Actors, Alive DEF PlanSupersedes, Exist
    <3> QED
      BY <3>1, <1>a, <2>3 DEF PlanSupersedes, Supersede
  <2>4. CASE PicksUp(t)
    BY <1>a, <2>4 DEF PicksUp
  <2>6. CASE Modify(t)
    BY <1>a, <2>6 DEF Modify
  <2>7. CASE AskUser(t)
    BY <1>a, <2>7 DEF AskUser
  <2>8. CASE Finish(t)
    BY <1>a, <2>8 DEF Finish
  <2>11. CASE GiveWay(t)
    <3>1. Woken(status[t]) \in Status /\ Woken(status[t]) # "absent"
      BY <1>a, <2>11, RowsWritten, JobExists, Actors, Alive DEF GiveWay, Exist
    <3> QED
      BY <3>1, <1>a, <2>11 DEF GiveWay, Supersede
  <2>12. CASE NewRequest(t)
    BY <1>a, <2>12 DEF NewRequest
  <2>13. CASE Shelve(t)
    BY <1>a, <2>13 DEF Shelve
  <2>14. CASE Stirs(t)
    BY <1>a, <2>14 DEF Stirs
  <2>15. CASE Reopens(t)
    BY <1>a, <2>15 DEF Reopens
  <2> QED
    BY <1>1, <2>1, <2>2, <2>3, <2>4, <2>6, <2>7, <2>8, <2>11, <2>12, <2>13, <2>14, <2>15
    DEF TurnWorks
<1>2. ASSUME NEW t \in Task, BootWorks(t) PROVE G
  <2>1. CASE GiveUp(t)
    BY <1>a, <2>1 DEF GiveUp
  <2>2. CASE Recover(t)
    BY <1>a, <2>2 DEF Recover
  <2>3. CASE Adopt(t)
    BY <1>a, <2>3 DEF Adopt
  <2> QED
    BY <1>2, <2>1, <2>2, <2>3 DEF BootWorks
<1>3. ASSUME NEW a \in Actor, NEW t \in Task, Anyone(a, t) PROVE G
  <2>1. CASE Activate(a, t)
    <3>1. Woken(status[t]) \in Status /\ Woken(status[t]) # "absent"
      BY <1>a, <2>1, RowsWritten, JobExists, Actors, Alive DEF Activate, Exist
    <3> QED
      BY <3>1, <1>a, <2>1 DEF Activate
  <2>2. CASE Close(a, t)
    <3>1. job[a].to \in Over
      BY <1>a DEF Jobs, JobType
    <3> QED
      BY <3>1, <1>a, <2>2 DEF Close
  <2>3. CASE Archive(a, t)
    BY <1>a, <2>3 DEF Archive
  <2>4. CASE Stamp(a, t)
    BY <1>a, <2>4 DEF Stamp
  <2>5. CASE Revoke(a, t)
    BY <1>a, <2>5 DEF Revoke
  <2>6. CASE Record(a, t)
    BY <1>a, <2>6 DEF Record
  <2>7. CASE Abandon(a, t)
    BY <1>a, <2>7 DEF Abandon
  <2>8. CASE WriteFails(a, t)
    BY <1>a, <2>8 DEF WriteFails
  <2>9. CASE Revive(a, t)
    BY <1>a, <2>9 DEF Revive
  <2>10. CASE Link(a, t)
    BY <1>a, <2>10 DEF Link
  <2>11. CASE Pause(a, t)
    BY <1>a, <2>11 DEF Pause
  <2>12. CASE Answer(a, t)
    BY <1>a, <2>12 DEF Answer
  <2>13. CASE Resume(a, t)
    BY <1>a, <2>13 DEF Resume
  <2>14. CASE AskRevoked(a, t)
    BY <1>a, <2>14 DEF AskRevoked
  <2>15. CASE ResumeCommit(a, t)
    BY <1>a, <2>15 DEF ResumeCommit
  <2> QED
    BY <1>3, <2>1, <2>2, <2>3, <2>4, <2>5, <2>6, <2>7, <2>8, <2>9, <2>10, <2>11,
       <2>12, <2>13, <2>14, <2>15 DEF Anyone
<1>4. CASE Crash
  BY <1>a, <1>4 DEF Crash
<1>5. CASE Detect
  BY <1>a, <1>5 DEF Detect
<1>7. ASSUME NEW t \in Task, Judges(t) PROVE G
  BY <1>a, <1>7 DEF Judges
<1>8. ASSUME NEW a \in Actor, NEW t \in Task, Reviews(a, t) PROVE G
  <2>1. CASE Advance(a, t)
    BY <1>a, <2>1 DEF Advance
  <2>2. CASE Refused(a, t)
    BY <1>a, <2>2 DEF Refused
  <2>3. CASE Review(a, t)
    BY <1>a, <2>3 DEF Review, Passes, Rejects
  <2>4. CASE Complete(a, t)
    BY <1>a, <2>4 DEF Complete
  <2> QED
    BY <1>8, <2>1, <2>2, <2>3, <2>4 DEF Reviews
<1>6. G
  BY <1>1, <1>2, <1>3, <1>4, <1>5, <1>7, <1>8 DEF Step
<1> QED
  BY <1>6

\* Current, active and resumable tasks exist.
LEMMA Working ==
  ASSUME Existing, NEW t \in Task, t \in Current \cup Active \cup Resumable
  PROVE  Exist(t) /\ t # NoTask
  BY TaskAssumption
  DEF Existing, Exist, Current, OpenTasks, Active, Resumable, Live, Open

\* Every action moves at most one job, to a stage, a task and an outcome.
LEMMA JobsStep == ASSUME Typed, Existing, Step PROVE Jobs' /\ RefsKeep
<1> DEFINE J == Jobs' /\ RefsKeep
<1>a. Rows /\ Jobs
  BY DEF Typed
<1>b. {"idle", "gone", "place", "supersede", "activate", "link", "modify", "advance",
        "gate", "complete", "review", "close", "archive", "stamp", "record", "abandon",
        "give way", "ask", "resume", "shelve", "detect", "recover", "adopt"} = Stage
      /\ {"done", "failed", "abandoned"} = Over
  BY DEF Stage, Over
<1> USE <1>b, Actors
<1>1. ASSUME NEW t \in Task, TurnWorks(t) PROVE J
  <2>1. CASE Plan(t)
    <3>1. status'[t] # "absent"
      BY <1>a, <2>1, BecomesKeeps, Statuses, Alive DEF Plan, row, Exist, Existing
    <3> QED
      BY <1>a, <2>1, <3>1, Begun DEF Plan
  <2>2. CASE Place(t)
    <3>1. CASE \E c \in Active : c # t
      <4>1. PICK c \in Active : job' = [job EXCEPT ![Turn] = [@ EXCEPT !.at = "supersede", !.by = c]]
        BY <2>2, <3>1 DEF Place
      <4>2. c \in Task /\ status'[c] # "absent"
        BY <4>1, <2>2, Working DEF Active, Place, row, Exist
      <4>3. job' \in [Actor -> JobType] /\ RefsKeep
        BY <1>a, <4>1, <4>2, Named
      <4> QED
        BY <1>a, <2>2, <4>3, Counted DEF Place, Jobs
    <3>2. CASE ~ \E c \in Active : c # t
      BY <1>a, <2>2, <3>2, Counted, Gone DEF Place, Jobs
    <3> QED
      BY <3>1, <3>2
  <2>3. CASE PlanSupersedes(t)
    BY <1>a, <2>3, Counted, Gone, Ended, Untouched DEF PlanSupersedes, Supersede, Jobs
  <2>4. CASE PicksUp(t)
    <3>1. status'[t] # "absent"
      BY <1>a, <2>4, Working DEF PicksUp, row, Exist, Existing
    <3> QED
      BY <1>a, <2>4, <3>1, Begun DEF PicksUp
  <2>6. CASE Modify(t)
    BY <1>a, <2>6, Counted, Gone, Ended, Untouched DEF Modify, Jobs
  <2>7. CASE AskUser(t)
    BY <1>a, <2>7, Counted, Gone, Ended, Untouched DEF AskUser, Jobs
  <2>8. CASE Finish(t)
    <3>1. status'[t] # "absent"
      BY <1>a, <2>8, Working DEF Finish, row, Exist, Existing
    <3>2. PICK s \in Over, stage \in Stage : Begins(Turn, stage, t, NoTask, s)
      BY <2>8 DEF Finish
    <3> HIDE <1>b
    <3> QED
      BY <1>a, <3>1, <3>2, Begun
  <2>11. CASE GiveWay(t)
    BY <1>a, <2>11, Counted, Gone, Ended, Untouched DEF GiveWay, Supersede, Jobs
  <2>12. CASE NewRequest(t)
    <3>1. status'[t] # "absent"
      BY <1>a, <2>12, Working DEF NewRequest, row, Exist, Existing
    <3> QED
      BY <1>a, <2>12, <3>1, Begun DEF NewRequest
  <2>13. CASE Shelve(t)
    BY <1>a, <2>13, Counted, Gone, Ended, Untouched DEF Shelve, Jobs
  <2>14. CASE Stirs(t)
    BY <1>a, <2>14, Counted, Gone, Ended, Untouched DEF Stirs, Jobs
  <2>15. CASE Reopens(t)
    BY <1>a, <2>15, Counted, Gone, Ended, Untouched DEF Reopens, Jobs
  <2> QED
    BY <1>1, <2>1, <2>2, <2>3, <2>4, <2>6, <2>7, <2>8, <2>11, <2>12, <2>13, <2>14, <2>15
    DEF TurnWorks
<1>2. ASSUME NEW t \in Task, BootWorks(t) PROVE J
  <2>1. CASE GiveUp(t)
    <3>1. status'[t] # "absent"
      BY <1>a, <2>1 DEF GiveUp, row, Exist, Existing
    <3> QED
      BY <1>a, <2>1, <3>1, Begun DEF GiveUp
  <2>2. CASE Recover(t)
    <3>1. CASE tombstone[t] = "live"
      BY <1>a, <2>2, <3>1, Counted, Untouched DEF Recover, Jobs
    <3>2. CASE tombstone[t] # "live"
      <4>1. status'[t] # "absent"
        BY <2>2 DEF Recover, Existing, Exist
      <4>2. Begins(Boot, "adopt", t, NoTask, "done") /\ "adopt" \in Stage /\ "done" \in Over
        BY <2>2, <3>2 DEF Recover
      <4> QED
        BY <1>a, <4>1, <4>2, Begun
    <3> QED
      BY <3>1, <3>2
  <2>3. CASE Adopt(t)
    BY <1>a, <2>3, Counted, Gone, Ended, Untouched DEF Adopt, Jobs
  <2> QED
    BY <1>2, <2>1, <2>2, <2>3 DEF BootWorks
<1>3. ASSUME NEW a \in Actor, NEW t \in Task, Anyone(a, t) PROVE J
  <2>1. CASE Activate(a, t)
    BY <1>a, <2>1, Counted, Gone, Ended, Untouched DEF Activate, Jobs
  <2>2. CASE Close(a, t)
    BY <1>a, <2>2, Counted, Gone, Ended, Untouched DEF Close, Jobs
  <2>3. CASE Archive(a, t)
    BY <1>a, <2>3, Counted, Gone, Ended, Untouched DEF Archive, Jobs
  <2>4. CASE Stamp(a, t)
    BY <1>a, <2>4, Counted, Gone, Ended, Untouched DEF Stamp, Jobs
  <2>5. CASE Revoke(a, t)
    <3>1. status'[t] # "absent"
      BY <1>a, <2>5 DEF Revoke, row, Exist, Existing
    <3> QED
      BY <1>a, <2>5, <3>1, Begun DEF Revoke
  <2>6. CASE Record(a, t)
    BY <1>a, <2>6, Counted, Gone, Ended, Untouched DEF Record, Jobs
  <2>7. CASE Abandon(a, t)
    BY <1>a, <2>7, Counted, Gone, Ended, Untouched DEF Abandon, Jobs
  <2>8. CASE WriteFails(a, t)
    <3>1. calls' \in 0..MaxCalls /\ faults' \in 0..MaxFaults
      BY <1>a, <2>8, Faulted DEF WriteFails
    <3> QED
      BY <1>a, <2>8, <3>1, Ended DEF WriteFails, Jobs
  <2>9. CASE Revive(a, t)
    <3>1. PICK u \in Task : tombstone[u] # "none" /\ Begins(a, "activate", t, u, "done")
      BY <2>9 DEF Revive
    <3>2. status'[t] # "absent" /\ status'[u] # "absent"
      BY <1>a, <2>9, <3>1, BecomesKeeps, Statuses, Alive DEF Revive, Existing
    <3>3. "activate" \in Stage /\ "done" \in Over
      OBVIOUS
    <3> HIDE <1>b
    <3> QED
      BY <1>a, <3>1, <3>2, <3>3, Begun
  <2>10. CASE Link(a, t)
    BY <1>a, <2>10, Counted, Gone, Ended, Untouched DEF Link, Jobs
  <2>11. CASE Pause(a, t)
    BY <1>a, <2>11, Counted, Gone, Ended, Untouched DEF Pause, Jobs
  <2>12. CASE Answer(a, t)
    BY <1>a, <2>12, Counted, Gone, Ended, Untouched DEF Answer, Jobs
  <2>13. CASE Resume(a, t)
    <3>1. status'[t] # "absent"
      BY <1>a, <2>13, Working DEF Resume, row, Exist
    <3>2. CASE Begins(a, "ask", t, NoTask, "done")
      BY <1>a, <3>1, <3>2, Begun
    <3>3. CASE \E c \in Active : Begins(a, "give way", t, c, "done")
      <4>1. PICK c \in Active : Begins(a, "give way", t, c, "done")
        BY <3>3
      <4>2. c \in Task /\ status'[c] # "absent"
        BY <4>1, <2>13, Working DEF Active, Resume, row, Exist
      <4> QED
        BY <1>a, <3>1, <4>1, <4>2, Begun
    <3> QED
      BY <2>13, <3>2, <3>3 DEF Resume
  <2>14. CASE AskRevoked(a, t)
    BY <1>a, <2>14, Counted, Gone, Ended, Untouched DEF AskRevoked, Jobs
  <2>15. CASE ResumeCommit(a, t)
    BY <1>a, <2>15, Counted, Gone, Ended, Untouched DEF ResumeCommit, Jobs
  <2> QED
    BY <1>3, <2>1, <2>2, <2>3, <2>4, <2>5, <2>6, <2>7, <2>8, <2>9, <2>10, <2>11,
       <2>12, <2>13, <2>14, <2>15 DEF Anyone
<1>4. CASE Crash
  <2>1. calls' \in 0..MaxCalls /\ faults' \in 0..MaxFaults
    BY <1>a, <1>4, Faulted DEF Crash
  <2>2. job' \in [Actor -> JobType] /\ \A b \in Actor : job'[b].on = NoTask /\ job'[b].by = NoTask
    BY <1>b, <1>4 DEF Crash, JobType, Idle
  <2> QED
    BY <2>1, <2>2 DEF Jobs, RefsKeep
<1>5. CASE Detect
  BY <1>a, <1>5, Counted, Ended DEF Detect, Jobs
<1>7. ASSUME NEW t \in Task, Judges(t) PROVE J
  <2>1. status'[t] # "absent"
    BY <1>7 DEF Judges, row
  <2> QED
    BY <1>a, <1>7, <2>1, Begun DEF Judges
<1>8. ASSUME NEW a \in Actor, NEW t \in Task, Reviews(a, t) PROVE J
  <2>1. CASE Advance(a, t)
    BY <1>a, <2>1, Counted, Gone, Ended, Untouched DEF Advance, Jobs
  <2>2. CASE Refused(a, t)
    BY <1>a, <2>2, Counted, Gone, Ended, Untouched DEF Refused, Jobs
  <2>3. CASE Review(a, t)
    BY <1>a, <2>3, Counted, Gone, Ended, Untouched DEF Review, Passes, Rejects, Jobs
  <2>4. CASE Complete(a, t)
    BY <1>a, <2>4, Counted, Gone, Ended, Untouched DEF Complete, Jobs
  <2> QED
    BY <1>8, <2>1, <2>2, <2>3, <2>4 DEF Reviews
<1>6. J
  BY <1>1, <1>2, <1>3, <1>4, <1>5, <1>7, <1>8 DEF Step
<1> QED
  BY <1>6

\* Jobs, the primary flag and the tombstones go on naming what exists.
LEMMA ExistingStep == ASSUME Typed, Existing, Step PROVE Existing'
<1> DEFINE R == /\ primary' # NoTask => Exist(primary')
                /\ \A u \in Task : tombstone'[u] # "none" \/ replaced'[u] \/ found'[u] # "no"
                                  => Exist(u) \/ status'[u] # "absent"
<1>a. Rows /\ Jobs
  BY DEF Typed
<1>b. \A a \in Actor : job[a].by \in Task \cup {NoTask}
  BY <1>a DEF Jobs, JobType
<1> USE <1>a DEF Rows, Existing, row
<1>1. ASSUME NEW t \in Task, TurnWorks(t) PROVE R
  <2>1. ASSUME NEW u \in Task \cup {NoTask}, NEW next, Exist(t),
               u = NoTask \/ Exist(u), Supersede(t, u, next)
        PROVE  R
    <3>1. \A v \in Task : replaced'[v] # replaced[v] => v = u
      BY <2>1 DEF Supersede
    <3>2. primary' \in {primary, t} /\ tombstone' = tombstone /\ found' = found
      BY <2>1 DEF Supersede
    <3> QED
      BY <2>1, <3>1, <3>2, TaskAssumption
  <2>2. CASE PlanSupersedes(t)
    BY <1>b, <2>1, <2>2, Actors, JobExists DEF PlanSupersedes
  <2>3. CASE GiveWay(t)
    BY <1>b, <2>1, <2>3, Actors, JobExists DEF GiveWay
  <2>4. CASE Plan(t) \/ Place(t) \/ PicksUp(t) \/ Modify(t) \/ AskUser(t)
    BY <2>4 DEF Plan, Place, PicksUp, Modify, AskUser
  <2>5. CASE Finish(t) \/ NewRequest(t) \/ Stirs(t) \/ Reopens(t)
    BY <2>5 DEF Finish, NewRequest, Stirs, Reopens
  <2>6. CASE Shelve(t)
    BY <2>6 DEF Shelve, Unseat
  <2> QED
    BY <1>1, <2>2, <2>3, <2>4, <2>5, <2>6 DEF TurnWorks
<1>2. ASSUME NEW t \in Task, BootWorks(t) PROVE R
  BY <1>2, Actors, JobExists DEF BootWorks, GiveUp, Recover, Adopt
<1>3. ASSUME NEW a \in Actor, NEW t \in Task, Anyone(a, t) PROVE R
  <2>1. CASE Activate(a, t) \/ ResumeCommit(a, t)
    BY <2>1, JobExists DEF Activate, ResumeCommit
  <2>2. CASE Record(a, t)
    BY <2>2, JobExists DEF Record
  <2>3. CASE Link(a, t)
    <3>1. \A u \in Task : tombstone'[u] # tombstone[u] => u = job[a].by
      BY <2>3 DEF Link
    <3>2. job[a].by # NoTask => Exist(job[a].by)
      OBVIOUS
    <3>3. primary' = primary /\ replaced' = replaced /\ found' = found
      BY <2>3 DEF Link
    <3> QED
      BY <3>1, <3>2, <3>3, TaskAssumption
  <2>4. CASE Close(a, t) \/ Stamp(a, t) \/ Abandon(a, t)
    BY <2>4 DEF Close, Stamp, Abandon, Unseat
  <2>5. CASE Archive(a, t) \/ Revoke(a, t) \/ WriteFails(a, t) \/ Revive(a, t)
    BY <2>5 DEF Archive, Revoke, WriteFails, Revive
  <2>6. CASE Pause(a, t) \/ Answer(a, t) \/ Resume(a, t) \/ AskRevoked(a, t)
    BY <2>6 DEF Pause, Answer, Resume, AskRevoked
  <2> QED
    BY <1>3, <2>1, <2>2, <2>3, <2>4, <2>5, <2>6 DEF Anyone
<1>4. ASSUME Crash PROVE R
  <2>1. UNCHANGED <<primary, replaced, tombstone>> /\ \A u \in Task : found'[u] = "no"
    BY <1>4 DEF Crash
  <2> QED
    BY <2>1
<1>5. ASSUME Detect PROVE R
  <2>1. UNCHANGED <<primary, replaced, tombstone>>
    BY <1>5 DEF Detect
  <2>2. \A u \in Task : found'[u] # "no" => Exist(u)
    BY <1>5 DEF Detect, Exist
  <2> QED
    BY <2>1, <2>2
<1>i. ASSUME NEW t \in Task, Judges(t) PROVE R
  BY <1>i DEF Judges
<1>j. ASSUME NEW a \in Actor, NEW t \in Task, Reviews(a, t) PROVE R
  <2>1. CASE Complete(a, t)
    BY <2>1 DEF Complete, Unseat
  <2>2. CASE Advance(a, t) \/ Refused(a, t) \/ Review(a, t)
    BY <2>2 DEF Advance, Refused, Review
  <2> QED
    BY <1>j, <2>1, <2>2 DEF Reviews
<1> HIDE DEF R
<1>6. R
  BY <1>1, <1>2, <1>3, <1>4, <1>5, <1>i, <1>j DEF Step
<1> USE DEF R
<1>7. (\A u \in Task : Exist(u) => status'[u] # "absent") /\ RefsKeep /\ Rows' /\ Jobs'
  BY Grows, JobsStep, RowsStep DEF Exist
<1>8. primary' # NoTask => status'[primary'] # "absent"
  BY <1>6, <1>7
<1>9. \A b \in Actor : /\ job'[b].on # NoTask => status'[job'[b].on] # "absent"
                       /\ job'[b].by # NoTask => status'[job'[b].by] # "absent"
  BY <1>7 DEF RefsKeep, Jobs, JobType, Exist
<1> QED
  BY <1>6, <1>7, <1>8, <1>9 DEF Exist

-----------------------------------------------------------------------------
\* The typed states are closed under steps.
LEMMA TypedStep == Typed /\ Existing /\ [Next]_vars => (Typed /\ Existing)'
<1>1. CASE Next
  BY <1>1, RowsStep, JobsStep, ExistingStep DEF Typed, Next
<1>2. CASE UNCHANGED vars
  BY <1>2 DEF vars, Typed, Rows, Jobs, Existing, Exist
<1> QED
  BY <1>1, <1>2

\* So every reachable state is typed.
LEMMA AlwaysTyped == Spec => [](Typed /\ Existing)
  BY InitTyped, TypedStep, PTL DEF Spec

\* Types, and that jobs, tombstones and the primary flag are of tasks that were
\* created (store.py create), for any number of tasks and requests.
THEOREM TypeCorrect == Spec => []TypeOK
  BY AlwaysTyped, TypedTypeOK, PTL

-----------------------------------------------------------------------------
\* What the turn and the engine alone do, and what each has established when it gets
\* there, unless both have work on the task.
Worker == {Turn, Engine}
Reviewing == {"modify", "advance", "gate", "review", "complete"}
Closing(a) == job[a].at = "close" /\ job[a].to = "done"
Deciding(a) == job[a].at = "complete" \/ Closing(a)
Established(a, t) ==
    Works(a, t) => /\ Deciding(a) => steps[t] = "passed"
                   /\ job[a].at \in {"advance", "modify"} => status[t] # "done"
Reviewed ==
    /\ \A a \in Actor \ Worker : job[a].at \notin Reviewing /\ ~Closing(a)
    /\ \A a \in Worker, t \in Task \ overlapped : Established(a, t)
    /\ \A t \in Task : Overlap(t) => t \in overlapped

\* All that is needed to set a row to done.
Earned == DoneIsEarned /\ Reviewed

\* No actor but a moves.
Alone(a) == \A b \in Actor \ {a} : job'[b] = job[b]

\* Where an actor is after it begins a job, goes on or ends.
LEMMA JobMoves ==
  ASSUME Jobs, NEW a \in Actor
  PROVE  /\ \A stage : Goes(a, stage) =>
               job'[a].at = stage /\ job'[a].on = job[a].on /\ job'[a].to = job[a].to /\ Alone(a)
         /\ Ends(a) => job'[a].at \in {"idle", "gone"} /\ Alone(a)
         /\ \A stage, t, u, s : Begins(a, stage, t, u, s) =>
               job'[a].at = stage /\ job'[a].on = t /\ job'[a].to = s /\ Alone(a)
         /\ job' = job => Alone(a)
<1>1. \A stage : Goes(a, stage) =>
        job'[a].at = stage /\ job'[a].on = job[a].on /\ job'[a].to = job[a].to /\ Alone(a)
  BY DEF Jobs, JobType, Goes, Alone
<1>2. Ends(a) => job'[a].at \in {"idle", "gone"} /\ Alone(a)
  BY DEF Jobs, Ends, Idle, Alone
<1>3. \A stage, t, u, s : Begins(a, stage, t, u, s) =>
        job'[a].at = stage /\ job'[a].on = t /\ job'[a].to = s /\ Alone(a)
  BY DEF Jobs, Begins, Alone
<1> QED
  BY <1>1, <1>2, <1>3 DEF Alone

\* A status that becomes s, or that is left alone.
LEMMA StatusMoves ==
  ASSUME Rows, NEW t \in Task
  PROVE  /\ \A s : Becomes(t, s) => \A u \in Task : status'[u] = IF u = t THEN s ELSE status[u]
         /\ \A w : Has(t, w) => \A u \in Task : steps'[u] = IF u = t THEN w ELSE steps[u]
         /\ Woken(status[t]) = "done" => status[t] = "done"
  BY DEF Rows, Becomes, Has, Woken, Open

\* What a step of actor a may do to a task: what was passed stays passed and nothing
\* becomes done, or a is the only one at work on it and leaves it done as passed.
Calm(u) == /\ steps[u] = "passed" => steps'[u] = "passed"
           /\ status'[u] = "done" => status[u] = "done"
Fine(a, u) == /\ status'[u] = "done" => steps'[u] = "passed"
              /\ \A b \in Worker \ {a} : ~Works(b, u)

\* The job that a goes on with.
Off(a) == job'[a].at \notin Reviewing \cup {"close"}
OnTrack(a) ==
    \/ Off(a)
    \/ a \notin Worker /\ job'[a].at = "close" /\ job'[a].to # "done"
    \/ a \in Worker /\ \A u \in Task \ overlapped : Established(a, u)'

Moves(a) == /\ Alone(a)
            /\ \/ OnTrack(a) /\ \A u \in Task \ overlapped : Calm(u) \/ Fine(a, u)
               \/ job' = job /\ \A u \in Task \ overlapped : Calm(u)

\* Then what was established stays so.
LEMMA Keeps ==
  ASSUME Earned, NEW a \in Actor, Moves(a),
         overlapped' = overlapped \cup {t \in Task : Overlap(t)'}
  PROVE  Earned'
<1> Worker \subseteq Actor
  BY Actors DEF Worker
<1>1. ASSUME NEW b \in Actor \ Worker PROVE job'[b].at \notin Reviewing /\ ~(Closing(b)')
  <2>1. CASE job'[b] = job[b]
    BY <2>1 DEF Earned, Reviewed, Closing
  <2>2. CASE b = a /\ OnTrack(a)
    BY <2>2 DEF OnTrack, Off, Reviewing, Closing
  <2> QED
    BY <2>1, <2>2 DEF Moves, Alone
<1>2. ASSUME NEW u \in Task \ overlapped' PROVE status'[u] = "done" => steps'[u] = "passed"
  BY DEF Moves, Calm, Fine, Earned, DoneIsEarned
<1>3. ASSUME NEW u \in Task \ overlapped', NEW b \in Worker PROVE Established(b, u)'
  <2> u \in Task \ overlapped
    OBVIOUS
  <2>1. CASE job'[b] = job[b] /\ Calm(u)
    BY <2>1 DEF Earned, Reviewed, Established, Works, Deciding, Closing, Calm
  <2>2. CASE job'[b] = job[b] /\ ~Works(b, u)
    BY <2>2 DEF Established, Works
  <2>3. CASE b = a /\ OnTrack(a)
    BY <2>3 DEF OnTrack, Off, Established, Works, Reviewing
  <2> QED
    BY <2>1, <2>2, <2>3 DEF Moves, Alone, Fine
<1>4. \A u \in Task : Overlap(u)' => u \in overlapped'
  OBVIOUS
<1> QED
  BY <1>1, <1>2, <1>3, <1>4 DEF Earned, DoneIsEarned, Reviewed

\* Only one of the two has work on a task that was not overlapped.
LEMMA OnlyOne ==
  ASSUME Earned, NEW a \in Actor, NEW t \in Task \ overlapped, Works(a, t),
         job[a].at \in Reviewing \/ Closing(a)
  PROVE  a \in Worker /\ Established(a, t) /\ \A b \in Worker \ {a} : ~Works(b, t)
  BY Actors DEF Earned, Reviewed, Overlap, Worker

\* What every actor may do neither reviews nor marks a step, and only a close
\* that was decided on makes a task done.
LEMMA AnyoneKeeps ==
  ASSUME Typed, NEW a \in Actor, NEW t \in Task, Anyone(a, t)
  PROVE  /\ steps' = steps /\ Alone(a) /\ Off(a)
         /\ \A u \in Task : status'[u] = "done" /\ status[u] # "done" =>
                Closing(a) /\ u = job[a].on
<1> DEFINE K == /\ steps' = steps /\ Alone(a) /\ Off(a)
                /\ \A u \in Task : status'[u] = "done" /\ status[u] # "done" =>
                      Closing(a) /\ u = job[a].on
<1>a. Rows /\ Jobs
  BY DEF Typed
<1>b. ASSUME UNCHANGED <<steps, status>>,
             \/ Ends(a)
             \/ \E stage \in {"stamp", "abandon", "archive", "resume"} : Goes(a, stage)
             \/ \E u, s : Begins(a, "record", t, u, s) \/ Begins(a, "ask", t, u, s)
                          \/ Begins(a, "give way", t, u, s)
      PROVE  K
  <2>1. CASE Ends(a)
    BY <1>a, <1>b, <2>1, JobMoves DEF Reviewing, Off
  <2>2. CASE \E stage \in {"stamp", "abandon", "archive", "resume"} : Goes(a, stage)
    BY <1>a, <1>b, <2>2, JobMoves DEF Reviewing, Off
  <2>3. ASSUME NEW u, NEW s, NEW stage \in {"record", "ask", "give way"},
               Begins(a, stage, t, u, s)
        PROVE  K
    BY <1>a, <1>b, <2>3, JobMoves DEF Reviewing, Off
  <2> QED
    BY <1>b, <2>1, <2>2, <2>3
<1>c. ASSUME NEW s, s # "done", Becomes(t, s), steps' = steps,
             \/ Ends(a) \/ Goes(a, "link") \/ Goes(a, "archive")
             \/ \E u, r : Begins(a, "activate", t, u, r)
      PROVE  K
  BY <1>a, <1>c, JobMoves, StatusMoves DEF Reviewing, Off
<1>1. CASE Activate(a, t)
  <2>1. Becomes(t, Woken(status[t])) /\ steps' = steps /\ (Ends(a) \/ Goes(a, "link"))
    BY <1>1 DEF Activate
  <2> QED
    BY <1>a, <2>1, JobMoves, StatusMoves DEF Reviewing, Off
<1>2. CASE Close(a, t)
  <2>1. /\ Becomes(t, job[a].to) /\ steps' = steps /\ Goes(a, "archive")
        /\ job[a].at = "close" /\ job[a].on = t
    BY <1>2 DEF Close, At
  <2> QED
    BY <1>a, <2>1, JobMoves, StatusMoves DEF Reviewing, Off, Closing
<1>3. CASE Archive(a, t) \/ Stamp(a, t) \/ Record(a, t) \/ Link(a, t) \/ AskRevoked(a, t)
  BY <1>b, <1>3 DEF Archive, Stamp, Record, Link, AskRevoked, row
<1>4. CASE Revoke(a, t) \/ WriteFails(a, t) \/ Resume(a, t)
  BY <1>b, <1>4 DEF Revoke, WriteFails, Resume, row
<1>5. CASE Abandon(a, t) \/ Revive(a, t)
  BY <1>c, <1>5 DEF Abandon, Revive
<1>6. CASE Pause(a, t) \/ Answer(a, t)
  BY <1>c, <1>6 DEF Pause, Answer
<1>7. CASE ResumeCommit(a, t)
  BY <1>b, <1>c, <1>7 DEF ResumeCommit
<1> QED
  BY <1>1, <1>2, <1>3, <1>4, <1>5, <1>6, <1>7 DEF Anyone

\* The turn works on a task that is not done.
LEMMA CurrentIsOpen ==
  ASSUME NEW t \in Current \cup Active PROVE t \in Task /\ status[t] # "done"
  BY DEF Current, OpenTasks, Active, Live, Open

\* Nothing happens to any task.
LEMMA AllCalm == status' = status /\ steps' = steps => \A u \in Task : Calm(u)
  BY DEF Calm

\* What the turn does keeps what was established.
LEMMA TurnMoves ==
  ASSUME Typed, Existing, Earned, NEW t \in Task, TurnWorks(t) PROVE Moves(Turn)
<1>a. Rows /\ Jobs /\ Turn \in Worker
  BY DEF Typed, Worker
<1>b. /\ \A stage : Goes(Turn, stage) => job'[Turn].at = stage /\ Alone(Turn)
      /\ Ends(Turn) => job'[Turn].at \in {"idle", "gone"} /\ Alone(Turn)
      /\ \A stage, u, v, s : Begins(Turn, stage, u, v, s) =>
            job'[Turn].at = stage /\ job'[Turn].on = u /\ job'[Turn].to = s /\ Alone(Turn)
      /\ job' = job => Alone(Turn)
  BY <1>a, Actors, JobMoves
<1>c. job'[Turn].at \in {"idle", "gone", "place", "supersede", "activate", "ask", "give way",
                         "shelve"} => OnTrack(Turn)
  BY DEF OnTrack, Off, Reviewing
<1>d. \/ job'[Turn].at = "review" \/ (job'[Turn].at = "close" /\ job'[Turn].to # "done")
      \/ /\ job'[Turn].at \in {"advance", "modify"}
         /\ \A u \in Task : job'[Turn].on = u => status'[u] # "done"
      => OnTrack(Turn)
  BY <1>a DEF OnTrack, Established, Works, Deciding, Closing
<1>1. CASE Plan(t)
  <2>1. \A b \in Worker : ~Works(b, t)
    BY <1>1, Actors, TaskAssumption DEF Plan, Works, Worker, Existing, Exist
  <2>2. \A u \in Task : Calm(u) \/ Fine(Turn, u)
    BY <1>a, <1>1, <2>1, StatusMoves DEF Plan, Calm, Fine
  <2> QED
    BY <1>b, <1>c, <1>1, <2>2 DEF Plan, Moves
<1>2. CASE Place(t)
  <2>1. Alone(Turn) /\ job'[Turn].at \in {"supersede", "activate"}
    BY <1>a, <1>2, Actors DEF Place, Goes, Alone, Jobs, JobType
  <2> QED
    BY <1>2, <1>c, <2>1, AllCalm DEF Place, row, Moves
<1>3. CASE PlanSupersedes(t) \/ GiveWay(t)
  <2>1. ASSUME NEW u, NEW next \in {"activate", "ask"}, Supersede(t, u, next)
        PROVE  Moves(Turn)
    <3>1. \A v \in Task : Calm(v)
      BY <1>a, <2>1, StatusMoves DEF Supersede, Calm
    <3> QED
      BY <1>b, <1>c, <2>1, <3>1 DEF Supersede, Moves
  <2> QED
    BY <1>3, <2>1 DEF PlanSupersedes, GiveWay
<1>4. CASE PicksUp(t)
  <2>1. status' = status /\ steps' = steps /\ status[t] # "done"
    BY <1>4, CurrentIsOpen DEF PicksUp, row
  <2>2. Alone(Turn) /\ job'[Turn].at \in {"advance", "modify"} /\ job'[Turn].on = t
    BY <1>b, <1>4 DEF PicksUp
  <2> QED
    BY <1>d, <2>1, <2>2, AllCalm DEF Moves
<1>5. CASE Modify(t)
  <2>1. ASSUME t \notin overlapped PROVE Fine(Turn, t)
    <3>1. Works(Turn, t) /\ job[Turn].at = "modify"
      BY <1>5 DEF Modify, At, Works
    <3>2. status[t] # "done" /\ \A b \in Worker \ {Turn} : ~Works(b, t)
      BY <2>1, <3>1, OnlyOne, Actors DEF Reviewing, Established
    <3> QED
      BY <1>5, <3>2 DEF Modify, Fine
  <2>2. \A u \in Task \ {t} : Calm(u)
    BY <1>a, <1>5, StatusMoves DEF Modify, Calm
  <2> QED
    BY <1>b, <1>c, <1>5, <2>1, <2>2 DEF Modify, Moves
<1>6. CASE AskUser(t)
  <2>1. \A u \in Task : Calm(u)
    BY <1>a, <1>6, StatusMoves DEF AskUser, Calm
  <2> QED
    BY <1>b, <1>6, <2>1 DEF AskUser, Moves
<1>7. CASE Finish(t)
  <2>1. /\ Alone(Turn)
        /\ job'[Turn].at = "review" \/ (job'[Turn].at = "close" /\ job'[Turn].to # "done")
    BY <1>b, <1>7 DEF Finish
  <2> QED
    BY <1>7, <1>d, <2>1, AllCalm DEF Finish, row, Moves
<1>8. CASE NewRequest(t)
  BY <1>b, <1>c, <1>8, AllCalm DEF NewRequest, row, Moves
<1>9. CASE Shelve(t)
  <2>1. \A u \in Task : Calm(u)
    BY <1>a, <1>9, StatusMoves DEF Shelve, Calm
  <2> QED
    BY <1>b, <1>c, <1>9, <2>1 DEF Shelve, Moves
<1>10. CASE Stirs(t) \/ Reopens(t)
  <2>1. \A u \in Task : Calm(u)
    BY <1>a, <1>10, StatusMoves DEF Stirs, Reopens, Calm, row
  <2> QED
    BY <1>b, <1>10, <2>1 DEF Stirs, Reopens, Moves
<1> QED
  BY <1>1, <1>2, <1>3, <1>4, <1>5, <1>6, <1>7, <1>8, <1>9, <1>10 DEF TurnWorks

\* The marking of a step, the review and what advance does with its verdict.
LEMMA ReviewMoves ==
  ASSUME Typed, Earned, NEW a \in Actor, NEW t \in Task, Reviews(a, t) PROVE Moves(a)
<1>a. Rows /\ Jobs
  BY DEF Typed
<1>b. ASSUME NEW stage \in {"advance", "complete"}, At(a, stage, t), t \notin overlapped
      PROVE  a \in Worker /\ Established(a, t) /\ \A b \in Worker \ {a} : ~Works(b, t)
  BY <1>b, OnlyOne DEF At, Works, Reviewing
<1>1. CASE Advance(a, t)
  <2>1. t \notin overlapped => Fine(a, t)
    <3>1. t \notin overlapped => status[t] # "done" /\ \A b \in Worker \ {a} : ~Works(b, t)
      BY <1>b, <1>1 DEF Advance, At, Works, Established
    <3>2. status'[t] = "done" => status[t] = "done"
      BY <1>a, <1>1, StatusMoves DEF Advance
    <3> QED
      BY <3>1, <3>2 DEF Fine
  <2>2. \A u \in Task \ {t} : Calm(u)
    BY <1>a, <1>1, StatusMoves DEF Advance, Calm
  <2>3. Alone(a) /\ job'[a].at \in {"idle", "gone", "gate"}
    BY <1>a, <1>1, JobMoves DEF Advance
  <2>4. a \in Worker
    BY <1>1 DEF Advance, At, Earned, Reviewed, Reviewing
  <2>5. OnTrack(a)
    BY <2>3, <2>4 DEF OnTrack, Established, Deciding, Closing
  <2> QED
    BY <2>1, <2>2, <2>3, <2>5 DEF Moves
<1>2. CASE Refused(a, t)
  BY <1>a, <1>2, JobMoves, AllCalm DEF Refused, row, Moves, OnTrack, Off, Reviewing
<1>3. CASE Review(a, t)
  <2>1. ASSUME NEW next \in {"complete", "close"}, job[a].on = t, Passes(a, t, next),
               job[a].at \in {"gate", "review"}
        PROVE  Moves(a)
    <3>1. /\ job'[a].at = next /\ job'[a].on = t /\ Alone(a)
          /\ status' = status /\ \A u \in Task : steps'[u] = IF u = t THEN "passed" ELSE steps[u]
      BY <1>a, <2>1, JobMoves, StatusMoves DEF Passes
    <3>2. \A u \in Task : Calm(u)
      BY <3>1 DEF Calm
    <3>3. a \in Worker
      BY <2>1 DEF Earned, Reviewed, Reviewing
    <3>4. \A u \in Task : Established(a, u)'
      BY <3>1 DEF Established, Works
    <3> QED
      BY <3>1, <3>2, <3>3, <3>4 DEF Moves, OnTrack
  <2>2. CASE Rejects(a, t)
    <3>1. \A u \in Task : Calm(u)
      BY <1>a, <2>2, StatusMoves DEF Rejects, Calm
    <3> QED
      BY <1>a, <2>2, <3>1, JobMoves DEF Rejects, Moves, OnTrack, Off, Reviewing
  <2> QED
    BY <1>3, <2>1, <2>2 DEF Review, At
<1>4. CASE Complete(a, t)
  <2>1. t \notin overlapped => Fine(a, t)
    BY <1>b, <1>4 DEF Complete, At, Works, Established, Deciding, Fine
  <2>2. \A u \in Task \ {t} : Calm(u)
    BY <1>a, <1>4, StatusMoves DEF Complete, Calm
  <2> QED
    BY <1>a, <1>4, <2>1, <2>2, JobMoves DEF Complete, Moves, OnTrack, Off, Reviewing
<1> QED
  BY <1>1, <1>2, <1>3, <1>4 DEF Reviews

\* A close makes done what its actor alone has work on, and was passed.
LEMMA AnyoneMoves ==
  ASSUME Typed, Earned, NEW a \in Actor, NEW t \in Task, Anyone(a, t) PROVE Moves(a)
<1>1. /\ steps' = steps /\ Alone(a) /\ Off(a)
      /\ \A u \in Task : status'[u] = "done" /\ status[u] # "done" =>
            Closing(a) /\ u = job[a].on
  BY AnyoneKeeps
<1>2. ASSUME NEW u \in Task \ overlapped, ~Calm(u) PROVE Fine(a, u)
  <2>1. Closing(a) /\ Works(a, u)
    BY <1>1, <1>2 DEF Calm, Closing, Works
  <2>2. Established(a, u) /\ \A b \in Worker \ {a} : ~Works(b, u)
    BY <2>1, OnlyOne
  <2> QED
    BY <1>1, <2>1, <2>2 DEF Fine, Established, Deciding
<1> QED
  BY <1>1, <1>2 DEF Moves, OnTrack

\* The engine takes up no task that is done; recovery closes none as done.
LEMMA OthersMove ==
  ASSUME Typed, Earned, NEW t \in Task
  PROVE  /\ Judges(t) => Moves(Engine)
         /\ BootWorks(t) => Moves(Boot)
<1>a. Rows /\ Jobs
  BY DEF Typed
<1>1. ASSUME Judges(t) PROVE Moves(Engine)
  <2>1. status' = status /\ steps' = steps /\ steps[t] = "some"
    BY <1>1 DEF Judges, row
  <2>2. Alone(Engine) /\ job'[Engine].at = "advance" /\ job'[Engine].on = t
    BY <1>a, <1>1, Actors, JobMoves DEF Judges
  <2>3. t \notin overlapped => status'[t] # "done"
    BY <2>1 DEF Earned, DoneIsEarned
  <2>4. \A u \in Task \ overlapped : Established(Engine, u)'
    BY <2>2, <2>3 DEF Established, Works, Deciding, Closing
  <2> QED
    BY <2>1, <2>2, <2>4, AllCalm DEF Moves, OnTrack, Worker
<1>2. ASSUME BootWorks(t) PROVE Moves(Boot)
  <2>1. status' = status /\ steps' = steps
    BY <1>2 DEF BootWorks, GiveUp, Recover, Adopt, row
  <2>2. Boot \notin Worker
    BY Actors DEF Worker
  <2>3. CASE GiveUp(t)
    <3>1. Alone(Boot) /\ job'[Boot].at = "close" /\ job'[Boot].to = "failed"
      <4>1. Begins(Boot, "close", t, NoTask, "failed")
        BY <2>3 DEF GiveUp
      <4> QED
        BY <1>a, <4>1, Actors, JobMoves
    <3> QED
      BY <2>1, <2>2, <3>1, AllCalm DEF Moves, OnTrack
  <2>4. CASE Recover(t)
    <3>1. job' = job \/ Begins(Boot, "adopt", t, NoTask, "done")
      BY <2>4 DEF Recover
    <3> QED
      BY <1>a, <2>1, <3>1, Actors, JobMoves, AllCalm DEF Moves, OnTrack, Off, Reviewing
  <2>5. CASE Adopt(t)
    BY <1>a, <2>1, <2>5, Actors, JobMoves, AllCalm DEF Adopt, Moves, OnTrack, Off, Reviewing
  <2> QED
    BY <1>2, <2>3, <2>4, <2>5 DEF BootWorks
<1> QED
  BY <1>1, <1>2

\* Every step keeps it.
LEMMA EarnedStep == ASSUME Typed, Existing, Earned, Next PROVE Earned'
<1>a. Rows /\ Jobs
  BY DEF Typed
<1>o. overlapped' = overlapped \cup {t \in Task : Overlap(t)'}
  BY DEF Next
<1>1. ASSUME NEW a \in Actor, Moves(a) PROVE Earned'
  BY <1>o, <1>1, Keeps
<1>2. ASSUME NEW t \in Task, TurnWorks(t) \/ Judges(t) \/ BootWorks(t) PROVE Earned'
  BY <1>1, <1>2, TurnMoves, OthersMove, Actors
<1>3. ASSUME NEW a \in Actor, NEW t \in Task, Reviews(a, t) \/ Anyone(a, t) PROVE Earned'
  BY <1>1, <1>3, ReviewMoves, AnyoneMoves
<1>4. CASE Crash
  <2>1. status' = status /\ steps' = steps
    BY <1>4 DEF Crash, row
  <2>2. \A a \in Actor : job'[a].at \in {"detect", "gone", "idle"}
    BY <1>4 DEF Crash, Idle
  <2>3. \A a \in Actor : /\ \A u \in Task : ~(Works(a, u)')
                         /\ job'[a].at \notin Reviewing /\ ~(Closing(a)')
    BY <2>2 DEF Works, Reviewing, Closing
  <2>4. \A u \in Task \ overlapped' : status'[u] = "done" => steps'[u] = "passed"
    BY <1>o, <2>1 DEF Earned, DoneIsEarned
  <2>5. \A a \in Worker, u \in Task : Established(a, u)'
    BY <2>3, Actors DEF Worker, Established
  <2>6. \A u \in Task : ~(Overlap(u)')
    BY <2>3, Actors DEF Overlap
  <2>7. Reviewed'
    BY <2>3, <2>5, <2>6 DEF Reviewed
  <2> QED
    BY <2>4, <2>7 DEF Earned, DoneIsEarned
<1>5. CASE Detect
  <2>1. Moves(Boot)
    BY <1>a, <1>5, Actors, JobMoves, AllCalm DEF Detect, row, Moves, OnTrack, Off, Reviewing
  <2> QED
    BY <1>1, <2>1, Actors
<1> QED
  BY <1>2, <1>3, <1>4, <1>5 DEF Next, Step

\* Initially there is nothing to earn.
LEMMA InitEarned == Init => Earned
  BY Actors
  DEF Init, Earned, DoneIsEarned, Reviewed, Reviewing, Established, Works, Overlap, Closing, Idle, Worker

\* What was checked and reviewed still holds when the row is set to done, though
\* other jobs ran in between, if the engine and the turn were not both at it
\* (store.py finish and advance, runtime.py _maybe_autoadvance_step).
THEOREM DoneIsEarnedHolds == Spec => []DoneIsEarned
<1>1. Typed /\ Existing /\ Earned /\ [Next]_vars => Earned'
  <2>1. CASE UNCHANGED vars
    BY <2>1
    DEF vars, Earned, DoneIsEarned, Reviewed, Established, Works, Overlap, Deciding, Closing
  <2> QED
    BY <2>1, EarnedStep
<1>2. Earned => DoneIsEarned
  BY DEF Earned
<1> QED
  BY <1>1, <1>2, InitEarned, AlwaysTyped, PTL DEF Spec

-----------------------------------------------------------------------------
\* All that a step may do to a status that is over or paused.
MeansToRun(u) ==
    \E a \in Actor : /\ job[a].on = u
                     /\ job[a].at \in {"supersede", "give way", "activate", "resume"}
StatusStep(u) ==
    \/ status'[u] \in Over \cup {status[u]}
    \/ status[u] \notin Over \cup {"paused"}
    \/ status[u] = "paused" /\ status'[u] # "running"
    \/ (replaced[u] \/ status[u] = "paused") /\ MeansToRun(u)

\* An action that changes the status of one task, and none that is over or paused.
LEMMA OneStatus ==
  ASSUME Rows, NEW t \in Task, NEW s, Becomes(t, s), NEW u \in Task,
         \/ s \in Over \/ status[t] \notin Over \cup {"paused"}
         \/ status[t] = "paused" /\ s # "running"
         \/ (replaced[t] \/ status[t] = "paused") /\ MeansToRun(t)
         \/ s = status[t]
  PROVE  StatusStep(u)
  BY StatusMoves DEF StatusStep

\* Waking changes no status that is over, and a paused one for a job on it.
LEMMA WokenStep ==
  ASSUME Rows, NEW a \in Actor, NEW t \in Task, NEW u \in Task,
         NEW stage \in {"supersede", "give way", "activate"},
         At(a, stage, t), Becomes(t, Woken(status[t]))
  PROVE  StatusStep(u)
<1>1. Woken(status[t]) = status[t] \/ status[t] \notin Over
  BY DEF Woken, Open, Over
<1>2. status[t] = "paused" => MeansToRun(t)
  BY DEF At, MeansToRun
<1> QED
  BY <1>1, <1>2, OneStatus

\* What the turn does to a status.
LEMMA TurnSteps ==
  ASSUME Typed, NEW t \in Task, TurnWorks(t), NEW u \in Task PROVE StatusStep(u)
<1>a. Rows /\ Jobs
  BY DEF Typed
<1>b. ASSUME status' = status PROVE StatusStep(u)
  BY <1>b DEF StatusStep
<1>c. status[t] \notin Terminal => status[t] \notin Over
  BY DEF Terminal
<1>1. CASE Plan(t)
  BY <1>a, <1>1, OneStatus DEF Plan, Over
<1>2. ASSUME NEW v, NEW stage \in {"supersede", "give way"}, NEW next,
             At(Turn, stage, t), Supersede(t, v, next)
      PROVE  StatusStep(u)
  <2>1. Becomes(t, Woken(status[t])) \/ status' = status
    BY <1>2 DEF Supersede
  <2> QED
    BY <1>a, <1>b, <1>2, <2>1, WokenStep, Actors
<1>3. CASE PlanSupersedes(t) \/ GiveWay(t)
  BY <1>2, <1>3 DEF PlanSupersedes, GiveWay
<1>4. CASE AskUser(t)
  BY <1>a, <1>4, OneStatus DEF AskUser, Over
<1>5. CASE Shelve(t)
  BY <1>a, <1>b, <1>c, <1>5, OneStatus DEF Shelve
<1>6. CASE \/ Place(t) \/ PicksUp(t) \/ Modify(t) \/ Finish(t)
           \/ NewRequest(t) \/ Stirs(t) \/ Reopens(t)
  BY <1>b, <1>6 DEF Place, PicksUp, Modify, Finish, NewRequest, Stirs, Reopens, row
<1> QED
  BY <1>1, <1>3, <1>4, <1>5, <1>6 DEF TurnWorks

\* What marking a step and the review do to it.
LEMMA ReviewSteps ==
  ASSUME Typed, NEW a \in Actor, NEW t \in Task, Reviews(a, t), NEW u \in Task
  PROVE  StatusStep(u)
<1>a. Rows /\ Jobs
  BY DEF Typed
<1>b. ASSUME status' = status PROVE StatusStep(u)
  BY <1>b DEF StatusStep
<1>1. CASE Advance(a, t)
  BY <1>a, <1>b, <1>1, OneStatus DEF Advance, Over
<1>2. CASE Review(a, t)
  <2>1. status' = status \/ (status[t] \notin Over /\ Becomes(t, "needs_changes"))
    BY <1>2 DEF Review, Passes, Rejects, Terminal
  <2> QED
    BY <1>a, <1>b, <2>1, OneStatus
<1>3. CASE Complete(a, t)
  BY <1>a, <1>b, <1>3, OneStatus DEF Complete, Over
<1>4. CASE Refused(a, t)
  BY <1>b, <1>4 DEF Refused, row
<1> QED
  BY <1>1, <1>2, <1>3, <1>4 DEF Reviews

\* What every actor may do to a status.
LEMMA AnyoneSteps ==
  ASSUME Typed, NEW a \in Actor, NEW t \in Task, Anyone(a, t), NEW u \in Task
  PROVE  StatusStep(u)
<1>a. Rows /\ Jobs
  BY DEF Typed
<1>b. ASSUME status' = status PROVE StatusStep(u)
  BY <1>b DEF StatusStep
<1>1. CASE Activate(a, t)
  BY <1>a, <1>1, WokenStep DEF Activate
<1>2. CASE Close(a, t)
  <2>1. job[a].to \in Over /\ Becomes(t, job[a].to)
    BY <1>a, <1>2 DEF Close, Jobs, JobType
  <2> QED
    BY <1>a, <2>1, OneStatus
<1>3. CASE Abandon(a, t)
  BY <1>a, <1>3, OneStatus DEF Abandon, Over
<1>4. CASE Revive(a, t) \/ Answer(a, t)
  BY <1>a, <1>4, OneStatus DEF Revive, Answer, Over
<1>5. CASE Pause(a, t)
  <2>1. status[t] \notin Over /\ Becomes(t, "paused")
    BY <1>5 DEF Pause, Live, Open, Over
  <2> QED
    BY <1>a, <2>1, OneStatus
<1>6. CASE ResumeCommit(a, t)
  <2>1. MeansToRun(t)
    BY <1>6 DEF ResumeCommit, At, MeansToRun
  <2> QED
    BY <1>a, <1>b, <1>6, <2>1, OneStatus DEF ResumeCommit
<1>7. CASE \/ Archive(a, t) \/ Stamp(a, t) \/ Revoke(a, t) \/ Record(a, t)
           \/ WriteFails(a, t) \/ Link(a, t) \/ Resume(a, t) \/ AskRevoked(a, t)
  BY <1>b, <1>7
  DEF Archive, Stamp, Revoke, Record, WriteFails, Link, Resume, AskRevoked, row
<1> QED
  BY <1>1, <1>2, <1>3, <1>4, <1>5, <1>6, <1>7 DEF Anyone

\* What any step does to a status.
LEMMA StatusSteps == ASSUME Typed, [Next]_vars, NEW u \in Task PROVE StatusStep(u)
<1>1. ASSUME status' = status PROVE StatusStep(u)
  BY <1>1 DEF StatusStep
<1>2. ASSUME NEW t \in Task, BootWorks(t) \/ Judges(t) PROVE status' = status
  BY <1>2 DEF BootWorks, GiveUp, Recover, Adopt, Judges, row
<1>3. Crash \/ Detect \/ UNCHANGED vars => status' = status
  BY DEF Crash, Detect, vars, row
<1> QED
  BY <1>1, <1>2, <1>3, TurnSteps, ReviewSteps, AnyoneSteps DEF Next, Step

\* No job that read the row before the task ended brings it back: not a late
\* rejection, a pause, a resume, an adoption (store.py, recovery.py).
THEOREM OverIsOverHolds == Spec => OverIsOver
<1>1. Typed /\ [Next]_vars => [\A t \in Task : status[t] \in Over /\ ~replaced[t]
                                              => status'[t] \in Over]_vars
  BY StatusSteps DEF StatusStep, Over
<1> QED
  BY <1>1, AlwaysTyped, PTL DEF Spec, OverIsOver

\* Marking a step or answering a question does not unpause (store.py advance,
\* answer_task_question).
THEOREM OnlyResumeWakesHolds == Spec => OnlyResumeWakes
<1>1. Typed /\ [Next]_vars => [\A t \in Task : status[t] = "paused" /\ status'[t] = "running" =>
          \E a \in Actor : job[a].on = t /\
             job[a].at \in {"supersede", "give way", "activate", "resume"}]_vars
  BY StatusSteps DEF StatusStep, MeansToRun, Over
<1> QED
  BY <1>1, AlwaysTyped, PTL DEF Spec, OnlyResumeWakes
=============================================================================
