------------------------------ MODULE Scheduler ------------------------------
(***************************************************************************)
(* scheduler/daemon.py and scheduler/store.py: the faculty that fires the  *)
(* prompts Almir scheduled.  A tick reads the due schedules once, then     *)
(* runs each as a background turn and records it.  The turn itself, and    *)
(* when it may begin, belong to the composition (module Attention).        *)
(***************************************************************************)
EXTENDS Naturals, FiniteSets

CONSTANTS
    Schedule,
    NoSchedule,
    MaxTimes     \* bound: how often each schedule comes due

ASSUME SchedulerAssumption == NoSchedule \notin Schedule /\ MaxTimes \in Nat

VARIABLES
    entry,       \* the row: enabled, disabled, or deleted
    due,         \* next_run_at has passed
    batch,       \* what the tick read and has not fired yet
    firing,      \* the schedule in hand
    stage,       \* what the daemon does with it
    times,       \* how often it has come due
    fired,       \* history: the turns begun for each schedule
    passed       \* history: how often the daemon went on without a turn for it

schedVars == <<entry, due, batch, firing, stage, times, fired, passed>>

SchedInit ==
    /\ entry = [s \in Schedule |-> "on"]
    /\ due = [s \in Schedule |-> FALSE]
    /\ batch = {}
    /\ firing = NoSchedule
    /\ stage = "idle"
    /\ times = [s \in Schedule |-> 0]
    /\ fired = [s \in Schedule |-> 0]
    /\ passed = [s \in Schedule |-> 0]

Stage(x) == stage' = x

\* The tick goes on with what is left of its batch.
GoesOn(rest) ==
    IF rest = {} THEN batch' = {} /\ firing' = NoSchedule /\ Stage("idle")
    ELSE \E s \in rest : batch' = rest \ {s} /\ firing' = s /\ Stage("asked")

-----------------------------------------------------------------------------
\* The clock and the routes /schedules.

ComesDue(s) ==
    /\ entry[s] # "gone" /\ ~due[s]
    /\ times[s] < MaxTimes
    /\ due' = [due EXCEPT ![s] = TRUE]
    /\ times' = [times EXCEPT ![s] = @ + 1]
    /\ UNCHANGED <<entry, batch, firing, stage, fired, passed>>

Toggle(s) ==
    /\ entry[s] # "gone"
    /\ entry' = [entry EXCEPT ![s] = IF @ = "on" THEN "off" ELSE "on"]
    /\ UNCHANGED <<due, batch, firing, stage, times, fired, passed>>

Delete(s) ==
    /\ entry[s] # "gone"
    /\ entry' = [entry EXCEPT ![s] = "gone"]
    /\ UNCHANGED <<due, batch, firing, stage, times, fired, passed>>

-----------------------------------------------------------------------------
\* tick: due() is read once, so a schedule switched off or deleted while an
\* earlier one runs still fires.

Due == {s \in Schedule : entry[s] = "on" /\ due[s]}

Tick ==
    /\ stage = "idle" /\ Due # {}
    /\ GoesOn(Due)
    /\ UNCHANGED <<entry, due, times, fired, passed>>

\* runner.run returns without a turn: submit_background deferred or shed it, or
\* it raised.  Only the recorded status tells a failure from the others: a
\* schedule that was deferred is marked as fired like one that ran.
NotRun ==
    /\ stage = "asked"
    /\ Stage("ran")
    /\ passed' = [passed EXCEPT ![firing] = @ + 1]
    /\ UNCHANGED <<entry, due, batch, firing, times, fired>>

TurnBegins ==
    /\ stage = "asked"
    /\ Stage("thinking")
    /\ fired' = [fired EXCEPT ![firing] = @ + 1]
    /\ UNCHANGED <<entry, due, batch, firing, times, passed>>

\* The turn ended, failed, yielded to the foreground or met its timeout.
TurnEnds ==
    /\ stage = "thinking"
    /\ Stage("ran")
    /\ UNCHANGED <<entry, due, batch, firing, times, fired, passed>>

\* Faulty variant: the outcome is recorded but the next time is not computed.
MarkOnly ==
    /\ stage = "ran"
    /\ GoesOn(batch)
    /\ UNCHANGED <<entry, due, times, fired, passed>>

\* mark_fired: the next time is measured from now.  It finds no row to write
\* when the schedule was deleted meanwhile.
Mark ==
    /\ stage = "ran"
    /\ due' = IF entry[firing] = "gone" THEN due ELSE [due EXCEPT ![firing] = FALSE]
    /\ GoesOn(batch)
    /\ UNCHANGED <<entry, times, fired, passed>>

\* mark_fired raises, or the process dies: the tick is over, and the schedule
\* stays due though its turn ran.
TickLost == GoesOn({}) /\ UNCHANGED <<entry, due, times, fired, passed>>

\* Faulty variant: the exception ends the daemon.
MarkKills ==
    /\ stage = "ran"
    /\ batch' = {} /\ firing' = NoSchedule /\ Stage("dead")
    /\ UNCHANGED <<entry, due, times, fired, passed>>

MarkRaises == stage = "ran" /\ TickLost
=============================================================================
