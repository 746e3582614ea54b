---------------------------- MODULE ExecutionLease ----------------------------
(***************************************************************************)
(* runtime/lease.py together with the way runtime/coordinator.py uses it:  *)
(* the single row of table execution_lease that serialises foreground      *)
(* turns across sali processes.  PostgreSQL runs each statement atomically *)
(* but try_acquire and recover_stale are a SELECT and an UPDATE under an   *)
(* advisory lock the heartbeat does not take, so they are two steps here.  *)
(*                                                                         *)
(* Time is counted in ticks and only as remaining lifetimes: ttl is        *)
(* expires_at - now, timer[p] the time p has spent since it acquired,      *)
(* entered its turn or sent a heartbeat.  Nothing else in the lease is a   *)
(* date.  Nothing is assumed of the wait for the cognition slot: SlotWait  *)
(* may exceed Duration, as the code's 600 s exceed its 300 s.              *)
(***************************************************************************)
EXTENDS Integers, FiniteSets

CONSTANTS
    Proc,        \* sali processes; an identifier is the owner id PID@host, and a
                 \* process that starts again may get its old one back
    NoProc,
    MindFile,    \* the mind file whose lock a process takes before it starts
    Duration,    \* LEASE_DURATION_SECONDS, in ticks
    BeatGap,     \* longest time between two heartbeats
    SlotWait,    \* longest time a lease holder waits for the cognition slot
    MaxFaults    \* bound on the crashes and database errors of one behaviour

ASSUME ProcAssumption == NoProc \notin Proc
ASSUME TimeAssumption ==
    /\ Duration \in Nat \ {0}
    /\ BeatGap \in Nat
    /\ BeatGap < Duration
    /\ SlotWait \in Nat
    /\ MaxFaults \in Nat

VARIABLES
    owner,       \* execution_lease.owner_id
    status,      \* execution_lease.status; "none" before the row exists
    ttl,         \* expires_at - now(), 0 once expired
    preemptBy,   \* preempt_by; preempt_requested is preemptBy # NoProc
    advisory,    \* the process inside a transaction that holds the advisory lock
    phase,       \* what each process is doing with the lease
    timer,
    faults,
    mishaps      \* history: what has befallen the tenure of each holder

rowVars == <<owner, status, ttl, preemptBy>>
vars == <<owner, status, ttl, preemptBy, advisory, phase, timer, faults, mishaps>>

\* "late": it waited too long for the slot to be sure of its first heartbeat, or a
\* heartbeat of it failed.  "lapsed": its row ran out.  "cleared": the start of
\* the mind of another file took its row for a dead process's.
Mishaps == {"late", "lapsed", "cleared"}

Phases == {"down", "boot", "recovering", "clearing", "idle", "trying",
           "acquiring", "waiting", "running", "yielding", "stopping", "closing"}

\* A turn of the process is executing: also while it winds down after a cancel.
Thinking(p) == phase[p] \in {"running", "yielding", "stopping"}

\* The heartbeat task exists and has not given the lease up for lost.
Beating(p) == phase[p] \in {"running", "yielding"}

Holding(p) == phase[p] = "waiting" \/ Beating(p)

Owns(p) == owner = p /\ status = "active"

\* Nothing has taken the lease from the tenure of p.
Sound(p) == mishaps[p] \subseteq {"late"}

\* Faulty variant: a row counts as stale when its last heartbeat is in the past.
AvailableEarly == status # "active" \/ ttl < Duration

\* Faulty variant: the expiry is ignored.
AvailableNever == status # "active"

\* try_acquire does not answer "busy".
Available == status # "active" \/ ttl = 0

Init ==
    /\ owner = NoProc
    /\ status = "none"
    /\ ttl = 0
    /\ preemptBy = NoProc
    /\ advisory = NoProc
    /\ phase = [p \in Proc |-> "down"]
    /\ timer = [p \in Proc |-> 0]
    /\ faults = 0
    /\ mishaps = [p \in Proc |-> {}]

Goto(p, there) == phase' = [phase EXCEPT ![p] = there]

Befalls(p, mishap) == mishaps' = [mishaps EXCEPT ![p] = @ \cup {mishap}]
TenureEnds(p) == mishaps' = [mishaps EXCEPT ![p] = {}]

-----------------------------------------------------------------------------
\* Start-up: only the mind opens a runtime, and its lock admits one process for
\* each mind file.  Kernel.runtime then calls reclaim_orphaned and
\* AgentRuntime.recover calls recover_stale, under handlers that swallow their
\* errors.

Start(p) ==
    /\ phase[p] = "down"
    /\ \A q \in Proc \ {p} : MindFile[q] = MindFile[p] => phase[q] = "down"
    /\ Goto(p, "boot")
    /\ UNCHANGED <<rowVars, advisory, timer, faults, mishaps>>

\* One UPDATE: any active row of another owner.  That owner is dead if it was of
\* this mind file; of another one it may be in the middle of its turn.
ReclaimOrphaned(p) ==
    /\ phase[p] = "boot"
    /\ advisory = NoProc
    /\ IF status = "active" /\ owner # p
         THEN /\ status' = "releasing"
              /\ preemptBy' = NoProc
              /\ IF Holding(owner) THEN Befalls(owner, "cleared") ELSE UNCHANGED mishaps
         ELSE UNCHANGED <<status, preemptBy, mishaps>>
    /\ Goto(p, "recovering")
    /\ UNCHANGED <<owner, ttl, advisory, timer, faults>>

\* reclaim_orphaned raised.
SkipReclaim(p) ==
    /\ phase[p] = "boot"
    /\ Goto(p, "recovering")
    /\ UNCHANGED <<rowVars, advisory, timer, faults, mishaps>>

\* Faulty variant: any active row counts as stale.
RecoverReadAny(p) ==
    /\ phase[p] = "recovering"
    /\ advisory = NoProc
    /\ status = "active"
    /\ advisory' = p
    /\ Goto(p, "clearing")
    /\ UNCHANGED <<rowVars, timer, faults, mishaps>>

\* recover_stale's SELECT finds an active row that has expired.
RecoverRead(p) ==
    /\ phase[p] = "recovering"
    /\ advisory = NoProc
    /\ status = "active" /\ ttl = 0
    /\ advisory' = p
    /\ Goto(p, "clearing")
    /\ UNCHANGED <<rowVars, timer, faults, mishaps>>

\* Its UPDATE does not look at the row again.
RecoverWrite(p) ==
    /\ phase[p] = "clearing"
    /\ status' = "releasing"
    /\ advisory' = NoProc
    /\ Goto(p, "idle")
    /\ UNCHANGED <<owner, ttl, preemptBy, timer, faults, mishaps>>

\* No row, not active, not stale, or the query raised.
RecoverNothing(p) ==
    /\ phase[p] = "recovering"
    /\ Goto(p, "idle")
    /\ UNCHANGED <<rowVars, advisory, timer, faults, mishaps>>

-----------------------------------------------------------------------------
\* The life of a foreground message in AgentRuntimeCoordinator._process_loop.

Submit(p) ==
    /\ phase[p] = "idle"
    /\ Goto(p, "trying")
    /\ UNCHANGED <<rowVars, advisory, timer, faults, mishaps>>

\* try_acquire's SELECT.  A busy lease (the process's own included) leaves the
\* message queued for another try and changes nothing.
AcquireRead(p) ==
    /\ phase[p] = "trying"
    /\ advisory = NoProc
    /\ Available
    /\ advisory' = p
    /\ Goto(p, "acquiring")
    /\ UNCHANGED <<rowVars, timer, faults, mishaps>>

\* Faulty variant: the take-over keeps the stale preemption request.
AcquireWriteKeepingRequest(p) ==
    /\ phase[p] = "acquiring"
    /\ owner' = p
    /\ status' = "active"
    /\ ttl' = Duration
    /\ advisory' = NoProc
    /\ Goto(p, "waiting")
    /\ timer' = [timer EXCEPT ![p] = 0]
    /\ UNCHANGED <<preemptBy, faults, mishaps>>

\* try_acquire's INSERT or UPDATE, and the commit that frees the advisory lock.
AcquireWrite(p) ==
    /\ phase[p] = "acquiring"
    /\ owner' = p
    /\ status' = "active"
    /\ ttl' = Duration
    /\ preemptBy' = NoProc
    /\ advisory' = NoProc
    /\ Goto(p, "waiting")
    /\ timer' = [timer EXCEPT ![p] = 0]
    /\ UNCHANGED <<faults, mishaps>>

\* The transaction raises and the process loop dies with it: the row is rolled
\* back, or it is written and only the acknowledgement of the commit is lost.
AcquireFails(p) ==
    /\ phase[p] = "acquiring"
    /\ faults < MaxFaults
    /\ \/ UNCHANGED rowVars
       \/ owner' = p /\ status' = "active" /\ ttl' = Duration /\ preemptBy' = NoProc
    /\ advisory' = NoProc
    /\ Goto(p, "idle")
    /\ faults' = faults + 1
    /\ UNCHANGED <<timer, mishaps>>

\* The cognition slot is obtained; only now does the heartbeat task exist.  The
\* lease is not looked at again.
EnterTurn(p) ==
    /\ phase[p] = "waiting"
    /\ Goto(p, "running")
    /\ timer' = [timer EXCEPT ![p] = 0]
    /\ UNCHANGED <<rowVars, advisory, faults, mishaps>>

\* heartbeat() renews whatever active row the process owns, expired or not.
BeatKept(p) ==
    /\ Beating(p)
    /\ Owns(p)
    /\ ttl' = Duration
    /\ timer' = [timer EXCEPT ![p] = 0]
    /\ UNCHANGED <<owner, status, preemptBy, advisory, phase, faults, mishaps>>

\* Faulty variant: the result of the heartbeat is not looked at.
BeatLostUnnoticed(p) ==
    /\ Beating(p)
    /\ ~Owns(p)
    /\ timer' = [timer EXCEPT ![p] = 0]
    /\ UNCHANGED <<rowVars, advisory, phase, faults, mishaps>>

\* heartbeat() updated no row: the turn is hard-cancelled and the task ends.
BeatLost(p) ==
    /\ Beating(p)
    /\ ~Owns(p)
    /\ Goto(p, "stopping")
    /\ UNCHANGED <<rowVars, advisory, timer, faults, mishaps>>

\* heartbeat() raised: _heartbeat_loop swallows the error and sleeps again.
BeatFails(p) ==
    /\ Beating(p)
    /\ faults < MaxFaults
    /\ timer' = [timer EXCEPT ![p] = 0]
    /\ faults' = faults + 1
    /\ Befalls(p, "late")
    /\ UNCHANGED <<rowVars, advisory, phase>>

\* Faulty variant: the poll looks for the request on a row it no longer owns.
PollForeignRow(p) ==
    /\ phase[p] = "running"
    /\ ~Owns(p)
    /\ preemptBy # NoProc
    /\ Goto(p, "yielding")
    /\ UNCHANGED <<rowVars, advisory, timer, faults, mishaps>>

\* _preempt_poll sees the flag and sets the cooperative cancel event.
PollPreempted(p) ==
    /\ phase[p] = "running"
    /\ Owns(p)
    /\ preemptBy # NoProc
    /\ Goto(p, "yielding")
    /\ UNCHANGED <<rowVars, advisory, timer, faults, mishaps>>

EndTurn(p) ==
    /\ Thinking(p)
    /\ Goto(p, "closing")
    /\ TenureEnds(p)
    /\ UNCHANGED <<rowVars, advisory, timer, faults>>

Release(p) ==
    /\ phase[p] = "closing"
    /\ status' = IF owner = p THEN "releasing" ELSE status
    /\ Goto(p, "idle")
    /\ UNCHANGED <<owner, ttl, preemptBy, advisory, timer, faults, mishaps>>

\* release() raised; _process_loop suppresses the error and goes on.
ReleaseFails(p) ==
    /\ phase[p] = "closing"
    /\ faults < MaxFaults
    /\ Goto(p, "idle")
    /\ faults' = faults + 1
    /\ UNCHANGED <<rowVars, advisory, timer, mishaps>>

RequestPreemption(p) ==
    /\ phase[p] # "down"
    /\ status = "active" /\ owner # p /\ ttl > 0
    /\ preemptBy' = p
    /\ UNCHANGED <<owner, status, ttl, advisory, phase, timer, faults, mishaps>>

-----------------------------------------------------------------------------
\* The process dies: its session is gone, so its transaction is rolled back.
Crash(p) ==
    /\ phase[p] # "down"
    /\ faults < MaxFaults
    /\ Goto(p, "down")
    /\ advisory' = IF advisory = p THEN NoProc ELSE advisory
    /\ faults' = faults + 1
    /\ TenureEnds(p)
    /\ UNCHANGED <<rowVars, timer>>

\* A process that is alive enters its turn within SlotWait and heartbeats within
\* BeatGap: time does not pass a live process by.
InTime(p) ==
    /\ phase[p] = "waiting" => timer[p] < SlotWait
    /\ Beating(p) => timer[p] < BeatGap

\* The slot, if it came now, would come too late for the first heartbeat.
RunsLate(p) == phase[p] = "waiting" /\ timer'[p] + BeatGap >= Duration
RunsOut(p) == Holding(p) /\ Owns(p) /\ ttl' = 0

Tick ==
    /\ \A p \in Proc : InTime(p)
    /\ ttl' = IF ttl > 0 THEN ttl - 1 ELSE 0
    /\ timer' = [p \in Proc |-> IF Holding(p) THEN timer[p] + 1 ELSE 0]
    /\ mishaps' = [p \in Proc |-> mishaps[p]
                      \cup (IF RunsLate(p) THEN {"late"} ELSE {})
                      \cup (IF RunsOut(p) THEN {"lapsed"} ELSE {})]
    /\ UNCHANGED <<owner, status, preemptBy, advisory, phase, faults>>

Boot(p) == Start(p) \/ ReclaimOrphaned(p) \/ SkipReclaim(p)
           \/ RecoverRead(p) \/ RecoverWrite(p) \/ RecoverNothing(p)

Acquire(p) == Submit(p) \/ AcquireRead(p) \/ AcquireWrite(p) \/ AcquireFails(p)

Turn(p) == EnterTurn(p) \/ BeatKept(p) \/ BeatLost(p) \/ BeatFails(p)
           \/ PollPreempted(p) \/ EndTurn(p) \/ Release(p) \/ ReleaseFails(p)

Next ==
    \/ \E p \in Proc : Boot(p) \/ Acquire(p) \/ Turn(p)
                       \/ RequestPreemption(p) \/ Crash(p)
    \/ Tick

\* The event loop of a live process keeps running: it retries a busy lease every
\* second, polls for preemption, finishes turns it was told to stop, and the
\* clock advances.  An uncancelled turn may think for ever; a submission, a
\* preemption request and a crash never have to happen.
Fairness ==
    /\ WF_vars(Tick)
    /\ \A p \in Proc :
         /\ WF_vars(ReclaimOrphaned(p) \/ SkipReclaim(p))
         /\ WF_vars(RecoverNothing(p)) /\ WF_vars(RecoverWrite(p))
         /\ WF_vars(AcquireRead(p)) /\ WF_vars(AcquireWrite(p))
         /\ WF_vars(EnterTurn(p))
         /\ WF_vars(BeatKept(p) \/ BeatLost(p))
         /\ WF_vars(PollPreempted(p))
         /\ WF_vars(phase[p] \in {"yielding", "stopping"} /\ EndTurn(p))
         /\ WF_vars(Release(p))

Spec == Init /\ [][Next]_vars
FairSpec == Spec /\ Fairness

-----------------------------------------------------------------------------
TypeOK ==
    /\ owner \in Proc \cup {NoProc}
    /\ status \in {"none", "active", "releasing"}
    /\ ttl \in 0..Duration
    /\ preemptBy \in Proc \cup {NoProc}
    /\ advisory \in Proc \cup {NoProc}
    /\ phase \in [Proc -> Phases]
    /\ timer \in [Proc -> Nat]
    /\ faults \in 0..MaxFaults
    /\ mishaps \in [Proc -> SUBSET Mishaps]

\* "Ensures only ONE foreground agent turn executes across ALL Sali processes" (the
\* module's docstring), as far as it is true: of the processes in a turn at the
\* same time at most one has not lost its lease, by letting it lapse or to the
\* start of a mind of another file.
MutualExclusion ==
    \A p, q \in Proc : Thinking(p) /\ Thinking(q) /\ Sound(p) /\ Sound(q) => p = q

\* A process that asked another one to yield and then obtained the lease does
\* not find its own request waiting for it: try_acquire, reclaim_orphaned and the
\* order of the two never leave a request that preempts the one who made it.
NeverPreemptsItself == Owns(preemptBy) => preemptBy = NoProc

\* The slot wait, the heartbeats, another's try_acquire and start-up recovery between
\* them: a holder's row is its own, active and unexpired until it runs out under it
\* or a mind of another file clears it, and it runs out only under a holder
\* that waited too long for the slot or whose heartbeat failed.
HolderBacked ==
    \A p \in Proc : Holding(p) =>
        /\ Sound(p) => Owns(p) /\ ttl > 0
        /\ "lapsed" \in mishaps[p] => "late" \in mishaps[p]

\* A process whose turn is preempted over the lease stops it: the poll notices
\* the flag and the turn ends at its next boundary.
PreemptionStops ==
    \A p \in Proc : (Thinking(p) /\ Owns(p) /\ preemptBy # NoProc) ~> ~Thinking(p)

\* A crashed holder or a failed release never locks the foreground out: while a
\* process keeps trying, somebody gets to enter a turn (the lease expires).
SomebodyThinks ==
    (\E p \in Proc : phase[p] = "trying")
        ~> (\E p \in Proc : Thinking(p)) \/ (\A p \in Proc : phase[p] # "trying")

\* A process that lost its lease may think beside the one that obtained it; its next
\* heartbeat then ends its turn (the "lease lost" branch of _heartbeat_loop), so no
\* overlap lasts.
OverlapEnds ==
    \A p, q \in Proc : (p # q /\ Thinking(p) /\ Thinking(q))
                          ~> ~(Thinking(p) /\ Thinking(q))

\* Counting only the turns whose lease is sound, the lease refines "one thing at a
\* time" for whole processes: a turn begins when no sound one is in progress.
Thinkers == {p \in Proc : Thinking(p) /\ Sound(p)}
Abstract == INSTANCE OneTurn WITH Actor <- Proc, thinking <- Thinkers
ImplementsOneTurn == Abstract!Spec
=============================================================================
