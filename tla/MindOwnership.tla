---------------------------- MODULE MindOwnership ----------------------------
(***************************************************************************)
(* Becoming, being and ceasing to be the one Sali: the flock on the mind   *)
(* file (core/mind.py), the advisory lock in the datastore                 *)
(* (db/mind_lock.py) and the kernel that takes both, opens the runtime and *)
(* closes it (kernel.py).  Processes may crash anywhere, the datastore may *)
(* go down and come back, and any process may ask who is alive             *)
(* (live_holder), which takes the flock itself for a moment.               *)
(***************************************************************************)
EXTENDS Integers, FiniteSets

CONSTANTS
    Proc,         \* sali processes
    Elsewhere,    \* those that resolve another path for the mind file
    Daemon,       \* the one that is always started again
    Nobody,
    Ghost,        \* the backend of a dead process, not yet gone from the datastore
    MaxCrashes,   \* bound on the crashes
    MaxOutages    \* bound on the outages of the datastore

ASSUME MindAssumption ==
    /\ Elsewhere \subseteq Proc
    /\ Daemon \in Proc
    /\ Nobody \notin Proc /\ Ghost \notin Proc /\ Nobody # Ghost
    /\ MaxCrashes \in Nat
    /\ MaxOutages \in Nat

VARIABLES
    pc,           \* where each process is between become_mind and close
    writing,      \* whether it is writing its record, or failed to
    flock,        \* who holds the flock on each mind file
    record,       \* whom each mind file names
    advisory,     \* who holds the advisory lock
    held,         \* DbMindLock.held: it keeps the connection that took the lock
    dbUp,
    probe,        \* where each process is in live_holder
    crashes,
    outages

locks == <<flock, record, advisory, held>>
vars == <<pc, writing, locks, dbUp, probe, crashes, outages>>

Path == {"ours", "another"}
PathOf(p) == IF p \in Elsewhere THEN "another" ELSE "ours"

\* From the flock to the unlock of a process that becomes the mind.
Owning == {"flocked", "mind", "running", "closed", "released", "wiped", "refusing"}

\* is_mind, from the end of become_mind until close gives the first lock back.
IsMind(p) == pc[p] \in {"mind", "running", "closed"}

Owns(p) == pc[p] \in Owning

Init ==
    /\ pc = [p \in Proc |-> "out"]
    /\ writing = [p \in Proc |-> "no"]
    /\ flock = [f \in Path |-> Nobody]
    /\ record = [f \in Path |-> Nobody]
    /\ advisory = Nobody
    /\ held = [p \in Proc |-> FALSE]
    /\ dbUp = TRUE
    /\ probe = [p \in Proc |-> "none"]
    /\ crashes = 0
    /\ outages = 0

Goto(p, from, to) == pc[p] = from /\ pc' = [pc EXCEPT ![p] = to]
HoldFlock(p, owner) == flock' = [flock EXCEPT ![PathOf(p)] = owner]
Name(p, named) == record' = [record EXCEPT ![PathOf(p)] = named]

\* live_holder and the writing of the record are synchronous: the process does
\* nothing else in the middle of them.
Idle(p) == writing[p] # "yes" /\ probe[p] = "none"

-----------------------------------------------------------------------------
\* become_mind.

\* MindLock.acquire: the flock, without waiting ...
TakeFlock(p) ==
    /\ Idle(p)
    /\ Goto(p, "out", "flocked")
    /\ flock[PathOf(p)] = Nobody
    /\ HoldFlock(p, p)
    /\ writing' = [writing EXCEPT ![p] = "yes"]
    /\ UNCHANGED <<record, advisory, held, dbUp, probe, crashes, outages>>

\* ... or False, and the SecondMindError that ends the process.
FlockTaken(p) ==
    /\ Idle(p)
    /\ Goto(p, "out", "refused")
    /\ flock[PathOf(p)] # Nobody
    /\ UNCHANGED <<writing, locks, dbUp, probe, crashes, outages>>

\* _write truncates the file before it writes, here and in publish.
CutRecord(p) ==
    /\ writing[p] = "yes"
    /\ record[PathOf(p)] # Nobody
    /\ Name(p, Nobody)
    /\ UNCHANGED <<pc, writing, flock, advisory, held, dbUp, probe, crashes, outages>>

\* A write that fails is ignored.
WriteRecord(p) ==
    /\ writing[p] = "yes"
    /\ record[PathOf(p)] = Nobody
    /\ \/ Name(p, p) /\ writing' = [writing EXCEPT ![p] = "no"]
       \/ UNCHANGED record /\ writing' = [writing EXCEPT ![p] = "failed"]
    /\ UNCHANGED <<pc, flock, advisory, held, dbUp, probe, crashes, outages>>

\* Faulty variant: the answer of pg_try_advisory_lock is not looked at.
DbLockTakenIgnored(p) ==
    /\ Idle(p)
    /\ Goto(p, "flocked", "mind")
    /\ dbUp
    /\ advisory # Nobody
    /\ held' = [held EXCEPT ![p] = TRUE]
    /\ UNCHANGED <<writing, flock, record, advisory, dbUp, probe, crashes, outages>>

\* DbMindLock.acquire: the advisory lock on a connection of its own; another holder
\* is a refusal.
DbLockTaken(p) ==
    /\ Idle(p)
    /\ Goto(p, "flocked", "refusing")
    /\ dbUp
    /\ advisory # Nobody
    /\ UNCHANGED <<writing, locks, dbUp, probe, crashes, outages>>

DbLocks(p) ==
    /\ Idle(p)
    /\ Goto(p, "flocked", "mind")
    /\ dbUp
    /\ advisory = Nobody
    /\ advisory' = p
    /\ held' = [held EXCEPT ![p] = TRUE]
    /\ UNCHANGED <<writing, flock, record, dbUp, probe, crashes, outages>>

\* Whatever raises, in the connection, its set-up or the query, the lock is passed
\* over: the datastore may be down, or serve everybody else.  The session of a
\* query whose answer was lost may have got the lock, and is closed.
DbPassedOver(p) ==
    /\ Idle(p)
    /\ Goto(p, "flocked", "mind")
    /\ \/ UNCHANGED advisory
       \/ dbUp /\ advisory = Nobody /\ advisory' = Ghost
    /\ UNCHANGED <<writing, flock, record, held, dbUp, probe, crashes, outages>>

\* The process that was refused is gone (and systemd may start the next one).
Exit(p) ==
    /\ Idle(p)
    /\ Goto(p, "refused", "out")
    /\ UNCHANGED <<writing, locks, dbUp, probe, crashes, outages>>

-----------------------------------------------------------------------------
\* Being the mind.

\* Kernel.runtime: only as the mind (is_mind).  reclaim_orphaned is right here only if
\* no other runtime is open; ExecutionLease has the case that one is.
OpenRuntime(p) ==
    /\ Idle(p)
    /\ Goto(p, "mind", "running")
    /\ UNCHANGED <<writing, locks, dbUp, probe, crashes, outages>>

\* MindLock.publish: the endpoint, the session.
Publish(p) ==
    /\ Idle(p)
    /\ pc[p] \in {"mind", "running"}
    /\ writing' = [writing EXCEPT ![p] = "yes"]
    /\ UNCHANGED <<pc, locks, dbUp, probe, crashes, outages>>

-----------------------------------------------------------------------------
\* Kernel.close: the runtime, the advisory lock, the flock.

CloseRuntime(p) ==
    /\ Idle(p)
    /\ \E from \in {"mind", "running"} : Goto(p, from, "closed")
    /\ UNCHANGED <<writing, locks, dbUp, probe, crashes, outages>>

\* The unlock may fail, which is suppressed: then the closed session goes by itself.
ReleaseDb(p) ==
    /\ Idle(p)
    /\ Goto(p, "closed", "released")
    /\ IF advisory = p THEN advisory' \in {Nobody, Ghost} ELSE UNCHANGED advisory
    /\ held' = [held EXCEPT ![p] = FALSE]
    /\ UNCHANGED <<writing, flock, record, dbUp, probe, crashes, outages>>

WipesRecord(p) == Name(p, Nobody) /\ UNCHANGED flock
DropsFlock(p) == /\ flock' = [flock EXCEPT ![PathOf(p)] = IF @ = p THEN Nobody ELSE @]
                 /\ UNCHANGED record

\* Faulty variant: the flock first, then the record.
ReleaseStepSwapped(p, last) == IF last THEN WipesRecord(p) ELSE DropsFlock(p)

\* MindLock.release: the record first, then the flock.
ReleaseStep(p, last) == IF last THEN DropsFlock(p) ELSE WipesRecord(p)

Wipe(p) ==
    /\ Idle(p)
    /\ \E from \in {"released", "refusing"} : Goto(p, from, "wiped")
    /\ ReleaseStep(p, FALSE)
    /\ UNCHANGED <<writing, advisory, held, dbUp, probe, crashes, outages>>

Unlock(p) ==
    /\ Goto(p, "wiped", "out")
    /\ ReleaseStep(p, TRUE)
    /\ UNCHANGED <<writing, advisory, held, dbUp, probe, crashes, outages>>

-----------------------------------------------------------------------------
\* What the machine does.

\* The kernel drops the flocks of a dead process at once; its datastore backend
\* notices a little later.
Crash(p) ==
    /\ pc[p] # "out" \/ probe[p] \in {"got", "blocked"}
    /\ crashes < MaxCrashes
    /\ crashes' = crashes + 1
    /\ pc' = [pc EXCEPT ![p] = "out"]
    /\ writing' = [writing EXCEPT ![p] = "no"]
    /\ probe' = [probe EXCEPT ![p] = "none"]
    /\ DropsFlock(p)
    /\ advisory' = IF advisory = p THEN Ghost ELSE advisory
    /\ held' = [held EXCEPT ![p] = FALSE]
    /\ UNCHANGED <<dbUp, outages>>

BackendEnds ==
    /\ advisory = Ghost
    /\ advisory' = Nobody
    /\ UNCHANGED <<pc, writing, flock, record, held, dbUp, probe, crashes, outages>>

\* An outage ends every session; nobody tells their owners.
DbStops ==
    /\ dbUp
    /\ outages < MaxOutages
    /\ outages' = outages + 1
    /\ dbUp' = FALSE
    /\ advisory' = Nobody
    /\ UNCHANGED <<pc, writing, flock, record, held, probe, crashes>>

DbStarts ==
    /\ ~dbUp
    /\ dbUp' = TRUE
    /\ UNCHANGED <<pc, writing, locks, probe, crashes, outages>>

-----------------------------------------------------------------------------
\* live_holder, asked by a process that is not the mind: it tries the flock on a
\* descriptor of its own; having got it, it lets go again and says None; refused,
\* it reads the record.  The answer is data of its caller.

ProbeTries(p) ==
    /\ pc[p] = "out"
    /\ Idle(p)
    /\ IF flock[PathOf(p)] = Nobody
         THEN /\ HoldFlock(p, p)
              /\ probe' = [probe EXCEPT ![p] = "got"]
         ELSE /\ probe' = [probe EXCEPT ![p] = "blocked"]
              /\ UNCHANGED flock
    /\ UNCHANGED <<pc, writing, record, advisory, held, dbUp, crashes, outages>>

\* Faulty variant: the descriptor is kept open.
ProbeKeepsLock(p) ==
    /\ probe[p] = "got"
    /\ probe' = [probe EXCEPT ![p] = "none"]
    /\ UNCHANGED <<pc, writing, locks, dbUp, crashes, outages>>

ProbeLetsGo(p) ==
    /\ probe[p] = "got"
    /\ probe' = [probe EXCEPT ![p] = "none"]
    /\ HoldFlock(p, Nobody)
    /\ UNCHANGED <<pc, writing, record, advisory, held, dbUp, crashes, outages>>

ProbeReads(p) ==
    /\ probe[p] = "blocked"
    /\ probe' = [probe EXCEPT ![p] = "none"]
    /\ UNCHANGED <<pc, writing, locks, dbUp, crashes, outages>>

-----------------------------------------------------------------------------
BecomeMind(p) == TakeFlock(p) \/ FlockTaken(p) \/ DbLockTaken(p) \/ DbLocks(p)
                 \/ DbPassedOver(p) \/ Exit(p)

Own(p) == CutRecord(p) \/ WriteRecord(p) \/ OpenRuntime(p) \/ Publish(p)

Close(p) == CloseRuntime(p) \/ ReleaseDb(p) \/ Wipe(p) \/ Unlock(p)

LiveHolder(p) == ProbeTries(p) \/ ProbeLetsGo(p) \/ ProbeReads(p)

Next == \/ \E p \in Proc : BecomeMind(p) \/ Own(p) \/ Close(p) \/ LiveHolder(p) \/ Crash(p)
        \/ BackendEnds \/ DbStops \/ DbStarts

Spec == Init /\ [][Next]_vars

\* systemd starts the daemon again when it has died or was refused (exit status 1),
\* and whoever stopped it starts it again some time; every other start is
\* somebody's wish.  A process that has begun something goes on with it.
Fairness ==
    /\ SF_vars(TakeFlock(Daemon))
    /\ WF_vars(BackendEnds)
    /\ \A p \in Proc :
          /\ WF_vars(CutRecord(p)) /\ WF_vars(WriteRecord(p))
          /\ WF_vars(DbLockTaken(p) \/ DbLocks(p) \/ DbPassedOver(p))
          /\ WF_vars(Exit(p)) /\ WF_vars(Wipe(p)) /\ WF_vars(Unlock(p))
          /\ WF_vars(ProbeLetsGo(p) \/ ProbeReads(p))

FairSpec == Spec /\ Fairness

-----------------------------------------------------------------------------
\* Only who owns the flock writes the record.
TypeOK ==
    /\ \A p \in Proc : writing[p] = "yes" => Owns(p)
    /\ pc \in [Proc -> Owning \cup {"out", "refused"}]
    /\ writing \in [Proc -> {"no", "yes", "failed"}]
    /\ flock \in [Path -> Proc \cup {Nobody}]
    /\ record \in [Path -> Proc \cup {Nobody}]
    /\ advisory \in Proc \cup {Nobody, Ghost}
    /\ held \in [Proc -> BOOLEAN]
    /\ dbUp \in BOOLEAN
    /\ probe \in [Proc -> {"none", "got", "blocked"}]
    /\ crashes \in 0..MaxCrashes
    /\ outages \in 0..MaxOutages

\* ONE PC, ONE SALI, ONE MIND, as far as the locks give it: no two processes are the
\* mind at once if they agree on the mind file, whatever the datastore does, or if
\* both hold the advisory lock (none passed over it) and the datastore has
\* not restarted behind them.
OneMind ==
    \A p, q \in Proc :
        /\ IsMind(p) /\ IsMind(q)
        /\ PathOf(p) = PathOf(q) \/ (held[p] /\ held[q] /\ outages = 0)
        => p = q

\* Runtimes of the processes that agree on the mind file open one at a time, so the
\* one that has just opened may clear the execution lease of another of them.
Runtimes == {p \in Proc \ Elsewhere : pc[p] = "running"}
Abstract == INSTANCE OneTurn WITH Actor <- Proc \ Elsewhere, thinking <- Runtimes
OneRuntime == Abstract!Spec

\* The file names the living mind unless it is being rewritten or the write
\* failed; whoever died, closed or was refused meanwhile has not changed it.
RecordOfTheMind ==
    \A p \in Proc : IsMind(p) /\ writing[p] = "no" => record[PathOf(p)] = p

\* Whatever crashed, was refused, lost its datastore or merely asked who is alive, no
\* lock stays behind: the flock on a mind file is held only by a process on its way
\* through becoming, being or ceasing to be the mind, or in the middle of a probe;
\* the advisory lock only by a mind that will release it (or a backend about to
\* go), and by nobody in a datastore that is down.
NothingLeftBehind ==
    /\ \A f \in Path, p \in Proc :
          flock[f] = p => PathOf(p) = f /\ (Owns(p) \/ probe[p] = "got")
    /\ \A p \in Proc : advisory = p => IsMind(p) /\ held[p]
    /\ ~dbUp => advisory = Nobody

\* A crash, an outage or a refusal leaves nothing that keeps the next mind from
\* living: once the probes cease (a probe can refuse a start), the daemon that is
\* started again and again, or somebody else, becomes it.
MindReturns ==
    <>[](\A p \in Proc : probe[p] \notin {"got", "blocked"})
        => ((\A p \in Proc : ~IsMind(p)) ~> (\E p \in Proc : IsMind(p)))
=============================================================================
