---------------------------- MODULE InferenceLease ----------------------------
(***************************************************************************)
(* provider/lease.py: the gate every model call passes, in every process:  *)
(* authority, in-process semaphore, machine-wide flock, residency probe,   *)
(* resource gate.  Any await in it may be cancelled.                       *)
(*                                                                         *)
(* The descriptor of the flock belongs to the process, not to the call:    *)
(* taking it again succeeds.  Whether the process may think at all depends *)
(* on the mind (module MindOwnership); here a refused call is no step.     *)
(***************************************************************************)
EXTENDS Integers, FiniteSets

CONSTANTS
    Proc,
    Line,        \* concurrent callers within a process
    Nobody

ASSUME InferenceAssumption == Nobody \notin Proc \cup Line

VARIABLES
    call,        \* where each caller is
    kind,        \* and with what: "cognition" or "embedding"
    sem,         \* the caller that holds each process's semaphore
    flock        \* the process that holds the machine-wide lock

vars == <<call, kind, sem, flock>>

Inside == {"locking", "probing", "gating", "generating"}

Init ==
    /\ call = [p \in Proc |-> [l \in Line |-> "idle"]]
    /\ kind = [p \in Proc |-> [l \in Line |-> "embedding"]]
    /\ sem = [p \in Proc |-> Nobody]
    /\ flock = Nobody

Goto(p, l, from, to) ==
    /\ call[p][l] \in from
    /\ call' = [call EXCEPT ![p][l] = to]

LeavesSem(p) == sem' = [sem EXCEPT ![p] = Nobody]

-----------------------------------------------------------------------------
\* admit let the call in.
Enter(p, l) ==
    /\ Goto(p, l, {"idle"}, "queued")
    /\ \E k \in {"cognition", "embedding"} : kind' = [kind EXCEPT ![p][l] = k]
    /\ UNCHANGED <<sem, flock>>

TakeSem(p, l) ==
    /\ sem[p] = Nobody
    /\ Goto(p, l, {"queued"}, "locking")
    /\ sem' = [sem EXCEPT ![p] = l]
    /\ UNCHANGED <<kind, flock>>

\* An embedding needs neither the probe nor the gate.
TakeFlock(p, l) ==
    /\ flock \in {p, Nobody}
    /\ flock' = p
    /\ Goto(p, l, {"locking"}, IF kind[p][l] = "cognition" THEN "probing" ELSE "generating")
    /\ UNCHANGED <<kind, sem>>

\* Faulty variant: after the timeout the call proceeds without the lock.
TimesOutAndProceeds(p, l) ==
    /\ flock \notin {p, Nobody}
    /\ Goto(p, l, {"locking"}, "generating")
    /\ UNCHANGED <<kind, sem, flock>>

\* Faulty variant: the poll of the flock has no deadline.
TimesOutNever(p, l) ==
    /\ flock \notin {p, Nobody}
    /\ call[p][l] = "locking"
    /\ UNCHANGED vars

\* 900 seconds without the flock: ProviderError.
TimesOut(p, l) ==
    /\ flock \notin {p, Nobody}
    /\ Goto(p, l, {"locking"}, "idle")
    /\ LeavesSem(p)
    /\ UNCHANGED <<kind, flock>>

ProbePasses(p, l) ==
    /\ Goto(p, l, {"probing"}, "gating")
    /\ UNCHANGED <<kind, sem, flock>>

\* The gate waits at most a minute, then lets the call through.
GatePasses(p, l) ==
    /\ Goto(p, l, {"gating"}, "generating")
    /\ UNCHANGED <<kind, sem, flock>>

\* Faulty variant: the semaphore too is given back in that try block only.
LeavesEarlyAndHolds(p, l) ==
    /\ Goto(p, l, {"probing", "gating"}, "idle")
    /\ UNCHANGED <<kind, sem, flock>>

\* The probe raises, or the caller is cancelled in the probe or at the gate: the
\* try block that drops the flock has not been entered.
LeavesEarly(p, l) ==
    /\ Goto(p, l, {"probing", "gating"}, "idle")
    /\ LeavesSem(p)
    /\ UNCHANGED <<kind, flock>>

\* The caller is cancelled in the queue, or while it polls the flock.
Cancelled(p, l) ==
    /\ Goto(p, l, {"queued", "locking"}, "idle")
    /\ sem' = [sem EXCEPT ![p] = IF @ = l THEN Nobody ELSE @]
    /\ UNCHANGED <<kind, flock>>

\* Faulty variant: a generation that fails does not get to the unlocking.
LeavesLocked(p, l) ==
    /\ Goto(p, l, {"generating"}, "idle")
    /\ LeavesSem(p)
    /\ flock' \in {Nobody, flock}
    /\ UNCHANGED kind

\* The generation succeeds, fails or is cancelled: the finally block.
Leaves(p, l) ==
    /\ Goto(p, l, {"generating"}, "idle")
    /\ LeavesSem(p)
    /\ flock' = Nobody
    /\ UNCHANGED kind

-----------------------------------------------------------------------------
\* A process dies, and its flock with it.
Dies(p) ==
    /\ call' = [call EXCEPT ![p] = [l \in Line |-> "idle"]]
    /\ LeavesSem(p)
    /\ flock' = IF flock = p THEN Nobody ELSE flock
    /\ UNCHANGED kind

-----------------------------------------------------------------------------
Proceeds(p, l) == TakeFlock(p, l) \/ TimesOut(p, l) \/ ProbePasses(p, l)
                  \/ GatePasses(p, l) \/ Leaves(p, l)

Next == \E p \in Proc :
            \/ Dies(p)
            \/ \E l \in Line : Enter(p, l) \/ TakeSem(p, l) \/ Proceeds(p, l)
                               \/ LeavesEarly(p, l) \/ Cancelled(p, l)

Spec == Init /\ [][Next]_vars

\* The event loop runs what is ready, generations end (the model server has its own
\* timeouts), and the semaphore serves its queue in order, so nobody starves in it.
Fairness == \A p \in Proc, l \in Line : SF_vars(TakeSem(p, l)) /\ WF_vars(Proceeds(p, l))

FairSpec == Spec /\ Fairness

-----------------------------------------------------------------------------
TypeOK ==
    /\ call \in [Proc -> [Line -> Inside \cup {"idle", "queued"}]]
    /\ kind \in [Proc -> [Line -> {"cognition", "embedding"}]]
    /\ sem \in [Proc -> Line \cup {Nobody}]
    /\ flock \in Proc \cup {Nobody}
    /\ \A p \in Proc, l \in Line : call[p][l] \in Inside => sem[p] = l

Generating == {c \in Proc \X Line : call[c[1]][c[2]] = "generating"}

\* The heavy model generates once, machine-wide: though one process may take the
\* flock again and again, though calls fail, time out, are cancelled or die, and
\* though a lock was left behind by a call that never generated.
Abstract == INSTANCE OneTurn WITH Actor <- Proc \X Line, thinking <- Generating
OneGeneration == Abstract!Spec

\* Every call that waits is served or turned away: nobody waits for ever on a lock
\* that was left behind.
EveryCallEnds ==
    \A p \in Proc, l \in Line : call[p][l] = "queued" ~> call[p][l] = "idle"

\* The semaphore always comes back: whichever way a call went (refused by the flock,
\* cancelled in the queue, at the poll, in the probe or the gate, failed, dead), what
\* holds a process's semaphore is a call under way, so the next one will get it.
SemFollowsTheCall ==
    \A p \in Proc : sem[p] # Nobody => call[p][sem[p]] \in Inside

\* "another generation still holds the machine-wide GPU lease" (the message of the
\* timeout): whoever holds the flock has a call under way.
LockFollowsTheCall ==
    flock # Nobody => \E l \in Line : call[flock][l] \in Inside \ {"locking"}

\* The flock has one leak: it is left to nobody's call only by one that fails or is
\* cancelled between taking it and the try block that drops it; and what was left behind
\* goes on blocking the other processes until a call of the same one has generated or
\* failed in that block, or it dies.
OneLeak ==
    [][/\ LockFollowsTheCall /\ ~LockFollowsTheCall' =>
             \E p \in Proc, l \in Line :
                call[p][l] \in {"probing", "gating"} /\ call'[p][l] = "idle"
       /\ flock # Nobody /\ flock' # flock =>
             \/ \E l \in Line : call[flock][l] = "generating" /\ call'[flock][l] = "idle"
             \/ \A l \in Line : call'[flock][l] = "idle"]_vars
=============================================================================
