------------------------------- MODULE TurnSlot -------------------------------
(***************************************************************************)
(* What a caller of runtime/coordinator.py may rely on, whatever goes on   *)
(* inside: a foreground request is run at most once, requests run one at a *)
(* time and in no promised order, and background cognition begins only     *)
(* when nobody runs and no caller waits.  A caller that gives up leaves    *)
(* its request where it is.  Module Coordinator implements this with the   *)
(* asyncio lock, the process loop and the demand counter; module Attention *)
(* uses no more than this of the coordinator.                              *)
(***************************************************************************)
CONSTANTS
    Request,     \* what may be submitted for the foreground
    Faculty,     \* callers of submit_background
    Nobody

VARIABLES
    queued,      \* submitted, not begun
    running,     \* the request whose turn has the slot
    spent,       \* requests that had their run, or will never have one
    waiting,     \* requests whose caller still waits
    background   \* the faculty whose turn has the slot

vars == <<queued, running, spent, waiting, background>>

Init ==
    /\ queued = {} /\ running = Nobody /\ spent = {}
    /\ waiting = {} /\ background = Nobody

Free == running = Nobody /\ background = Nobody

Submit(r) ==
    /\ r \notin spent \cup queued
    /\ queued' = queued \cup {r}
    /\ waiting' = waiting \cup {r}
    /\ UNCHANGED <<running, spent, background>>

\* The caller has its answer, or gives up.
Leave(r) ==
    /\ r \in waiting
    /\ waiting' = waiting \ {r}
    /\ UNCHANGED <<queued, running, spent, background>>

\* The caller is cancelled before its request was queued.
Withdraw(r) ==
    /\ r \in queued \cap waiting
    /\ queued' = queued \ {r}
    /\ waiting' = waiting \ {r}
    /\ UNCHANGED <<running, spent, background>>

Start(r) ==
    /\ Free /\ r \in queued \ spent
    /\ running' = r
    /\ queued' = queued \ {r}
    /\ spent' = spent \cup {r}
    /\ UNCHANGED <<waiting, background>>

\* The caller may have its answer at once.
End ==
    /\ running # Nobody
    /\ running' = Nobody
    /\ waiting' \in {waiting, waiting \ {running}}
    /\ UNCHANGED <<queued, spent, background>>

\* A request in hand is lost; its caller waits in vain.
Lose(r) ==
    /\ r \in queued
    /\ queued' = queued \ {r}
    /\ UNCHANGED <<running, spent, waiting, background>>

MoreSpent == spent' \in SUBSET Request /\ spent \subseteq spent'

\* Requests that have not been made will not be.
Forgo ==
    /\ MoreSpent
    /\ spent' \cap (queued \cup waiting) \subseteq spent
    /\ UNCHANGED <<queued, running, waiting, background>>

BackgroundBegins(f) ==
    /\ Free /\ waiting = {}
    /\ background' = f
    /\ UNCHANGED <<queued, running, spent, waiting>>

BackgroundEnds ==
    /\ background # Nobody
    /\ background' = Nobody
    /\ UNCHANGED <<queued, running, spent, waiting>>

\* The process dies: a run that was spent stays so.
Crash ==
    /\ queued' = {} /\ running' = Nobody /\ waiting' = {} /\ background' = Nobody
    /\ MoreSpent

Next ==
    \/ \E r \in Request : Submit(r) \/ Leave(r) \/ Withdraw(r) \/ Start(r) \/ Lose(r)
    \/ \E f \in Faculty : BackgroundBegins(f)
    \/ End \/ Forgo \/ BackgroundEnds \/ Crash

Spec == Init /\ [][Next]_vars
=============================================================================
