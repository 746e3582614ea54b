------------------------------- MODULE OneTurn -------------------------------
(***************************************************************************)
(* What sali promises about thinking, whoever does the arbitration: "one   *)
(* thing at a time".  A turn of an actor (a process, the foreground, a     *)
(* background faculty) begins only when nobody is thinking and ends        *)
(* whenever it likes.  The execution lease implements it for processes,    *)
(* the cognition slot for the actors inside one process, the mind lock for *)
(* whole runtimes.                                                         *)
(***************************************************************************)
CONSTANT Actor

VARIABLE thinking        \* the actors whose turn is in progress

Init == thinking = {}

Begin(a) == /\ thinking = {}
            /\ thinking' = {a}

End(a) == /\ a \in thinking
          /\ thinking' = thinking \ {a}

Next == \E a \in Actor : Begin(a) \/ End(a)

Spec == Init /\ [][Next]_thinking
=============================================================================
