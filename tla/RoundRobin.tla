----------------------------- MODULE RoundRobin -----------------------------
(***************************************************************************)
(* What the scheduler promises: tasks wait in line, and the CPU goes round *)
(* from each to the one behind it.  A task that arrives goes to the head   *)
(* of the line, one that leaves keeps the others in their order, and a     *)
(* task that has left hands the CPU to nobody.                             *)
(***************************************************************************)
EXTENDS Integers, Sequences

CONSTANTS Task, NULL

VARIABLES
    order,      \* the tasks in line, a sequence
    current     \* the task that has the CPU; NULL before the first turn

Places == 1..Len(order)
Waiting == {order[i] : i \in Places}
Place(t) == CHOOSE i \in Places : order[i] = t
Behind(i) == IF i = Len(order) THEN 1 ELSE i + 1

Arrive(t) ==
    /\ t \notin Waiting
    /\ order' = <<t>> \o order
    /\ UNCHANGED current

Leave(t) ==
    /\ t \in Waiting
    /\ order' = [i \in 1..(Len(order) - 1) |->
                    IF i < Place(t) THEN order[i] ELSE order[i + 1]]
    /\ UNCHANGED current

FirstTurn ==
    /\ current = NULL /\ order # <<>>
    /\ current' = order[1]
    /\ UNCHANGED order

NextTurn ==
    /\ current \in Waiting
    /\ current' = order[Behind(Place(current))]
    /\ UNCHANGED order

Next == FirstTurn \/ NextTurn \/ \E t \in Task : Arrive(t) \/ Leave(t)

Spec == order = <<>> /\ current = NULL /\ [][Next]_<<order, current>>

-----------------------------------------------------------------------------
\* The number of turns until t has the CPU, while the CPU goes round.
Ahead(t) ==
    IF current = NULL THEN Place(t)
    ELSE IF Place(t) >= Place(current) THEN Place(t) - Place(current)
    ELSE Place(t) - Place(current) + Len(order)

\* The CPU has not been left with a task that is no longer in line.
GoesRound == current \in Waiting \cup {NULL}

\* Every turn brings each of the others one place nearer to the CPU, a task
\* that leaves puts nobody back, and one that arrives puts nobody back by more
\* than one place.
NobodyIsPutBack ==
    \A t \in (Waiting \cap Waiting') \ {current} :
        /\ current' # current => Ahead(t)' = Ahead(t) - 1
        /\ Len(order') < Len(order) => Ahead(t)' <= Ahead(t)
        /\ Ahead(t)' <= Ahead(t) + 1

EveryTurnCounts == [][GoesRound /\ GoesRound' => NobodyIsPutBack]_<<order, current>>
=============================================================================
