---------------------------- MODULE Checkpoint -----------------------------
(***************************************************************************)
(* What Downloading-Archived promises to the next run: rows are gone       *)
(* through in any order, and a durable checkpoint, which never moves back, *)
(* has only gone-through rows behind it.                                   *)
(***************************************************************************)
EXTENDS Naturals

CONSTANT N          \* rows of the list, in the order of the checkpoint

VARIABLES
    handled,        \* rows that some run has gone through
    mark            \* the checkpoint: rows 1..mark are never looked at again

Init == handled = {} /\ mark = 0

Handle(r) ==
    /\ handled' = handled \union {r}
    /\ UNCHANGED mark

Save(r) ==
    /\ r >= mark /\ 1 .. r \subseteq handled
    /\ mark' = r
    /\ UNCHANGED handled

Next == \E r \in 1 .. N : Handle(r) \/ Save(r)

Spec == Init /\ [][Next]_<<handled, mark>>
=============================================================================
