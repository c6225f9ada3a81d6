------------------------------- MODULE MCTasks -------------------------------
(***************************************************************************)
(* Two cards that are moved in opposite orders, one of them to a column.   *)
(***************************************************************************)
EXTENDS Tasks

CONSTANTS t1, t2, todo, done, ana, bob

Move(t, p, s) == [task |-> t, pos |-> p, status |-> s]

SomeBulks == {<<Move(t1, 0, None), Move(t2, 1, done)>>, <<Move(t2, 0, None), Move(t1, 1, todo)>>}

SomeLists == {<<>>, <<ana, bob>>, <<ana>>}
=============================================================================
