-------------------------- MODULE SessionAutomaton --------------------------
(***************************************************************************)
(* What a session promises: the automaton drawn in session/session.c:13-41 *)
(* (and, but for one cell, in include/session/session.h:9-37).  The table  *)
(* is copied cell by cell.  It leaves three things unsaid, which are added *)
(* here: a session that was never set up, a connection that breaks, and    *)
(* how the execution of a statement comes to an end.                       *)
(***************************************************************************)
EXTENDS Integers

CONSTANT Dismissed  \* the cells <<state, condition>> at which the session ends
                    \* though the table has it go on; none in the table's words

VARIABLE st

(* 0 connected, 1 hello received, 2 authenticated, 3 executing, 4 ended.   *)
State == 0 .. 4

(* a hello, b wrong credentials, c correct credentials, d sql request,     *)
(* e cancel, f goodbye, g incorrect message                                *)
Condition == {"a", "b", "c", "d", "e", "f", "g"}

Row(a, b, c, d, e, f, g) ==
  [a |-> a, b |-> b, c |-> c, d |-> d, e |-> e, f |-> f, g |-> g]

Table ==
  [s \in State |->
     CASE s = 0 -> Row(1, 4, 4, 4, 4, 4, 4)
       [] s = 1 -> Row(4, 1, 2, 4, 4, 4, 4)
       [] s = 2 -> Row(2, 2, 2, 3, 2, 4, 2)
       [] s = 3 -> Row(3, 3, 3, 3, 2, 3, 3)
       [] s = 4 -> Row(4, 4, 4, 4, 4, 4, 4)]

Cell(s, c) == IF <<s, c>> \in Dismissed THEN 4 ELSE Table[s][c]

Init == st = 0

(* A message of the condition c takes the session where its cell says, and *)
(* nowhere else.                                                           *)
OnMessage(c) == st' = Cell(st, c)

(* Without a message a statement is executed, or fails and takes the       *)
(* session with it; and a session ends that has heard nothing yet or has   *)
(* lost its connection.                                                    *)
Executed   == st = 3 /\ st' \in {2, 4}
Unprepared == st = 0 /\ st' = 4
Cut        == st' = 4

(* A step in which a message is heard that meets one of the conditions, or *)
(* none if there are none; broken says that the connection is.             *)
Step(conditions, broken) ==
  \/ \E c \in conditions : OnMessage(c)
  \/ conditions = {} /\ (Executed \/ Unprepared \/ (broken /\ Cut) \/ UNCHANGED st)
=============================================================================
