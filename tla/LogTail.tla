------------------------------- MODULE LogTail -------------------------------
(***************************************************************************)
(* What src/logbuf.h promises of the log: "In-memory ring of the most      *)
(* recent log lines".  A line is abstracted to its number, in the order    *)
(* lines were stored.                                                      *)
(***************************************************************************)
EXTENDS Integers, Sequences

CONSTANTS Lines  \* how many are retained

VARIABLES held, stored

Init ==
  /\ held = <<>>
  /\ stored = 0

Log ==
  /\ stored' = stored + 1
  /\ held' = IF Len(held) < Lines THEN Append(held, stored + 1)
                                  ELSE Append(Tail(held), stored + 1)

Spec == Init /\ [][Log]_<<held, stored>>
=============================================================================
