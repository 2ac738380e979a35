------------------------------ MODULE MCLogger ------------------------------
(***************************************************************************)
(* Logger with a writer that laps the readers and another that gets in its *)
(* way early.  What happens once w_off is at a wrong offset is not         *)
(* followed: it never becomes right again, and neither property says       *)
(* anything of that time.                                                  *)
(***************************************************************************)
EXTENDS Logger

CONSTANTS lapping, early, Laps, Early

MCMaxCells == [w \in Writers |-> IF w = lapping THEN Laps ELSE Early]

UntilUndone == ~undone
=============================================================================
