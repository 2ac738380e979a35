------------------------------ MODULE MCEvdev -------------------------------
(***************************************************************************)
(* Evdev with a file whose buffer is overrun and another that gets a       *)
(* single event.                                                           *)
(***************************************************************************)
EXTENDS Evdev

CONSTANTS many, single, MaxMany

MCMaxEvents == [c \in Clients |-> IF c = many THEN MaxMany ELSE 1]
=============================================================================
