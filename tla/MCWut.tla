------------------------------- MODULE MCWut -------------------------------
(***************************************************************************)
(* Small instances of Wut.  The exit arguments are one below and one above *)
(* the range 0..255 of a status.                                           *)
(***************************************************************************)
EXTENDS Wut

MCExitArgs == {-1, 256}
NoHazards == {}
=============================================================================
