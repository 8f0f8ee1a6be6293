------------------------------ MODULE MCAlarm -------------------------------
(* Constants for checking Alarm with TLC. *)
EXTENDS Alarm

CONSTANTS a, b, c
=============================================================================
