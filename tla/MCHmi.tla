------------------------------- MODULE MCHmi -------------------------------
(* An HMI with a handful of commands and two runs.                           *)
EXTENDS Hmi
=============================================================================
