------------------------------- MODULE MCAmb -------------------------------
(* The constants of Amb's runs are given in their configurations. *)
EXTENDS Amb
=============================================================================
