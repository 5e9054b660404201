------------------------------ MODULE MCKeyset ------------------------------
(* The constants of Keyset's runs are given in their configurations. *)
EXTENDS Keyset
=============================================================================
