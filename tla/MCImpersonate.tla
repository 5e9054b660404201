---------------------------- MODULE MCImpersonate ----------------------------
(***************************************************************************)
(* Instances of Impersonate for TLC.                                       *)
(***************************************************************************)
EXTENDS Impersonate

\* A download on its own, and every kind of wrapped command line.
AllCommands ==
    {[hop |-> FALSE, argv |-> "fine", download |-> TRUE]}
    \cup {[hop |-> TRUE, argv |-> a, download |-> FALSE] : a \in {"fine", "refused", "help"}}
    \cup {[hop |-> TRUE, argv |-> "fine", download |-> TRUE]}
=============================================================================
