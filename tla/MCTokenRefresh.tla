--------------------------- MODULE MCTokenRefresh ---------------------------
(***************************************************************************)
(* Instances of TokenRefresh for TLC.                                      *)
(***************************************************************************)
EXTENDS TokenRefresh

CONSTANTS p1, p2, web, bot

Cmd(k, c) == [kind |-> k, client |-> c]

\* Everything a user may run, one `add --force` per client.
AllCommands ==
    {Cmd(k, web) : k \in {"api", "refresh", "login", "logout", "remove"}}
    \cup {Cmd("readd", c) : c \in Client}

\* One command that finds its token expired, and one reconfiguration.
Reconfigure == {Cmd("api", web), Cmd("readd", bot)}

\* p1 was given a longer --timeout than the others.
HttpTimeouts == [p \in Proc |-> IF p = p1 THEN 2 ELSE 1]
=============================================================================
