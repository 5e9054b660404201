---------------------------- MODULE MCConfigStore ----------------------------
(***************************************************************************)
(* Instances of ConfigStore for TLC.                                       *)
(***************************************************************************)
EXTENDS ConfigStore, TLC

CONSTANTS p1, p2, dev, prod, good, bad, sso

Add(n, i, policy) ==
    [kind |-> "add", name |-> n, input |-> i, refuse |-> policy = "add",
     verify |-> policy # "unverified", set_default |-> policy = "init"]

Plain(k, n) ==
    [kind |-> k, name |-> n, input |-> good,
     refuse |-> FALSE, verify |-> FALSE, set_default |-> FALSE]

\* Every command line, over two profile names: `sn profile add` with and
\* without --no-verify and --force, and `sn init`.
AllCommands ==
    {Add(n, i, y) : n \in {dev, prod}, i \in {good, bad, sso},
                    y \in {"add", "force", "unverified", "init"}}
    \cup {Plain(k, n) : k \in {"remove", "use", "login", "logout", "read"},
                        n \in {dev, prod}}

Symmetry == Permutations(Proc)
=============================================================================
