---------------------------- MODULE MCSideCaches ----------------------------
(***************************************************************************)
(* Instances of SideCaches for TLC.                                        *)
(***************************************************************************)
EXTENDS SideCaches

CONSTANTS INC, ABC, t1, t2

\* One prefix is built in, the other is the instance's own.
BuiltinMap == [x \in {INC, ABC} |-> IF x = INC THEN t1 ELSE None]
InitialOwners == {[x \in {INC, ABC} |-> IF x = INC THEN {t1} ELSE {t2}]}

AllWorks ==
    {[kind |-> k, prefix |-> None] : k \in Kinds \ {"get"}}
    \cup {[kind |-> "get", prefix |-> x] : x \in {INC, ABC}}
=============================================================================
