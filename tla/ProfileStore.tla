---------------------------- MODULE ProfileStore ----------------------------
(***************************************************************************)
(* What sn's configuration directory promises its users: a store in which  *)
(* every profile has a slot of its own in each of the two files, and every *)
(* write touches the slots of one profile only.  The program keeps all the *)
(* profiles in two whole files that many processes rewrite; ConfigStore    *)
(* models that and implements this module.                                 *)
(***************************************************************************)
CONSTANTS Name,    \* profile names
          Input,   \* what one `sn init` / `sn profile add` was given
          None     \* an absent entry

VARIABLES profiles,         \* config.toml's [profiles] table
          default_profile,  \* config.toml's default_profile
          creds             \* credentials.toml's [profiles] table

store == <<profiles, default_profile, creds>>

\* A credentials entry: the secret one input carried and the cached tokens.
Credential == [secret : Input \cup {None}, tokens : Input \cup {None}]

StoreType ==
    /\ profiles \in [Name -> Input \cup {None}]
    /\ default_profile \in Name \cup {None}
    /\ creds \in [Name -> Credential \cup {None}]

\* Replace the profile n's slot of config.toml.  The default moves only to n
\* (it was asked for) or away from n (n went, or its claim was undone).
PutConfig(n) ==
    /\ \E e \in Input \cup {None} : profiles' = [profiles EXCEPT ![n] = e]
    /\ \/ default_profile' = default_profile
       \/ default_profile' = n
       \/ default_profile = n /\ default_profile' \in Name \cup {None}
    /\ creds' = creds

\* Replace the profile n's slot of credentials.toml.
PutCreds(n) ==
    /\ \E c \in Credential \cup {None} : creds' = [creds EXCEPT ![n] = c]
    /\ UNCHANGED <<profiles, default_profile>>

Init == StoreType

Next == \E n \in Name : PutConfig(n) \/ PutCreds(n)

Spec == Init /\ [][Next]_store
=============================================================================
