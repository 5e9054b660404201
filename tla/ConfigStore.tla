----------------------------- MODULE ConfigStore -----------------------------
(***************************************************************************)
(* Concurrent sn invocations over one configuration directory: config.toml *)
(* and credentials.toml, each replaced whole by rename(2), the .sn.lock    *)
(* that serialises writers, and readers that take no lock.                 *)
(*                                                                         *)
(* A process is one invocation.  A profile's configuration is the identity *)
(* of the input that wrote it (instance, auth method and OAuth client all  *)
(* come from it); a credentials entry is the input its secret came from    *)
(* and the input whose client or command minted its cached tokens.         *)
(***************************************************************************)
EXTENDS Naturals, FiniteSets

CONSTANTS
    Proc,       \* sn invocations
    Name,       \* profile names
    Input,      \* what one `sn init` / `sn profile add` was given
    Good,       \* the inputs the instance accepts
    Seeded,     \* the inputs earlier invocations may have left stored
    OAuth,      \* the inputs whose auth method is oauth
    Commands,   \* the command lines an invocation may be started with
    None,       \* an absent entry
    Free        \* the owner of a lock nobody holds

\* The six subcommands that touch the store.  `refuse`, `verify` and
\* `set_default` are SavePolicy's fields and mean something to "add" only,
\* which also stands for `sn init`: its policy is the one with refuse = FALSE
\* and the other two TRUE.
Command ==
    [kind : {"add", "remove", "use", "login", "logout", "read"},
     name : Name, input : Input,
     refuse : BOOLEAN, verify : BOOLEAN, set_default : BOOLEAN]

ASSUME ConfigAssumption ==
    /\ Good \subseteq Input /\ Seeded \subseteq Input /\ OAuth \subseteq Input
    /\ Commands \subseteq Command
    /\ Free \notin Proc

VARIABLES
    profiles,         \* config.toml: profile name -> configuration
    default_profile,  \* config.toml: the profile commands resolve to
    creds,            \* credentials.toml: profile name -> credentials
    lock,             \* the process whose flock on .sn.lock is granted
    pc,               \* where each invocation is
    cmd,              \* what each invocation was asked
    txn,              \* the locked read-modify-write it is in
    image,            \* both files as it loaded them
    snapshot,         \* save_profile's Snapshot, for restore
    view,             \* what its last unlocked read of the two files resolved
    minted,           \* its OAuth login has cached the new tokens
    result,           \* how it ended
    touched           \* history: somebody wrote over what its Snapshot covers

vars == <<profiles, default_profile, creds, lock, pc, cmd, txn, image, snapshot,
          view, minted, result, touched>>
disk == <<profiles, default_profile, creds>>
local == <<cmd, txn, image, snapshot, view, minted, result, touched>>

Store ==
    INSTANCE ProfileStore WITH
        profiles <- profiles, default_profile <- default_profile, creds <- creds

Credential == Store!Credential
File == {"config", "credentials"}
Txn == {"save", "restore", "remove", "use", "tokens", "logout"}
Image == [profiles : [Name -> Input \cup {None}],
          default_profile : Name \cup {None},
          creds : [Name -> Credential \cup {None}]]
Snapshot == [config : Input \cup {None},
             creds : Credential \cup {None},
             prior_default : Name \cup {None}]

\* An absent entry is none of the things a field can hold.
ASSUME NoneAssumption ==
    None \notin Name \cup Input \cup Credential \cup Command \cup Image \cup Snapshot

View == [config : Input \cup {None}, creds : Credential \cup {None}]

Steps == {"check", "wait", "load", "first", "second", "unlock",
          "config", "creds", "verdict"}
Locked == {"load", "first", "second", "unlock"}

TypeOK ==
    /\ Store!StoreType
    /\ lock \in Proc \cup {Free}
    /\ pc \in [Proc -> Steps \cup {"idle", "done"}]
    /\ cmd \in [Proc -> Command \cup {None}]
    /\ txn \in [Proc -> Txn \cup {None}]
    /\ image \in [Proc -> Image \cup {None}]
    /\ snapshot \in [Proc -> Snapshot \cup {None}]
    /\ view \in [Proc -> View]
    /\ minted \in [Proc -> BOOLEAN]
    /\ result \in [Proc -> {"none", "ok", "refused", "rejected", "failed"}]
    /\ touched \in [Proc -> BOOLEAN]

\* Earlier invocations left whole profiles: an entry in both files or neither.
Init ==
    /\ profiles \in [Name -> Seeded \cup {None}]
    /\ default_profile \in {n \in Name : profiles[n] # None} \cup {None}
    /\ creds = [n \in Name |->
                    IF profiles[n] = None THEN None
                    ELSE [secret |-> profiles[n], tokens |-> None]]
    /\ lock = Free
    /\ pc = [p \in Proc |-> "idle"]
    /\ cmd = [p \in Proc |-> None]
    /\ txn = [p \in Proc |-> None]
    /\ image = [p \in Proc |-> None]
    /\ snapshot = [p \in Proc |-> None]
    /\ view = [p \in Proc |-> [config |-> None, creds |-> None]]
    /\ minted = [p \in Proc |-> FALSE]
    /\ result = [p \in Proc |-> "none"]
    /\ touched = [p \in Proc |-> FALSE]

-----------------------------------------------------------------------------
\* What each read-modify-write stores, computed from the files as loaded.

\* config.toml after the transaction t of a process asked c.
NewProfiles(t, c, img, snap) ==
    CASE t = "save"    -> [img.profiles EXCEPT ![c.name] = c.input]
      [] t = "restore" -> [img.profiles EXCEPT ![c.name] = snap.config]
      [] t = "remove"  -> [img.profiles EXCEPT ![c.name] = None]
      [] OTHER         -> img.profiles

NewDefault(t, c, img, snap) ==
    CASE t = "save" /\ c.set_default -> c.name
      [] t = "use" -> c.name
      [] t = "remove" /\ img.default_profile = c.name -> None
      [] t = "restore" /\ c.set_default /\ img.default_profile = c.name ->
             snap.prior_default
      [] OTHER -> img.default_profile

\* (mutant) a rollback forgets credentials.toml
RestoreForgetsCreds(t, c, img, snap, client) ==
    CASE t = "save" ->
             [img.creds EXCEPT ![c.name] = [secret |-> c.input, tokens |-> None]]
      [] t = "remove" -> [img.creds EXCEPT ![c.name] = None]
      [] OTHER -> img.creds

\* Every auth method stores its own secret and clears the others', the cached
\* tokens included.  save_oauth_tokens creates a missing entry
\* (`entry().or_default()`), clear_oauth_tokens never does.
NewCreds(t, c, img, snap, client) ==
    LET old == img.creds[c.name] IN
    CASE t = "save" ->
             [img.creds EXCEPT ![c.name] = [secret |-> c.input, tokens |-> None]]
      [] t = "restore" -> [img.creds EXCEPT ![c.name] = snap.creds]
      [] t = "remove"  -> [img.creds EXCEPT ![c.name] = None]
      [] t = "tokens"  ->
             [img.creds EXCEPT ![c.name] =
                 [secret |-> IF old = None THEN None ELSE old.secret,
                  tokens |-> client]]
      [] t = "logout" /\ old # None ->
             [img.creds EXCEPT ![c.name] = [secret |-> old.secret, tokens |-> None]]
      [] OTHER -> img.creds

\* The file a transaction renames first, and whether it goes on to the other.
ConfigFirst(t) == IF t \in {"tokens", "logout"} THEN "credentials" ELSE "config"  \* (mutant)
FirstFile(t) == IF t \in {"save", "tokens", "logout"} THEN "credentials" ELSE "config"
SecondFile(t) == IF FirstFile(t) = "config" THEN "credentials" ELSE "config"
TwoFiles(t) == t \in {"save", "restore", "remove"}

-----------------------------------------------------------------------------
Goto(p, l) == pc' = [pc EXCEPT ![p] = l]

\* Wait for the lock to run the transaction t.
Request(p, t) ==
    /\ txn' = [txn EXCEPT ![p] = t]
    /\ Goto(p, "wait")

Finish(p, r) ==
    /\ result' = [result EXCEPT ![p] = r]
    /\ Goto(p, "done")

\* An error inside a locked section.  A failed token save is a failed
\* verification, which rolls the saved profile back; any other error ends the
\* invocation, a failed rollback included (`let _ = restore(..)`).
Fail(p) ==
    IF txn[p] = "tokens" /\ snapshot[p] # None
    THEN Request(p, "restore") /\ UNCHANGED result
    ELSE Finish(p, "failed") /\ UNCHANGED txn

Begin(p) ==
    /\ pc[p] = "idle"
    /\ \E c \in Commands :
        /\ cmd' = [cmd EXCEPT ![p] = c]
        /\ CASE c.kind = "add" /\ c.refuse -> Goto(p, "check") /\ UNCHANGED txn
             [] c.kind = "add" /\ ~c.refuse -> Request(p, "save")
             [] c.kind \in {"remove", "use", "logout"} -> Request(p, c.kind)
             [] OTHER -> Goto(p, "config") /\ UNCHANGED txn
    /\ UNCHANGED <<disk, lock, image, snapshot, view, minted, result, touched>>

\* `sn profile add` looks for the name before it prompts, without the lock.
CheckName(p) ==
    /\ pc[p] = "check"
    /\ IF profiles[cmd[p].name] # None
       THEN Finish(p, "refused") /\ UNCHANGED txn
       ELSE Request(p, "save") /\ UNCHANGED result
    /\ UNCHANGED <<disk, lock, cmd, image, snapshot, view, minted, touched>>

\* (mutant) a lock nobody else respects, as on a file rename(2) replaces
AcquireAnyway(p) ==
    /\ pc[p] = "wait"
    /\ lock' = p
    /\ Goto(p, "load")
    /\ UNCHANGED <<disk, local>>

Acquire(p) ==
    /\ pc[p] = "wait" /\ lock = Free
    /\ lock' = p
    /\ Goto(p, "load")
    /\ UNCHANGED <<disk, local>>

\* lock_dir's deadline passes while somebody else holds the lock.
LockTimeout(p) ==
    /\ pc[p] = "wait" /\ lock # Free
    /\ Fail(p)
    /\ UNCHANGED <<disk, lock, cmd, image, snapshot, view, minted, touched>>

\* Whether the transaction gives up on what it loaded.
RefusesMissingOnly(t, c) == t = "use" /\ profiles[c.name] = None  \* (mutant)
Refuses(t, c) ==
    \/ t = "save" /\ c.refuse /\ profiles[c.name] # None
    \/ t = "use" /\ profiles[c.name] = None

\* Load both files under the lock.  save_profile_locked keeps the Snapshot;
\* a refused add and a `use` of a missing profile end here.
Load(p) ==
    /\ pc[p] = "load"
    /\ IF Refuses(txn[p], cmd[p])
       THEN /\ Finish(p, "refused")
            /\ lock' = Free
            /\ UNCHANGED <<image, snapshot, touched>>
       ELSE /\ Goto(p, "first")
            /\ image' = [image EXCEPT ![p] =
                   [profiles |-> profiles, creds |-> creds,
                    default_profile |-> default_profile]]
            /\ IF txn[p] = "save"
               THEN /\ snapshot' = [snapshot EXCEPT ![p] =
                          [config |-> profiles[cmd[p].name],
                           creds |-> creds[cmd[p].name],
                           prior_default |-> default_profile]]
                    /\ touched' = [touched EXCEPT ![p] = FALSE]
               ELSE UNCHANGED <<snapshot, touched>>
            /\ UNCHANGED <<lock, result>>
    /\ UNCHANGED <<disk, cmd, txn, view, minted>>

\* write_atomic: the new contents replace the whole file in one rename.
Rename(p, file) ==
    /\ IF file = "config"
       THEN /\ profiles' = NewProfiles(txn[p], cmd[p], image[p], snapshot[p])
            /\ default_profile' = NewDefault(txn[p], cmd[p], image[p], snapshot[p])
            /\ UNCHANGED creds
       ELSE /\ creds' = NewCreds(txn[p], cmd[p], image[p], snapshot[p], view[p].config)
            /\ UNCHANGED <<profiles, default_profile>>
    /\ touched' = [q \in Proc |->
           \/ touched[q]
           \/ /\ q # p /\ snapshot[q] # None
              /\ cmd[q].name = cmd[p].name \/ default_profile' # default_profile]

WriteFirst(p) ==
    /\ pc[p] = "first"
    /\ Rename(p, FirstFile(txn[p]))
    /\ Goto(p, IF TwoFiles(txn[p]) THEN "second" ELSE "unlock")
    /\ UNCHANGED <<lock, cmd, txn, image, snapshot, view, minted, result>>

WriteSecond(p) ==
    /\ pc[p] = "second"
    /\ Rename(p, SecondFile(txn[p]))
    /\ Goto(p, "unlock")
    /\ UNCHANGED <<lock, cmd, txn, image, snapshot, view, minted, result>>

\* Drop the lock and go on: to the verification of a saved profile, or of the
\* tokens just cached; or out.
Unlock(p) ==
    /\ pc[p] = "unlock"
    /\ lock' = Free
    /\ image' = [image EXCEPT ![p] = None]
    /\ CASE txn[p] = "save" /\ cmd[p].verify -> Goto(p, "config") /\ UNCHANGED <<result, minted>>
         [] txn[p] = "tokens" -> /\ Goto(p, "config")
                                 /\ minted' = [minted EXCEPT ![p] = TRUE]
                                 /\ UNCHANGED result
         [] txn[p] = "restore" -> Finish(p, "rejected") /\ UNCHANGED minted
         [] OTHER -> Finish(p, "ok") /\ UNCHANGED minted
    /\ UNCHANGED <<disk, cmd, txn, snapshot, view, touched>>

\* build_profile: two loads and no lock, config.toml first.
ReadConfig(p) ==
    /\ pc[p] = "config"
    /\ view' = [view EXCEPT ![p] = [config |-> profiles[cmd[p].name], creds |-> None]]
    /\ Goto(p, "creds")
    /\ UNCHANGED <<disk, lock, cmd, txn, image, snapshot, minted, result, touched>>

ReadCreds(p) ==
    /\ pc[p] = "creds"
    /\ view' = [view EXCEPT ![p].creds = creds[cmd[p].name]]
    /\ IF cmd[p].kind = "read"
       THEN Finish(p, "ok")
       ELSE Goto(p, "verdict") /\ UNCHANGED result
    /\ UNCHANGED <<disk, lock, cmd, txn, image, snapshot, minted, touched>>

\* Whether this invocation signs in through OAuth: the input's method decides
\* for an add, the stored one for a login.
SignsIn(p) ==
    IF cmd[p].kind = "add" THEN cmd[p].input \in OAuth ELSE view[p].config \in OAuth

\* complete_oauth_login gets tokens for the client it read and saves them.
Mint(p) ==
    /\ pc[p] = "verdict" /\ ~minted[p] /\ SignsIn(p)
    /\ view[p].config \in OAuth \cap Good
    /\ Request(p, "tokens")
    /\ UNCHANGED <<disk, lock, cmd, image, snapshot, view, minted, result, touched>>

\* The instance accepts what was read: one input's configuration and secret.
Accept(p) ==
    /\ pc[p] = "verdict"
    /\ SignsIn(p) \/ cmd[p].kind = "login" => minted[p]
    /\ view[p].config \in Good
    /\ view[p].creds # None /\ view[p].creds.secret = view[p].config
    /\ Finish(p, "ok")
    /\ UNCHANGED <<disk, lock, cmd, txn, image, snapshot, view, minted, touched>>

\* It refuses, or the network does: save_and_verify rolls its write back.
Reject(p) ==
    /\ pc[p] = "verdict"
    /\ IF snapshot[p] # None
       THEN Request(p, "restore") /\ UNCHANGED result
       ELSE Finish(p, "failed") /\ UNCHANGED txn
    /\ UNCHANGED <<disk, lock, cmd, image, snapshot, view, minted, touched>>

\* A load or a rename fails; dropping the guard releases the lock.
IOError(p) ==
    /\ pc[p] \in {"load", "first", "second"}
    /\ lock' = Free
    /\ image' = [image EXCEPT ![p] = None]
    /\ Fail(p)
    /\ UNCHANGED <<disk, cmd, snapshot, view, minted, touched>>

\* The process is killed; the kernel closes its handle on the lock.
Crash(p) ==
    /\ pc[p] \in Steps
    /\ lock' = IF lock = p THEN Free ELSE lock
    /\ image' = [image EXCEPT ![p] = None]
    /\ Finish(p, "failed")
    /\ UNCHANGED <<disk, cmd, txn, snapshot, view, minted, touched>>

Step(p) ==
    \/ CheckName(p) \/ Acquire(p) \/ LockTimeout(p) \/ Load(p)
    \/ WriteFirst(p) \/ WriteSecond(p) \/ Unlock(p)
    \/ ReadConfig(p) \/ ReadCreds(p) \/ Mint(p) \/ Accept(p) \/ Reject(p)

Next == \E p \in Proc : Begin(p) \/ Step(p) \/ IOError(p) \/ Crash(p)

Spec == Init /\ [][Next]_vars

-----------------------------------------------------------------------------
\* Properties.

\* No lost update: however many invocations rewrite the two whole files, the
\* disk moves as if every profile had slots of its own - each rename changes
\* the slot of the profile its invocation names, and default_profile only to
\* or from that profile.  This is what loading inside the lock is for.
SlotsAreIndependent == Store!Spec

\* Inside the lock what was loaded stays true: until a process renames a file,
\* the file on disk is still the one it loaded.
ImageIsDisk ==
    \A p \in Proc :
        /\ pc[p] \in Locked => lock = p
        /\ pc[p] = "first" =>
               image[p] = [profiles |-> profiles, creds |-> creds,
                           default_profile |-> default_profile]
        /\ pc[p] = "second" =>
               IF SecondFile(txn[p]) = "config"
               THEN /\ profiles = image[p].profiles
                    /\ default_profile = image[p].default_profile
               ELSE creds = image[p].creds

\* Of two `sn profile add`s of one name without --force at most one lands:
\* the config.toml rename of a refusing add never replaces an entry, though
\* its look at the name before the prompts held no lock.
AddNeverClobbers ==
    [][\A p \in Proc :
          pc[p] = "second" /\ txn[p] = "save" /\ cmd[p].refuse /\ pc'[p] = "unlock"
              => profiles[cmd[p].name] = None]_vars

\* A profile whose configuration is on disk without credentials.
Torn(n) == profiles[n] # None /\ creds[n] = None

\* Write ordering keeps an unlocked reader from a configuration without its
\* credentials: no add, removal, login or logout publishes one, whatever it is
\* interrupted by.  The one step that can is a rollback's rename while it
\* reinstates an overwritten profile: it puts config.toml first.
TornOnlyByRollback ==
    [][\A n \in Name : ~Torn(n) /\ Torn(n)' =>
          \E p \in Proc :
             /\ txn[p] = "restore" /\ cmd[p].name = n /\ snapshot[p].config # None
             /\ pc[p] \in {"first", "second"} /\ pc'[p] # pc[p]]_vars

\* default_profile names a profile that is gone.
Dangling == default_profile # None /\ profiles[default_profile] = None

\* `use` re-checks the name under the lock and `remove` clears the default it
\* takes away in the same rename, so only a rollback leaves it dangling.
DanglesOnlyByRollback ==
    [][~Dangling /\ Dangling' =>
          \E p \in Proc :
             pc[p] = "first" /\ pc'[p] = "second" /\ txn[p] = "restore"]_vars

\* What an unlocked reader, or a crash, finds is whole but for what a rollback
\* publishes.
BrokenOnlyByRollback == TornOnlyByRollback /\ DanglesOnlyByRollback

\* `sn init` and `sn profile add` are all or nothing for a profile nobody else
\* wrote meanwhile: on success both files hold the input, verified if asked;
\* after a refused verification - tokens saved on the way or not - both slots
\* and the default are what save_profile found.
AllOrNothing ==
    \A p \in Proc : pc[p] = "done" /\ snapshot[p] # None /\ ~touched[p] =>
        LET n == cmd[p].name IN
        /\ result[p] = "ok" =>
               /\ profiles[n] = cmd[p].input
               /\ creds[n] # None /\ creds[n].secret = cmd[p].input
               /\ cmd[p].verify => cmd[p].input \in Good
               /\ cmd[p].set_default => default_profile = n
        /\ result[p] = "rejected" =>
               /\ profiles[n] = snapshot[p].config
               /\ creds[n] = snapshot[p].creds
               /\ default_profile = snapshot[p].prior_default

\* (Refuted, see README.)  What `save_and_verify` says of itself: once every
\* invocation has ended and none failed half way, what is stored is what the
\* instance accepted or what was there before.
NoUnverifiedSurvivor ==
    (\A p \in Proc : pc[p] = "done" /\ result[p] # "failed") =>
        \A n \in Name : profiles[n] \in Good \cup Seeded \cup {None}
=============================================================================
