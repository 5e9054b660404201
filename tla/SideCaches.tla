---------------------------- MODULE SideCaches ----------------------------
(***************************************************************************)
(* Two caches beside the configuration, filled by many sn processes: the   *)
(* result of a profile's token_command, in credentials.toml, and the       *)
(* number-prefix map of `sn get <number>`, in number_prefixes.toml.  What  *)
(* is cached is fetched without a lock and stored under .sn.lock, so other *)
(* processes may store, log out, remove or rewrite the profile, and the    *)
(* instance may renumber its tables, between the two.                      *)
(***************************************************************************)
EXTENDS Naturals, FiniteSets

CONSTANTS
    Process,
    Works,        \* the command lines: [kind, prefix] records
    Prefix, Table,
    Builtin,      \* prefix -> the built-in table, or None
    Owners,       \* what sys_number may say of all prefixes at first
    MaxRuns,      \* bound: runs of the token command
    MaxRenumbers, \* bound: prefixes the instance moves to another table
    MaxEdits,     \* bound: rewrites of the profile
    None

Kinds == {"use", "refresh", "logout", "edit", "remove", "get"}
Work == [kind : Kinds, prefix : Prefix \cup {None}]

ASSUME SideCachesAssumption ==
    /\ \A w \in Works : w \in Work /\ (w.kind = "get" <=> w.prefix # None)
    /\ Builtin \in [Prefix -> Table \cup {None}]
    /\ Owners \subseteq [Prefix -> SUBSET Table]
    /\ {MaxRuns, MaxRenumbers, MaxEdits} \subseteq Nat
    /\ None \notin Process \cup Table \cup Prefix

VARIABLES
    command,   \* config.toml: which token_command the profile has
    entry,     \* credentials.toml: the profile's entry, with its token_cache
    prefixes,  \* number_prefixes.toml
    lock,      \* the holder of .sn.lock
    loaded,    \* what the holder read
    runs,      \* token commands run so far; each token is named by its run
    expired,   \* the tokens past their stated expiry
    owner,     \* the instance's sys_number: prefix -> tables
    renumbers,
    work, pc,  \* process -> its command line, and where it is
    snapshot,  \* process -> the profile as it resolved it
    token,     \* process -> the token it fetched or found
    table,     \* process -> the table it looks on
    source,    \* process -> where it has it from: "cache", "builtin", "instance"
    told,      \* process -> what it wants stored for its prefix
    outcome,   \* process -> how its command ended
    steady,    \* history: process -> sys_number has not changed since it began
    asked      \* history: process -> what its re-check came to

files == <<command, entry, prefixes>>
locking == <<lock, loaded>>
world == <<runs, expired, owner, renumbers>>
mine == <<snapshot, token, table, source, told, outcome>>
history == <<steady, asked>>
vars == <<files, locking, world, work, pc, mine, history>>

\* A cached token says which run made it, with which command; a token whose
\* command states no expiry is used and never stored.
Token == [run : 1..MaxRuns, command : 0..MaxEdits, expires : BOOLEAN]
Entry == [cache : Token \cup {None}]
CacheLine == [table : Table, fresh : BOOLEAN]
Steps == {"start", "run", "save", "drop", "saving", "dropping", "edit", "editing",
          "logout", "forgetting", "remove", "removing", "cached", "lookup", "store",
          "storing", "locate", "recheck", "restore", "restoring", "retry", "done"}

TypeOK ==
    /\ command \in 0..MaxEdits
    /\ entry \in Entry \cup {None}
    /\ prefixes \in [Prefix -> CacheLine \cup {None}]
    /\ lock \in Process \cup {None}
    /\ lock # None => loaded \in [entry : Entry \cup {None},
                                  prefixes : [Prefix -> CacheLine \cup {None}]]
    /\ runs \in 0..MaxRuns /\ expired \subseteq 1..MaxRuns
    /\ owner \in [Prefix -> SUBSET Table] /\ renumbers \in 0..MaxRenumbers
    /\ work \in [Process -> Works] /\ pc \in [Process -> Steps]
    /\ snapshot \in [Process -> [command : 0..MaxEdits, cache : Token \cup {None}] \cup {None}]
    /\ token \in [Process -> Token \cup {None}]
    /\ table \in [Process -> Table \cup {None}]
    /\ source \in [Process -> {"none", "cache", "builtin", "instance"}]
    /\ told \in [Process -> Table \cup {None}]
    /\ outcome \in [Process -> {"none", "ok", "not found", "refused", "error"}]
    /\ steady \in [Process -> BOOLEAN]
    /\ asked \in [Process -> {"no", "answered", "failed"}]

Init ==
    /\ command = 0 /\ entry = [cache |-> None]
    /\ prefixes = [x \in Prefix |-> None]
    /\ lock = None /\ loaded = None
    /\ runs = 0 /\ expired = {}
    /\ owner \in Owners /\ renumbers = 0
    /\ work \in [Process -> Works] /\ pc = [p \in Process |-> "start"]
    /\ snapshot = [p \in Process |-> None] /\ token = [p \in Process |-> None]
    /\ table = [p \in Process |-> None] /\ source = [p \in Process |-> "none"]
    /\ told = [p \in Process |-> None] /\ outcome = [p \in Process |-> "none"]
    /\ steady = [p \in Process |-> TRUE] /\ asked = [p \in Process |-> "no"]

At(p, step) == pc[p] = step
Goto(p, step) == pc' = [pc EXCEPT ![p] = step]
Done(p, how) == Goto(p, "done") /\ outcome' = [outcome EXCEPT ![p] = how]
Fresh(t) == t # None /\ t.expires /\ t.run \notin expired

-----------------------------------------------------------------------------
\* The lock, around one load and one rename.

\* (mutant) what an earlier holder read is used again
StaleLoad(p, from, to) ==
    /\ At(p, from)
    /\ lock = None
    /\ lock' = p
    /\ loaded' = IF loaded = None THEN [entry |-> entry, prefixes |-> prefixes] ELSE loaded
    /\ Goto(p, to)
    /\ UNCHANGED <<files, world, work, mine, history>>

Acquire(p, from, to) ==
    /\ At(p, from)
    /\ lock = None
    /\ lock' = p
    /\ loaded' = [entry |-> entry, prefixes |-> prefixes]
    /\ Goto(p, to)
    /\ UNCHANGED <<files, world, work, mine, history>>

\* The lock is not to be had for 10 s, or the file not to be written: the
\* commands that own the credentials fail.
GiveUp(p) ==
    /\ \/ pc[p] \in {"save", "drop", "logout", "edit", "remove"} /\ lock' = lock
       \/ pc[p] \in {"saving", "dropping", "forgetting", "editing", "removing"} /\ lock' = None
    /\ Done(p, "error")
    /\ UNCHANGED <<files, loaded, world, work, snapshot, token, table, source, told, history>>

\* For the prefix cache 2 s: it is an optimisation, and goes without.
After(p) == IF pc[p] \in {"store", "storing"} THEN "locate" ELSE "retry"

StoreSkipped(p) ==
    /\ \/ pc[p] \in {"store", "restore"} /\ lock' = lock
       \/ pc[p] \in {"storing", "restoring"} /\ lock' = None
    /\ Goto(p, After(p))
    /\ UNCHANGED <<files, loaded, world, work, mine, history>>

Unlock == lock' = None

-----------------------------------------------------------------------------
\* The token command.

\* ensure_token and force_refresh, from the profile as it was resolved.
Resolve(p) ==
    /\ At(p, "start")
    /\ work[p].kind \in {"use", "refresh"}
    /\ IF entry = None
       THEN Done(p, "error") /\ UNCHANGED <<snapshot, token>>
       ELSE /\ snapshot' = [snapshot EXCEPT ![p] = [command |-> command, cache |-> entry.cache]]
            /\ IF work[p].kind = "use" /\ Fresh(entry.cache)
               THEN token' = [token EXCEPT ![p] = entry.cache] /\ Done(p, "ok")
               ELSE Goto(p, "run") /\ UNCHANGED <<token, outcome>>
    /\ UNCHANGED <<files, locking, world, work, table, source, told, history>>

\* run_command, until its output is read: a token, with or without an expiry,
\* or a failure, a timeout, or output that is no token.
RunCommand(p) ==
    /\ At(p, "run")
    /\ \/ /\ runs < MaxRuns
          /\ runs' = runs + 1
          /\ \E expires \in BOOLEAN :
                /\ token' = [token EXCEPT ![p] =
                       [run |-> runs', command |-> snapshot[p].command, expires |-> expires]]
                /\ IF expires THEN Goto(p, "save") /\ outcome' = outcome
                   ELSE IF snapshot[p].cache # None THEN Goto(p, "drop") /\ outcome' = outcome
                   ELSE Done(p, "ok")
       \/ Done(p, "error") /\ UNCHANGED <<runs, token>>
    /\ UNCHANGED <<files, locking, expired, owner, renumbers, work, snapshot, table,
                   source, told, history>>

\* (mutant) the entry is created when it is missing, as save_oauth_tokens does
CreatesEntry(p) ==
    [cache |-> IF At(p, "saving") THEN token[p] ELSE None]

\* save_token_cache never creates an entry.
CacheSaved(p) ==
    IF loaded.entry = None THEN None
    ELSE [cache |-> IF At(p, "saving") THEN token[p] ELSE None]

SaveToken(p) ==
    /\ pc[p] \in {"saving", "dropping"}
    /\ entry' = CacheSaved(p)
    /\ Unlock
    /\ Done(p, "ok")
    /\ UNCHANGED <<command, prefixes, loaded, world, work, snapshot, token, table,
                   source, told, history>>

\* clear_oauth_tokens
Forget(p) ==
    /\ At(p, "forgetting")
    /\ entry' = IF loaded.entry = None THEN None ELSE [cache |-> None]
    /\ Unlock
    /\ Done(p, "ok")
    /\ UNCHANGED <<command, prefixes, loaded, world, work, snapshot, token, table,
                   source, told, history>>

\* save_profile with another token_command: "any cached result belongs to the
\* old setup".
Edit(p) ==
    /\ At(p, "editing")
    /\ command < MaxEdits
    /\ command' = command + 1
    /\ entry' = [cache |-> None]
    /\ Unlock
    /\ Done(p, "ok")
    /\ UNCHANGED <<prefixes, loaded, world, work, snapshot, token, table, source,
                   told, history>>

Remove(p) ==
    /\ At(p, "removing")
    /\ entry' = None
    /\ Unlock
    /\ Done(p, "ok")
    /\ UNCHANGED <<command, prefixes, loaded, world, work, snapshot, token, table,
                   source, told, history>>

Begin(p) ==
    /\ At(p, "start")
    /\ work[p].kind \in {"logout", "edit", "remove", "get"}
    /\ Goto(p, IF work[p].kind = "get" THEN "cached" ELSE work[p].kind)
    /\ steady' = [steady EXCEPT ![p] = TRUE]
    /\ UNCHANGED <<files, locking, world, work, mine, asked>>

-----------------------------------------------------------------------------
\* The number prefix.

FreshLine(x) == prefixes[x] # None /\ prefixes[x].fresh

\* resolve_prefix, before any request: a fresh cache line, then the map.
CachedTable(p) ==
    /\ At(p, "cached")
    /\ LET x == work[p].prefix
           From(t, where) == /\ table' = [table EXCEPT ![p] = t]
                             /\ source' = [source EXCEPT ![p] = where]
                             /\ Goto(p, "locate")
       IN  IF FreshLine(x) THEN From(prefixes[x].table, "cache")
           ELSE IF Builtin[x] # None THEN From(Builtin[x], "builtin")
           ELSE Goto(p, "lookup") /\ UNCHANGED <<table, source>>
    /\ UNCHANGED <<files, locking, world, work, snapshot, token, told, outcome, history>>

\* lookup_sys_number.  A row with another prefix shows that the term was
\* dropped; sys_number is admin-only; the request may fail.
Lookup(p) ==
    /\ At(p, "lookup")
    /\ LET tables == owner[work[p].prefix]
       IN  \/ \E t \in tables :
                 /\ tables = {t}
                 /\ told' = [told EXCEPT ![p] = t]
                 /\ table' = [table EXCEPT ![p] = t]
                 /\ source' = [source EXCEPT ![p] = "instance"]
                 /\ Goto(p, "store") /\ outcome' = outcome
           \/ /\ Cardinality(tables) # 1
              /\ Done(p, "refused") /\ UNCHANGED <<told, table, source>>
           \/ Done(p, "error") /\ UNCHANGED <<told, table, source>>
    /\ UNCHANGED <<files, locking, world, work, snapshot, token, history>>

\* store_cached, under the lock.
Store(p) ==
    /\ pc[p] \in {"storing", "restoring"}
    /\ prefixes' = [loaded.prefixes EXCEPT ![work[p].prefix] =
                       IF told[p] = None THEN None ELSE [table |-> told[p], fresh |-> TRUE]]
    /\ Unlock
    /\ Goto(p, After(p))
    /\ UNCHANGED <<command, entry, loaded, world, work, mine, history>>

\* The record a get asks for is on the one table that numbers with its prefix.
HasRecord(t, x) == owner[x] = {t}

\* (mutant) a cached table is trusted: a miss is final
MissIsFinal(p) == TRUE

\* Only an answer sys_number has just given is final.
Final(p) == source[p] = "instance"

\* resolve_and_journal on the table: found, absent, or a failed request.
Locate(p) ==
    /\ At(p, "locate")
    /\ \/ HasRecord(table[p], work[p].prefix) /\ Done(p, "ok")
       \/ /\ ~HasRecord(table[p], work[p].prefix)
          /\ IF Final(p) THEN Done(p, "not found")
             ELSE Goto(p, "recheck") /\ outcome' = outcome
       \/ Done(p, "error")
    /\ UNCHANGED <<files, locking, world, work, snapshot, token, table, source, told, history>>

\* recheck_prefix.  Its own failure is swallowed: the not-found stands.
Recheck(p) ==
    /\ At(p, "recheck")
    /\ LET x == work[p].prefix
           tables == owner[x]
           Asked(how) == asked' = [asked EXCEPT ![p] = how]
       IN  \/ \E t \in tables :
                 /\ tables = {t}
                 /\ Asked("answered")
                 /\ told' = [told EXCEPT ![p] = IF Builtin[x] = t THEN None ELSE t]
                 /\ source' = [source EXCEPT ![p] = IF t = table[p] THEN @ ELSE "instance"]
                 /\ table' = [table EXCEPT ![p] = t]
                 \* Forgetting what was never cached is not worth a lock, as
                 \* a look at the file says before the lock is asked for.
                 /\ Goto(p, IF told'[p] = None /\ prefixes[x] = None THEN "retry" ELSE "restore")
           \/ /\ Cardinality(tables) # 1
              /\ told' = [told EXCEPT ![p] = None]
              /\ Goto(p, IF prefixes[x] = None THEN "retry" ELSE "restore")
              /\ UNCHANGED <<source, table>>
              /\ Asked("answered")
           \/ Goto(p, "retry") /\ Asked("failed") /\ UNCHANGED <<source, table, told>>
    /\ UNCHANGED <<files, locking, world, work, snapshot, token, outcome, steady>>

\* The second attempt, when the prefix belongs to another table now.
Retry(p) ==
    /\ At(p, "retry")
    /\ \/ /\ source[p] = "instance"
          /\ Done(p, IF HasRecord(table[p], work[p].prefix) THEN "ok" ELSE "not found")
       \/ source[p] # "instance" /\ Done(p, "not found")
       \/ source[p] = "instance" /\ Done(p, "error")
    /\ UNCHANGED <<files, locking, world, work, snapshot, token, table, source, told, history>>

-----------------------------------------------------------------------------
\* The rest of the world.

\* An administrator gives a prefix to other tables.
Renumber ==
    /\ renumbers < MaxRenumbers
    /\ renumbers' = renumbers + 1
    /\ \E x \in Prefix, tables \in SUBSET Table :
          owner' = [owner EXCEPT ![x] = tables]
    /\ steady' = [p \in Process |-> FALSE]
    /\ UNCHANGED <<files, locking, runs, expired, work, pc, mine, asked>>

\* Time passes: tokens expire, a cache line outlives its seven days.
TokenExpires ==
    /\ \E t \in (1..runs) \ expired : expired' = expired \cup {t}
    /\ UNCHANGED <<files, locking, runs, owner, renumbers, work, pc, mine, history>>

LineAges ==
    /\ lock = None   \* a line's age is read with the line
    /\ \E x \in Prefix :
          /\ FreshLine(x)
          /\ prefixes' = [prefixes EXCEPT ![x] = [table |-> prefixes[x].table, fresh |-> FALSE]]
    /\ UNCHANGED <<command, entry, locking, world, work, pc, mine, history>>

\* A process is killed; the kernel drops its lock.
Crash(p) ==
    /\ pc[p] # "done"
    /\ Done(p, "error")
    /\ lock' = IF lock = p THEN None ELSE lock
    /\ UNCHANGED <<files, loaded, world, work, snapshot, token, table, source, told, history>>

Step(p) ==
    \/ Begin(p) \/ Resolve(p) \/ RunCommand(p)
    \/ Acquire(p, "save", "saving") \/ Acquire(p, "drop", "dropping")
    \/ Acquire(p, "logout", "forgetting") \/ Acquire(p, "edit", "editing")
    \/ Acquire(p, "remove", "removing")
    \/ Acquire(p, "store", "storing") \/ Acquire(p, "restore", "restoring")
    \/ GiveUp(p) \/ StoreSkipped(p)
    \/ SaveToken(p) \/ Forget(p) \/ Edit(p) \/ Remove(p)
    \/ CachedTable(p) \/ Lookup(p) \/ Store(p) \/ Locate(p) \/ Recheck(p) \/ Retry(p)

Next == (\E p \in Process : Step(p) \/ Crash(p)) \/ Renumber \/ TokenExpires \/ LineAges

Spec == Init /\ [][Next]_vars

-----------------------------------------------------------------------------
\* Properties.

\* Whole files are rewritten, and yet a step changes one thing: a process
\* stores its own prefix, and never undoes what another has stored.
StoresLoseNothing ==
    [][/\ \A x, y \in Prefix : prefixes'[x] # prefixes[x] /\ prefixes'[y] # prefixes[y] => x = y
       /\ prefixes' # prefixes => entry' = entry
       /\ lock # None /\ lock' = lock => UNCHANGED files]_vars

\* A profile removed while its token command ran stays removed: only a rewrite
\* of the profile brings its credentials entry back.
RemovedStaysRemoved == [][entry = None /\ entry' # None => command' # command]_vars

\* A stale cache line, or a built-in table the instance no longer numbers with
\* the prefix, never hides a record: when sys_number named one table throughout
\* a get, "not found" can only mean that the re-check's request failed.
StaleCacheIsHarmless ==
    \A p \in Process :
        outcome[p] = "not found" /\ steady[p] /\ Cardinality(owner[work[p].prefix]) = 1 =>
            asked[p] = "failed"

\* (Refuted, see README.)  A cached token was made by the command the profile
\* has now.  A run that
\* was under way when the profile was rewritten puts the old one's back.
CacheIsCurrent == entry # None /\ entry.cache # None => entry.cache.command = command
=============================================================================
