----------------------------- MODULE CacheProofs -----------------------------
(***************************************************************************)
(* Proofs about the caches.  SideCaches, for any number of processes,      *)
(* command lines, prefixes and tables: stores lose nothing, what was       *)
(* removed stays removed, and a stale cache line hides no record.          *)
(* SchemaCache, for any dictionary, any number of workers and any changes  *)
(* meanwhile: no shard is lost, and what is published is complete.         *)
(***************************************************************************)
EXTENDS SideCaches, SchemaCache, TLAPS, FiniteSetTheorems, SequenceTheorems,
        WellFoundedInduction

Holding == {"saving", "dropping", "forgetting", "editing", "removing", "storing", "restoring"}
Looking == {"cached", "lookup", "store", "storing", "locate", "recheck", "restore",
            "restoring", "retry"}
Rechecked == {"restore", "restoring", "retry"}

\* Where a process takes the lock, and where it is then.
Hops == {<<"save", "saving">>, <<"drop", "dropping">>, <<"logout", "forgetting">>,
         <<"edit", "editing">>, <<"remove", "removing">>, <<"store", "storing">>,
         <<"restore", "restoring">>}

\* The lock is its holder's alone, and what the holder loaded is what the
\* files still are: nobody writes without it.
Locking ==
    /\ \A p \in Process : pc[p] \in Holding <=> lock = p
    /\ lock # None => loaded = [entry |-> entry, prefixes |-> prefixes]

Outcomes == {"none", "ok", "not found", "refused", "error"}

\* Only a get looks for a table, and a command has an outcome when it is done.
Commands ==
    \A p \in Process :
        /\ pc[p] \in Looking => work[p].kind = "get"
        /\ pc[p] = "start" => source[p] = "none"
        /\ outcome[p] = "not found" => pc[p] = "done"

\* The token command runs for a profile that was resolved.
Profile == [command : 0..MaxEdits, cache : Token \cup {None}]
Resolved == \A p \in Process : pc[p] = "run" => snapshot[p] \in Profile

\* What the instance said holds while sys_number stands still: a table it named
\* is the owner, one that missed is not, and a re-check that was answered left
\* a source other than the instance only when no single table is.
Answered(p) ==
    LET tables == owner[work[p].prefix]
    IN  steady[p] =>
            /\ source[p] = "instance" => tables = {table[p]}
            /\ pc[p] = "recheck" => source[p] # "instance" /\ tables # {table[p]}
            /\ pc[p] \in Rechecked /\ source[p] # "instance" /\ Cardinality(tables) = 1 =>
                   asked[p] = "failed"

NotHidden(p) ==
    outcome[p] = "not found" /\ steady[p] /\ Cardinality(owner[work[p].prefix]) = 1 =>
        asked[p] = "failed"

Answering == \A p \in Process : Answered(p) /\ NotHidden(p)

Inv == TypeOK /\ Locking /\ Commands /\ Resolved /\ Answering
-----------------------------------------------------------------------------
\* It holds of every pair of files the processes may find.
LEMMA InitInv == Init => Inv
<1>. SUFFICES ASSUME Init PROVE Inv
  OBVIOUS
<1>. USE SideCachesAssumption DEF Init
<1>1. TypeOK
  BY DEF TypeOK, Entry, Steps
<1>2. Locking /\ Commands /\ Resolved
  BY DEF Locking, Holding, Commands, Looking, Resolved
<1>3. Answering
  BY DEF Answering, Answered, NotHidden, Rechecked
<1>. QED  BY <1>1, <1>2, <1>3 DEF Inv
-----------------------------------------------------------------------------
\* What a step of the token command or of an edit does to the prefix lookups.
Elsewhere(p) ==
    /\ pc[p] \notin Looking \cup {"done"}
    /\ \E s \in Steps \ (Looking \cup {"start"}) : Goto(p, s)
    /\ outcome' = outcome \/ \E how \in {"ok", "error"} : outcome' = [outcome EXCEPT ![p] = how]
    /\ UNCHANGED <<work, owner, table, source, steady, asked>>

\* And what storing a prefix, or going without, does to them.
Stores(p) ==
    /\ \/ pc[p] \in {"store", "storing"} /\ \E s \in {"storing", "locate"} : Goto(p, s)
       \/ pc[p] \in {"restore", "restoring"} /\ \E s \in {"restoring", "retry"} : Goto(p, s)
    /\ UNCHANGED <<work, owner, table, source, steady, asked, outcome>>

\* The steps of token commands, edits and removals are of the first kind.
LEMMA Elsewheres ==
    ASSUME Inv, NEW p \in Process,
           \/ Resolve(p) \/ RunCommand(p) \/ GiveUp(p)
           \/ SaveToken(p) \/ Forget(p) \/ Edit(p) \/ Remove(p)
           \/ Acquire(p, "save", "saving") \/ Acquire(p, "drop", "dropping")
           \/ Acquire(p, "logout", "forgetting") \/ Acquire(p, "edit", "editing")
           \/ Acquire(p, "remove", "removing")
    PROVE  Elsewhere(p)
<1>. USE DEF At, Goto, Done, files, locking, world, mine, history, Elsewhere, Steps, Looking
<1>1. CASE Resolve(p)
  <2>1. /\ pc[p] = "start"
        /\ \/ (Goto(p, "run") /\ outcome' = outcome)
           \/ \E how \in {"ok", "error"} : Done(p, how)
        /\ UNCHANGED <<work, owner, table, source, steady, asked>>
    BY <1>1 DEF Resolve
  <2>. QED  BY <2>1
<1>2. CASE RunCommand(p)
  <2>1. /\ pc[p] = "run"
        /\ \/ (Goto(p, "save") \/ Goto(p, "drop")) /\ outcome' = outcome
           \/ Done(p, "ok") \/ Done(p, "error")
        /\ UNCHANGED <<work, owner, table, source, steady, asked>>
    BY <1>2 DEF RunCommand
  <2>. QED  BY <2>1
<1>3. CASE GiveUp(p)
  BY <1>3 DEF GiveUp
<1>4. CASE SaveToken(p) \/ Forget(p) \/ Edit(p) \/ Remove(p)
  BY <1>4 DEF SaveToken, Forget, Edit, Remove
<1>5. CASE \/ Acquire(p, "save", "saving") \/ Acquire(p, "drop", "dropping")
           \/ Acquire(p, "logout", "forgetting") \/ Acquire(p, "edit", "editing")
           \/ Acquire(p, "remove", "removing")
  BY <1>5 DEF Acquire
<1>. QED  BY <1>1, <1>2, <1>3, <1>4, <1>5

\* The steps of a store are of the second.
LEMMA Storings ==
    ASSUME Inv, NEW p \in Process,
           \/ StoreSkipped(p) \/ Store(p)
           \/ Acquire(p, "store", "storing") \/ Acquire(p, "restore", "restoring")
    PROVE  Stores(p)
BY DEF StoreSkipped, Store, Acquire, After, At, Goto, files, world, mine, history, Stores

\* So a step of a process is one of these.
LEMMA KindsOfStep ==
    ASSUME Inv, NEW p \in Process, Step(p) \/ Crash(p)
    PROVE  \/ Begin(p) \/ Elsewhere(p) \/ Stores(p) \/ CachedTable(p) \/ Lookup(p)
           \/ Locate(p) \/ Recheck(p) \/ Retry(p) \/ Crash(p)
<1>1. CASE \/ Resolve(p) \/ RunCommand(p) \/ GiveUp(p)
           \/ SaveToken(p) \/ Forget(p) \/ Edit(p) \/ Remove(p)
           \/ Acquire(p, "save", "saving") \/ Acquire(p, "drop", "dropping")
           \/ Acquire(p, "logout", "forgetting") \/ Acquire(p, "edit", "editing")
           \/ Acquire(p, "remove", "removing")
  BY <1>1, Elsewheres
<1>2. CASE \/ StoreSkipped(p) \/ Store(p)
           \/ Acquire(p, "store", "storing") \/ Acquire(p, "restore", "restoring")
  BY <1>2, Storings
<1>. QED  BY <1>1, <1>2 DEF Step

\* The files change with the lock only.
LEMMA StepKeepsLocking == Inv /\ [Next]_vars => Locking'
<1>. SUFFICES ASSUME Inv, [Next]_vars PROVE Locking'
  OBVIOUS
<1>0. pc \in [Process -> Steps] /\ Locking
  BY DEF Inv, TypeOK
<1>. USE SideCachesAssumption, <1>0 DEF At, Goto, Done, files, locking, world, mine, history,
           Locking, Holding
<1>1. ASSUME NEW p \in Process, Begin(p) PROVE Locking'
  BY <1>1 DEF Begin
<1>2. ASSUME NEW p \in Process, Resolve(p) PROVE Locking'
  BY <1>2 DEF Resolve
<1>3. ASSUME NEW p \in Process, RunCommand(p) PROVE Locking'
  BY <1>3 DEF RunCommand
<1>4. ASSUME NEW p \in Process, NEW hop \in Hops, Acquire(p, hop[1], hop[2]) PROVE Locking'
  BY <1>4 DEF Acquire, Hops
<1>5. ASSUME NEW p \in Process, GiveUp(p) PROVE Locking'
  BY <1>5 DEF GiveUp
<1>6. ASSUME NEW p \in Process, StoreSkipped(p) PROVE Locking'
  BY <1>6 DEF StoreSkipped, After
<1>7. ASSUME NEW p \in Process, SaveToken(p) PROVE Locking'
  BY <1>7 DEF SaveToken, CacheSaved, Unlock
<1>8. ASSUME NEW p \in Process, Forget(p) PROVE Locking'
  BY <1>8 DEF Forget, Unlock
<1>9. ASSUME NEW p \in Process, Edit(p) PROVE Locking'
  BY <1>9 DEF Edit, Unlock
<1>10. ASSUME NEW p \in Process, Remove(p) PROVE Locking'
  BY <1>10 DEF Remove, Unlock
<1>11. ASSUME NEW p \in Process, CachedTable(p) PROVE Locking'
  BY <1>11 DEF CachedTable, FreshLine
<1>12. ASSUME NEW p \in Process, Lookup(p) PROVE Locking'
  BY <1>12 DEF Lookup
<1>13. ASSUME NEW p \in Process, Store(p) PROVE Locking'
  BY <1>13 DEF Store, Unlock, After
<1>14. ASSUME NEW p \in Process, Locate(p) PROVE Locking'
  BY <1>14 DEF Locate, HasRecord, Final
<1>15. ASSUME NEW p \in Process, Recheck(p) PROVE Locking'
  BY <1>15 DEF Recheck
<1>16. ASSUME NEW p \in Process, Retry(p) PROVE Locking'
  BY <1>16 DEF Retry, HasRecord
<1>17. ASSUME NEW p \in Process, Crash(p) PROVE Locking'
  BY <1>17 DEF Crash
<1>18. CASE Renumber
  BY <1>18 DEF Renumber
<1>19. CASE TokenExpires
  BY <1>19 DEF TokenExpires
<1>20. CASE LineAges
  BY <1>20 DEF LineAges, FreshLine
<1>21. CASE UNCHANGED vars
  BY <1>21 DEF vars
<1>. QED
  BY <1>1, <1>2, <1>3, <1>4, <1>5, <1>6, <1>7, <1>8, <1>9, <1>10, <1>11,
     <1>12, <1>13, <1>14, <1>15, <1>16, <1>17, <1>18, <1>19, <1>20,
     <1>21 DEF Next, Step, Hops

\* What the assignments to one process's variables do to it and to the others.
LEMMA Going ==
    ASSUME Inv, NEW p \in Process
    PROVE  /\ \A s : Goto(p, s) => pc'[p] = s /\ \A q \in Process \ {p} : pc'[q] = pc[q]
           /\ \A how : Done(p, how) =>
                  /\ pc'[p] = "done" /\ outcome'[p] = how
                  /\ \A q \in Process \ {p} : pc'[q] = pc[q] /\ outcome'[q] = outcome[q]
           /\ \A v : source' = [source EXCEPT ![p] = v] =>
                  source'[p] = v /\ \A q \in Process \ {p} : source'[q] = source[q]
           /\ \A v : table' = [table EXCEPT ![p] = v] =>
                  table'[p] = v /\ \A q \in Process \ {p} : table'[q] = table[q]
           /\ \A v : asked' = [asked EXCEPT ![p] = v] =>
                  asked'[p] = v /\ \A q \in Process \ {p} : asked'[q] = asked[q]
<1>1. /\ DOMAIN pc = Process /\ DOMAIN outcome = Process /\ DOMAIN source = Process
      /\ DOMAIN table = Process /\ DOMAIN asked = Process
  BY DEF Inv, TypeOK
<1>2. \A s : Goto(p, s) => pc'[p] = s /\ \A q \in Process \ {p} : pc'[q] = pc[q]
  BY <1>1 DEF Goto
<1>3. \A how : outcome' = [outcome EXCEPT ![p] = how] =>
          outcome'[p] = how /\ \A q \in Process \ {p} : outcome'[q] = outcome[q]
  BY <1>1
<1>4. \A v : source' = [source EXCEPT ![p] = v] =>
          source'[p] = v /\ \A q \in Process \ {p} : source'[q] = source[q]
  BY <1>1
<1>5. \A v : table' = [table EXCEPT ![p] = v] =>
          table'[p] = v /\ \A q \in Process \ {p} : table'[q] = table[q]
  BY <1>1
<1>6. \A v : asked' = [asked EXCEPT ![p] = v] =>
          asked'[p] = v /\ \A q \in Process \ {p} : asked'[q] = asked[q]
  BY <1>1
<1>. QED  BY <1>2, <1>3, <1>4, <1>5, <1>6 DEF Done

\* What one process may know changes only with its own steps.
Untouched(q) ==
    /\ steady'[q] = steady[q] /\ source'[q] = source[q] /\ table'[q] = table[q]
    /\ pc'[q] = pc[q] /\ asked'[q] = asked[q] /\ outcome'[q] = outcome[q]
    /\ work' = work /\ owner' = owner

\* A step of one process touches no other.
LEMMA OthersUntouched ==
    ASSUME Inv, NEW p \in Process, Step(p) \/ Crash(p), NEW q \in Process \ {p}
    PROVE  Untouched(q)
<1>. USE DEF files, locking, world, mine, history
<1>1. CASE Begin(p)
  <2>1. steady'[q] = steady[q]
    BY <1>1 DEF Begin, Inv, TypeOK
  <2>2. pc'[q] = pc[q]
    BY <1>1, Going DEF Begin
  <2>. QED  BY <1>1, <2>1, <2>2 DEF Begin, Untouched
<1>2. CASE Elsewhere(p)
  <2>1. pc'[q] = pc[q]
    BY <1>2, Going DEF Elsewhere
  <2>2. outcome'[q] = outcome[q]
    BY <1>2 DEF Elsewhere, Inv, TypeOK
  <2>. QED  BY <1>2, <2>1, <2>2 DEF Elsewhere, Untouched
<1>3. CASE Stores(p)
  <2>1. pc'[q] = pc[q]
    BY <1>3, Going DEF Stores
  <2>. QED  BY <1>3, <2>1 DEF Stores, Untouched
<1>4. CASE CachedTable(p)
  <2>1. pc'[q] = pc[q] /\ source'[q] = source[q] /\ table'[q] = table[q]
    BY <1>4, Going DEF CachedTable
  <2>. QED  BY <1>4, <2>1 DEF CachedTable, Untouched
<1>5. CASE Lookup(p)
  <2>1. /\ pc'[q] = pc[q] /\ source'[q] = source[q] /\ table'[q] = table[q]
        /\ outcome'[q] = outcome[q]
    BY <1>5, Going DEF Lookup
  <2>. QED  BY <1>5, <2>1 DEF Lookup, Untouched
<1>6. CASE Locate(p)
  <2>1. pc'[q] = pc[q] /\ outcome'[q] = outcome[q]
    BY <1>6, Going DEF Locate
  <2>. QED  BY <1>6, <2>1 DEF Locate, Untouched
<1>7. CASE Recheck(p)
  <2>1. pc'[q] = pc[q] /\ source'[q] = source[q]
    BY <1>7, Going DEF Recheck
  <2>2. table'[q] = table[q] /\ asked'[q] = asked[q]
    BY <1>7, Going DEF Recheck
  <2>. QED  BY <1>7, <2>1, <2>2 DEF Recheck, Untouched
<1>8. CASE Retry(p)
  <2>1. pc'[q] = pc[q] /\ outcome'[q] = outcome[q]
    BY <1>8, Going DEF Retry
  <2>. QED  BY <1>8, <2>1 DEF Retry, Untouched
<1>9. CASE Crash(p)
  <2>1. pc'[q] = pc[q] /\ outcome'[q] = outcome[q]
    BY <1>9, Going DEF Crash
  <2>. QED  BY <1>9, <2>1 DEF Crash, Untouched
<1>. QED
  BY KindsOfStep, <1>1, <1>2, <1>3, <1>4, <1>5, <1>6, <1>7, <1>8, <1>9

\* The steps of a lookup, and what they leave for its owner to know.
CommandMoves(p) ==
    /\ work' = work /\ pc'[p] # "start"
    /\ pc'[p] \in Looking => pc[p] \in Looking \/ work[p].kind = "get"
    /\ outcome'[p] = "not found" => pc'[p] = "done"

\* Every step of a process is one of them.
LEMMA OwnCommand ==
    ASSUME Inv, NEW p \in Process, Step(p) \/ Crash(p)
    PROVE  CommandMoves(p)
<1>. USE DEF At, files, locking, world, mine, history, CommandMoves
<1>0. Commands /\ pc[p] \in Steps
  BY DEF Inv, TypeOK
<1>o. outcome' = outcome => (outcome'[p] = "not found" => pc[p] = "done")
  BY <1>0 DEF Commands
<1>1. CASE Begin(p)
  <2>1. pc'[p] = IF work[p].kind = "get" THEN "cached" ELSE work[p].kind
    BY <1>1, Going DEF Begin
  <2>2. pc[p] = "start" /\ work[p].kind \in {"logout", "edit", "remove", "get"}
    BY <1>1 DEF Begin
  <2>. QED  BY <1>1, <1>o, <2>1, <2>2 DEF Begin, Looking
<1>2. CASE Elsewhere(p)
  <2>1. pc'[p] \in Steps \ (Looking \cup {"start"}) /\ pc[p] # "done" /\ work' = work
    BY <1>2, Going DEF Elsewhere
  <2>2. outcome' = outcome \/ outcome'[p] \in {"ok", "error"}
    BY <1>2 DEF Elsewhere, Inv, TypeOK
  <2>. QED  BY <1>o, <2>1, <2>2
<1>3. CASE Stores(p)
  <2>1. pc'[p] \in {"storing", "locate", "restoring", "retry"}
    BY <1>3, Going DEF Stores
  <2>2. /\ pc[p] \in {"store", "storing", "restore", "restoring"}
        /\ work' = work /\ outcome' = outcome
    BY <1>3 DEF Stores
  <2>. QED  BY <1>o, <2>1, <2>2 DEF Looking
<1>4. CASE CachedTable(p)
  <2>1. pc'[p] \in {"lookup", "locate"}
    BY <1>4, Going DEF CachedTable
  <2>2. pc[p] = "cached" /\ work' = work /\ outcome' = outcome
    BY <1>4 DEF CachedTable
  <2>. QED  BY <1>o, <2>1, <2>2 DEF Looking
<1>5. CASE Lookup(p)
  <2>1. \/ (Goto(p, "store") /\ outcome' = outcome)
        \/ Done(p, "refused") \/ Done(p, "error")
    BY <1>5 DEF Lookup
  <2>2. pc[p] = "lookup" /\ work' = work
    BY <1>5 DEF Lookup
  <2>3. (pc'[p] = "store" /\ outcome' = outcome) \/ pc'[p] = "done"
    BY <2>1, Going
  <2>. QED  BY <1>o, <2>2, <2>3 DEF Looking
<1>6. CASE Locate(p)
  <2>1. \/ (Goto(p, "recheck") /\ outcome' = outcome)
        \/ Done(p, "ok") \/ Done(p, "not found") \/ Done(p, "error")
    BY <1>6 DEF Locate
  <2>2. pc[p] = "locate" /\ work' = work
    BY <1>6 DEF Locate
  <2>3. (pc'[p] = "recheck" /\ outcome' = outcome) \/ pc'[p] = "done"
    BY <2>1, Going
  <2>. QED  BY <1>o, <2>2, <2>3 DEF Looking
<1>7. CASE Recheck(p)
  <2>1. pc'[p] \in {"restore", "retry"}
    BY <1>7, Going DEF Recheck
  <2>2. pc[p] = "recheck" /\ work' = work /\ outcome' = outcome
    BY <1>7 DEF Recheck
  <2>. QED  BY <1>o, <2>1, <2>2 DEF Looking
<1>8. CASE Retry(p)
  <2>1. Done(p, "ok") \/ Done(p, "not found") \/ Done(p, "error")
    BY <1>8 DEF Retry
  <2>2. work' = work /\ pc'[p] = "done"
    BY <1>8, <2>1, Going DEF Retry
  <2>. QED  BY <2>2 DEF Looking
<1>9. CASE Crash(p)
  <2>1. work' = work /\ pc'[p] = "done"
    BY <1>9, Going DEF Crash
  <2>. QED  BY <2>1 DEF Looking
<1>. QED
  BY KindsOfStep, <1>1, <1>2, <1>3, <1>4, <1>5, <1>6, <1>7, <1>8, <1>9

\* Only a get goes on to look for a table.
LEMMA StepKeepsCommands == Inv /\ [Next]_vars => Commands'
<1>. SUFFICES ASSUME Inv, [Next]_vars PROVE Commands'
  OBVIOUS
<1>0. Commands
  BY DEF Inv
<1>1. ASSUME NEW p \in Process, Step(p) \/ Crash(p) PROVE Commands'
  <2>1. CommandMoves(p) /\ \A q \in Process \ {p} : Untouched(q)
    BY <1>1, OwnCommand, OthersUntouched
  <2>. SUFFICES ASSUME NEW q \in Process
       PROVE  /\ pc'[q] \in Looking => work'[q].kind = "get"
              /\ pc'[q] = "start" => source'[q] = "none"
              /\ outcome'[q] = "not found" => pc'[q] = "done"
    BY DEF Commands
  <2>2. CASE q = p
    BY <1>0, <2>1, <2>2 DEF Commands, CommandMoves
  <2>3. CASE q # p
    BY <1>0, <2>1, <2>3 DEF Commands, Untouched
  <2>. QED  BY <2>2, <2>3
<1>2. CASE Renumber \/ TokenExpires \/ LineAges \/ UNCHANGED vars
  <2>1. UNCHANGED <<pc, work, source, outcome>>
    BY <1>2 DEF Renumber, TokenExpires, LineAges, vars, files, locking, world, mine, history
  <2>. QED  BY <1>0, <2>1 DEF Commands
<1>. QED  BY <1>1, <1>2 DEF Next

\* What a process knows is not disturbed by others while the instance stands still.
LEMMA OthersKnow ==
    ASSUME NEW q \in Process, Answered(q) /\ NotHidden(q), Untouched(q)
    PROVE  Answered(q)' /\ NotHidden(q)'
BY DEF Answered, NotHidden, Untouched

\* A process's own step keeps what it has learnt.
LEMMA OwnAnswers ==
    ASSUME Inv, NEW q \in Process, Step(q) \/ Crash(q)
    PROVE  Answered(q)' /\ NotHidden(q)'
<1>0. Answered(q) /\ NotHidden(q) /\ Commands /\ pc[q] \in Steps
  BY DEF Inv, Answering, TypeOK
<1>g. /\ \A how : Done(q, how) => pc'[q] = "done" /\ outcome'[q] = how
      /\ \A s : Goto(q, s) => pc'[q] = s
  BY Going
<1>d. /\ DOMAIN source = Process /\ DOMAIN table = Process /\ DOMAIN asked = Process
  BY DEF Inv, TypeOK
<1>s. /\ \A v : source' = [source EXCEPT ![q] = v] => source'[q] = v
      /\ \A v : table' = [table EXCEPT ![q] = v] => table'[q] = v
      /\ \A v : asked' = [asked EXCEPT ![q] = v] => asked'[q] = v
  BY <1>d
<1>. USE DEF At, files, locking, world, mine, history
<1>n. outcome' = outcome => (outcome'[q] = "not found" => pc[q] = "done")
  BY <1>0 DEF Commands
<1>a. ASSUME UNCHANGED <<steady, source, table, asked, work, owner>>,
             pc'[q] = "recheck" => pc[q] = "recheck",
             pc'[q] \in Rechecked => pc[q] \in Rechecked
      PROVE  Answered(q)'
  BY <1>0, <1>a DEF Answered
<1>1. CASE Begin(q)
  <2>1. pc[q] = "start" /\ pc'[q] \in {"cached", "logout", "edit", "remove"}
    BY <1>1, Going DEF Begin
  <2>2. UNCHANGED <<source, table, outcome, work, owner>>
    BY <1>1 DEF Begin
  <2>3. source'[q] = "none"
    BY <1>0, <2>1, <2>2 DEF Commands
  <2>4. outcome'[q] # "not found"
    BY <1>n, <2>1, <2>2
  <2>. QED  BY <2>1, <2>3, <2>4 DEF Answered, NotHidden, Rechecked
<1>2. CASE Elsewhere(q)
  <2>1. pc'[q] \in Steps \ (Looking \cup {"start"}) /\ pc[q] # "done"
    BY <1>2, Going DEF Elsewhere
  <2>2. UNCHANGED <<steady, source, table, asked, work, owner>>
    BY <1>2 DEF Elsewhere
  <2>3. outcome' = outcome \/ outcome'[q] \in {"ok", "error"}
    BY <1>2 DEF Elsewhere, Inv, TypeOK
  <2>4. Answered(q)'
    BY <1>a, <2>1, <2>2 DEF Looking, Rechecked
  <2>5. outcome'[q] # "not found"
    BY <1>n, <2>1, <2>3
  <2>. QED  BY <2>4, <2>5 DEF NotHidden
<1>3. CASE Stores(q)
  <2>1. \/ pc[q] \in {"store", "storing"} /\ pc'[q] \in {"storing", "locate"}
        \/ pc[q] \in {"restore", "restoring"} /\ pc'[q] \in {"restoring", "retry"}
    BY <1>3, Going DEF Stores
  <2>2. UNCHANGED <<steady, source, table, asked, work, owner, outcome>>
    BY <1>3 DEF Stores
  <2>3. Answered(q)'
    BY <1>a, <2>1, <2>2 DEF Rechecked
  <2>4. outcome'[q] # "not found"
    BY <1>n, <2>1, <2>2
  <2>. QED  BY <2>3, <2>4 DEF NotHidden
<1>4. CASE CachedTable(q)
  <2>1. pc[q] = "cached" /\ UNCHANGED <<steady, asked, outcome, work, owner>>
    BY <1>4 DEF CachedTable
  <2>2. /\ pc'[q] \in {"lookup", "locate"}
        /\ UNCHANGED <<table, source>> \/ source'[q] \in {"cache", "builtin"}
    BY <1>4, Going DEF CachedTable
  <2>3. outcome'[q] # "not found"
    BY <1>n, <2>1
  <2>4. CASE UNCHANGED <<table, source>>
    BY <1>a, <2>1, <2>2, <2>3, <2>4 DEF Rechecked, NotHidden
  <2>5. CASE source'[q] \in {"cache", "builtin"}
    BY <2>2, <2>3, <2>5 DEF Rechecked, Answered, NotHidden
  <2>. QED  BY <2>2, <2>4, <2>5
<1>5. CASE Lookup(q)
  <2>1. pc[q] = "lookup" /\ UNCHANGED <<steady, asked, work, owner>>
    BY <1>5 DEF Lookup
  <2>2. CASE UNCHANGED <<table, source>> /\ \E how \in {"refused", "error"} : Done(q, how)
    <3>1. pc'[q] = "done" /\ outcome'[q] # "not found"
      BY <2>2, <1>g
    <3>. QED  BY <1>a, <2>1, <2>2, <3>1 DEF Rechecked, NotHidden
  <2>3. CASE /\ Goto(q, "store") /\ outcome' = outcome
             /\ source' = [source EXCEPT ![q] = "instance"]
             /\ \E t \in owner[work[q].prefix] :
                   owner[work[q].prefix] = {t} /\ table' = [table EXCEPT ![q] = t]
    <3>t. PICK t \in owner[work[q].prefix] :
               owner[work[q].prefix] = {t} /\ table' = [table EXCEPT ![q] = t]
      BY <2>3
    <3>u. table'[q] = t
      BY <3>t, <1>s
    <3>s. pc'[q] = "store" /\ source'[q] = "instance"
      BY <2>3, <1>g, <1>s
    <3>1. pc'[q] = "store" /\ source'[q] = "instance" /\ owner[work[q].prefix] = {table'[q]}
      BY <3>t, <3>u, <3>s
    <3>2. outcome'[q] # "not found"
      BY <1>n, <2>1, <2>3
    <3>. QED  BY <2>1, <3>1, <3>2 DEF Rechecked, Answered, NotHidden
  <2>. QED  BY <1>5, <2>2, <2>3 DEF Lookup
<1>6. CASE Locate(q)
  <2>1. /\ pc[q] = "locate"
        /\ UNCHANGED <<steady, asked, work, owner, source, table>>
    BY <1>6 DEF Locate
  <2>2. \/ Done(q, "ok") \/ Done(q, "error")
        \/ /\ owner[work[q].prefix] # {table[q]}
           /\ \/ source[q] = "instance" /\ Done(q, "not found")
              \/ source[q] # "instance" /\ Goto(q, "recheck") /\ outcome' = outcome
    BY <1>6 DEF Locate, HasRecord, Final
  <2>3. CASE Done(q, "ok") \/ Done(q, "error")
    <3>0. pc'[q] = "done" /\ (outcome'[q] = "ok" \/ outcome'[q] = "error")
      BY <2>3, <1>g
    <3>1. pc'[q] = "done" /\ outcome'[q] # "not found"
      BY <3>0
    <3>. QED  BY <1>a, <2>1, <3>1 DEF Rechecked, NotHidden
  <2>4. CASE /\ owner[work[q].prefix] # {table[q]} /\ source[q] = "instance"
             /\ Done(q, "not found")
    <3>1. pc'[q] = "done"
      BY <2>4, <1>g
    <3>2. Answered(q)'
      BY <1>a, <2>1, <3>1 DEF Rechecked
    <3>3. ~steady[q]
      BY <1>0, <2>4 DEF Answered
    <3>. QED  BY <2>1, <3>2, <3>3 DEF NotHidden
  <2>5. CASE /\ owner[work[q].prefix] # {table[q]} /\ source[q] # "instance"
             /\ Goto(q, "recheck") /\ outcome' = outcome
    <3>1. pc'[q] = "recheck" /\ outcome'[q] # "not found"
      BY <1>n, <2>1, <2>5, <1>g
    <3>. QED  BY <2>1, <2>5, <3>1 DEF Rechecked, Answered, NotHidden
  <2>. QED  BY <2>2, <2>3, <2>4, <2>5
<1>7. CASE Recheck(q)
  <2>1. pc[q] = "recheck" /\ UNCHANGED <<steady, outcome, work, owner>>
    BY <1>7 DEF Recheck
  <2>2. pc'[q] \in {"restore", "retry"}
    BY <1>7, Going DEF Recheck
  <2>3. outcome'[q] # "not found"
    BY <1>n, <2>1
  <2>4. \/ \E t \in owner[work[q].prefix] :
              /\ owner[work[q].prefix] = {t}
              /\ source' = [source EXCEPT ![q] = IF t = table[q] THEN @ ELSE "instance"]
              /\ table' = [table EXCEPT ![q] = t]
        \/ Cardinality(owner[work[q].prefix]) # 1 /\ UNCHANGED <<source, table>>
        \/ asked' = [asked EXCEPT ![q] = "failed"] /\ UNCHANGED <<source, table>>
    BY <1>7 DEF Recheck
  <2>5. CASE Cardinality(owner[work[q].prefix]) # 1 /\ UNCHANGED <<source, table>>
    BY <1>0, <2>1, <2>2, <2>3, <2>5 DEF Answered, NotHidden
  <2>6. CASE asked' = [asked EXCEPT ![q] = "failed"] /\ UNCHANGED <<source, table>>
    <3>1. asked'[q] = "failed"
      BY <2>6, <1>s
    <3>. QED  BY <1>0, <2>1, <2>2, <2>3, <2>6, <3>1 DEF Answered, NotHidden
  <2>7. ASSUME NEW t \in owner[work[q].prefix], owner[work[q].prefix] = {t},
               source' = [source EXCEPT ![q] = IF t = table[q] THEN @ ELSE "instance"],
               table' = [table EXCEPT ![q] = t]
        PROVE  Answered(q)' /\ NotHidden(q)'
    <3>1. owner[work[q].prefix] = {table'[q]} /\ table'[q] = t
      BY <2>7, <1>s
    <3>2. source'[q] = IF t = table[q] THEN source[q] ELSE "instance"
      BY <2>7 DEF Inv, TypeOK
    <3>3. steady[q] => t # table[q]
      BY <1>0, <2>1, <2>7 DEF Answered
    <3>. QED  BY <2>1, <2>2, <2>3, <3>1, <3>2, <3>3 DEF Answered, NotHidden
  <2>. QED  BY <2>4, <2>5, <2>6, <2>7
<1>8. CASE Retry(q)
  <2>1. /\ pc[q] = "retry"
        /\ UNCHANGED <<steady, asked, work, owner, source, table>>
    BY <1>8 DEF Retry
  <2>2. \/ source[q] = "instance" /\ owner[work[q].prefix] = {table[q]} /\ Done(q, "ok")
        \/ source[q] = "instance" /\ owner[work[q].prefix] # {table[q]} /\ Done(q, "not found")
        \/ source[q] # "instance" /\ Done(q, "not found")
        \/ Done(q, "error")
    BY <1>8 DEF Retry, HasRecord
  <2>3. pc'[q] = "done"
    BY <2>2, <1>g
  <2>4. Answered(q)'
    BY <1>a, <2>1, <2>3 DEF Rechecked
  <2>5. outcome'[q] = "not found" =>
            \/ source[q] # "instance"
            \/ source[q] = "instance" /\ owner[work[q].prefix] # {table[q]}
    BY <2>2, <1>g
  <2>6. NotHidden(q)'
    BY <1>0, <2>1, <2>5 DEF Answered, NotHidden, Rechecked
  <2>. QED  BY <2>4, <2>6
<1>9. CASE Crash(q)
  <2>1. pc'[q] = "done" /\ outcome'[q] = "error"
    BY <1>9, Going DEF Crash
  <2>2. UNCHANGED <<steady, source, table, asked, work, owner>>
    BY <1>9 DEF Crash
  <2>. QED  BY <1>a, <2>1, <2>2 DEF Rechecked, NotHidden
<1>. QED
  BY KindsOfStep, <1>1, <1>2, <1>3, <1>4, <1>5, <1>6, <1>7, <1>8, <1>9

\* Every step keeps what a lookup has learnt.
LEMMA StepKeepsAnswers == Inv /\ [Next]_vars => Answering'
<1>. SUFFICES ASSUME Inv, [Next]_vars, NEW q \in Process PROVE Answered(q)' /\ NotHidden(q)'
  BY DEF Answering
<1>0. Answered(q) /\ NotHidden(q)
  BY DEF Inv, Answering
<1>1. ASSUME NEW p \in Process, Step(p) \/ Crash(p) PROVE Answered(q)' /\ NotHidden(q)'
  <2>1. CASE p = q
    BY <1>1, <2>1, OwnAnswers
  <2>2. CASE p # q
    BY <1>0, <1>1, <2>2, OthersUntouched, OthersKnow
  <2>. QED  BY <2>1, <2>2
<1>2. CASE Renumber
  <2>1. ~steady'[q]
    BY <1>2 DEF Renumber
  <2>. QED  BY <2>1 DEF Answered, NotHidden
<1>3. CASE TokenExpires \/ LineAges \/ UNCHANGED vars
  <2>1. UNCHANGED <<steady, source, table, pc, asked, outcome, work, owner>>
    BY <1>3 DEF TokenExpires, LineAges, vars, files, locking, world, mine, history
  <2>. QED  BY <1>0, <2>1 DEF Answered, NotHidden
<1>. QED  BY <1>1, <1>2, <1>3 DEF Next

\* A token command has a profile.
LEMMA StepKeepsResolved == Inv /\ [Next]_vars => Resolved'
<1>. SUFFICES ASSUME Inv, [Next]_vars PROVE Resolved'
  OBVIOUS
<1>0. pc \in [Process -> Steps] /\ snapshot \in [Process -> Profile \cup {None}] /\ Resolved
  BY DEF Inv, TypeOK, Profile
<1>. USE <1>0 DEF At, Goto, Done, files, locking, world, mine, history, Resolved
<1>1. ASSUME NEW p \in Process, Begin(p) PROVE Resolved'
  BY <1>1 DEF Begin
<1>2. ASSUME NEW p \in Process, Resolve(p) PROVE Resolved'
  <2>1. entry # None => [command |-> command, cache |-> entry.cache] \in Profile
    BY DEF Inv, TypeOK, Entry, Profile
  <2>2. Goto(p, "run") => snapshot' = [snapshot EXCEPT ![p] = [command |-> command,
                                                               cache |-> entry.cache]]
    BY <1>2 DEF Resolve
  <2>. QED  BY <1>2, <2>1, <2>2 DEF Resolve
<1>3. ASSUME NEW p \in Process, RunCommand(p) PROVE Resolved'
  <2>1. pc'[p] # "run" /\ snapshot' = snapshot /\ \A q \in Process \ {p} : pc'[q] = pc[q]
    BY <1>3 DEF RunCommand
  <2>. QED  BY <2>1
<1>4. ASSUME NEW p \in Process, NEW from, NEW to \in Steps \ {"run"}, Acquire(p, from, to) PROVE Resolved'
  BY <1>4 DEF Acquire
<1>5. ASSUME NEW p \in Process, GiveUp(p) PROVE Resolved'
  BY <1>5 DEF GiveUp
<1>6. ASSUME NEW p \in Process, StoreSkipped(p) PROVE Resolved'
  BY <1>6 DEF StoreSkipped, After
<1>7. ASSUME NEW p \in Process, SaveToken(p) PROVE Resolved'
  BY <1>7 DEF SaveToken, CacheSaved, Unlock
<1>8. ASSUME NEW p \in Process, Forget(p) PROVE Resolved'
  BY <1>8 DEF Forget, Unlock
<1>9. ASSUME NEW p \in Process, Edit(p) PROVE Resolved'
  BY <1>9 DEF Edit, Unlock
<1>10. ASSUME NEW p \in Process, Remove(p) PROVE Resolved'
  BY <1>10 DEF Remove, Unlock
<1>11. ASSUME NEW p \in Process, CachedTable(p) PROVE Resolved'
  <2>1. (\E s \in {"locate", "lookup"} : Goto(p, s)) /\ snapshot' = snapshot
    BY <1>11 DEF CachedTable
  <2>. QED  BY <2>1
<1>12. ASSUME NEW p \in Process, Lookup(p) PROVE Resolved'
  <2>1. (\E s \in {"store", "done"} : Goto(p, s)) /\ snapshot' = snapshot
    BY <1>12 DEF Lookup
  <2>. QED  BY <2>1
<1>13. ASSUME NEW p \in Process, Store(p) PROVE Resolved'
  BY <1>13 DEF Store, Unlock, After
<1>14. ASSUME NEW p \in Process, Locate(p) PROVE Resolved'
  <2>1. (\E s \in {"recheck", "done"} : Goto(p, s)) /\ snapshot' = snapshot
    BY <1>14 DEF Locate
  <2>. QED  BY <2>1
<1>15. ASSUME NEW p \in Process, Recheck(p) PROVE Resolved'
  <2>1. (\E s \in {"retry", "restore"} : Goto(p, s)) /\ snapshot' = snapshot
    BY <1>15 DEF Recheck
  <2>. QED  BY <2>1
<1>16. ASSUME NEW p \in Process, Retry(p) PROVE Resolved'
  BY <1>16 DEF Retry
<1>17. ASSUME NEW p \in Process, Crash(p) PROVE Resolved'
  BY <1>17 DEF Crash
<1>18. CASE Renumber
  BY <1>18 DEF Renumber
<1>19. CASE TokenExpires
  BY <1>19 DEF TokenExpires
<1>20. CASE LineAges
  BY <1>20 DEF LineAges, FreshLine
<1>21. CASE UNCHANGED vars
  BY <1>21 DEF vars
<1>. QED
  BY <1>1, <1>2, <1>3, <1>4, <1>5, <1>6, <1>7, <1>8, <1>9, <1>10, <1>11,
     <1>12, <1>13, <1>14, <1>15, <1>16, <1>17, <1>18, <1>19, <1>20,
     <1>21 DEF Next, Step, Steps

\* A get has a prefix.
LEMMA Getting ==
    ASSUME Inv, NEW p \in Process, pc[p] \in Looking
    PROVE  work[p].prefix \in Prefix
<1>1. work[p] \in Works /\ work[p].kind = "get"
  BY DEF Inv, TypeOK, Commands
<1>. QED  BY <1>1, SideCachesAssumption DEF Work

\* Every step keeps the types.
LEMMA StepKeepsType == Inv /\ [Next]_vars => TypeOK'
<1>. SUFFICES ASSUME Inv, [Next]_vars PROVE TypeOK'
  OBVIOUS
<1>a. /\ pc \in [Process -> Steps] /\ outcome \in [Process -> Outcomes]
      /\ token \in [Process -> Token \cup {None}] /\ told \in [Process -> Table \cup {None}]
      /\ table \in [Process -> Table \cup {None}]
      /\ source \in [Process -> {"none", "cache", "builtin", "instance"}]
      /\ steady \in [Process -> BOOLEAN] /\ asked \in [Process -> {"no", "answered", "failed"}]
      /\ work \in [Process -> Works] /\ snapshot \in [Process -> Profile \cup {None}]
  BY DEF Inv, TypeOK, Outcomes, Profile
<1>b. /\ entry \in Entry \cup {None} /\ prefixes \in [Prefix -> CacheLine \cup {None}]
      /\ owner \in [Prefix -> SUBSET Table] /\ lock \in Process \cup {None}
  BY DEF Inv, TypeOK
<1>c. /\ MaxRuns \in Nat /\ MaxRenumbers \in Nat /\ MaxEdits \in Nat
      /\ command \in 0..MaxEdits /\ runs \in 0..MaxRuns /\ expired \subseteq 1..MaxRuns
      /\ renumbers \in 0..MaxRenumbers
  BY SideCachesAssumption DEF Inv, TypeOK
<1>d. lock # None => loaded \in [entry : Entry \cup {None},
                                 prefixes : [Prefix -> CacheLine \cup {None}]]
  BY DEF Inv, TypeOK
<1>. USE DEF At, Goto, Done, files, locking, world, mine, history
<1>1. ASSUME NEW p \in Process, Begin(p) PROVE TypeOK'
  BY <1>1, <1>a, <1>b, <1>c, <1>d DEF Begin, TypeOK, Steps, Entry, Outcomes, Profile
<1>2. ASSUME NEW p \in Process, Resolve(p) PROVE TypeOK'
  <2>1. entry # None => entry.cache \in Token \cup {None}
    BY <1>b DEF Entry
  <2>2. /\ snapshot' \in [Process -> Profile \cup {None}]
        /\ token' \in [Process -> Token \cup {None}]
    BY <1>2, <1>a, <1>c, <2>1 DEF Resolve, Profile
  <2>3. pc' \in [Process -> Steps] /\ outcome' \in [Process -> Outcomes]
    <3>1. \/ pc' = [pc EXCEPT ![p] = "done"] /\ outcome' = [outcome EXCEPT ![p] = "error"]
          \/ pc' = [pc EXCEPT ![p] = "done"] /\ outcome' = [outcome EXCEPT ![p] = "ok"]
          \/ pc' = [pc EXCEPT ![p] = "run"] /\ outcome' = outcome
      BY <1>2 DEF Resolve
    <3>2. pc' \in [Process -> Steps]
      BY <3>1, <1>a DEF Steps
    <3>3. outcome' \in [Process -> Outcomes]
      BY <3>1, <1>a DEF Outcomes
    <3>. QED  BY <3>2, <3>3
  <2>. QED  BY <1>2, <2>2, <2>3, <1>a, <1>b, <1>c, <1>d DEF Resolve, TypeOK, Steps, Entry, Outcomes, Profile
<1>3. ASSUME NEW p \in Process, RunCommand(p) PROVE TypeOK'
  <2>1. snapshot[p].command \in 0..MaxEdits
    BY <1>3 DEF RunCommand, Inv, Resolved, Profile
  <2>2. runs' \in 0..MaxRuns /\ token' \in [Process -> Token \cup {None}]
    <3>1. CASE UNCHANGED <<runs, token>>
      BY <1>a, <1>c, <3>1
    <3>2. CASE ~UNCHANGED <<runs, token>>
      <4>1. /\ runs < MaxRuns /\ runs' = runs + 1
            /\ \E expires \in BOOLEAN :
                 token' = [token EXCEPT ![p] =
                     [run |-> runs', command |-> snapshot[p].command, expires |-> expires]]
        BY <1>3, <3>2 DEF RunCommand
      <4>2. runs' \in 0..MaxRuns /\ runs' \in 1..MaxRuns
        BY <1>c, <4>1
      <4>. QED  BY <1>a, <4>1, <4>2, <2>1 DEF Token
    <3>. QED  BY <3>1, <3>2
  <2>3. pc' \in [Process -> Steps] /\ outcome' \in [Process -> Outcomes]
    <3>1. \/ \E how \in {"ok", "error"} : Done(p, how)
          \/ /\ \E s \in {"save", "drop"} : Goto(p, s)
             /\ outcome' = outcome
      BY <1>3 DEF RunCommand
    <3>2. pc' \in [Process -> Steps]
      BY <3>1, <1>a DEF Steps
    <3>3. outcome' \in [Process -> Outcomes]
      BY <3>1, <1>a DEF Outcomes
    <3>. QED  BY <3>2, <3>3
  <2>. QED  BY <1>3, <2>2, <2>3, <1>a, <1>b, <1>c, <1>d DEF RunCommand, TypeOK, Steps, Entry, Outcomes, Profile
<1>4. ASSUME NEW p \in Process, NEW from, NEW to \in Steps, Acquire(p, from, to) PROVE TypeOK'
  BY <1>4, <1>a, <1>b, <1>c, <1>d DEF Acquire, TypeOK, Steps, Entry, Outcomes, Profile
<1>5. ASSUME NEW p \in Process, GiveUp(p) PROVE TypeOK'
  BY <1>5, <1>a, <1>b, <1>c, <1>d DEF GiveUp, TypeOK, Steps, Entry, Outcomes, Profile
<1>6. ASSUME NEW p \in Process, StoreSkipped(p) PROVE TypeOK'
  BY <1>6, <1>a, <1>b, <1>c, <1>d DEF StoreSkipped, After, TypeOK, Steps, Entry, Outcomes, Profile
<1>7. ASSUME NEW p \in Process, SaveToken(p) PROVE TypeOK'
  BY <1>7, <1>a, <1>b, <1>c, <1>d DEF SaveToken, CacheSaved, Unlock, TypeOK, Steps, Entry, Outcomes, Profile
<1>8. ASSUME NEW p \in Process, Forget(p) PROVE TypeOK'
  BY <1>8, <1>a, <1>b, <1>c, <1>d DEF Forget, Unlock, TypeOK, Steps, Entry, Outcomes, Profile
<1>9. ASSUME NEW p \in Process, Edit(p) PROVE TypeOK'
  <2>1. command' \in 0..MaxEdits
    BY <1>9, <1>c DEF Edit
  <2>2. entry' \in Entry /\ lock' = None
    BY <1>9 DEF Edit, Unlock, Entry
  <2>. QED  BY <1>9, <2>1, <2>2, <1>a, <1>b, <1>c, <1>d DEF Edit, TypeOK, Steps, Entry, Outcomes, Profile
<1>10. ASSUME NEW p \in Process, Remove(p) PROVE TypeOK'
  BY <1>10, <1>a, <1>b, <1>c, <1>d DEF Remove, Unlock, TypeOK, Steps, Entry, Outcomes, Profile
<1>11. ASSUME NEW p \in Process, CachedTable(p) PROVE TypeOK'
  <2>1. work[p].prefix \in Prefix
    BY <1>11, Getting DEF CachedTable, Looking
  <2>2. /\ \/ table' = table
           \/ /\ FreshLine(work[p].prefix)
              /\ table' = [table EXCEPT ![p] = prefixes[work[p].prefix].table]
           \/ Builtin[work[p].prefix] # None
              /\ table' = [table EXCEPT ![p] = Builtin[work[p].prefix]]
        /\ \/ source' = source
           \/ \E where \in {"cache", "builtin"} : source' = [source EXCEPT ![p] = where]
        /\ \E s \in {"locate", "lookup"} : Goto(p, s)
        /\ UNCHANGED <<files, locking, world, work, snapshot, token, told, outcome, history>>
    BY <1>11 DEF CachedTable
  <2>3. table' \in [Process -> Table \cup {None}]
    BY <2>1, <2>2, <1>a, <1>b, SideCachesAssumption DEF FreshLine, CacheLine
  <2>4. pc' \in [Process -> Steps] /\ source' \in [Process -> {"none", "cache", "builtin", "instance"}]
    BY <2>2, <1>a DEF Steps
  <2>. QED  BY <2>2, <2>3, <2>4, <1>a, <1>b, <1>c, <1>d DEF TypeOK, Steps, Entry, Outcomes, Profile
<1>12. ASSUME NEW p \in Process, Lookup(p) PROVE TypeOK'
  <2>1. work[p].prefix \in Prefix
    BY <1>12, Getting DEF Lookup, Looking
  <2>2. /\ \/ /\ \E t \in owner[work[p].prefix] :
                    told' = [told EXCEPT ![p] = t] /\ table' = [table EXCEPT ![p] = t]
              /\ source' = [source EXCEPT ![p] = "instance"]
              /\ Goto(p, "store") /\ outcome' = outcome
           \/ /\ \E how \in {"refused", "error"} : Done(p, how)
              /\ UNCHANGED <<told, table, source>>
        /\ UNCHANGED <<files, locking, world, work, snapshot, token, history>>
    BY <1>12 DEF Lookup
  <2>3. /\ pc' \in [Process -> Steps]
        /\ source' \in [Process -> {"none", "cache", "builtin", "instance"}]
    BY <2>2, <1>a DEF Steps
  <2>5. outcome' \in [Process -> Outcomes]
    BY <2>2, <1>a DEF Outcomes
  <2>4. told' \in [Process -> Table \cup {None}] /\ table' \in [Process -> Table \cup {None}]
    BY <2>1, <2>2, <1>a, <1>b
  <2>. QED  BY <2>2, <2>3, <2>4, <2>5, <1>a, <1>b, <1>c, <1>d DEF TypeOK, Steps, Entry, Outcomes, Profile
<1>13. ASSUME NEW p \in Process, Store(p) PROVE TypeOK'
  <2>1. work[p].prefix \in Prefix
    BY <1>13, Getting DEF Store, Looking
  <2>2. loaded.prefixes = prefixes
    BY <1>13, SideCachesAssumption DEF Store, Inv, Locking, Holding
  <2>3. prefixes' \in [Prefix -> CacheLine \cup {None}]
    BY <1>13, <2>1, <2>2, <1>a, <1>b DEF Store, CacheLine
  <2>. QED  BY <1>13, <2>3, <1>a, <1>b, <1>c, <1>d DEF Store, Unlock, After, TypeOK, Steps, Entry, Outcomes, Profile
<1>14. ASSUME NEW p \in Process, Locate(p) PROVE TypeOK'
  <2>1. /\ \/ \E how \in {"ok", "not found", "error"} : Done(p, how)
           \/ (Goto(p, "recheck") /\ outcome' = outcome)
        /\ UNCHANGED <<files, locking, world, work, snapshot, token, table, source, told, history>>
    BY <1>14 DEF Locate
  <2>2. pc' \in [Process -> Steps]
    BY <2>1, <1>a DEF Steps
  <2>3. outcome' \in [Process -> Outcomes]
    BY <2>1, <1>a DEF Outcomes
  <2>. QED  BY <2>1, <2>2, <2>3, <1>a, <1>b, <1>c, <1>d DEF TypeOK, Steps, Entry, Outcomes, Profile
<1>15. ASSUME NEW p \in Process, Recheck(p) PROVE TypeOK'
  <2>1. work[p].prefix \in Prefix
    BY <1>15, Getting DEF Recheck, Looking
  <2>2. /\ \/ /\ \E t \in owner[work[p].prefix] :
                    /\ table' = [table EXCEPT ![p] = t]
                    /\ \E u \in {None, t} : told' = [told EXCEPT ![p] = u]
              /\ \E u \in {source[p], "instance"} : source' = [source EXCEPT ![p] = u]
           \/ told' = [told EXCEPT ![p] = None] /\ UNCHANGED <<table, source>>
           \/ UNCHANGED <<source, table, told>>
        /\ \E how \in {"answered", "failed"} : asked' = [asked EXCEPT ![p] = how]
        /\ \E s \in {"retry", "restore"} : Goto(p, s)
        /\ UNCHANGED <<files, locking, world, work, snapshot, token, outcome, steady>>
    BY <1>15 DEF Recheck
  <2>3. /\ pc' \in [Process -> Steps]
        /\ asked' \in [Process -> {"no", "answered", "failed"}]
        /\ source' \in [Process -> {"none", "cache", "builtin", "instance"}]
    BY <2>2, <1>a DEF Steps
  <2>4. told' \in [Process -> Table \cup {None}] /\ table' \in [Process -> Table \cup {None}]
    BY <2>1, <2>2, <1>a, <1>b
  <2>. QED  BY <2>2, <2>3, <2>4, <1>a, <1>b, <1>c, <1>d DEF TypeOK, Steps, Entry, Outcomes, Profile
<1>16. ASSUME NEW p \in Process, Retry(p) PROVE TypeOK'
  BY <1>16, <1>a, <1>b, <1>c, <1>d DEF Retry, TypeOK, Steps, Entry, Outcomes, Profile
<1>17. ASSUME NEW p \in Process, Crash(p) PROVE TypeOK'
  BY <1>17, <1>a, <1>b, <1>c, <1>d DEF Crash, TypeOK, Steps, Entry, Outcomes, Profile
<1>18. CASE Renumber
  <2>1. renumbers' \in 0..MaxRenumbers /\ owner' \in [Prefix -> SUBSET Table]
    BY <1>18, <1>b, <1>c DEF Renumber
  <2>. QED  BY <1>18, <2>1, <1>a, <1>b, <1>c, <1>d DEF Renumber, TypeOK, Steps, Entry, Outcomes, Profile
<1>19. CASE TokenExpires
  <2>1. expired' \subseteq 1..MaxRuns
    BY <1>19, <1>c DEF TokenExpires
  <2>. QED  BY <1>19, <2>1, <1>a, <1>b, <1>c, <1>d DEF TokenExpires, TypeOK, Steps, Entry, Outcomes, Profile
<1>20. CASE LineAges
  <2>1. PICK x \in Prefix : /\ FreshLine(x)
                            /\ prefixes' = [prefixes EXCEPT ![x] = [table |-> prefixes[x].table,
                                                                    fresh |-> FALSE]]
    BY <1>20 DEF LineAges
  <2>2. prefixes' \in [Prefix -> CacheLine \cup {None}]
    BY <1>b, <2>1 DEF FreshLine, CacheLine
  <2>. QED  BY <1>20, <2>2, <1>a, <1>b, <1>c, <1>d DEF LineAges, TypeOK, Steps, Entry, Outcomes, Profile
<1>21. CASE UNCHANGED vars
  BY <1>21, <1>a, <1>b, <1>c, <1>d DEF vars, TypeOK, Steps, Entry, Outcomes, Profile
<1>. QED
  BY <1>1, <1>2, <1>3, <1>4, <1>5, <1>6, <1>7, <1>8, <1>9, <1>10, <1>11,
     <1>12, <1>13, <1>14, <1>15, <1>16, <1>17, <1>18, <1>19, <1>20,
     <1>21 DEF Next, Step, Steps

-----------------------------------------------------------------------------
\* Every step keeps the invariant.
LEMMA StepKeepsInv == Inv /\ [Next]_vars => Inv'
BY StepKeepsType, StepKeepsLocking, StepKeepsCommands, StepKeepsResolved, StepKeepsAnswers
   DEF Inv

\* What a step does to the files: most do nothing, one rewrites the credentials
\* entry and one a line of the prefixes, both as the lock's holder.
Leaves == UNCHANGED files
RewritesEntry ==
    /\ lock' # lock /\ prefixes' = prefixes
    /\ command' # command \/ entry' = None \/ entry # None
RewritesLine ==
    /\ lock' # lock \/ lock = None
    /\ entry' = entry /\ command' = command
    /\ \E x \in Prefix : \A y \in Prefix \ {x} : prefixes'[y] = prefixes[y]

\* No other step changes a file.
LEMMA FileSteps == Inv /\ [Next]_vars => Leaves \/ RewritesEntry \/ RewritesLine
<1>. SUFFICES ASSUME Inv, [Next]_vars PROVE Leaves \/ RewritesEntry \/ RewritesLine
  OBVIOUS
<1>1. prefixes \in [Prefix -> CacheLine \cup {None}] /\ command \in 0..MaxEdits
  BY DEF Inv, TypeOK
<1>2. ASSUME NEW p \in Process, pc[p] \in Holding PROVE lock = p /\ p # None /\ loaded.entry = entry
                                                      /\ loaded.prefixes = prefixes
  BY <1>2, SideCachesAssumption DEF Inv, Locking
<1>3. ASSUME NEW p \in Process, SaveToken(p) \/ Forget(p) \/ Remove(p) \/ Edit(p)
      PROVE  RewritesEntry
  <2>1. pc[p] \in Holding /\ lock' = None /\ prefixes' = prefixes
    BY <1>3 DEF SaveToken, Forget, Remove, Edit, Unlock, At, Holding
  <2>2. command' # command \/ entry' = None \/ loaded.entry # None
    BY <1>1, <1>3 DEF SaveToken, CacheSaved, Forget, Remove, Edit
  <2>. QED  BY <1>2, <2>1, <2>2 DEF RewritesEntry
<1>4. ASSUME NEW p \in Process, Store(p) PROVE RewritesLine
  <2>1. pc[p] \in Holding /\ pc[p] \in Looking /\ lock' = None
    BY <1>4 DEF Store, Unlock, Holding, Looking
  <2>2. \A y \in Prefix \ {work[p].prefix} : prefixes'[y] = prefixes[y]
    BY <1>1, <1>2, <1>4, <2>1 DEF Store
  <2>3. work[p].prefix \in Prefix
    BY <2>1, Getting
  <2>4. lock' # lock /\ entry' = entry /\ command' = command
    BY <1>2, <1>4, <2>1 DEF Store
  <2>. QED  BY <2>2, <2>3, <2>4 DEF RewritesLine
<1>5. CASE LineAges
  <2>1. PICK x \in Prefix : prefixes' = [prefixes EXCEPT ![x] = [table |-> prefixes[x].table,
                                                                 fresh |-> FALSE]]
    BY <1>5 DEF LineAges
  <2>2. \A y \in Prefix \ {x} : prefixes'[y] = prefixes[y]
    BY <1>1, <2>1
  <2>3. lock = None /\ entry' = entry /\ command' = command
    BY <1>5 DEF LineAges
  <2>. QED  BY <2>2, <2>3 DEF RewritesLine
<1>6. ASSUME NEW p \in Process,
             \/ Begin(p) \/ Resolve(p) \/ RunCommand(p) \/ GiveUp(p) \/ StoreSkipped(p)
             \/ CachedTable(p) \/ Lookup(p) \/ Locate(p) \/ Recheck(p) \/ Retry(p) \/ Crash(p)
      PROVE  Leaves
  BY <1>6 DEF Begin, Resolve, RunCommand, GiveUp, StoreSkipped, CachedTable, Lookup, Locate,
              Recheck, Retry, Crash, Leaves
<1>7. ASSUME NEW p \in Process, NEW from, NEW to, Acquire(p, from, to) PROVE Leaves
  BY <1>7 DEF Acquire, Leaves
<1>8. CASE Renumber \/ TokenExpires \/ UNCHANGED vars
  BY <1>8 DEF Renumber, TokenExpires, vars, files, Leaves
<1>. QED  BY <1>3, <1>4, <1>5, <1>6, <1>7, <1>8 DEF Next, Step

\* The inductive invariant holds of every behaviour.
THEOREM InvAlways == Spec => []Inv
<1>1. Init => Inv
  BY InitInv
<1>2. Inv /\ [Next]_vars => Inv'
  BY StepKeepsInv
<1>. QED  BY <1>1, <1>2, PTL DEF Spec

\* A stale cache line or a renumbered built-in prefix hides no record from a
\* get, for any number of processes that store and drop lines meanwhile: if
\* sys_number named one table throughout, "not found" means that the re-check's
\* own request failed.
THEOREM NoRecordHidden == Spec => []StaleCacheIsHarmless
<1>1. Inv => StaleCacheIsHarmless
  BY DEF Inv, Answering, NotHidden, StaleCacheIsHarmless
<1>. QED  BY <1>1, InvAlways, PTL

\* Whole-file rewrites lose no update of another process: one prefix changes
\* at a time, never together with the credentials, and only at the end of a
\* locked section.
THEOREM NothingLost == Spec => StoresLoseNothing
<1>1. Inv /\ [Next]_vars =>
        [/\ \A x, y \in Prefix : prefixes'[x] # prefixes[x] /\ prefixes'[y] # prefixes[y] => x = y
         /\ prefixes' # prefixes => entry' = entry
         /\ lock # None /\ lock' = lock => UNCHANGED files]_vars
  BY FileSteps DEF Leaves, RewritesEntry, RewritesLine, files
<1>. QED  BY <1>1, InvAlways, PTL DEF Spec, StoresLoseNothing

\* save_token_cache and clear_oauth_tokens never recreate the entry of a profile
\* that was removed while the token command ran.
THEOREM StaysRemoved == Spec => RemovedStaysRemoved
<1>1. Inv /\ [Next]_vars => [entry = None /\ entry' # None => command' # command]_vars
  BY FileSteps DEF Leaves, RewritesEntry, RewritesLine, files
<1>. QED  BY <1>1, InvAlways, PTL DEF Spec, RemovedStaysRemoved
-----------------------------------------------------------------------------
\* The schema cache: an inductive invariant.

Pending == {pending[i] : i \in DOMAIN pending}

\* What the program counter implies before the first round.
Cutting ==
    /\ stage \in {"tables", "plan", "cut"} => fetched = {} /\ rows = {}
    /\ stage \in {"tables", "plan"} =>
          pending = <<>> /\ cut.i = 0 /\ cut.start = 0 /\ cut.rows = 0
    /\ stage = "cut" =>
          /\ pending \in Seq(Shard)
          /\ cut.i <= Len(plan)
          /\ cut.i > 0 => cut.start < cut.i
          /\ cut.i = 0 => cut.start = 0 /\ cut.rows = 0
          /\ cut.start = 0 \/ \E s \in Pending : s.start = 0
          /\ \A s \in Pending :
                s.start < s.end /\ (s.end = cut.start \/ \E n \in Pending : n.start = s.end)
    /\ stage = "fetch" => round <= MAX_SPLIT_ROUNDS
    /\ stage = "save" => DOMAIN pending = {}

\* From the first round on the shards tile the plan.
Tiling == stage \in {"round", "fetch", "save"} => Tiles(fetched \cup Pending)

\* The last worker goes only when nothing is unclaimed, and whoever claimed a
\* shard fills its slot before it claims another.
Claims ==
    stage = "fetch" =>
        /\ Unclaimed = {} \/ \E w \in Worker : fetching[w] # Nothing
        /\ \A i \in DOMAIN pending :
              i < next => slots[i].kind # "none" \/ \E w \in Worker : fetching[w] = i

\* A set of rows has every lasting column of a shard's range, and no column
\* that never was.
Covers(answer, shard) ==
    \A t \in Name, c \in Column :
        c \in stable[t] /\ InRange(shard, t) => <<t, c>> \in answer
Existed(answer) == \A t \in Name, c \in Column : <<t, c>> \in answer => c \in ever[t]

Coverage ==
    /\ \A t \in Name : stable[t] \subseteq dictionary[t] /\ dictionary[t] \subseteq ever[t]
    /\ \A s \in fetched : Covers(rows, s)
    /\ Existed(rows)
    /\ stage = "fetch" => \A i \in DOMAIN pending :
          slots[i].kind = "rows" => Covers(slots[i].rows, pending[i]) /\ Existed(slots[i].rows)

\* What is published stays within the columns there were.
Published ==
    file # Nothing /\ file.columns_indexed =>
        \A t \in Indexed : stable[t] \subseteq file.columns[t] /\ file.columns[t] \subseteq ever[t]

BuildInv == BuildTypeOK /\ Cutting /\ Tiling /\ Claims /\ Coverage /\ Published

\* The sets an index is made from are finite.
LEMMA Sizes ==
    /\ Cardinality(Name) \in Nat /\ Cardinality(Column) \in Nat
    /\ \A S \in SUBSET Name : IsFiniteSet(S) /\ Cardinality(S) \in 0..Cardinality(Name)
    /\ \A S \in SUBSET Column : IsFiniteSet(S) /\ Cardinality(S) \in 0..Cardinality(Column)
<1>1. IsFiniteSet(Name) /\ IsFiniteSet(Column)
  BY SchemaAssumption
<1>2. \A S \in SUBSET Name : IsFiniteSet(S) /\ Cardinality(S) <= Cardinality(Name)
  BY <1>1, FS_Subset
<1>3. \A S \in SUBSET Column : IsFiniteSet(S) /\ Cardinality(S) <= Cardinality(Column)
  BY <1>1, FS_Subset
<1>. QED  BY <1>1, <1>2, <1>3, FS_CardinalityType

\* The numbers are well ordered.  With that stated of sets, an induction over the
\* numbers is a search for the least one that fails.
Less == {p \in Nat \X Nat : p[1] < p[2]}

LEMMA LessIsWellFounded == IsWellFoundedOn(Less, Nat)
BY NatLessThanWellFounded, Zenon DEF OpToRel, Less

LEMMA LeastNumber ==
    ASSUME NEW S \in SUBSET Nat, S # {}
    PROVE  \E n \in S : \A m \in S : n <= m
<1>1. PICK n \in S : \A m \in S : ~(<<m, n>> \in Less)
  BY LessIsWellFounded, WFMin
<1>2. \A m \in S : <<m, n>> \in Less <=> m < n
  BY DEF Less
<1>3. \A m \in S : ~(m < n)
  BY <1>1, <1>2
<1>. QED  BY <1>3

\* A non-empty set of numbers up to a bound has a largest one.
LEMMA LargestNumber ==
    ASSUME NEW N \in Nat, NEW S \in SUBSET (0..N), S # {}
    PROVE  \E m \in S : \A n \in S : n <= m
<1>1. PICK k \in {N - n : n \in S} : \A l \in {N - n : n \in S} : k <= l
  <2>1. {N - n : n \in S} \in SUBSET Nat
    <3>1. \A n \in S : N - n \in Nat
      OBVIOUS
    <3>. QED  BY <3>1
  <2>2. {N - n : n \in S} # {}
    OBVIOUS
  <2>. QED  BY <2>1, <2>2, LeastNumber
<1>2. PICK m \in S : k = N - m
  BY <1>1
<1>3. \A n \in S : N - m <= N - n
  BY <1>1, <1>2
<1>. QED  BY <1>3

\* Shards that tile a plan cover every name, in whatever order the plan lists
\* them: of the shards that begin below the name, the last holds it.
LEMMA RangesCover ==
    ASSUME plan \in Seq(PlanEntry), NEW shards \in SUBSET Shard, Tiles(shards),
           NEW name \in Name
    PROVE  \E s \in shards : InRange(s, name)
<1>. DEFINE Below(s) == s.start > 0 => plan[s.start + 1].name <= name
            Starts == {s.start : s \in {t \in shards : Below(t)}}
<1>1. \A s \in shards : s.start \in 0..Cardinality(Name) /\ s.end \in 0..Cardinality(Name)
  BY DEF Shard
<1>2. Starts \in SUBSET (0..Cardinality(Name)) /\ Starts # {}
  BY <1>1 DEF Tiles
<1>3. PICK m \in Starts : \A n \in Starts : n <= m
  BY <1>2, Sizes, LargestNumber
<1>4. PICK s \in shards : Below(s) /\ s.start = m
  BY <1>3
<1>5. CASE ~(s.end < Len(plan))
  BY <1>4, <1>5 DEF InRange
<1>6. CASE s.end < Len(plan)
  <2>1. PICK n \in shards : n.start = s.end /\ s.end > s.start
    BY <1>1, <1>6 DEF Tiles
  <2>2. ~Below(n)
    <3>1. Below(n) => n.start \in Starts
      <4>. HIDE DEF Below
      <4>. QED  BY <2>1
    <3>2. m < n.start
      BY <1>1, <1>4, <2>1
    <3>3. m \in Nat /\ n.start \in Nat
      BY <1>1, <1>4
    <3>. HIDE DEF Below, Starts
    <3>. QED  BY <1>3, <3>1, <3>2, <3>3
  <2>3. n.start > 0 /\ ~(plan[n.start + 1].name <= name)
    BY <2>2
  <2>4. plan[s.end + 1] \in PlanEntry
    BY <1>1, <1>6, <2>1, ElementOfSeq
  <2>5. plan[s.end + 1].name \in Nat /\ name \in Nat
    BY <2>4, SchemaAssumption DEF PlanEntry
  <2>6. name < plan[s.end + 1].name
    BY <2>1, <2>3, <2>5
  <2>. QED  BY <1>4, <2>6 DEF InRange
<1>. QED  BY <1>5, <1>6

\* A plan names tables, each with as many rows as it has columns.
LEMMA PlanTypes ==
    ASSUME dictionary \in [Name -> SUBSET Column], NEW q \in Plans
    PROVE  q \in Seq(PlanEntry) /\ Len(q) <= Cardinality(Name)
<1>. DEFINE S == {t \in Name : dictionary[t] # {}}
            n == Cardinality(S)
<1>1. PICK o \in [1..n -> S] :
        q = [i \in DOMAIN o |-> [name |-> o[i], count |-> Cardinality(dictionary[o[i]])]]
  BY DEF Plans, Orders
<1>2. n \in Nat /\ n <= Cardinality(Name)
  BY Sizes
<1>. HIDE DEF n
<1>3. q = [i \in 1..n |-> [name |-> o[i], count |-> Cardinality(dictionary[o[i]])]]
  BY <1>1
<1>4. \A i \in 1..n : o[i] \in Name /\ dictionary[o[i]] \in SUBSET Column
  BY <1>1
<1>5. \A i \in 1..n : [name |-> o[i], count |-> Cardinality(dictionary[o[i]])] \in PlanEntry
  BY <1>4, Sizes DEF PlanEntry
<1>6. q \in [1..n -> PlanEntry]
  BY <1>3, <1>5
<1>. QED  BY <1>2, <1>6

\* The two halves of a shard that can be split meet inside of it.
LEMMA HalvesMeet ==
    ASSUME NEW s \in Shard, Splits(s)
    PROVE  /\ Mid(s) \in 0..Cardinality(Name) /\ s.start < Mid(s) /\ Mid(s) < s.end
           /\ Halves(s)[1] = [start |-> s.start, end |-> Mid(s)]
           /\ Halves(s)[2] = [start |-> Mid(s), end |-> s.end]
           /\ Halves(s)[1] \in Shard /\ Halves(s)[2] \in Shard
<1>. DEFINE N == Cardinality(Name)
<1>1. N \in Nat
  BY Sizes
<1>. HIDE DEF N
<1>2. s.start \in 0..N /\ s.end \in 0..N /\ s.end - s.start >= 2
  BY DEF Shard, Splits, N
<1>3. \A a, b \in 0..N : b - a >= 2 =>
        LET m == a + (b - a) \div 2 IN m \in 0..N /\ a < m /\ m < b
  BY <1>1
<1>4. Mid(s) \in 0..N /\ s.start < Mid(s) /\ Mid(s) < s.end
  BY <1>2, <1>3 DEF Mid
<1>5. /\ Halves(s)[1] = [start |-> s.start, end |-> Mid(s)]
      /\ Halves(s)[2] = [start |-> Mid(s), end |-> s.end]
  BY DEF Halves
<1>. QED  BY <1>2, <1>4, <1>5 DEF Shard, N

\* Each shard to try again leaves two numbers, and no other shard has them.
LEMMA HalvesAreNumbered ==
    ASSUME DOMAIN pending \subseteq Nat \ {0}, IsFiniteSet(DOMAIN pending),
           \A i \in DOMAIN pending : pending[i] \in Shard,
           \A i \in Again : Splits(pending[i]),
           pending' = InHalves
    PROVE  /\ DOMAIN pending' \subseteq Nat \ {0} /\ IsFiniteSet(DOMAIN pending')
           /\ \A j \in DOMAIN pending' : pending'[j] \in Shard
           /\ \A j \in DOMAIN pending' : \E i \in Again :
                 pending'[j] = Halves(pending[i])[1] \/ pending'[j] = Halves(pending[i])[2]
           /\ \A i \in Again : \E j, k \in DOMAIN pending' :
                 pending'[j] = Halves(pending[i])[1] /\ pending'[k] = Halves(pending[i])[2]
<1>. DEFINE Firsts == {2 * i : i \in Again}
            Seconds == {2 * i + 1 : i \in Again}
<1>1. Again \subseteq DOMAIN pending
  BY DEF Again
<1>2. IsFiniteSet(Again)
  BY <1>1, FS_Subset
<1>3. IsFiniteSet(Firsts)
  <2>. DEFINE f == [i \in Again |-> 2 * i]
  <2>1. f \in Surjection(Again, Firsts)
    BY DEF Surjection
  <2>. QED  BY <1>2, <2>1, FS_Surjection
<1>4. IsFiniteSet(Seconds)
  <2>. DEFINE f == [i \in Again |-> 2 * i + 1]
  <2>1. f \in Surjection(Again, Seconds)
    BY DEF Surjection
  <2>. QED  BY <1>2, <2>1, FS_Surjection
<1>5. IsFiniteSet(Firsts \cup Seconds)
  BY <1>3, <1>4, FS_Union
<1>6. \A i \in Nat : (2 * i) \div 2 = i /\ (2 * i) % 2 = 0
                    /\ (2 * i + 1) \div 2 = i /\ (2 * i + 1) % 2 = 1
  OBVIOUS
<1>7. DOMAIN pending' = Firsts \cup Seconds
  BY DEF InHalves
<1>8. \A i \in Again : i \in Nat \ {0}
  BY <1>1
<1>9. \A n \in Firsts \cup Seconds : pending'[n] = Halves(pending[n \div 2])[(n % 2) + 1]
  BY DEF InHalves
<1>10. ASSUME NEW i \in Again
       PROVE  /\ pending'[2 * i] = Halves(pending[i])[1]
              /\ pending'[2 * i + 1] = Halves(pending[i])[2]
  <2>1. i \in Nat /\ 2 * i \in Firsts /\ 2 * i + 1 \in Seconds
    BY <1>8
  <2>2. (2 * i) \div 2 = i /\ (2 * i) % 2 = 0 /\ (2 * i + 1) \div 2 = i /\ (2 * i + 1) % 2 = 1
    BY <1>6, <2>1
  <2>3. /\ pending'[2 * i] = Halves(pending[(2 * i) \div 2])[((2 * i) % 2) + 1]
        /\ pending'[2 * i + 1] = Halves(pending[(2 * i + 1) \div 2])[((2 * i + 1) % 2) + 1]
    BY <1>9, <2>1
  <2>4. ((2 * i) % 2) + 1 = 1 /\ ((2 * i + 1) % 2) + 1 = 2
    BY <2>2
  <2>. QED  BY <2>2, <2>3, <2>4
<1>11. \A j \in DOMAIN pending' : \E i \in Again :
         pending'[j] = Halves(pending[i])[1] \/ pending'[j] = Halves(pending[i])[2]
  BY <1>7, <1>10
<1>12. \A i \in Again : \E j, k \in DOMAIN pending' :
         pending'[j] = Halves(pending[i])[1] /\ pending'[k] = Halves(pending[i])[2]
  BY <1>7, <1>10
<1>13. \A j \in DOMAIN pending' : pending'[j] \in Shard
  BY <1>1, <1>11, HalvesMeet
<1>14. DOMAIN pending' \subseteq Nat \ {0}
  BY <1>7, <1>8
<1>. QED  BY <1>5, <1>7, <1>11, <1>12, <1>13, <1>14

-----------------------------------------------------------------------------
\* Types.

LEMMA BuildInitTypes == BuildInit => BuildTypeOK
<1>. SUFFICES ASSUME BuildInit PROVE BuildTypeOK
  OBVIOUS
<1>1. dictionary \in [Name -> SUBSET Column]
  BY SchemaAssumption DEF BuildInit
<1>2. plan \in Seq(PlanEntry) /\ Len(plan) <= Cardinality(Name)
  BY Sizes DEF BuildInit
<1>3. DOMAIN pending = {} /\ IsFiniteSet(DOMAIN pending)
  BY FS_EmptySet DEF BuildInit
<1>. QED  BY <1>1, <1>2, <1>3, Sizes, SchemaAssumption DEF BuildInit, BuildTypeOK

\* What is written to schema.json is an index.
LEMMA IndexTypes ==
    ASSUME NEW p \in Hierarchies, NEW b \in BOOLEAN, NEW c \in [Indexed -> SUBSET Column]
    PROVE  [parent |-> p, columns_indexed |-> b, columns |-> c] \in Index
BY DEF Index

\* Appending to the shards of the plan.
LEMMA AppendTypes ==
    ASSUME pending \in Seq(Shard), NEW s \in Shard, pending' = Append(pending, s)
    PROVE  /\ pending' \in Seq(Shard)
           /\ DOMAIN pending' \subseteq Nat \ {0} /\ IsFiniteSet(DOMAIN pending')
           /\ \A i \in DOMAIN pending' : pending'[i] \in Shard
           /\ Pending' = Pending \cup {s}
<1>1. pending' \in Seq(Shard)
  BY AppendProperties
<1>2. DOMAIN pending' = 1..Len(pending') /\ Len(pending') \in Nat
  BY <1>1, LenProperties
<1>3. IsFiniteSet(DOMAIN pending')
  BY <1>2, FS_Interval
<1>4. /\ DOMAIN pending = 1..Len(pending) /\ Len(pending) \in Nat
      /\ Len(pending') = Len(pending) + 1
      /\ \A i \in 1..Len(pending) : pending'[i] = pending[i]
      /\ pending'[Len(pending) + 1] = s
  BY AppendProperties, LenProperties
<1>5. Pending' = Pending \cup {s}
  <2>1. \A x \in Pending' : x \in Pending \cup {s}
    BY <1>2, <1>4 DEF Pending
  <2>2. \A x \in Pending : x \in Pending'
    BY <1>2, <1>4 DEF Pending
  <2>3. s \in Pending'
    BY <1>2, <1>4 DEF Pending
  <2>. QED  BY <2>1, <2>2, <2>3
<1>6. \A i \in DOMAIN pending' : pending'[i] \in Shard
  BY <1>1, <1>2, ElementOfSeq
<1>. QED  BY <1>1, <1>2, <1>3, <1>5, <1>6

\* What a shard's answer is recorded as.
LEMMA FetchFacts ==
    ASSUME BuildTypeOK, NEW w \in Worker, FetchShard(w)
    PROVE  /\ stage = "fetch" /\ fetching[w] \in DOMAIN pending
           /\ slots' \in [DOMAIN pending -> Outcome]
           /\ \A i \in DOMAIN pending : i # fetching[w] => slots'[i] = slots[i]
           /\ slots'[fetching[w]].kind # "none"
           /\ slots'[fetching[w]].kind = "rows" =>
                 slots'[fetching[w]].rows \in Answers(pending[fetching[w]])
           /\ fetching' = [fetching EXCEPT ![w] = 0]
<1>. DEFINE i == fetching[w]
<1>1. stage = "fetch" /\ i \in DOMAIN pending /\ fetching' = [fetching EXCEPT ![w] = 0]
  BY DEF FetchShard
<1>2. slots \in [DOMAIN pending -> Outcome]
  BY <1>1 DEF BuildTypeOK
<1>3. PICK result :
        /\ slots' = [slots EXCEPT ![i] = result]
        /\ \/ result = [kind |-> "timeout"] \/ result = [kind |-> "refused"]
           \/ \E answer \in Answers(pending[i]) : result = [kind |-> "rows", rows |-> answer]
  BY DEF FetchShard
<1>4. \A answer \in Answers(pending[i]) : answer \subseteq Pairs
  BY DEF Answers
<1>5. result \in Outcome /\ result.kind # "none"
  BY <1>3, <1>4 DEF Outcome
<1>6. result.kind = "rows" => result.rows \in Answers(pending[i])
  BY <1>3
<1>. QED  BY <1>1, <1>2, <1>3, <1>5, <1>6

LEMMA BuildTypesKept ==
    ASSUME BuildTypeOK, Cutting, [BuildNext]_buildVars
    PROVE  BuildTypeOK'
<1>. USE DEF BuildTypeOK
<1>1. CASE UNCHANGED buildVars
  BY <1>1 DEF buildVars, instance, threads, seen
<1>2. CASE ReadTables
  BY <1>2 DEF ReadTables, Fail, instance, threads, seen
<1>3. CASE ReadPlan
  <2>1. /\ UNCHANGED <<instance, cut, pending, round, threads, rows, fetched, seen>>
        /\ stage' \in {"cut", "done", "failed"}
        /\ plan' \in Plans \/ plan' = plan
    BY <1>3 DEF ReadPlan, Fail
  <2>2. plan' \in Seq(PlanEntry) /\ Len(plan') <= Cardinality(Name)
    BY <2>1, PlanTypes
  <2>3. file' \in Index \cup {Nothing}
    <3>1. \/ file' = file
          \/ file' = [parent |-> parent, columns_indexed |-> FALSE,
                      columns |-> [t \in Indexed |-> {}]]
      BY <1>3 DEF ReadPlan
    <3>2. [t \in Indexed |-> {}] \in [Indexed -> SUBSET Column]
      OBVIOUS
    <3>3. parent \in Hierarchies /\ file \in Index \cup {Nothing}
      OBVIOUS
    <3>4. [parent |-> parent, columns_indexed |-> FALSE, columns |-> [t \in Indexed |-> {}]] \in Index
      BY <3>2, <3>3, IndexTypes, Zenon
    <3>. QED  BY <3>1, <3>3, <3>4, Zenon
  <2>. QED  BY <2>1, <2>2, <2>3 DEF instance, threads, seen
<1>4. CASE PlanShard
  <2>. DEFINE N == Cardinality(Name)
              count == plan[cut.i + 1].count
              new == [start |-> cut.start, end |-> cut.i]
  <2>1. /\ UNCHANGED <<instance, stage, plan, round, threads, rows, fetched, seen, file>>
        /\ stage = "cut" /\ cut.i < Len(plan)
        /\ pending' = Append(pending, new) \/ pending' = pending
        /\ \E b \in {cut.i, cut.start}, r \in {count, cut.rows + count} :
              cut' = [i |-> cut.i + 1, start |-> b, rows |-> r]
    BY <1>4 DEF PlanShard
  <2>2. cut.i \in 0..N /\ cut.start \in 0..N /\ cut.rows \in Nat /\ Len(plan) \in Nat
        /\ Len(plan) <= N /\ N \in Nat
    BY Sizes
  <2>3. new \in Shard
    BY <2>2 DEF Shard
  <2>4. plan[cut.i + 1] \in PlanEntry
    <3>1. cut.i + 1 \in 1..Len(plan)
      BY <2>1, <2>2
    <3>. QED  BY <3>1, ElementOfSeq
  <2>5. count \in Nat
    BY <2>4, Sizes DEF PlanEntry
  <2>. HIDE DEF N, count
  <2>6. cut.i + 1 \in 0..N /\ cut.rows + count \in Nat
    <3>1. \A l, m \in Nat : \A i \in 0..l : i < m /\ m <= l => i + 1 \in 0..l
      OBVIOUS
    <3>. QED  BY <2>1, <2>2, <2>5, <3>1
  <2>7. cut' \in [i : 0..N, start : 0..N, rows : Nat]
    BY <2>1, <2>2, <2>5, <2>6
  <2>8. pending \in Seq(Shard)
    BY <2>1 DEF Cutting
  <2>9. /\ DOMAIN pending' \subseteq Nat \ {0} /\ IsFiniteSet(DOMAIN pending')
        /\ \A i \in DOMAIN pending' : pending'[i] \in Shard
    BY <2>1, <2>3, <2>8, AppendTypes
  <2>. QED  BY <2>1, <2>7, <2>9 DEF instance, threads, seen, N
<1>5. CASE LastShard
  <2>. DEFINE new == [start |-> cut.start, end |-> Len(plan)]
  <2>1. /\ UNCHANGED <<instance, plan, cut, round, threads, rows, fetched, seen, file>>
        /\ stage = "cut" /\ stage' = "round" /\ pending' = Append(pending, new)
    BY <1>5 DEF LastShard
  <2>2. new \in Shard
    BY Sizes DEF Shard
  <2>3. pending \in Seq(Shard)
    BY <2>1 DEF Cutting
  <2>4. /\ DOMAIN pending' \subseteq Nat \ {0} /\ IsFiniteSet(DOMAIN pending')
        /\ \A i \in DOMAIN pending' : pending'[i] \in Shard
    BY <2>1, <2>2, <2>3, AppendTypes
  <2>. QED  BY <2>1, <2>4 DEF instance, threads, seen
<1>6. CASE StartRound
  <2>1. /\ UNCHANGED <<instance, plan, cut, pending, round, rows, fetched, seen, file>>
        /\ stage' = "fetch" /\ next' = 1
        /\ slots' = [i \in DOMAIN pending |-> [kind |-> "none"]]
        /\ fetching' \in [Worker -> Nat \cup {Nothing}]
    BY <1>6 DEF StartRound
  <2>2. slots' \in [DOMAIN pending' -> Outcome]
    BY <2>1 DEF Outcome
  <2>. QED  BY <2>1, <2>2 DEF instance, threads, seen
<1>7. ASSUME NEW w \in Worker, Claim(w)
      PROVE  BuildTypeOK'
  <2>1. /\ UNCHANGED <<instance, stage, plan, cut, pending, round, slots, rows, fetched, seen, file>>
        /\ \/ next' = next /\ fetching' = [fetching EXCEPT ![w] = Nothing]
           \/ \E i \in Nat : next' = i + 1 /\ fetching' = [fetching EXCEPT ![w] = i]
    BY <1>7 DEF Claim, Unclaimed
  <2>. QED  BY <2>1 DEF instance, threads, seen
<1>8. ASSUME NEW w \in Worker, FetchShard(w)
      PROVE  BuildTypeOK'
  <2>1. UNCHANGED <<instance, stage, plan, cut, pending, round, next, rows, fetched, seen, file>>
    BY <1>8 DEF FetchShard
  <2>2. slots' \in [DOMAIN pending -> Outcome] /\ fetching' = [fetching EXCEPT ![w] = 0]
    BY <1>8, FetchFacts
  <2>. QED  BY <2>1, <2>2 DEF instance, threads, seen
<1>9. CASE Collect
  <2>1. /\ UNCHANGED <<instance, plan, cut, threads, seen, file>>
        /\ stage = "fetch" /\ stage' \in {"round", "failed"}
    BY <1>9 DEF Collect, Fail
  <2>2. slots \in [DOMAIN pending -> Outcome]
    BY <2>1
  <2>3. CASE Refused # {}
    BY <1>9, <2>1, <2>3 DEF Collect, Fail, instance, threads, seen
  <2>4. CASE Refused = {}
    <3>1. /\ rows' = rows \cup UNION {slots[i].rows : i \in Taken}
          /\ fetched' = fetched \cup {pending[i] : i \in Taken}
          /\ pending' = InHalves /\ round' = round + 1 /\ stage' = "round"
      BY <1>9, <2>4 DEF Collect
    <3>2. \A i \in Taken : slots[i].rows \subseteq Pairs /\ pending[i] \in Shard
      BY <2>2 DEF Taken, Outcome
    <3>3. \A i \in Again : Splits(pending[i])
      BY <2>4 DEF Refused
    <3>4. /\ DOMAIN pending' \subseteq Nat \ {0} /\ IsFiniteSet(DOMAIN pending')
          /\ \A i \in DOMAIN pending' : pending'[i] \in Shard
      BY <3>1, <3>3, HalvesAreNumbered
    <3>5. round' \in 0..(MAX_SPLIT_ROUNDS + 1)
      BY <2>1, <3>1, SchemaAssumption DEF Cutting
    <3>. QED  BY <2>1, <3>1, <3>2, <3>4, <3>5 DEF instance, threads, seen
  <2>. QED  BY <2>3, <2>4
<1>10. CASE Assemble
  BY <1>10 DEF Assemble, Fail, instance, threads, seen
<1>11. CASE Save
  <2>1. /\ UNCHANGED <<instance, plan, cut, pending, round, threads, rows, fetched, seen>>
        /\ stage' \in {"done", "failed"}
        /\ \/ file' = [parent |-> parent, columns_indexed |-> TRUE, columns |-> Columns(rows)]
           \/ file' = file
    BY <1>11 DEF Save, Fail
  <2>2. file' \in Index \cup {Nothing}
    <3>1. Columns(rows) \in [Indexed -> SUBSET Column]
      BY DEF Columns
    <3>2. parent \in Hierarchies /\ file \in Index \cup {Nothing}
      OBVIOUS
    <3>3. [parent |-> parent, columns_indexed |-> TRUE, columns |-> Columns(rows)] \in Index
      BY <3>1, <3>2, IndexTypes, Zenon
    <3>. QED  BY <2>1, <3>2, <3>3, Zenon
  <2>. QED  BY <2>1, <2>2 DEF instance, threads, seen
<1>12. CASE Alter
  BY <1>12, SchemaAssumption DEF Alter, threads
<1>. QED
  BY <1>1, <1>2, <1>3, <1>4, <1>5, <1>6, <1>7, <1>8, <1>9, <1>10, <1>11, <1>12 DEF BuildNext

-----------------------------------------------------------------------------
\* What each step keeps.

LEMMA CuttingKept ==
    ASSUME BuildTypeOK, Cutting, [BuildNext]_buildVars
    PROVE  Cutting'
<1>1. CASE stage' \in {"round", "done", "failed"}
  BY <1>1 DEF Cutting
<1>2. CASE UNCHANGED <<stage, plan, cut, pending, round, rows, fetched>>
  BY <1>2 DEF Cutting, Pending
<1>3. CASE ReadTables
  BY <1>1, <1>3 DEF ReadTables, Fail, Cutting, threads, Pending
<1>4. CASE ReadPlan
  <2>1. CASE stage' = "cut"
    <3>1. /\ stage = "plan" /\ pending' = pending /\ cut' = cut /\ rows' = rows /\ fetched' = fetched
          /\ plan' \in Plans
      BY <1>4, <2>1 DEF ReadPlan, Fail
    <3>2. plan' \in Seq(PlanEntry)
      BY <3>1, PlanTypes DEF BuildTypeOK
    <3>3. pending' = <<>> /\ cut.i = 0 /\ cut.start = 0 /\ cut.rows = 0 /\ fetched = {} /\ rows = {}
      BY <3>1 DEF Cutting
    <3>4. Pending' = {} /\ pending' \in Seq(Shard)
      BY <3>3 DEF Pending
    <3>. QED  BY <2>1, <3>1, <3>2, <3>3, <3>4 DEF Cutting
  <2>. QED  BY <1>1, <1>4, <2>1 DEF ReadPlan, Fail
<1>5. CASE PlanShard
  <2>. DEFINE count == plan[cut.i + 1].count
              full == cut.rows > 0 /\ cut.rows + count > SHARD_ROWS
              new == [start |-> cut.start, end |-> cut.i]
  <2>1. /\ stage = "cut" /\ stage' = "cut" /\ cut.i < Len(plan) /\ plan' = plan
        /\ fetched' = fetched /\ rows' = rows /\ round' = round
        /\ pending' = IF full THEN Append(pending, new) ELSE pending
        /\ cut' = [i |-> cut.i + 1, start |-> IF full THEN cut.i ELSE cut.start,
                   rows |-> IF full THEN count ELSE cut.rows + count]
    BY <1>5 DEF PlanShard
  <2>2. cut.i \in Nat /\ cut.start \in Nat /\ cut.rows \in Nat /\ Len(plan) \in Nat
    BY DEF BuildTypeOK
  <2>3. cut'.i = cut.i + 1 /\ cut'.i <= Len(plan') /\ cut'.i > 0
    BY <2>1, <2>2
  <2>4. /\ pending \in Seq(Shard) /\ fetched = {} /\ rows = {}
        /\ cut.i > 0 => cut.start < cut.i
        /\ cut.i = 0 => cut.start = 0 /\ cut.rows = 0
        /\ cut.start = 0 \/ \E s \in Pending : s.start = 0
        /\ \A s \in Pending :
              s.start < s.end /\ (s.end = cut.start \/ \E n \in Pending : n.start = s.end)
    BY <2>1 DEF Cutting
  <2>5. CASE full
    <3>1. cut.start < cut.i
      BY <2>2, <2>4, <2>5
    <3>2. new \in Shard /\ new.start = cut.start /\ new.end = cut.i
      BY DEF BuildTypeOK, Shard
    <3>3. pending' \in Seq(Shard) /\ Pending' = Pending \cup {new}
      BY <2>1, <2>4, <2>5, <3>2, AppendTypes
    <3>4. cut'.start = cut.i
      BY <2>1, <2>5
    <3>. HIDE DEF count, full, new
    <3>5. \E s \in Pending' : s.start = 0
      BY <2>4, <3>2, <3>3
    <3>6. \A s \in Pending' :
            s.start < s.end /\ (s.end = cut'.start \/ \E n \in Pending' : n.start = s.end)
      BY <2>4, <3>1, <3>2, <3>3, <3>4
    <3>7. cut'.start < cut'.i
      BY <2>2, <2>3, <3>4
    <3>. QED  BY <2>1, <2>3, <2>4, <3>3, <3>5, <3>6, <3>7 DEF Cutting
  <2>6. CASE ~full
    <3>1. cut'.start = cut.start /\ pending' = pending /\ Pending' = Pending
      BY <2>1, <2>6 DEF Pending
    <3>2. cut'.start < cut'.i
      BY <2>2, <2>3, <2>4, <3>1
    <3>. HIDE DEF count, full, new
    <3>. QED  BY <2>1, <2>3, <2>4, <3>1, <3>2 DEF Cutting
  <2>. QED  BY <2>5, <2>6
<1>6. CASE StartRound
  <2>1. stage' = "fetch" /\ round <= MAX_SPLIT_ROUNDS /\ round' = round
    BY <1>6 DEF StartRound
  <2>. QED  BY <2>1 DEF Cutting
<1>7. CASE Assemble
  <2>1. CASE stage' = "save"
    <3>1. DOMAIN pending' = {}
      BY <1>7, <2>1 DEF Assemble, Fail
    <3>. QED  BY <2>1, <3>1 DEF Cutting
  <2>. QED  BY <1>1, <1>7, <2>1 DEF Assemble, Fail
<1>8. \/ stage' \in {"round", "done", "failed"}
      \/ UNCHANGED <<stage, plan, cut, pending, round, rows, fetched>>
      \/ ReadTables \/ ReadPlan \/ PlanShard \/ StartRound \/ Assemble
  BY DEF BuildNext, buildVars, LastShard, Claim, FetchShard, Collect, Save, Alter, Fail
<1>. QED  BY <1>1, <1>2, <1>3, <1>4, <1>5, <1>6, <1>7, <1>8

\* Tiles, whatever shards are called.
LEMMA TilingKept ==
    ASSUME BuildTypeOK, Cutting, Tiling, [BuildNext]_buildVars
    PROVE  Tiling'
<1>1. CASE stage' \notin {"round", "fetch", "save"}
  BY <1>1 DEF Tiling
<1>2. CASE stage \in {"round", "fetch", "save"} /\ UNCHANGED <<plan, pending, fetched>>
  BY <1>2 DEF Tiling, Tiles, Pending
<1>3. CASE LastShard
  <2>. DEFINE new == [start |-> cut.start, end |-> Len(plan)]
  <2>1. /\ stage = "cut" /\ cut.i = Len(plan) /\ plan' = plan /\ fetched' = fetched
        /\ pending' = Append(pending, new)
    BY <1>3 DEF LastShard
  <2>2. new \in Shard /\ new.start = cut.start /\ new.end = Len(plan)
    BY Sizes DEF BuildTypeOK, Shard
  <2>3. Pending' = Pending \cup {new} /\ fetched' = {}
    BY <2>1, <2>2, AppendTypes DEF Cutting
  <2>4. /\ cut.start = 0 \/ \E s \in Pending : s.start = 0
        /\ \A s \in Pending :
              s.start < s.end /\ (s.end = cut.start \/ \E n \in Pending : n.start = s.end)
    BY <2>1 DEF Cutting
  <2>5. \A s \in Pending : s.start \in Nat /\ s.end \in Nat
    BY <2>1, Sizes DEF BuildTypeOK, Pending, Shard
  <2>. HIDE DEF new
  <2>6. Tiles(Pending \cup {new})
    BY <2>2, <2>4, <2>5 DEF Tiles
  <2>7. Tiles(fetched \cup Pending)'
    BY <2>1, <2>3, <2>6 DEF Tiles
  <2>. QED  BY <2>7 DEF Tiling
<1>4. CASE Collect /\ stage' = "round"
  <2>1. /\ stage = "fetch" /\ plan' = plan /\ pending' = InHalves
        /\ fetched' = fetched \cup {pending[i] : i \in Taken}
        /\ Refused = {}
    BY <1>4 DEF Collect, Fail
  <2>. DEFINE old == fetched \cup Pending
              shards == fetched' \cup Pending'
  <2>2. slots \in [DOMAIN pending -> Outcome]
    BY <2>1 DEF BuildTypeOK
  <2>3. \A i \in DOMAIN pending : i \in Taken \/ i \in Again
    BY <2>1, <2>2 DEF Taken, Again, TimedOut, Refused, Outcome
  <2>4. \A i \in Again : i \in DOMAIN pending /\ Splits(pending[i])
    BY <2>1 DEF Refused, Again
  <2>5. /\ \A j \in DOMAIN pending' : \E i \in Again :
              pending'[j] = Halves(pending[i])[1] \/ pending'[j] = Halves(pending[i])[2]
        /\ \A i \in Again : \E j, k \in DOMAIN pending' :
              pending'[j] = Halves(pending[i])[1] /\ pending'[k] = Halves(pending[i])[2]
    BY <2>1, <2>4, HalvesAreNumbered DEF BuildTypeOK
  <2>6. \A s \in old : s \in Shard /\ s.start \in Nat /\ s.end \in Nat
    BY Sizes DEF BuildTypeOK, Pending, Shard
  <2>7. \A s \in shards :
          \/ s \in old
          \/ \E t \in old : Splits(t) /\ (s = Halves(t)[1] \/ s = Halves(t)[2])
                            /\ Halves(t)[2] \in shards
    BY <2>1, <2>4, <2>5 DEF Pending, Taken
  <2>8. \A t \in old : t \in shards \/ (Splits(t) /\ Halves(t)[1] \in shards)
    BY <2>1, <2>3, <2>4, <2>5 DEF Pending, Taken
  <2>9. ASSUME NEW t \in old, Splits(t)
        PROVE  /\ Halves(t)[1].start = t.start /\ Halves(t)[1].end = Mid(t)
               /\ Halves(t)[2].start = Mid(t) /\ Halves(t)[2].end = t.end
               /\ t.start < Mid(t) /\ Mid(t) < t.end
    <3>1. /\ t.start < Mid(t) /\ Mid(t) < t.end
          /\ Halves(t)[1] = [start |-> t.start, end |-> Mid(t)]
          /\ Halves(t)[2] = [start |-> Mid(t), end |-> t.end]
      BY <2>6, <2>9, HalvesMeet
    <3>. QED  BY <3>1
  <2>10. Tiles(old)
    BY <2>1 DEF Tiling
  <2>. HIDE DEF old, shards
  <2>11. \A t \in old : \E s \in shards : s.start = t.start
    BY <2>8, <2>9
  <2>12. \E s \in shards : s.start = 0
    BY <2>10, <2>11 DEF Tiles
  <2>13. ASSUME NEW s \in shards
         PROVE  s.end = Len(plan) \/ \E n \in shards : n.start = s.end /\ s.end > s.start
    <3>1. CASE s \in old
      BY <2>10, <2>11, <3>1 DEF Tiles
    <3>2. CASE \E t \in old : Splits(t) /\ (s = Halves(t)[1] \/ s = Halves(t)[2])
                              /\ Halves(t)[2] \in shards
      <4>1. PICK t \in old : Splits(t) /\ (s = Halves(t)[1] \/ s = Halves(t)[2])
                              /\ Halves(t)[2] \in shards
        BY <3>2
      <4>2. CASE s = Halves(t)[1]
        BY <2>6, <2>9, <4>1, <4>2
      <4>3. CASE s = Halves(t)[2]
        <5>1. s.start = Mid(t) /\ s.end = t.end /\ Mid(t) < t.end
          BY <2>9, <4>1, <4>3
        <5>2. CASE t.end = Len(plan)
          BY <5>1, <5>2
        <5>3. CASE t.end # Len(plan)
          <6>1. PICK n \in old : n.start = t.end
            BY <2>10, <5>3 DEF Tiles
          <6>2. PICK m \in shards : m.start = n.start
            BY <2>11
          <6>3. s.end > s.start
            BY <5>1
          <6>. QED  BY <5>1, <6>1, <6>2, <6>3
        <5>. QED  BY <5>2, <5>3
      <4>. QED  BY <4>1, <4>2, <4>3
    <3>. QED  BY <2>7, <3>1, <3>2
  <2>14. Tiles(shards)
    BY <2>12, <2>13 DEF Tiles
  <2>15. Tiles(fetched \cup Pending)'
    BY <2>1, <2>14 DEF Tiles, shards
  <2>. QED  BY <2>15 DEF Tiling
<1>5. \/ stage' \notin {"round", "fetch", "save"}
      \/ stage \in {"round", "fetch", "save"} /\ UNCHANGED <<plan, pending, fetched>>
      \/ LastShard
      \/ Collect /\ stage' = "round"
  BY DEF BuildNext, buildVars, ReadTables, ReadPlan, PlanShard, StartRound, Claim, FetchShard,
         Collect, Assemble, Save, Alter, Fail
<1>. QED  BY <1>1, <1>2, <1>3, <1>4, <1>5

LEMMA ClaimsKept ==
    ASSUME BuildTypeOK, Claims, [BuildNext]_buildVars
    PROVE  Claims'
<1>1. CASE stage' # "fetch"
  BY <1>1 DEF Claims
<1>2. CASE UNCHANGED <<stage, pending, threads>>
  BY <1>2 DEF Claims, Unclaimed, threads
<1>3. CASE StartRound
  <2>1. PICK w \in Worker : fetching'[w] = 0
    <3>1. PICK started \in (SUBSET Worker) \ {{}} :
             fetching' = [w \in Worker |-> IF w \in started THEN 0 ELSE Nothing]
      BY <1>3 DEF StartRound
    <3>2. PICK w \in started : TRUE
      OBVIOUS
    <3>. QED  BY <3>1, <3>2
  <2>2. next' = 1 /\ pending' = pending
    BY <1>3 DEF StartRound
  <2>3. \A i \in DOMAIN pending' : ~(i < next')
    BY <2>2 DEF BuildTypeOK
  <2>. QED  BY <2>1, <2>3, SchemaAssumption DEF Claims
<1>4. ASSUME NEW w \in Worker, Claim(w)
      PROVE  Claims'
  <2>1. /\ stage = "fetch" /\ fetching[w] = 0 /\ pending' = pending /\ slots' = slots
        /\ fetching \in [Worker -> Nat \cup {Nothing}] /\ next \in Nat
        /\ \A i \in DOMAIN pending : i \in Nat /\ i # 0
        /\ \A i \in DOMAIN pending :
              i < next => slots[i].kind # "none" \/ \E v \in Worker : fetching[v] = i
    BY <1>4 DEF Claim, Claims, BuildTypeOK
  <2>2. CASE \E i \in Unclaimed :
               /\ \A j \in Unclaimed : i <= j
               /\ next' = i + 1 /\ fetching' = [fetching EXCEPT ![w] = i]
    <3>1. PICK i \in Unclaimed :
             /\ \A j \in Unclaimed : i <= j
             /\ next' = i + 1 /\ fetching' = [fetching EXCEPT ![w] = i]
      BY <2>2
    <3>2. i \in Nat /\ fetching'[w] = i /\ fetching'[w] # Nothing
      BY <2>1, <3>1, SchemaAssumption DEF Unclaimed
    <3>3. ASSUME NEW j \in DOMAIN pending, j < next', slots[j].kind = "none"
          PROVE  \E v \in Worker : fetching'[v] = j
      <4>1. CASE j = i
        BY <3>2, <4>1
      <4>2. CASE j # i
        <5>1. j < next
          BY <2>1, <3>1, <3>2, <3>3, <4>2 DEF Unclaimed
        <5>2. PICK v \in Worker : fetching[v] = j
          BY <2>1, <3>3, <5>1
        <5>3. v # w
          BY <2>1, <5>2
        <5>. QED  BY <2>1, <3>1, <5>2, <5>3
      <4>. QED  BY <4>1, <4>2
    <3>. QED  BY <2>1, <3>2, <3>3 DEF Claims
  <2>3. CASE Unclaimed = {} /\ next' = next /\ fetching' = [fetching EXCEPT ![w] = Nothing]
    <3>1. Unclaimed' = {}
      BY <2>1, <2>3 DEF Unclaimed
    <3>2. ASSUME NEW j \in DOMAIN pending, j < next, slots[j].kind = "none"
          PROVE  \E v \in Worker : fetching'[v] = j
      <4>1. PICK v \in Worker : fetching[v] = j
        BY <2>1, <3>2
      <4>2. v # w
        BY <2>1, <4>1
      <4>. QED  BY <2>1, <2>3, <4>1, <4>2
    <3>. QED  BY <2>1, <2>3, <3>1, <3>2 DEF Claims
  <2>. QED  BY <1>4, <2>2, <2>3 DEF Claim
<1>5. ASSUME NEW w \in Worker, FetchShard(w)
      PROVE  Claims'
  <2>1. /\ stage = "fetch" /\ fetching[w] \in DOMAIN pending
        /\ \A i \in DOMAIN pending : i # fetching[w] => slots'[i] = slots[i]
        /\ slots'[fetching[w]].kind # "none"
        /\ fetching' = [fetching EXCEPT ![w] = 0]
    BY <1>5, FetchFacts
  <2>2. pending' = pending /\ next' = next /\ fetching \in [Worker -> Nat \cup {Nothing}]
    BY <1>5 DEF FetchShard, BuildTypeOK
  <2>3. fetching'[w] # Nothing
    BY <2>1, <2>2, SchemaAssumption
  <2>4. ASSUME NEW j \in DOMAIN pending, j < next, slots'[j].kind = "none"
        PROVE  \E v \in Worker : fetching'[v] = j
    <3>1. j # fetching[w] /\ slots[j].kind = "none"
      BY <2>1, <2>4
    <3>2. PICK v \in Worker : fetching[v] = j
      BY <2>1, <2>4, <3>1 DEF Claims
    <3>. QED  BY <2>1, <2>2, <3>1, <3>2
  <2>. QED  BY <2>2, <2>3, <2>4 DEF Claims
<1>6. \/ stage' # "fetch"
      \/ UNCHANGED <<stage, pending, threads>>
      \/ StartRound
      \/ \E w \in Worker : Claim(w) \/ FetchShard(w)
  BY DEF BuildNext, buildVars, ReadTables, ReadPlan, PlanShard, LastShard, Collect, Assemble,
         Save, Alter, Fail
<1>. QED  BY <1>1, <1>2, <1>3, <1>4, <1>5, <1>6

\* What a column's coming or going does to the columns that lasted and those
\* there were.
LEMMA AlterFacts ==
    ASSUME BuildTypeOK, Coverage, Alter
    PROVE  \A t \in Name :
              /\ stable'[t] \subseteq stable[t] /\ ever[t] \subseteq ever'[t]
              /\ stable'[t] \subseteq dictionary'[t] /\ dictionary'[t] \subseteq ever'[t]
<1>1. PICK s \in Name, c \in Column :
        /\ dictionary' = [dictionary EXCEPT ![s] = IF c \in @ THEN @ \ {c} ELSE @ \cup {c}]
        /\ stable' = [stable EXCEPT ![s] = @ \cap dictionary'[s]]
        /\ ever' = [ever EXCEPT ![s] = @ \cup dictionary'[s]]
  BY DEF Alter
<1>2. /\ dictionary \in [Name -> SUBSET Column]
      /\ stable \in [Name -> SUBSET Column] /\ ever \in [Name -> SUBSET Column]
  BY DEF BuildTypeOK
<1>3. \A t \in Name : stable[t] \subseteq dictionary[t] /\ dictionary[t] \subseteq ever[t]
  BY DEF Coverage
<1>4. stable'[s] = stable[s] \cap dictionary'[s] /\ ever'[s] = ever[s] \cup dictionary'[s]
  BY <1>1, <1>2
<1>5. \A t \in Name : t # s =>
        dictionary'[t] = dictionary[t] /\ stable'[t] = stable[t] /\ ever'[t] = ever[t]
  BY <1>1, <1>2
<1>6. \A t \in Name : t # s =>
        /\ stable'[t] \subseteq stable[t] /\ ever[t] \subseteq ever'[t]
        /\ stable'[t] \subseteq dictionary'[t] /\ dictionary'[t] \subseteq ever'[t]
  BY <1>3, <1>5
<1>. QED  BY <1>4, <1>6

\* What the instance answers: the lasting columns of the shard's tables, and
\* nothing it has not.
LEMMA AnswersCover ==
    ASSUME BuildTypeOK, Coverage, NEW shard, NEW answer \in Answers(shard)
    PROVE  Covers(answer, shard) /\ Existed(answer)
<1>1. \A t \in Name, c \in Column :
        <<t, c>> \in answer => c \in dictionary[t]
  BY DEF Answers, Pairs
<1>2. \A t \in Name, c \in Column :
        c \in dictionary[t] /\ InRange(shard, t) => <<t, c>> \in answer
  BY DEF Answers, Pairs
<1>. QED  BY <1>1, <1>2 DEF Covers, Existed, Coverage

LEMMA CoverageKept ==
    ASSUME BuildTypeOK, Cutting, Coverage, [BuildNext]_buildVars
    PROVE  Coverage'
<1>1. CASE UNCHANGED <<dictionary, stable, ever, plan, pending, rows, fetched, stage, slots>>
  BY <1>1 DEF Coverage, Covers, Existed, InRange
<1>2. CASE UNCHANGED <<dictionary, stable, ever, rows, fetched>> /\ stage' # "fetch"
           /\ (plan' = plan \/ fetched = {})
  <2>1. \A s \in fetched' : Covers(rows, s)'
    BY <1>2 DEF Coverage, Covers, InRange
  <2>. QED  BY <1>2, <2>1 DEF Coverage, Existed
<1>3. CASE StartRound
  <2>1. /\ UNCHANGED <<dictionary, stable, ever, rows, fetched, plan, pending>>
        /\ \A i \in DOMAIN pending : slots'[i].kind = "none"
    BY <1>3 DEF StartRound, instance, seen
  <2>. QED  BY <2>1 DEF Coverage, Covers, Existed, InRange
<1>4. ASSUME NEW w \in Worker, FetchShard(w)
      PROVE  Coverage'
  <2>1. /\ stage = "fetch"
        /\ UNCHANGED <<dictionary, stable, ever, rows, fetched, plan, pending>>
    BY <1>4 DEF FetchShard, instance, seen
  <2>2. /\ \A i \in DOMAIN pending : i # fetching[w] => slots'[i] = slots[i]
        /\ slots'[fetching[w]].kind = "rows" =>
              slots'[fetching[w]].rows \in Answers(pending[fetching[w]])
    BY <1>4, FetchFacts
  <2>3. \A i \in DOMAIN pending : slots'[i].kind = "rows" =>
          Covers(slots'[i].rows, pending[i]) /\ Existed(slots'[i].rows)
    BY <2>1, <2>2, AnswersCover DEF Coverage
  <2>4. \A i \in DOMAIN pending' : slots'[i].kind = "rows" =>
          Covers(slots[i].rows, pending[i])' /\ Existed(slots[i].rows)'
    BY <2>1, <2>3 DEF Covers, Existed, InRange
  <2>5. (\A s \in fetched : Covers(rows, s))'
    BY <2>1 DEF Coverage, Covers, InRange
  <2>. QED  BY <2>1, <2>4, <2>5 DEF Coverage, Existed
<1>5. CASE Collect /\ Refused = {}
  <2>1. /\ stage = "fetch" /\ stage' = "round"
        /\ UNCHANGED <<dictionary, stable, ever, plan>>
        /\ rows' = rows \cup UNION {slots[i].rows : i \in Taken}
        /\ fetched' = fetched \cup {pending[i] : i \in Taken}
    BY <1>5 DEF Collect, instance, seen
  <2>2. \A i \in Taken : /\ Covers(slots[i].rows, pending[i]) /\ Existed(slots[i].rows)
                         /\ slots[i].rows \subseteq rows'
    BY <2>1 DEF Coverage, Taken
  <2>3. rows \subseteq rows'
    BY <2>1
  <2>4. \A s \in fetched' : Covers(rows', s)
    BY <2>1, <2>2, <2>3 DEF Coverage, Covers
  <2>5. Existed(rows')
    BY <2>1, <2>2 DEF Coverage, Existed
  <2>6. (\A s \in fetched : Covers(rows, s))' /\ Existed(rows)'
    BY <2>1, <2>4, <2>5 DEF Covers, Existed, InRange
  <2>. QED  BY <2>1, <2>6 DEF Coverage
<1>6. CASE Alter
  <2>1. \A t \in Name :
          /\ stable'[t] \subseteq stable[t] /\ ever[t] \subseteq ever'[t]
          /\ stable'[t] \subseteq dictionary'[t] /\ dictionary'[t] \subseteq ever'[t]
    BY <1>6, AlterFacts
  <2>2. UNCHANGED <<plan, pending, rows, fetched, stage, slots>>
    BY <1>6 DEF Alter, threads
  <2>3. \A answer, shard : Covers(answer, shard) =>
          \A t \in Name, c \in Column : c \in stable'[t] /\ InRange(shard, t) => <<t, c>> \in answer
    BY <2>1 DEF Covers
  <2>4. \A answer : Existed(answer) =>
          \A t \in Name, c \in Column : <<t, c>> \in answer => c \in ever'[t]
    BY <2>1 DEF Existed
  <2>5. (\A s \in fetched : Covers(rows, s))'
    BY <2>2, <2>3 DEF Coverage, Covers, InRange
  <2>6. Existed(rows)'
    BY <2>2, <2>4 DEF Coverage, Existed
  <2>7. stage = "fetch" => \A i \in DOMAIN pending : slots[i].kind = "rows" =>
          /\ \A t \in Name, c \in Column :
                c \in stable'[t] /\ InRange(pending[i], t) => <<t, c>> \in slots[i].rows
          /\ \A t \in Name, c \in Column : <<t, c>> \in slots[i].rows => c \in ever'[t]
    BY <2>3, <2>4 DEF Coverage
  <2>8. (stage = "fetch" => \A i \in DOMAIN pending :
            slots[i].kind = "rows" => Covers(slots[i].rows, pending[i]) /\ Existed(slots[i].rows))'
    BY <2>2, <2>7 DEF Covers, Existed, InRange
  <2>. QED  BY <2>1, <2>5, <2>6, <2>8 DEF Coverage
<1>7. CASE ReadPlan
  <2>1. /\ UNCHANGED <<dictionary, stable, ever, rows, fetched>> /\ stage = "plan"
        /\ stage' # "fetch"
    BY <1>7 DEF ReadPlan, instance, seen, Fail
  <2>. QED  BY <1>2, <2>1 DEF Cutting
<1>8. CASE ReadTables \/ PlanShard \/ LastShard \/ Assemble \/ Save \/ (Collect /\ Refused # {})
  <2>1. UNCHANGED <<dictionary, stable, ever, rows, fetched, plan>> /\ stage' # "fetch"
    BY <1>8 DEF ReadTables, PlanShard, LastShard, Assemble, Save, Collect, Fail, instance, seen
  <2>. QED  BY <1>2, <2>1
<1>9. CASE (\E w \in Worker : Claim(w)) \/ UNCHANGED buildVars
  BY <1>1, <1>9 DEF Claim, buildVars, instance, seen, threads
<1>. QED  BY <1>3, <1>4, <1>5, <1>6, <1>7, <1>8, <1>9 DEF BuildNext

LEMMA PublishedKept ==
    ASSUME BuildTypeOK, Cutting, Tiling, Coverage, Published, [BuildNext]_buildVars
    PROVE  Published'
<1>1. CASE UNCHANGED <<file, stable, ever>>
  BY <1>1 DEF Published
<1>2. CASE ReadPlan
  <2>1. UNCHANGED <<stable, ever>>
        /\ \/ file' = file
           \/ file' = [parent |-> parent, columns_indexed |-> FALSE,
                       columns |-> [t \in Indexed |-> {}]]
    BY <1>2 DEF ReadPlan, seen
  <2>2. [parent |-> parent, columns_indexed |-> FALSE,
         columns |-> [t \in Indexed |-> {}]].columns_indexed = FALSE
    OBVIOUS
  <2>. QED  BY <1>1, <2>1, <2>2 DEF Published
<1>3. CASE Save
  <2>1. CASE file' = file
    BY <1>1, <1>3, <2>1 DEF Save, seen
  <2>2. CASE file' # file
    <3>1. /\ stage = "save" /\ UNCHANGED <<stable, ever>>
          /\ file' = [parent |-> parent, columns_indexed |-> TRUE, columns |-> Columns(rows)]
      BY <1>3, <2>2 DEF Save, seen
    <3>2. file'.columns = Columns(rows)
      BY <3>1
    <3>3. Pending = {}
      BY <3>1 DEF Cutting, Pending
    <3>4. Tiles(fetched) /\ fetched \in SUBSET Shard /\ plan \in Seq(PlanEntry)
      <4>1. Tiles(fetched \cup Pending) /\ fetched \cup Pending = fetched
        BY <3>1, <3>3 DEF Tiling
      <4>. QED  BY <4>1 DEF BuildTypeOK
    <3>5. ASSUME NEW t \in Indexed
          PROVE  stable[t] \subseteq Columns(rows)[t] /\ Columns(rows)[t] \subseteq ever[t]
      <4>1. t \in Name /\ stable[t] \subseteq Column
        BY SchemaAssumption DEF Indexed, BuildTypeOK
      <4>2. PICK s \in fetched : InRange(s, t)
        BY <3>4, <4>1, RangesCover
      <4>3. Columns(rows)[t] = {c \in Column : <<t, c>> \in rows}
        BY DEF Columns
      <4>4. \A c \in stable[t] : <<t, c>> \in rows
        BY <4>1, <4>2 DEF Coverage, Covers
      <4>5. \A c \in Column : <<t, c>> \in rows => c \in ever[t]
        BY <4>1 DEF Coverage, Existed
      <4>. QED  BY <4>1, <4>3, <4>4, <4>5
    <3>. QED  BY <3>1, <3>2, <3>5 DEF Published
  <2>. QED  BY <2>1, <2>2
<1>4. CASE Alter
  <2>1. file' = file
    BY <1>4 DEF Alter
  <2>2. \A t \in Indexed : stable'[t] \subseteq stable[t] /\ ever[t] \subseteq ever'[t]
    BY <1>4, AlterFacts, SchemaAssumption DEF Indexed
  <2>. QED  BY <2>1, <2>2 DEF Published
<1>. QED
  BY <1>1, <1>2, <1>3, <1>4 DEF BuildNext, buildVars, ReadTables, PlanShard, LastShard,
     StartRound, Claim, FetchShard, Collect, Assemble, seen

LEMMA BuildInvAlways == BuildSpec => []BuildInv
<1>1. BuildInit => BuildInv
  <2>. SUFFICES ASSUME BuildInit PROVE BuildInv
    OBVIOUS
  <2>1. BuildTypeOK
    BY BuildInitTypes
  <2>2. Pending = {} /\ stage = "tables" /\ fetched = {} /\ rows = {} /\ file = Nothing
    BY DEF BuildInit, Pending
  <2>3. Cutting /\ Tiling /\ Claims /\ Published
    BY <2>2 DEF BuildInit, Cutting, Tiling, Claims, Published
  <2>4. Coverage
    BY <2>2 DEF BuildInit, Coverage, Existed
  <2>. QED  BY <2>1, <2>3, <2>4 DEF BuildInv
<1>2. BuildInv /\ [BuildNext]_buildVars => BuildInv'
  BY BuildTypesKept, CuttingKept, TilingKept, ClaimsKept, CoverageKept, PublishedKept DEF BuildInv
<1>. QED  BY <1>1, <1>2, PTL DEF BuildSpec

\* The build keeps the types of its plan, its shards, its workers' slots and
\* its index, for any dictionary, any number of workers and any changes of the
\* instance on the way.
THEOREM BuildTypeCorrect == BuildSpec => []BuildTypeOK
<1>1. BuildInv => BuildTypeOK
  BY DEF BuildInv
<1>. QED  BY <1>1, BuildInvAlways, PTL

\* No round loses a shard (fetch_shards, fetch_round): what was fetched and
\* what is pending tile the plan, and when the last worker is gone every slot
\* is filled.
THEOREM ShardsAreKept == BuildSpec => []NoShardLost
<1>1. BuildInv => NoShardLost
  <2>. SUFFICES ASSUME BuildInv PROVE NoShardLost
    OBVIOUS
  <2>1. stage \in {"round", "fetch", "save"} => Tiles(fetched \cup {pending[i] : i \in DOMAIN pending})
    BY DEF BuildInv, Tiling, Pending
  <2>2. ASSUME stage = "fetch", \A w \in Worker : fetching[w] = Nothing, NEW i \in DOMAIN pending
        PROVE  slots[i].kind # "none"
    <3>1. i \in Nat \ {0} /\ next \in Nat /\ Nothing \notin Nat
      BY SchemaAssumption DEF BuildInv, BuildTypeOK
    <3>2. Unclaimed = {}
      BY <2>2 DEF BuildInv, Claims
    <3>3. i < next
      BY <3>1, <3>2 DEF Unclaimed
    <3>. QED  BY <2>2, <3>1, <3>3 DEF BuildInv, Claims
  <2>. QED  BY <2>1, <2>2 DEF NoShardLost
<1>. QED  BY <1>1, BuildInvAlways, PTL

-----------------------------------------------------------------------------
\* The lineage of a table.

\* A function of the numbers may be defined by its value at the number before.
Iterated(f, A, F, a) ==
    f \in [Nat -> A] /\ f[0] = a /\ \A n \in Nat : f[n + 1] = F[f[n]]

LEMMA Iterates ==
    ASSUME NEW A, NEW F \in [A -> A], NEW a \in A
    PROVE  \E f : Iterated(f, A, F, a)
<1>. DEFINE Approx(n) == {g \in [0..n -> A] : g[0] = a /\ \A i \in 1..n : g[i] = F[g[i - 1]]}
<1>1. ASSUME NEW n \in Nat
      PROVE  Approx(n) # {}
  <2>. DEFINE Bad == {m \in Nat : Approx(m) = {}}
  <2>1. SUFFICES ASSUME Bad # {} PROVE FALSE
    OBVIOUS
  <2>2. PICK m \in Bad : \A l \in Bad : m <= l
    BY <2>1, LeastNumber
  <2>3. m # 0
    <3>1. [i \in 0..0 |-> a] \in Approx(0)
      OBVIOUS
    <3>. QED  BY <2>2, <3>1
  <2>4. m - 1 \in Nat /\ m - 1 \notin Bad
    <3>1. m \in Nat /\ m - 1 \in Nat /\ ~(m <= m - 1)
      BY <2>2, <2>3
    <3>. HIDE DEF Bad
    <3>. QED  BY <2>2, <3>1
  <2>5. PICK g \in Approx(m - 1) : TRUE
    BY <2>4
  <2>. DEFINE h == [i \in 0..m |-> IF i = m THEN F[g[m - 1]] ELSE g[i]]
  <2>6. m \in Nat /\ \A i \in 0..(m - 1) : g[i] \in A
    BY <2>5
  <2>7. h \in [0..m -> A]
    BY <2>4, <2>6
  <2>8. h[0] = a
    BY <2>3, <2>5, <2>6
  <2>9. ASSUME NEW i \in 1..m
        PROVE  h[i] = F[h[i - 1]]
    <3>1. CASE i = m
      BY <2>4, <2>6, <3>1
    <3>2. CASE i # m
      <4>1. i \in 1..(m - 1) /\ i \in 0..m /\ i - 1 \in 0..m /\ i - 1 # m
        BY <2>6, <3>2
      <4>2. g[i] = F[g[i - 1]]
        BY <2>5, <4>1
      <4>. QED  BY <3>2, <4>1, <4>2
    <3>. QED  BY <3>1, <3>2
  <2>10. h \in Approx(m)
    BY <2>7, <2>8, <2>9
  <2>. QED  BY <2>2, <2>10
<1>2. ASSUME NEW n \in Nat, NEW m \in Nat, NEW g \in Approx(n), NEW h \in Approx(m),
             NEW k \in 0..n, k \in 0..m
      PROVE  g[k] = h[k]
  <2>. DEFINE Bad == {i \in Nat : i <= n /\ i <= m /\ g[i] # h[i]}
  <2>1. SUFFICES ASSUME Bad # {} PROVE FALSE
    <3>1. k \in Nat /\ k <= n /\ k <= m
      BY <1>2
    <3>. QED  BY <3>1
  <2>2. PICK i \in Bad : \A l \in Bad : i <= l
    BY <2>1, LeastNumber
  <2>3. i # 0
    BY <2>2
  <2>4. i - 1 \in Nat /\ i - 1 \notin Bad /\ i \in 1..n /\ i \in 1..m
    BY <2>2, <2>3
  <2>5. g[i - 1] = h[i - 1]
    BY <2>4
  <2>6. g[i] = F[g[i - 1]] /\ h[i] = F[h[i - 1]]
    BY <2>4
  <2>. QED  BY <2>2, <2>5, <2>6
<1>. DEFINE G(n) == CHOOSE g : g \in Approx(n)
            f == [n \in Nat |-> G(n)[n]]
<1>3. \A n \in Nat : G(n) \in Approx(n)
  BY <1>1
<1>4. \A n \in Nat : G(n) \in [0..n -> A] /\ G(n)[0] = a
                     /\ \A i \in 1..n : G(n)[i] = F[G(n)[i - 1]]
  BY <1>3
<1>5. \A n \in Nat : G(n + 1)[n] = G(n)[n]
  <2>. TAKE n \in Nat
  <2>1. n + 1 \in Nat /\ n \in 0..n /\ n \in 0..(n + 1)
    OBVIOUS
  <2>2. G(n) \in Approx(n) /\ G(n + 1) \in Approx(n + 1)
    BY <1>3, <2>1
  <2>. HIDE DEF G, Approx
  <2>. QED  BY <1>2, <2>1, <2>2
<1>. HIDE DEF G, Approx
<1>6. f \in [Nat -> A]
  BY <1>4
<1>7. f[0] = a
  BY <1>4
<1>8. ASSUME NEW n \in Nat
      PROVE  f[n + 1] = F[f[n]]
  <2>1. n + 1 \in Nat /\ n + 1 \in 1..(n + 1) /\ (n + 1) - 1 = n
    OBVIOUS
  <2>2. G(n + 1)[n + 1] = F[G(n + 1)[n]]
    BY <1>4, <2>1
  <2>. QED  BY <1>5, <2>1, <2>2
<1>. HIDE DEF f
<1>9. Iterated(f, A, F, a)
  BY <1>6, <1>7, <1>8 DEF Iterated
<1>. QED  BY <1>9

\* A chain of parents from a table, no table twice.
Chain(index, leaf, c) ==
    /\ c \in Seq(Indexed) /\ Len(c) > 0 /\ c[1] = leaf
    /\ \A i, j \in 1..Len(c) : c[i] = c[j] => i = j
    /\ \A i \in 1..Len(c) : i < Len(c) => index.parent[c[i]] = c[i + 1]

\* Nothing is left to add to it.
Closed(index, c) ==
    index.parent[c[Len(c)]] \in Indexed => \E i \in 1..Len(c) : c[i] = index.parent[c[Len(c)]]

LEMMA UpKeepsChain ==
    ASSUME NEW index, index.parent \in [Indexed -> Indexed \cup {Nothing}],
           NEW leaf \in Indexed, NEW c, Chain(index, leaf, c)
    PROVE  /\ Chain(index, leaf, Up(index, c))
           /\ \/ Len(Up(index, c)) = Len(c) + 1
              \/ Up(index, c) = c /\ Closed(index, c)
           /\ Closed(index, c) => Up(index, c) = c
<1>. DEFINE above == index.parent[c[Len(c)]]
            d == Append(c, above)
<1>1. /\ c \in Seq(Indexed) /\ Len(c) \in Nat /\ Len(c) > 0 /\ c[1] = leaf
      /\ DOMAIN c = 1..Len(c) /\ DOMAIN index.parent = Indexed
      /\ \A i, j \in 1..Len(c) : c[i] = c[j] => i = j
      /\ \A i \in 1..Len(c) : i < Len(c) => index.parent[c[i]] = c[i + 1]
      /\ \A i \in 1..Len(c) : c[i] \in Indexed
  BY DEF Chain
<1>2. CASE above \in Indexed /\ \A i \in 1..Len(c) : c[i] # above
  <2>1. Up(index, c) = d
    BY <1>1, <1>2 DEF Up
  <2>. HIDE DEF above
  <2>2. /\ d \in Seq(Indexed) /\ Len(d) = Len(c) + 1 /\ d[Len(c) + 1] = above
        /\ \A i \in 1..Len(c) : d[i] = c[i]
    BY <1>1, <1>2, AppendProperties
  <2>. HIDE DEF d
  <2>3. d[1] = leaf /\ Len(d) > 0
    BY <1>1, <2>2
  <2>4. ASSUME NEW i \in 1..Len(d), NEW j \in 1..Len(d), d[i] = d[j]
        PROVE  i = j
    <3>1. (i \in 1..Len(c) \/ i = Len(c) + 1) /\ (j \in 1..Len(c) \/ j = Len(c) + 1)
      BY <1>1, <2>2
    <3>. QED  BY <1>1, <1>2, <2>2, <2>4, <3>1
  <2>5. ASSUME NEW i \in 1..Len(d), i < Len(d)
        PROVE  index.parent[d[i]] = d[i + 1]
    <3>1. CASE i = Len(c)
      BY <1>1, <2>2, <3>1 DEF above
    <3>2. CASE i # Len(c)
      <4>1. \A n \in Nat : \A k \in 1..(n + 1) : k < n + 1 /\ k # n =>
              k \in 1..n /\ k + 1 \in 1..n /\ k < n
        OBVIOUS
      <4>2. i \in 1..Len(c) /\ i + 1 \in 1..Len(c) /\ i < Len(c)
        BY <1>1, <2>2, <2>5, <3>2, <4>1
      <4>. QED  BY <1>1, <2>2, <4>2
    <3>. QED  BY <3>1, <3>2
  <2>6. Chain(index, leaf, d)
    BY <2>2, <2>3, <2>4, <2>5 DEF Chain
  <2>7. ~Closed(index, c)
    BY <1>2 DEF above, Closed
  <2>. QED  BY <2>1, <2>2, <2>6, <2>7
<1>3. CASE ~(above \in Indexed /\ \A i \in 1..Len(c) : c[i] # above)
  <2>1. Up(index, c) = c
    BY <1>1, <1>3 DEF Up
  <2>. QED  BY <1>3, <2>1 DEF Closed
<1>. QED  BY <1>2, <1>3

\* So a lineage goes on to where it must end: as many steps as there are tables
\* are enough, by the pigeonhole principle.
LEMMA LineageIsClosed ==
    ASSUME NEW index, index.parent \in [Indexed -> Indexed \cup {Nothing}],
           NEW leaf \in Indexed
    PROVE  /\ Chain(index, leaf, Lineage(index, leaf))
           /\ Closed(index, Lineage(index, leaf))
           /\ Len(Lineage(index, leaf)) <= Cardinality(Indexed)
<1>. DEFINE A == {c \in Seq(Indexed) : Chain(index, leaf, c)}
            F == [c \in A |-> Up(index, c)]
            K == Cardinality(Indexed)
            Walks(w) == w = [n \in Nat |-> IF n = 0 THEN <<leaf>> ELSE Up(index, w[n - 1])]
            walk == CHOOSE w : Walks(w)
<1>1. DOMAIN index.parent = Indexed /\ IsFiniteSet(Indexed) /\ K \in Nat
  BY Sizes, SchemaAssumption DEF Indexed
<1>2. <<leaf>> \in A /\ Len(<<leaf>>) = 1
  BY DEF Chain
<1>3. F \in [A -> A]
  <2>1. \A c \in A : Chain(index, leaf, Up(index, c))
    BY UpKeepsChain
  <2>2. \A c \in A : Up(index, c) \in Seq(Indexed)
    BY <2>1 DEF Chain
  <2>. QED  BY <2>1, <2>2
<1>. HIDE DEF F
<1>4. PICK f \in [Nat -> A] : f[0] = <<leaf>> /\ \A n \in Nat : f[n + 1] = F[f[n]]
  <2>. DEFINE first == <<leaf>>
  <2>1. first \in A
    BY <1>2
  <2>. HIDE DEF A, first
  <2>2. \E f : Iterated(f, A, F, first)
    BY <1>3, <2>1, Iterates, Zenon
  <2>. QED  BY <2>2 DEF first, Iterated
<1>5. \A n \in Nat : f[n] \in A /\ f[n + 1] = Up(index, f[n])
  BY <1>4 DEF F
<1>6. Walks(f)
  <2>1. \A n \in Nat : f[n] = IF n = 0 THEN <<leaf>> ELSE Up(index, f[n - 1])
    <3>. TAKE n \in Nat
    <3>1. CASE n = 0
      BY <1>4, <3>1
    <3>2. CASE n # 0
      <4>1. n - 1 \in Nat /\ (n - 1) + 1 = n
        BY <3>2
      <4>. QED  BY <1>5, <3>2, <4>1
    <3>. QED  BY <3>1, <3>2
  <2>. QED  BY <1>4, <2>1
<1>. HIDE DEF Walks
<1>7. Walks(walk)
  BY <1>6
<1>8. Lineage(index, leaf) = walk[K]
  BY <1>1 DEF Lineage, Walks
<1>. HIDE DEF walk
<1>9. walk[0] = <<leaf>> /\ \A n \in Nat : walk[n + 1] = Up(index, walk[n])
  <2>1. walk = [n \in Nat |-> IF n = 0 THEN <<leaf>> ELSE Up(index, walk[n - 1])]
    BY <1>7 DEF Walks
  <2>2. \A n \in Nat : n + 1 \in Nat /\ n + 1 # 0 /\ (n + 1) - 1 = n
    OBVIOUS
  <2>3. \A n \in Nat : walk[n] = IF n = 0 THEN <<leaf>> ELSE Up(index, walk[n - 1])
    BY <2>1
  <2>. QED  BY <2>2, <2>3
<1>. DEFINE Good(n) == walk[n] \in A /\ (Len(walk[n]) = n + 1 \/ Closed(index, walk[n]))
            Bad == {n \in Nat : ~Good(n)}
<1>10. Good(K)
  <2>1. SUFFICES ASSUME Bad # {} PROVE FALSE
    BY <1>1
  <2>2. PICK n \in Bad : \A l \in Bad : n <= l
    BY <2>1, LeastNumber
  <2>3. n # 0
    <3>1. Good(0)
      BY <1>2, <1>9
    <3>. QED  BY <2>2, <3>1
  <2>4. n - 1 \in Nat /\ n - 1 \notin Bad /\ (n - 1) + 1 = n
    <3>1. n \in Nat /\ n - 1 \in Nat /\ ~(n <= n - 1) /\ (n - 1) + 1 = n
      BY <2>2, <2>3
    <3>. HIDE DEF Bad
    <3>. QED  BY <2>2, <3>1
  <2>5. Good(n - 1) /\ walk[n] = Up(index, walk[n - 1])
    <3>1. Good(n - 1)
      BY <2>4
    <3>. QED  BY <1>9, <2>4, <3>1
  <2>6. Chain(index, leaf, walk[n - 1])
    BY <2>5
  <2>7. /\ Chain(index, leaf, walk[n])
        /\ \/ Len(walk[n]) = Len(walk[n - 1]) + 1
           \/ walk[n] = walk[n - 1] /\ Closed(index, walk[n - 1])
    BY <2>5, <2>6, UpKeepsChain
  <2>8. walk[n] \in A
    BY <2>7 DEF Chain
  <2>9. Len(walk[n]) = n + 1 \/ Closed(index, walk[n])
    <3>1. CASE Closed(index, walk[n - 1])
      <4>1. Up(index, walk[n - 1]) = walk[n - 1]
        BY <2>6, <3>1, UpKeepsChain
      <4>. QED  BY <2>5, <3>1, <4>1
    <3>2. CASE ~Closed(index, walk[n - 1])
      <4>1. Len(walk[n - 1]) = (n - 1) + 1
        BY <2>5, <3>2
      <4>. QED  BY <2>4, <2>7, <3>2, <4>1
    <3>. QED  BY <3>1, <3>2
  <2>. QED  BY <2>2, <2>8, <2>9
<1>. DEFINE c == walk[K]
<1>11. c \in Seq(Indexed) /\ Chain(index, leaf, c) /\ Len(c) \in Nat
  BY <1>10
<1>12. Len(c) <= K
  <2>1. c \in Injection(1..Len(c), Indexed)
    <3>1. c \in [1..Len(c) -> Indexed]
      BY <1>11
    <3>2. \A i, j \in 1..Len(c) : c[i] = c[j] => i = j
      BY <1>11 DEF Chain
    <3>. QED  BY <3>1, <3>2 DEF Injection, IsInjective
  <2>2. Cardinality(1..Len(c)) <= K
    BY <1>1, <2>1, FS_Injection
  <2>3. Cardinality(1..Len(c)) = Len(c)
    <3>1. Len(c) >= 1
      BY <1>11 DEF Chain
    <3>. HIDE DEF c
    <3>2. Cardinality(1..Len(c)) = IF 1 > Len(c) THEN 0 ELSE Len(c) - 1 + 1
      <4>1. 1 \in Int /\ Len(c) \in Int
        BY <1>11
      <4>. QED  BY <4>1, FS_Interval, Zenon
    <3>. QED  BY <1>11, <3>1, <3>2
  <2>. QED  BY <2>2, <2>3
<1>13. Closed(index, c)
  <2>1. Len(c) = K + 1 \/ Closed(index, c)
    BY <1>10
  <2>. HIDE DEF c, K
  <2>. QED  BY <1>1, <1>12, <2>1
<1>. QED  BY <1>8, <1>11, <1>12, <1>13

\* The tables in a lineage are exactly those a path of parents reaches.
LEMMA LineageIsAncestors ==
    ASSUME NEW index, index.parent \in [Indexed -> Indexed \cup {Nothing}],
           NEW leaf \in Indexed
    PROVE  InLineage(index, leaf) = Ancestors(index, leaf)
<1>. DEFINE c == Lineage(index, leaf)
            K == Cardinality(Indexed)
<1>1. Chain(index, leaf, c) /\ Closed(index, c) /\ Len(c) <= K
  BY LineageIsClosed
<1>. HIDE DEF c
<1>2. /\ c \in Seq(Indexed) /\ Len(c) \in Nat /\ Len(c) > 0 /\ c[1] = leaf
      /\ DOMAIN c = 1..Len(c) /\ DOMAIN index.parent = Indexed /\ K \in Nat
      /\ \A i \in 1..Len(c) : i < Len(c) => index.parent[c[i]] = c[i + 1]
      /\ \A i \in 1..Len(c) : c[i] \in Indexed
  BY <1>1, Sizes, SchemaAssumption DEF Chain, Indexed
<1>3. InLineage(index, leaf) = {c[i] : i \in 1..Len(c)}
  BY <1>2 DEF InLineage, c
<1>. HIDE DEF K
<1>4. ASSUME NEW i \in 1..Len(c)
      PROVE  c[i] \in Ancestors(index, leaf)
  <2>. DEFINE n == i - 1
              path == [j \in 0..n |-> c[j + 1]]
  <2>1. n \in 0..K /\ n \in Nat /\ n + 1 = i /\ \A j \in 0..n : j + 1 \in 1..Len(c)
    BY <1>1, <1>2
  <2>2. \A j \in 1..n : j - 1 \in 0..n /\ j \in 0..n /\ (j - 1) + 1 = j /\ j < Len(c) /\ j \in 1..Len(c)
    BY <1>2, <2>1
  <2>3. 0 \in 0..n /\ n \in 0..n /\ 0 + 1 = 1
    BY <2>1
  <2>. HIDE DEF n
  <2>4. path \in [0..n -> Indexed]
    BY <1>2, <2>1
  <2>5. path[0] = leaf /\ path[n] = c[i]
    BY <1>2, <2>1, <2>3
  <2>6. ASSUME NEW j \in 1..n
        PROVE  index.parent[path[j - 1]] = path[j]
    <3>1. path[j - 1] = c[j] /\ path[j] = c[j + 1]
      BY <2>2
    <3>. QED  BY <1>2, <2>2, <3>1
  <2>. HIDE DEF path
  <2>. QED  BY <1>2, <2>1, <2>4, <2>5, <2>6 DEF Ancestors, K
<1>5. ASSUME NEW a \in Ancestors(index, leaf)
      PROVE  \E i \in 1..Len(c) : c[i] = a
  <2>. PICK n \in 0..K : \E path \in [0..n -> Indexed] :
           /\ path[0] = leaf /\ path[n] = a
           /\ \A i \in 1..n : index.parent[path[i - 1]] = path[i]
    BY <1>2 DEF Ancestors, K
  <2>1. PICK path \in [0..n -> Indexed] :
           /\ path[0] = leaf /\ path[n] = a
           /\ \A i \in 1..n : index.parent[path[i - 1]] = path[i]
    OBVIOUS
  <2>2. n \in Nat
    BY <1>2, <2>1
  <2>. DEFINE In(x) == \E i \in 1..Len(c) : c[i] = x
              Bad == {j \in Nat : j <= n /\ ~In(path[j])}
  <2>3. SUFFICES ASSUME Bad # {} PROVE FALSE
    BY <2>1, <2>2
  <2>4. PICK j \in Bad : \A l \in Bad : j <= l
    BY <2>3, LeastNumber
  <2>5. In(path[0])
    BY <1>2, <2>1
  <2>6. j \in 1..n /\ In(path[j - 1])
    <3>1. j \in Nat /\ j <= n /\ j # 0 /\ ~In(path[j])
      <4>. HIDE DEF In
      <4>. QED  BY <2>4, <2>5
    <3>2. j - 1 \in Nat /\ j - 1 <= n /\ ~(j <= j - 1) /\ j \in 1..n
      BY <2>2, <3>1
    <3>3. j - 1 \notin Bad
      <4>. HIDE DEF Bad
      <4>. QED  BY <2>4, <3>2
    <3>. QED  BY <3>2, <3>3
  <2>7. PICK i \in 1..Len(c) : c[i] = path[j - 1]
    BY <2>6
  <2>8. index.parent[c[i]] = path[j] /\ path[j] \in Indexed
    BY <2>1, <2>2, <2>6, <2>7
  <2>9. In(path[j])
    <3>1. CASE i = Len(c)
      BY <1>1, <2>8, <3>1 DEF Closed
    <3>2. CASE i # Len(c)
      <4>1. \A l \in Nat : \A k \in 1..l : k # l => k < l /\ k + 1 \in 1..l
        OBVIOUS
      <4>2. i < Len(c) /\ i + 1 \in 1..Len(c)
        BY <1>2, <3>2, <4>1
      <4>. QED  BY <1>2, <2>8, <4>2
    <3>. QED  BY <3>1, <3>2
  <2>. QED  BY <2>4, <2>9
<1>6. \A a \in InLineage(index, leaf) : a \in Ancestors(index, leaf)
  BY <1>3, <1>4
<1>7. \A a \in Ancestors(index, leaf) : a \in InLineage(index, leaf)
  BY <1>3, <1>5
<1>. QED  BY <1>6, <1>7

\* What is published is complete (build, SchemaIndex::lineage, all_columns,
\* table_candidates): every column that existed throughout the build and none
\* that never did, and a table's lookups find the columns and the roots of
\* everything it extends, at any distance and also when the parents form a
\* cycle.
THEOREM IndexesAreComplete == BuildSpec => []IndexIsComplete
<1>1. BuildInv => IndexIsComplete
  <2>. SUFFICES ASSUME BuildInv PROVE IndexIsComplete
    OBVIOUS
  <2>1. ASSUME file # Nothing
        PROVE  file.parent \in [Indexed -> Indexed \cup {Nothing}]
    <3>1. file \in Index
      BY <2>1 DEF BuildInv, BuildTypeOK
    <3>2. file.parent \in Hierarchies
      BY <3>1 DEF Index
    <3>. QED  BY <3>2, SchemaAssumption
  <2>2. ASSUME file # Nothing, NEW t \in Indexed
        PROVE  /\ AllColumns(file, t) = UNION {file.columns[a] : a \in Ancestors(file, t)}
               /\ \A root \in Name \cup {Nothing} :
                     t \in Extending(file, root) <=>
                         root \notin Indexed \/ root \in Ancestors(file, t)
    <3>1. InLineage(file, t) = Ancestors(file, t)
      BY <2>1, <2>2, LineageIsAncestors
    <3>2. DOMAIN file.parent = Indexed
      BY <2>1, <2>2
    <3>3. AllColumns(file, t) = UNION {file.columns[a] : a \in Ancestors(file, t)}
      BY <3>1 DEF AllColumns
    <3>4. \A root : t \in Extending(file, root) <=>
                      root \notin Indexed \/ root \in InLineage(file, t)
      BY <3>2, Zenon DEF Extending
    <3>. QED  BY <3>1, <3>3, <3>4, Zenon
  <2>3. ColumnsAreInherited
    BY <2>2, Zenon DEF ColumnsAreInherited
  <2>. QED  BY <2>3 DEF BuildInv, Published, IndexIsComplete
<1>. QED  BY <1>1, BuildInvAlways, PTL
=============================================================================
