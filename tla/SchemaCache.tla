---------------------------- MODULE SchemaCache ----------------------------
(***************************************************************************)
(* `sn cache refresh` builds an index of every table, the table it extends *)
(* and its columns, from aggregates over an instance that goes on          *)
(* changing; `sn cache columns` and shell completion read it offline.  The *)
(* dictionary is fetched in shards, ranges of table names, by workers that *)
(* share a counter and a vector of slots; a shard that times out is halved *)
(* and tried again in the next round.                                      *)
(*                                                                         *)
(* Table names are numbers, ordered as the instance's database orders      *)
(* them; the plan may come back in any other order.                        *)
(***************************************************************************)
EXTENDS Integers, Sequences, FiniteSets, Folds

CONSTANTS
    Name,            \* table names, the var__m_ pseudo-tables among them
    Pseudo,          \* names that are in sys_dictionary and not in sys_db_object
    Column,
    Worker,          \* WORKERS threads
    SHARD_ROWS,
    MAX_SPLIT_ROUNDS,
    Dictionaries,    \* the dictionaries the instance may start with
    Hierarchies,     \* the parents its tables may have
    MaxAlters,       \* bound: columns added or dropped during the build
    Nothing

Indexed == Name \ Pseudo
Pairs == Name \X Column

ASSUME SchemaAssumption ==
    /\ Name \subseteq Nat /\ IsFiniteSet(Name) /\ Pseudo \subseteq Name
    /\ IsFiniteSet(Column)
    /\ SHARD_ROWS \in Nat /\ MAX_SPLIT_ROUNDS \in Nat /\ MaxAlters \in Nat
    /\ Dictionaries \subseteq [Name -> SUBSET Column]
    /\ Hierarchies \subseteq [Indexed -> Indexed \cup {Nothing}]
    /\ Nothing \notin Nat

VARIABLES
    dictionary,  \* the instance: table -> its own columns
    parent,      \* the instance: table -> the table it extends
    alters,
    stage,
    plan,        \* <<[name, count], ...>> as the first pass returned them
    cut,         \* plan_shards: where its loop is
    pending,     \* the shards of the round, by number: a shard's halves have
                 \* its number times two, and that plus one
    round,
    next,        \* the workers' shared counter: the next number to claim
    slots,       \* the outcome of each pending shard
    fetching,    \* worker -> the shard it fetches, 0 between two, Nothing when it is gone
    rows,        \* (table, column) pairs fetched so far
    fetched,     \* history: the shards whose rows were taken
    stable,      \* history: the columns that existed throughout the build
    ever,        \* history: the columns that existed at some time in it
    file         \* schema.json

instance == <<dictionary, parent, alters>>
threads == <<next, slots, fetching>>
seen == <<stable, ever>>
buildVars == <<instance, stage, plan, cut, pending, round, threads, rows, fetched, seen, file>>

Shard == [start : 0..Cardinality(Name), end : 0..Cardinality(Name)]
PlanEntry == [name : Name, count : 0..Cardinality(Column)]
Outcome == [kind : {"none", "timeout", "refused"}] \cup [kind : {"rows"}, rows : SUBSET Pairs]
Index == [parent : Hierarchies, columns_indexed : BOOLEAN, columns : [Indexed -> SUBSET Column]]

BuildTypeOK ==
    /\ dictionary \in [Name -> SUBSET Column]
    /\ parent \in Hierarchies
    /\ alters \in 0..MaxAlters
    /\ stage \in {"tables", "plan", "cut", "round", "fetch", "save", "done", "failed"}
    /\ plan \in Seq(PlanEntry) /\ Len(plan) <= Cardinality(Name)
    /\ cut \in [i : 0..Cardinality(Name), start : 0..Cardinality(Name), rows : Nat]
    /\ DOMAIN pending \subseteq Nat \ {0} /\ IsFiniteSet(DOMAIN pending)
    /\ \A i \in DOMAIN pending : pending[i] \in Shard
    /\ round \in 0..(MAX_SPLIT_ROUNDS + 1)
    /\ next \in Nat
    /\ stage = "fetch" => slots \in [DOMAIN pending -> Outcome]
    /\ fetching \in [Worker -> Nat \cup {Nothing}]
    /\ rows \subseteq Pairs
    /\ fetched \subseteq Shard
    /\ stable \in [Name -> SUBSET Column] /\ ever \in [Name -> SUBSET Column]
    /\ file \in Index \cup {Nothing}

BuildInit ==
    /\ dictionary \in Dictionaries /\ parent \in Hierarchies /\ alters = 0
    /\ stage = "tables"
    /\ plan = <<>> /\ cut = [i |-> 0, start |-> 0, rows |-> 0]
    /\ pending = <<>> /\ round = 0
    /\ next = 1 /\ slots = <<>> /\ fetching = [w \in Worker |-> Nothing]
    /\ rows = {} /\ fetched = {}
    /\ stable = dictionary /\ ever = dictionary
    /\ file = Nothing

\* The instance's administrators add and drop columns meanwhile.
Alter ==
    /\ alters < MaxAlters
    /\ alters' = alters + 1
    /\ \E t \in Name, c \in Column :
          /\ dictionary' = [dictionary EXCEPT ![t] = IF c \in @ THEN @ \ {c} ELSE @ \cup {c}]
          /\ stable' = [stable EXCEPT ![t] = @ \cap dictionary'[t]]
          /\ ever' = [ever EXCEPT ![t] = @ \cup dictionary'[t]]
    /\ UNCHANGED <<parent, stage, plan, cut, pending, round, threads, rows, fetched, file>>

-----------------------------------------------------------------------------
\* build, up to the plan.

Fail == stage' = "failed"

\* An answer without tables, or without the parent grouping, is refused too.
ReadTables ==
    /\ stage = "tables"
    /\ \/ stage' = "plan"
       \/ Fail
    /\ UNCHANGED <<instance, plan, cut, pending, round, threads, rows, fetched, seen, file>>

\* The orders in which a set of names may be listed.
Orders(S) == {o \in [1..Cardinality(S) -> S] : \A i, j \in DOMAIN o : i # j => o[i] # o[j]}

Plans ==
    {[i \in DOMAIN o |-> [name |-> o[i], count |-> Cardinality(dictionary[o[i]])]] :
        o \in Orders({t \in Name : dictionary[t] # {}})}

\* sys_dictionary is admin-only: a 403 degrades to an index of tables.
ReadPlan ==
    /\ stage = "plan"
    /\ \/ plan' \in Plans /\ stage' = "cut" /\ file' = file
       \/ /\ stage' = "done" /\ plan' = plan
          /\ file' = [parent |-> parent, columns_indexed |-> FALSE,
                      columns |-> [t \in Indexed |-> {}]]
       \/ Fail /\ UNCHANGED <<plan, file>>
    /\ UNCHANGED <<instance, cut, pending, round, threads, rows, fetched, seen>>

-----------------------------------------------------------------------------
\* plan_shards: the loop over the plan, and the shard it leaves open.

PlanShard ==
    /\ stage = "cut"
    /\ cut.i < Len(plan)
    /\ LET count == plan[cut.i + 1].count
           full == cut.rows > 0 /\ cut.rows + count > SHARD_ROWS
       IN  /\ pending' = IF full THEN Append(pending, [start |-> cut.start, end |-> cut.i])
                         ELSE pending
           /\ cut' = [i |-> cut.i + 1,
                      start |-> IF full THEN cut.i ELSE cut.start,
                      rows |-> IF full THEN count ELSE cut.rows + count]
    /\ UNCHANGED <<instance, stage, plan, round, threads, rows, fetched, seen, file>>

LastShard ==
    /\ stage = "cut"
    /\ cut.i = Len(plan)
    /\ pending' = Append(pending, [start |-> cut.start, end |-> Len(plan)])
    /\ stage' = "round"
    /\ UNCHANGED <<instance, plan, cut, round, threads, rows, fetched, seen, file>>

\* (mutant) every shard is bounded on both sides
BoundedOnBothSides(shard, name) ==
    /\ shard.start < Len(plan) => plan[shard.start + 1].name <= name
    /\ shard.end < Len(plan) => name < plan[shard.end + 1].name

\* Shard::query.  The first shard has no lower bound and the last no upper.
InRange(shard, name) ==
    /\ shard.start > 0 => plan[shard.start + 1].name <= name
    /\ shard.end < Len(plan) => name < plan[shard.end + 1].name

PlannedRows(shard) ==
    MapThenFoldSet(+, 0, LAMBDA i : plan[i].count, LAMBDA S : CHOOSE i \in S : TRUE,
                   (shard.start + 1)..shard.end)

\* check_shard: more rows from outside of the shard's tables than it planned
\* rows in all means that the range terms were not applied.
Filtered(shard, answer) ==
    \/ plan = <<>>
    \/ LET own == {plan[i].name : i \in (shard.start + 1)..shard.end}
       IN  Cardinality({r \in answer : r[1] \notin own}) <= PlannedRows(shard)

Mid(shard) == shard.start + (shard.end - shard.start) \div 2

Splits(shard) == shard.end - shard.start >= 2

Halves(shard) ==
    <<[start |-> shard.start, end |-> Mid(shard)], [start |-> Mid(shard), end |-> shard.end]>>

-----------------------------------------------------------------------------
\* fetch_round: a scope of workers, joined before the outcomes are looked at.

StartRound ==
    /\ stage = "round" /\ DOMAIN pending # {} /\ round <= MAX_SPLIT_ROUNDS
    /\ stage' = "fetch"
    /\ next' = 1
    /\ slots' = [i \in DOMAIN pending |-> [kind |-> "none"]]
    /\ \E started \in (SUBSET Worker) \ {{}} :
          /\ \/ Cardinality(started) = Cardinality(DOMAIN pending)
             \/ started = Worker /\ Cardinality(Worker) <= Cardinality(DOMAIN pending)
          /\ fetching' = [w \in Worker |-> IF w \in started THEN 0 ELSE Nothing]
    /\ UNCHANGED <<instance, plan, cut, pending, round, rows, fetched, seen, file>>

Unclaimed == {i \in DOMAIN pending : i >= next}

\* (mutant) a worker leaves the last shard of the round unclaimed
ClaimOneShort(w) ==
    /\ stage = "fetch" /\ fetching[w] = 0
    /\ \/ \E i \in Unclaimed :
             /\ \E j \in Unclaimed : i < j
             /\ \A j \in Unclaimed : i <= j
             /\ next' = i + 1 /\ fetching' = [fetching EXCEPT ![w] = i]
       \/ /\ Cardinality(Unclaimed) <= 1
          /\ next' = next /\ fetching' = [fetching EXCEPT ![w] = Nothing]
    /\ UNCHANGED <<instance, stage, plan, cut, pending, round, slots, rows, fetched, seen, file>>

\* next.fetch_add(1): the next shard in order is this worker's alone.
Claim(w) ==
    /\ stage = "fetch" /\ fetching[w] = 0
    /\ \/ \E i \in Unclaimed :
             /\ \A j \in Unclaimed : i <= j
             /\ next' = i + 1 /\ fetching' = [fetching EXCEPT ![w] = i]
       \/ /\ Unclaimed = {}
          /\ next' = next /\ fetching' = [fetching EXCEPT ![w] = Nothing]
    /\ UNCHANGED <<instance, stage, plan, cut, pending, round, slots, rows, fetched, seen, file>>

\* The answer to a shard's query, of an instance that applies its range terms
\* or drops those it cannot evaluate.
Answers(shard) ==
    LET real == {r \in Pairs : r[2] \in dictionary[r[1]]}
    IN  {real, {r \in real : InRange(shard, r[1])}}

FetchShard(w) ==
    /\ stage = "fetch" /\ fetching[w] \in DOMAIN pending
    /\ LET i == fetching[w]
           Slot(outcome) == slots' = [slots EXCEPT ![i] = outcome]
       IN  \/ Slot([kind |-> "timeout"])
           \/ Slot([kind |-> "refused"])
           \/ \E answer \in Answers(pending[i]) :
                 Slot(IF Filtered(pending[i], answer) THEN [kind |-> "rows", rows |-> answer]
                      ELSE [kind |-> "refused"])
    /\ fetching' = [fetching EXCEPT ![w] = 0]
    /\ UNCHANGED <<instance, stage, plan, cut, pending, round, next, rows, fetched, seen, file>>

\* A slot nobody filled counts as a timeout ("shard not fetched").
TimedOut(i) == slots[i].kind \in {"none", "timeout"}
Taken == {i \in DOMAIN pending : slots[i].kind = "rows"}
Again == {i \in DOMAIN pending : TimedOut(i)}
Refused ==
    {i \in DOMAIN pending : slots[i].kind = "refused"} \cup {i \in Again : ~Splits(pending[i])}

\* The shards to try again, halved, in their order.
InHalves ==
    [n \in {2 * i : i \in Again} \cup {2 * i + 1 : i \in Again} |->
        Halves(pending[n \div 2])[(n % 2) + 1]]

\* fetch_shards, after a round: an outcome that cannot be retried is its error.
Collect ==
    /\ stage = "fetch"
    /\ \A w \in Worker : fetching[w] = Nothing
    /\ \/ /\ Refused = {}
          /\ rows' = rows \cup UNION {slots[i].rows : i \in Taken}
          /\ fetched' = fetched \cup {pending[i] : i \in Taken}
          /\ pending' = InHalves
          /\ round' = round + 1
          /\ stage' = "round"
       \/ /\ Refused # {}
          /\ Fail /\ UNCHANGED <<rows, fetched, pending, round>>
    /\ UNCHANGED <<instance, plan, cut, threads, seen, file>>

\* Only the tables of sys_db_object are kept.
Columns(pairs) == [t \in Indexed |-> {c \in Column : <<t, c>> \in pairs}]

Assemble ==
    /\ stage = "round"
    /\ \/ /\ DOMAIN pending = {}
          /\ stage' = "save"
       \/ /\ DOMAIN pending # {} /\ round > MAX_SPLIT_ROUNDS
          /\ Fail
    /\ UNCHANGED <<instance, plan, cut, pending, round, threads, rows, fetched, seen, file>>

\* save: an atomic replacement of the whole file.
Save ==
    /\ stage = "save"
    /\ \/ /\ stage' = "done"
          /\ file' = [parent |-> parent, columns_indexed |-> TRUE, columns |-> Columns(rows)]
       \/ Fail /\ file' = file
    /\ UNCHANGED <<instance, plan, cut, pending, round, threads, rows, fetched, seen>>

BuildNext ==
    \/ ReadTables \/ ReadPlan \/ PlanShard \/ LastShard \/ StartRound
    \/ \E w \in Worker : Claim(w) \/ FetchShard(w)
    \/ Collect \/ Assemble \/ Save
    \/ Alter

BuildSpec == BuildInit /\ [][BuildNext]_buildVars

-----------------------------------------------------------------------------
\* The offline side: lookups in an index.

\* SchemaIndex::lineage: a table and what it extends, up to a parent that is
\* not in the index, or a cycle.
Up(index, chain) ==
    LET above == index.parent[chain[Len(chain)]]
    IN  IF above \in DOMAIN index.parent /\ \A i \in DOMAIN chain : chain[i] # above
        THEN Append(chain, above) ELSE chain

Lineage(index, table) ==
    LET walk[n \in Nat] == IF n = 0 THEN <<table>> ELSE Up(index, walk[n - 1])
    IN  IF table \in DOMAIN index.parent THEN walk[Cardinality(DOMAIN index.parent)] ELSE <<>>

InLineage(index, table) == {Lineage(index, table)[i] : i \in DOMAIN Lineage(index, table)}

AllColumns(index, table) == UNION {index.columns[t] : t \in InLineage(index, table)}

\* table_candidates: the tables that extend a root, or all when the index does
\* not know the root.
Extending(index, root) ==
    {t \in DOMAIN index.parent : root \notin DOMAIN index.parent \/ root \in InLineage(index, t)}

-----------------------------------------------------------------------------
\* Properties.

\* The shards whose rows were taken and those still to be fetched tile the
\* plan: one starts where the next one ends, whatever was split.
Tiles(shards) ==
    /\ \E s \in shards : s.start = 0
    /\ \A s \in shards : s.end = Len(plan) \/ \E n \in shards : n.start = s.end /\ s.end > s.start

\* No round loses a shard: every worker gone, every slot is filled, and what
\* was fetched and what is pending cover the plan.
NoShardLost ==
    /\ stage \in {"round", "fetch", "save"} =>
          Tiles(fetched \cup {pending[i] : i \in DOMAIN pending})
    /\ stage = "fetch" /\ (\A w \in Worker : fetching[w] = Nothing) =>
          \A i \in DOMAIN pending : slots[i].kind # "none"

\* A table's columns are its own and those of every table it extends, at any
\* distance, also when the parents form a cycle.
Ancestors(index, table) ==
    {a \in DOMAIN index.parent : \E n \in 0..Cardinality(DOMAIN index.parent) :
        \E path \in [0..n -> DOMAIN index.parent] :
            /\ path[0] = table /\ path[n] = a
            /\ \A i \in 1..n : index.parent[path[i - 1]] = path[i]}

ColumnsAreInherited ==
    file # Nothing => \A t \in Indexed :
        /\ AllColumns(file, t) = UNION {file.columns[a] : a \in Ancestors(file, t)}
        /\ \A root \in Name \cup {Nothing} :
              t \in Extending(file, root) <=> root \notin Indexed \/ root \in Ancestors(file, t)

\* A published index with columns has every column that existed throughout
\* the build and none that never did, although the plan may be misordered,
\* range terms dropped, shards split, and tables changed on the way.
IndexIsComplete ==
    /\ ColumnsAreInherited
    /\ file # Nothing /\ file.columns_indexed =>
        \A t \in Indexed : stable[t] \subseteq file.columns[t] /\ file.columns[t] \subseteq ever[t]
=============================================================================
