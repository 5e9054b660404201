------------------------------- MODULE Keyset -------------------------------
(***************************************************************************)
(* `sn table list --all`: the paginator of client.rs and the JSONL drain   *)
(* of cli/table.rs, over a table other users write to during the walk and  *)
(* an instance whose row ACLs filter a page after the database fetched it. *)
(*                                                                         *)
(* A row is its sys_id, and sys_ids are numbered in their order; 0 is no   *)
(* cursor.  A walk is a keyset walk until its first page turns out to have *)
(* nothing to seek on; then it starts over by offset.  Each `sn` that      *)
(* resumes an interrupted walk appends to the same output.                 *)
(***************************************************************************)
EXTENDS Naturals, Sequences, FiniteSets

CONSTANTS
    MaxRow,     \* bound: rows there can be
    PageSize,   \* --setlimit
    Caps,       \* the --max-records to try, 0 for none
    MaxChange,  \* bound: writes of others during the walk
    MaxFail,    \* bound: failed or mangled pages
    MaxOut      \* bound: records written, never reached

Row == 1 .. MaxRow

ASSUME KeysetAssumption ==
    /\ MaxRow \in Nat /\ PageSize \in Nat \ {0}
    /\ Caps \subseteq Nat
    /\ MaxChange \in Nat /\ MaxFail \in Nat /\ MaxOut \in Nat

VARIABLES
    present,   \* instance: the rows the query matches
    hidden,    \* instance: those the caller may not read
    changes,   \* instance: writes so far
    deaf,      \* instance: it drops the sys_id> term
    counted,   \* instance: responses carry X-Total-Count
    fails,     \* pages that failed so far
    mode,      \* Mode::Keyset or Mode::Link
    cursor,    \* the sys_id pages start after
    skip,      \* rows past the cursor known to be hidden; the offset of a Link
    prev,      \* sys_ids of the previous non-empty page
    fresh,     \* this invocation may still fall back to offsets
    buffer,    \* records fetched and not handed out
    emitted,   \* records this invocation handed out
    cap,       \* --max-records
    finished,  \* the last page was fetched
    out,       \* stdout of the walk and its resumptions
    result,    \* how the invocation ended
    stable,    \* history: rows matching and readable since the walk began
    slid       \* history: rows a deletion moved below the offset

table == <<present, hidden, changes, deaf, counted>>
walk == <<mode, cursor, skip, prev, fresh>>
vars == <<table, fails, walk, buffer, emitted, cap, finished, out, result, stable, slid>>

TypeOK ==
    /\ present \subseteq Row /\ hidden \subseteq Row
    /\ changes \in 0 .. MaxChange /\ fails \in 0 .. MaxFail
    /\ deaf \in BOOLEAN /\ counted \in BOOLEAN /\ fresh \in BOOLEAN
    /\ mode \in {"keyset", "link"}
    /\ cursor \in 0 .. MaxRow /\ skip \in Nat
    /\ prev \subseteq Row
    /\ buffer \in Seq(Row) /\ Len(buffer) <= PageSize
    /\ cap \in Caps /\ emitted \in Nat /\ (cap # 0 => emitted <= cap)
    /\ finished \in BOOLEAN
    /\ out \in Seq(Row) /\ Len(out) <= MaxOut
    /\ result \in {"running", "ok", "interrupted", "failed", "instance"}
    /\ stable \subseteq Row /\ slid \subseteq Row

Init ==
    /\ present \in SUBSET Row /\ hidden \in SUBSET Row
    /\ changes = 0 /\ fails = 0
    /\ deaf \in BOOLEAN /\ counted \in BOOLEAN
    /\ mode = "keyset" /\ cursor = 0 /\ skip = 0 /\ prev = {} /\ fresh = TRUE
    /\ buffer = <<>> /\ emitted = 0 /\ cap \in Caps /\ finished = FALSE
    /\ out = <<>> /\ result = "running"
    /\ stable = present \ hidden /\ slid = {}

-----------------------------------------------------------------------------
\* The instance.

\* The rows of S from position n on, at most a page of them.
Before(S, r) == Cardinality({s \in S : s < r})
Window(S, n) == {r \in S : n <= Before(S, r) /\ Before(S, r) < n + PageSize}
\* What keyset_query asks for: the caller's query after the cursor.
Matching(c) == {r \in present : deaf \/ r > c}

\* The rows of S an offset of n steps over.
Below(S, n) == {r \in S : Before(S, r) < n}

\* A user inserts, deletes, or changes who may read, one row.  When a row the
\* offset steps over is deleted, the next one takes its place there.
Change ==
    /\ result = "running" /\ changes < MaxChange
    /\ changes' = changes + 1
    /\ \E r \in Row :
        \/ r \notin present /\ present' = present \cup {r} /\ UNCHANGED hidden
        \/ r \in present /\ present' = present \ {r} /\ UNCHANGED hidden
        \/ r \in present /\ UNCHANGED present
           /\ hidden' = (hidden \ {r}) \cup ({r} \ hidden)
    /\ stable' = stable \cap (present' \ hidden')
    /\ LET ahead == {r \in present' : r > cursor}
           had == {r \in present : r > cursor}
       IN slid' = slid \cup (Below(ahead, skip) \cap (had \ Below(had, skip)))
    /\ UNCHANGED <<deaf, counted, fails, walk, buffer, emitted, cap, finished, out, result>>

-----------------------------------------------------------------------------
\* Paginator::next and what it fetches.

CapReached == cap # 0 /\ emitted >= cap

Prefetches == Len(buffer) <= 1  \* (mutant)
\* A page is fetched only once all that came before has been handed out.
Drained == buffer = <<>>

Fetching == result = "running" /\ ~CapReached /\ Drained /\ ~finished

InOrderOf(S) == [i \in 1 .. Cardinality(S) |-> CHOOSE r \in S : Before(S, r) = i - 1]

\* The canary: a page that repeats a record of the one before.
Repeats(page) == page \cap prev # {}

ShortPage(scanned, page) == Cardinality(page) < PageSize  \* (mutant)
HeaderOnly(scanned, page) == counted /\ Cardinality(scanned) < PageSize  \* (mutant)
\* The last page is the one the database could not fill; without the header,
\* an empty one.
LastPage(scanned, page) ==
    IF counted THEN Cardinality(scanned) < PageSize ELSE page = {}

\* fetch_keyset.
FetchKeyset ==
    /\ Fetching /\ mode = "keyset"
    /\ LET scanned == Window(Matching(cursor), skip)
           page == scanned \ hidden
       IN IF Repeats(page)
          THEN /\ result' = "instance" /\ finished' = TRUE
               /\ UNCHANGED <<walk, buffer>>
          ELSE /\ IF page = {}
                  THEN /\ skip' = IF counted THEN skip + Cardinality(scanned) ELSE skip
                       /\ UNCHANGED <<cursor, prev>>
                  ELSE /\ cursor' = CHOOSE r \in page : \A s \in page : s <= r
                       /\ skip' = 0 /\ prev' = page
               /\ finished' = LastPage(scanned, page)
               /\ buffer' = buffer \o InOrderOf(page)
               /\ UNCHANGED <<mode, fresh, result>>
    /\ UNCHANGED <<table, fails, emitted, cap, out, stable, slid>>

\* fetch_link: the next link is there as long as the instance has more rows.
FetchLink ==
    /\ Fetching /\ mode = "link"
    /\ buffer' = buffer \o InOrderOf(Window(present, skip) \ hidden)
    /\ skip' = skip + PageSize
    /\ finished' = (skip + PageSize >= Cardinality(present))
    /\ UNCHANGED <<table, fails, mode, cursor, prev, fresh, emitted, cap, out, result,
                   stable, slid>>

\* The error of a failed page.  On a keyset walk drain names the record to
\* resume after, when there is one.
Resumable == mode = "keyset" /\ cursor # 0
FetchFails ==
    /\ Fetching /\ fails < MaxFail
    /\ fails' = fails + 1
    /\ result' = IF Resumable THEN "interrupted" ELSE "failed"
    /\ finished' = TRUE
    /\ UNCHANGED <<table, walk, buffer, emitted, cap, out, stable, slid>>

\* A page whose records carry nothing to seek on: on an untouched walk that is
\* the table, which is then read by offset; afterwards it is a mangled page,
\* which fails as in FetchFails.
Untouched == cursor = 0 /\ skip = 0 /\ emitted = 0
FallBack ==
    /\ Fetching /\ mode = "keyset" /\ fails < MaxFail
    /\ fails' = fails + 1
    /\ Untouched /\ fresh
    /\ Window(Matching(cursor), skip) \ hidden # {}
    /\ mode' = "link" /\ skip' = 0 /\ fresh' = FALSE
    /\ UNCHANGED <<table, cursor, prev, buffer, emitted, cap, finished, out, result,
                   stable, slid>>

Emit ==
    /\ result = "running" /\ ~CapReached /\ buffer # <<>> /\ Len(out) < MaxOut
    /\ out' = Append(out, Head(buffer))
    /\ buffer' = Tail(buffer)
    /\ emitted' = emitted + 1
    /\ UNCHANGED <<table, fails, walk, cap, finished, result, stable, slid>>

End ==
    /\ result = "running"
    /\ CapReached \/ (buffer = <<>> /\ finished)
    /\ result' = "ok"
    /\ UNCHANGED <<table, fails, walk, buffer, emitted, cap, finished, out, stable, slid>>

\* The user runs it again with --resume-from and appends.
Resume ==
    /\ result = "interrupted"
    /\ mode' = "keyset" /\ skip' = 0 /\ prev' = {} /\ fresh' = FALSE
    /\ buffer' = <<>> /\ emitted' = 0 /\ finished' = FALSE /\ result' = "running"
    /\ UNCHANGED <<table, fails, cursor, cap, out, stable, slid>>

Walk == FetchKeyset \/ FetchLink \/ Emit \/ End
Next == Walk \/ FetchFails \/ FallBack \/ Resume \/ Change

\* Requests have timeouts and the walk goes on; nothing else is assumed.
Spec == Init /\ [][Next]_vars /\ WF_vars(Walk)

-----------------------------------------------------------------------------
\* Properties.

Written == {out[i] : i \in DOMAIN out}

\* Records arrive in sys_id order and none twice, whatever is written to the
\* table meanwhile and however often the walk is resumed.
Ascending ==
    mode = "keyset" /\ ~deaf =>
        \A i, j \in DOMAIN out : i < j => out[i] < out[j]

Complete == result = "ok" /\ cap = 0 /\ mode = "keyset" /\ counted /\ ~deaf

\* (Refuted, see README.)  "Rows that exist for the whole walk each appear
\* exactly once, even while the table changes": Ascending is one half of it,
\* this is the other.
StableRowsAppear == Complete => stable \subseteq Written

\* As much of it as the code delivers: all but the rows that a deletion moved
\* below the offset a walk steps over hidden rows with.
AllButTheSlid == Ascending /\ (Complete => stable \subseteq Written \cup slid)

\* "stdout holds every record up to the failure and the error names where to
\* continue": when it is printed, the token is the last record written, and no
\* row it leaves behind is missing.
TokenIsLastWritten ==
    result = "interrupted" /\ ~deaf /\ counted =>
        /\ out # <<>> => out[Len(out)] = cursor
        /\ \A r \in stable : r <= cursor => r \in Written \cup slid

\* "Pages are disjoint by construction, so any repeat is proof": the canary
\* accuses nobody but an instance that drops the cursor.
CanaryIsRight == result = "instance" => deaf

\* A walk ends, even over an instance that keeps answering the same page, and
\* never by accusing one that does not.
WalkEnds == ((result = "running") ~> (result # "running")) /\ []CanaryIsRight
=============================================================================
