---------------------------- MODULE KeysetProofs ----------------------------
(***************************************************************************)
(* Proofs about Keyset for a table of any size, pages of any size and any  *)
(* number of writes by others, failed pages and resumptions: what reaches  *)
(* stdout is in order and without repeats, a finished walk has every row   *)
(* that was there throughout but for the slid ones, a token says where the *)
(* output ends, and the canary accuses the guilty only.                    *)
(***************************************************************************)
EXTENDS Keyset, Integers, FiniteSetTheorems, TLAPS

-----------------------------------------------------------------------------
\* The inductive invariant.

\* Records fetched and not written yet.
Kept == {buffer[i] : i \in DOMAIN buffer}
Ahead == {r \in present : r > cursor}

\* An instance that honours the cursor, under a walk that uses one.
Honoured == mode = "keyset" /\ ~deaf

\* How an invocation ends.
Endings ==
    /\ result = "interrupted" => buffer = <<>> /\ mode = "keyset"
    /\ result = "ok" /\ cap = 0 => buffer = <<>> /\ finished
    /\ CanaryIsRight

\* What was fetched is in the order of the table, up to the cursor.
Sorted ==
    Honoured =>
        /\ \A i, j \in DOMAIN out : i < j => out[i] < out[j]
        /\ \A i, j \in DOMAIN buffer : i < j => buffer[i] < buffer[j]
        /\ \A i \in DOMAIN out, j \in DOMAIN buffer : out[i] < buffer[j]
        /\ \A r \in Written \cup Kept \cup prev : r <= cursor

\* The cursor is the last record fetched.
CursorIsLast ==
    Honoured =>
        /\ buffer # <<>> => buffer[Len(buffer)] = cursor
        /\ buffer = <<>> /\ out # <<>> => out[Len(out)] = cursor

\* Nothing is left behind: not below the cursor, not among the hidden rows that
\* are stepped over, and nothing at all once the last page was fetched.
NothingLeft ==
    Honoured /\ counted =>
        /\ \A r \in stable : r <= cursor => r \in Written \cup Kept \cup slid
        /\ Below(Ahead, skip) \cap stable \subseteq slid
        /\ finished /\ result \in {"running", "ok"} =>
               stable \subseteq Written \cup Kept \cup slid

Inv ==
    /\ TypeOK /\ stable \subseteq present \ hidden
    /\ Endings /\ Sorted /\ CursorIsLast /\ NothingLeft

-----------------------------------------------------------------------------
\* Ranks of rows within a set of rows.

\* Rows and bounds are numbers.
LEMMA Constants ==
    /\ MaxRow \in Nat /\ PageSize \in Nat /\ 0 < PageSize /\ Caps \subseteq Nat
    /\ MaxChange \in Nat /\ MaxFail \in Nat /\ MaxOut \in Nat
    /\ Row = 1 .. MaxRow /\ \A r \in Row : r \in Nat /\ ~ (r < r)
BY KeysetAssumption DEF Row

\* Every set of rows is finite.
LEMMA RowsAreFinite ==
    ASSUME NEW S \in SUBSET Row
    PROVE  IsFiniteSet(S) /\ Cardinality(S) \in Nat
<1>1. IsFiniteSet(Row)
  BY Constants, FS_Interval
<1>. QED  BY <1>1, FS_Subset, FS_CardinalityType

\* The rows of a set have the ranks from 0 on, in their order.
LEMMA Ranks ==
    ASSUME NEW S \in SUBSET Row
    PROVE  /\ \A r \in Row : Before(S, r) \in Nat
           /\ \A r, t \in S : r < t => Before(S, r) < Before(S, t)
           /\ \A r \in S : Before(S, r) < Cardinality(S)
           /\ \A k \in 0 .. Cardinality(S) - 1 : \E r \in S : Before(S, r) = k
<1>. DEFINE Low(r) == {s \in S : s < r}
<1>1. \A r \in Row : IsFiniteSet(Low(r)) /\ Cardinality(Low(r)) \in Nat
  BY RowsAreFinite
<1>2. \A r \in S : /\ IsFiniteSet(Low(r) \cup {r})
                   /\ Cardinality(Low(r) \cup {r}) = Cardinality(Low(r)) + 1
  <2>. SUFFICES ASSUME NEW r \in S
       PROVE  /\ IsFiniteSet(Low(r) \cup {r})
              /\ Cardinality(Low(r) \cup {r}) = Cardinality(Low(r)) + 1
    OBVIOUS
  <2>1. r \in Row /\ ~ (r < r)
    BY Constants
  <2>2. r \notin Low(r)
    BY <2>1
  <2>3. IsFiniteSet(Low(r))
    BY <1>1, <2>1
  <2>. HIDE DEF Low
  <2>. QED  BY <2>2, <2>3, FS_AddElement
<1>3. \A r, t \in S : r < t => Cardinality(Low(r)) < Cardinality(Low(t))
  <2>. SUFFICES ASSUME NEW r \in S, NEW t \in S, r < t
       PROVE  Cardinality(Low(r)) < Cardinality(Low(t))
    OBVIOUS
  <2>1. r \in Row /\ t \in Row /\ \A s \in Row : s \in Nat
    BY Constants
  <2>3. Low(r) \cup {r} \subseteq Low(t)
    BY <2>1
  <2>2. Cardinality(Low(r) \cup {r}) <= Cardinality(Low(t))
    BY <1>1, <2>1, <2>3, FS_Subset
  <2>4. /\ Cardinality(Low(r) \cup {r}) = Cardinality(Low(r)) + 1
        /\ Cardinality(Low(r)) \in Nat /\ Cardinality(Low(t)) \in Nat
    BY <1>1, <1>2, <2>1
  <2>. QED  BY <2>2, <2>4
<1>4. \A r \in S : Cardinality(Low(r)) < Cardinality(S)
  <2>. SUFFICES ASSUME NEW r \in S PROVE Cardinality(Low(r)) < Cardinality(S)
    OBVIOUS
  <2>1. r \in Row /\ Low(r) \cup {r} \subseteq S
    OBVIOUS
  <2>2. Cardinality(Low(r) \cup {r}) <= Cardinality(S)
    BY <2>1, RowsAreFinite, FS_Subset
  <2>. QED  BY <1>1, <1>2, <2>1, <2>2, RowsAreFinite
<1>5. \A k \in 0 .. Cardinality(S) - 1 : \E r \in S : Cardinality(Low(r)) = k
  <2>. DEFINE f == [r \in S |-> Cardinality(Low(r))]
              T == 0 .. Cardinality(S) - 1
  <2>1. IsFiniteSet(S) /\ Cardinality(S) \in Nat
    BY RowsAreFinite
  <2>2. IsFiniteSet(T) /\ Cardinality(T) = Cardinality(S)
    BY <2>1, FS_Interval
  <2>3. f \in [S -> T]
    <3>1. \A r \in S : Cardinality(Low(r)) \in T
      <4>1. \A r \in S : Cardinality(Low(r)) \in Nat /\ Cardinality(Low(r)) < Cardinality(S)
        BY <1>1, <1>4
      <4>. HIDE DEF Low
      <4>. QED  BY <2>1, <4>1
    <3>. QED  BY <3>1
  <2>4. \A r, t \in S : r # t => f[r] # f[t]
    <3>. SUFFICES ASSUME NEW r \in S, NEW t \in S, r # t PROVE f[r] # f[t]
      OBVIOUS
    <3>1. r \in Nat /\ t \in Nat /\ r \in Row /\ t \in Row
      BY Constants
    <3>2. r < t \/ t < r
      BY <3>1
    <3>. QED  BY <1>1, <1>3, <3>1, <3>2
  <2>5. f \in Injection(S, T)
    BY <2>3, <2>4 DEF Injection, IsInjective
  <2>6. f \in Surjection(S, T)
    BY <2>2, <2>5, FS_Injection
  <2>. QED  BY <2>6 DEF Surjection
<1>. QED  BY <1>1, <1>3, <1>4, <1>5 DEF Before

\* A non-empty set of rows has a last one.
LEMMA LastRow ==
    ASSUME NEW S \in SUBSET Row, S # {}
    PROVE  /\ Cardinality(S) \in Nat \ {0}
           /\ \E r \in S : Before(S, r) = Cardinality(S) - 1
           /\ \A r \in S : Before(S, r) = Cardinality(S) - 1 => \A s \in S : s <= r
<1>1. IsFiniteSet(S) /\ Cardinality(S) \in Nat
  BY RowsAreFinite
<1>2. Cardinality(S) # 0
  BY <1>1, FS_EmptySet
<1>3. Cardinality(S) - 1 \in 0 .. Cardinality(S) - 1
  BY <1>1, <1>2
<1>4. \A r \in S : Before(S, r) = Cardinality(S) - 1 => \A s \in S : s <= r
  <2>. SUFFICES ASSUME NEW r \in S, Before(S, r) = Cardinality(S) - 1, NEW s \in S, r < s
       PROVE  FALSE
    BY Constants
  <2>1. Before(S, r) < Before(S, s) /\ Before(S, s) < Cardinality(S) /\ Before(S, s) \in Nat
    BY Ranks
  <2>. QED  BY <1>1, <2>1
<1>. QED  BY <1>1, <1>2, <1>3, <1>4, Ranks

\* A page in the order of the table.
LEMMA PageInOrder ==
    ASSUME NEW S \in SUBSET Row
    PROVE  LET q == InOrderOf(S) IN
           /\ q \in Seq(Row) /\ Len(q) = Cardinality(S) /\ DOMAIN q = 1 .. Cardinality(S)
           /\ Cardinality(S) \in Nat
           /\ \A i \in DOMAIN q : q[i] \in S /\ Before(S, q[i]) = i - 1
           /\ \A r \in S : \E i \in DOMAIN q : q[i] = r
           /\ \A i, j \in DOMAIN q : i < j => q[i] < q[j]
<1>. DEFINE q == InOrderOf(S)
            n == Cardinality(S)
<1>1. n \in Nat
  BY RowsAreFinite
<1>2. \A i \in 1 .. n : q[i] = CHOOSE r \in S : Before(S, r) = i - 1
  BY DEF InOrderOf
<1>3. \A i \in 1 .. n : q[i] \in S /\ Before(S, q[i]) = i - 1
  <2>1. \A i \in 1 .. n : i - 1 \in 0 .. n - 1
    BY <1>1
  <2>2. \A i \in 1 .. n : \E r \in S : Before(S, r) = i - 1
    BY <2>1, Ranks
  <2>. QED  BY <1>2, <2>2
<1>4. DOMAIN q = 1 .. n
  BY DEF InOrderOf
<1>5. q \in [1 .. n -> Row]
  BY <1>3 DEF InOrderOf
<1>6. q \in Seq(Row) /\ Len(q) = n
  BY <1>1, <1>4, <1>5
<1>. HIDE DEF q
<1>7. \A i, j \in 1 .. n : i < j => q[i] < q[j]
  <2>. SUFFICES ASSUME NEW i \in 1 .. n, NEW j \in 1 .. n, i < j PROVE q[i] < q[j]
    OBVIOUS
  <2>1. q[i] \in S /\ q[j] \in S /\ q[i] \in Nat /\ q[j] \in Nat
    <3>1. q[i] \in S /\ q[j] \in S
      BY <1>3
    <3>. QED  BY <3>1, Constants
  <2>2. Before(S, q[i]) = i - 1 /\ Before(S, q[j]) = j - 1 /\ i \in Nat /\ j \in Nat
    BY <1>1, <1>3
  <2>3. q[i] # q[j]
    BY <2>2
  <2>4. ~ (q[j] < q[i])
    BY <2>1, <2>2, Ranks
  <2>. QED  BY <2>1, <2>3, <2>4
<1>8. \A r \in S : \E i \in 1 .. n : q[i] = r
  <2>. SUFFICES ASSUME NEW r \in S PROVE \E i \in 1 .. n : q[i] = r
    OBVIOUS
  <2>. DEFINE i == Before(S, r) + 1
  <2>1. i \in 1 .. n /\ i - 1 = Before(S, r)
    BY <1>1, Ranks
  <2>2. q[i] \in S /\ Before(S, q[i]) = Before(S, r)
    BY <1>3, <2>1
  <2>3. r \in Nat /\ q[i] \in Nat /\ Before(S, r) \in Nat
    <3>1. r \in Row /\ q[i] \in Row
      BY <2>2
    <3>. HIDE DEF i
    <3>. QED  BY <3>1, Constants, Ranks
  <2>4. ~ (q[i] < r) /\ ~ (r < q[i])
    <3>. HIDE DEF i
    <3>1. q[i] < r => Before(S, q[i]) < Before(S, r)
      BY <2>2, Ranks
    <3>2. r < q[i] => Before(S, r) < Before(S, q[i])
      BY <2>2, Ranks
    <3>. QED  BY <2>2, <2>3, <3>1, <3>2
  <2>5. q[i] = r
    BY <2>3, <2>4
  <2>. QED  BY <2>1, <2>5
<1>. QED  BY <1>1, <1>3, <1>4, <1>6, <1>7, <1>8 DEF q

\* What a page scans, and what it leaves.
LEMMA Scans ==
    ASSUME NEW S \in SUBSET Row, NEW n \in Nat
    PROVE  LET w == Window(S, n) IN
           /\ w \subseteq S /\ IsFiniteSet(w)
           /\ Cardinality(w) \in 0 .. PageSize
           /\ Cardinality(w) < PageSize => S \subseteq Below(S, n) \cup w
           /\ Below(S, n + Cardinality(w)) \subseteq Below(S, n) \cup w
           /\ \A t \in w : \A r \in S : r <= t => r \in Below(S, n) \cup w
<1>. DEFINE w == Window(S, n)
            T == n .. n + PageSize - 1
            f == [r \in w |-> Before(S, r)]
<1>0. /\ PageSize \in Nat /\ 0 < PageSize /\ S \subseteq Nat
      /\ \A r \in S : Before(S, r) \in Nat
      /\ \A r, t \in S : r < t => Before(S, r) < Before(S, t)
  <2>1. S \subseteq Row
    OBVIOUS
  <2>2. \A r \in S : Before(S, r) \in Nat
    BY <2>1, Ranks
  <2>3. \A r, t \in S : r < t => Before(S, r) < Before(S, t)
    BY Ranks
  <2>. QED  BY <2>1, <2>2, <2>3, Constants
<1>1. /\ w \subseteq S /\ IsFiniteSet(w) /\ Cardinality(w) \in Nat
  BY RowsAreFinite DEF Window
<1>2. IsFiniteSet(T) /\ Cardinality(T) = PageSize
  <2>1. n \in Int /\ n + PageSize - 1 \in Int /\ ~ (n > n + PageSize - 1)
        /\ (n + PageSize - 1) - n + 1 = PageSize
    BY <1>0
  <2>. QED  BY <2>1, FS_Interval
<1>3. f \in [w -> T]
  <2>1. \A r \in w : r \in S /\ n <= Before(S, r) /\ Before(S, r) < n + PageSize
    BY DEF Window
  <2>2. \A r \in w : Before(S, r) \in T
    <3>. SUFFICES ASSUME NEW r \in w PROVE Before(S, r) \in T
      OBVIOUS
    <3>1. Before(S, r) \in Nat /\ n <= Before(S, r) /\ Before(S, r) < n + PageSize
      BY <1>0, <2>1
    <3>. QED  BY <1>0, <3>1
  <2>. QED  BY <2>2
<1>4. Cardinality(w) <= PageSize
  <2>1. \A r, t \in w : r # t => f[r] # f[t]
    <3>. SUFFICES ASSUME NEW r \in w, NEW t \in w, r # t PROVE Before(S, r) # Before(S, t)
      OBVIOUS
    <3>1. r \in S /\ t \in S
      BY <1>1
    <3>2. r < t \/ t < r
      BY <1>0, <3>1
    <3>3. Before(S, r) < Before(S, t) \/ Before(S, t) < Before(S, r)
      BY <1>0, <3>1, <3>2
    <3>. QED  BY <1>0, <3>1, <3>3
  <2>2. f \in Injection(w, T)
    BY <1>3, <2>1 DEF Injection, IsInjective
  <2>. QED  BY <1>2, <2>2, FS_Injection
<1>5. \A r \in S : r \notin Below(S, n) \cup w => Before(S, r) >= n + PageSize
  BY <1>0 DEF Window, Below
<1>6. ASSUME NEW r \in S, Before(S, r) >= n + PageSize
      PROVE  Cardinality(w) = PageSize
  <2>1. \A k \in T : \E t \in w : f[t] = k
    <3>. SUFFICES ASSUME NEW k \in T PROVE \E t \in w : Before(S, t) = k
      OBVIOUS
    <3>1. Before(S, r) < Cardinality(S) /\ Cardinality(S) \in Nat
      BY Ranks, RowsAreFinite
    <3>2. k \in 0 .. Cardinality(S) - 1
      BY <1>0, <1>6, <3>1
    <3>3. PICK t \in S : Before(S, t) = k
      BY <3>2, Ranks
    <3>. QED  BY <1>0, <3>3 DEF Window
  <2>2. f \in Surjection(w, T)
    BY <1>3, <2>1 DEF Surjection
  <2>3. Cardinality(T) <= Cardinality(w)
    BY <1>1, <2>2, FS_Surjection
  <2>. QED  BY <1>0, <1>1, <1>2, <1>4, <2>3
<1>7. Cardinality(w) < PageSize => S \subseteq Below(S, n) \cup w
  BY <1>0, <1>5, <1>6
<1>8. Below(S, n + Cardinality(w)) \subseteq Below(S, n) \cup w
  <2>. SUFFICES ASSUME NEW r \in S, Before(S, r) < n + Cardinality(w),
                       Before(S, r) >= n + PageSize
       PROVE  FALSE
    BY <1>5 DEF Below
  <2>. QED  BY <1>0, <1>1, <1>4
<1>9. \A t \in w : \A r \in S : r <= t => r \in Below(S, n) \cup w
  <2>. SUFFICES ASSUME NEW t \in w, NEW r \in S, r <= t, Before(S, r) >= n + PageSize
       PROVE  FALSE
    BY <1>5
  <2>1. t \in S /\ Before(S, t) < n + PageSize /\ (r < t \/ r = t)
    BY <1>0 DEF Window
  <2>. QED  BY <1>0, <2>1
<1>. QED  BY <1>0, <1>1, <1>4, <1>7, <1>8, <1>9

-----------------------------------------------------------------------------
\* Every step keeps the invariant.

\* What the types say, one variable at a time.
LEMMA Typed ==
    ASSUME TypeOK
    PROVE  /\ present \subseteq Row /\ hidden \subseteq Row /\ stable \subseteq Row
           /\ cursor \in 0 .. MaxRow /\ cursor \in Nat /\ skip \in Nat /\ prev \subseteq Row
           /\ buffer \in Seq(Row) /\ out \in Seq(Row)
           /\ Written \subseteq Row /\ Kept \subseteq Row
           /\ MaxRow \in Nat /\ Row = 1 .. MaxRow /\ \A r \in Row : r \in Nat
           /\ PageSize \in Nat /\ 0 < PageSize
<1>1. /\ present \subseteq Row /\ hidden \subseteq Row /\ stable \subseteq Row
      /\ cursor \in 0 .. MaxRow /\ skip \in Nat /\ prev \subseteq Row
      /\ buffer \in Seq(Row) /\ out \in Seq(Row)
  BY DEF TypeOK
<1>2. Written \subseteq Row /\ Kept \subseteq Row
  BY <1>1 DEF Written, Kept
<1>. QED  BY <1>1, <1>2, Constants

\* Before the first page everything stable is ahead.
LEMMA Initially == Init => Inv
<1>. SUFFICES ASSUME Init PROVE Inv
  OBVIOUS
<1>1. <<>> \in Seq(Row) /\ Len(<<>>) = 0
  OBVIOUS
<1>2. TypeOK
  <2>1. /\ 0 \in 0 .. MaxChange /\ 0 \in 0 .. MaxFail /\ 0 \in 0 .. MaxRow
        /\ 0 <= PageSize /\ 0 <= MaxOut /\ Caps \subseteq Nat
    BY Constants
  <2>2. cap \in Caps /\ (cap # 0 => 0 <= cap)
    BY <2>1 DEF Init
  <2>. QED  BY <1>1, <2>1, <2>2 DEF Init, TypeOK
<1>3. Written = {} /\ Kept = {}
  BY DEF Init, Written, Kept
<1>4. Below(Ahead, skip) = {} /\ \A r \in stable : ~ (r <= cursor)
  <2>1. \A r \in Row : Before(Ahead, r) \in Nat /\ r \in Nat /\ 0 < r
    <3>1. Ahead \in SUBSET Row
      BY <1>2, Typed DEF Ahead
    <3>. QED  BY <3>1, Ranks, Constants
  <2>2. Ahead \subseteq Row /\ stable \subseteq Row
    BY <1>2, Typed DEF Ahead
  <2>. QED  BY <2>1, <2>2 DEF Init, Below
<1>. QED  BY <1>2, <1>3, <1>4
     DEF Init, Inv, Endings, CanaryIsRight, Sorted, CursorIsLast, NothingLeft

\* Other users write: what moves below the offset is slid.
LEMMA ChangeKeeps ==
    ASSUME Inv, Change
    PROVE  Inv'
<1>t. TypeOK /\ stable \subseteq present \ hidden
      /\ Endings /\ Sorted /\ CursorIsLast /\ NothingLeft
  BY DEF Inv
<1>0. /\ changes < MaxChange /\ changes' = changes + 1
      /\ stable' = stable \cap (present' \ hidden')
      /\ UNCHANGED <<deaf, counted, fails, mode, cursor, skip, prev, fresh, buffer,
                     emitted, cap, finished, out, result>>
  BY DEF Change, walk
<1>1. present' \subseteq Row /\ hidden' \subseteq Row
  BY <1>t, Typed DEF Change
<1>2. /\ Ahead' = {r \in present' : r > cursor}
      /\ slid' = slid \cup (Below(Ahead', skip) \cap (Ahead \ Below(Ahead, skip)))
  BY <1>0 DEF Change, Ahead
<1>3. Written' = Written /\ Kept' = Kept
  BY <1>0 DEF Written, Kept
<1>4. TypeOK'
  <2>1. changes' \in 0 .. MaxChange
    BY <1>0, <1>t, Constants DEF TypeOK
  <2>2. slid' \subseteq Row
    BY <1>1, <1>2, <1>t DEF TypeOK, Below
  <2>. QED  BY <1>0, <1>1, <1>t, <2>1, <2>2 DEF TypeOK
<1>5. Endings' /\ Sorted' /\ CursorIsLast'
  BY <1>0, <1>3, <1>t DEF Endings, CanaryIsRight, Sorted, CursorIsLast, Honoured
<1>6. NothingLeft'
  <2>. SUFFICES ASSUME Honoured, counted PROVE NothingLeft'
    BY <1>0 DEF NothingLeft, Honoured
  <2>1. Below(Ahead', skip) \cap stable' \subseteq slid'
    <3>. SUFFICES ASSUME NEW r \in Below(Ahead', skip), r \in stable', r \notin slid
         PROVE  r \in slid'
      BY <1>2
    <3>1. r \in Ahead
      BY <1>0, <1>2, <1>t DEF Ahead, Below
    <3>2. r \notin Below(Ahead, skip)
      BY <1>0, <1>t DEF NothingLeft
    <3>. QED  BY <1>2, <3>1, <3>2
  <2>2. slid \subseteq slid' /\ stable' \subseteq stable
    BY <1>0, <1>2
  <2>. QED  BY <1>0, <1>3, <1>t, <2>1, <2>2 DEF NothingLeft
<1>. QED  BY <1>0, <1>4, <1>5, <1>6 DEF Inv

\* With the count header, a last page scanned fewer rows than it asked for.
LEMMA LastPages ==
    ASSUME NEW w, NEW page
    PROVE  /\ LastPage(w, page) \in BOOLEAN
           /\ LastPage(w, page) /\ counted => Cardinality(w) < PageSize
<1>1. CASE counted
  BY <1>1 DEF LastPage
<1>2. CASE ~counted
  BY <1>2 DEF LastPage
<1>. QED  BY <1>1, <1>2

\* A page arrives: the rows of it are the next ones after the cursor, and what
\* it stepped over was hidden.
LEMMA FetchKeeps ==
    ASSUME Inv, FetchKeyset
    PROVE  Inv'
<1>. DEFINE S == Matching(cursor)
            w == Window(S, skip)
            page == w \ hidden
<1>t. TypeOK /\ stable \subseteq present \ hidden
      /\ Endings /\ Sorted /\ CursorIsLast /\ NothingLeft
  BY DEF Inv
<1>0. /\ result = "running" /\ buffer = <<>> /\ mode = "keyset" /\ ~finished
      /\ UNCHANGED <<present, hidden, changes, deaf, counted, fails, mode, fresh,
                     emitted, cap, out, stable, slid>>
  BY DEF FetchKeyset, Fetching, Drained, table, walk
<1>y. /\ stable \subseteq Row /\ cursor \in Nat /\ skip \in Nat /\ prev \subseteq Row
      /\ out \in Seq(Row) /\ Written \subseteq Row
      /\ \A r \in Row : r \in Nat
      /\ PageSize \in Nat /\ 0 < PageSize
      /\ S \in SUBSET Row /\ (~deaf => S = Ahead)
  BY <1>t, Typed DEF Matching, Ahead
<1>w. /\ w \subseteq S /\ IsFiniteSet(w) /\ Cardinality(w) \in 0 .. PageSize
      /\ Cardinality(w) < PageSize => S \subseteq Below(S, skip) \cup w
      /\ Below(S, skip + Cardinality(w)) \subseteq Below(S, skip) \cup w
      /\ \A t \in w : \A r \in S : r <= t => r \in Below(S, skip) \cup w
  BY <1>y, Scans
<1>p. /\ page \in SUBSET Row /\ page \subseteq w
      /\ Cardinality(page) \in 0 .. PageSize
  <2>1. page \in SUBSET Row /\ page \subseteq w
    BY <1>w, <1>y
  <2>2. Cardinality(page) <= Cardinality(w) /\ Cardinality(page) \in Nat
    BY <1>w, <2>1, FS_Subset, RowsAreFinite
  <2>. QED  BY <1>w, <1>y, <2>1, <2>2
<1>k. Kept = {} /\ Written' = Written
  BY <1>0 DEF Kept, Written
<1>. HIDE DEF S, w
<1>1. CASE Repeats(page)
  <2>1. /\ result' = "instance" /\ finished' = TRUE
        /\ UNCHANGED <<cursor, skip, prev, buffer>>
    BY <1>1 DEF FetchKeyset, walk, S, w
  <2>2. deaf
    <3>. SUFFICES ASSUME ~deaf PROVE FALSE
      OBVIOUS
    <3>1. PICK r \in page : r \in prev
      BY <1>1 DEF Repeats
    <3>2. r > cursor /\ r <= cursor
      BY <1>0, <1>p, <1>t, <1>w, <1>y, <3>1 DEF Sorted, Honoured, Ahead
    <3>. QED  BY <1>y, <3>1, <3>2
  <2>3. TypeOK'
    BY <1>0, <1>t, <2>1 DEF TypeOK
  <2>. QED  BY <1>0, <1>t, <2>1, <2>2, <2>3 DEF Inv, Endings, CanaryIsRight, Sorted,
            CursorIsLast, NothingLeft, Honoured
<1>2. CASE ~Repeats(page) /\ page = {}
  <2>1. /\ skip' = IF counted THEN skip + Cardinality(w) ELSE skip
        /\ finished' = LastPage(w, page) /\ buffer' = buffer \o InOrderOf(page)
        /\ UNCHANGED <<cursor, prev, result>>
    BY <1>2 DEF FetchKeyset, walk, S, w
  <2>2. buffer' = <<>>
    <3>. DEFINE q == InOrderOf(page)
    <3>1. q \in Seq(Row) /\ Len(q) = 0
      BY <1>2, <1>p, FS_EmptySet, PageInOrder
    <3>. HIDE DEF q
    <3>2. q = <<>>
      BY <3>1
    <3>3. <<>> \o q = <<>>
      BY <3>2
    <3>. QED  BY <1>0, <2>1, <3>3 DEF q
  <2>3. Kept' = {} /\ Ahead' = Ahead
    BY <1>0, <2>1, <2>2 DEF Kept, Ahead
  <2>4. finished' \in BOOLEAN /\ (counted => (finished' => Cardinality(w) < PageSize))
    BY <1>2, <2>1, LastPages
  <2>5. TypeOK'
    <3>1. skip' \in Nat
      BY <1>w, <1>y, <2>1
    <3>. QED  BY <1>0, <1>t, <2>1, <2>2, <2>4, <3>1 DEF TypeOK
  <2>6. Endings' /\ Sorted' /\ CursorIsLast'
    BY <1>0, <1>k, <1>t, <2>1, <2>2, <2>3 DEF Endings, CanaryIsRight, Sorted,
       CursorIsLast, Honoured
  <2>7. NothingLeft'
    <3>. SUFFICES ASSUME ~deaf, counted PROVE NothingLeft'
      BY <1>0 DEF NothingLeft, Honoured
    <3>1. S = Ahead /\ w \cap stable = {} /\ Below(Ahead, skip) \cap stable \subseteq slid
      BY <1>0, <1>2, <1>t, <1>y DEF NothingLeft, Honoured
    <3>2. Below(Ahead, skip') \cap stable \subseteq slid
      BY <1>w, <2>1, <3>1
    <3>3. finished' => stable \subseteq Written \cup slid
      <4>. SUFFICES ASSUME finished', NEW r \in stable PROVE r \in Written \cup slid
        OBVIOUS
      <4>1. CASE r <= cursor
        BY <1>0, <1>k, <1>t, <4>1 DEF NothingLeft, Honoured
      <4>2. CASE r > cursor
        <5>1. r \in Ahead
          BY <1>t, <4>2 DEF Ahead
        <5>2. r \in Below(Ahead, skip) \cup w
          BY <1>w, <2>4, <3>1, <5>1
        <5>. QED  BY <3>1, <5>2
      <4>. QED  BY <1>y, <4>1, <4>2
    <3>. QED  BY <1>0, <1>k, <1>t, <2>1, <2>3, <3>2, <3>3 DEF NothingLeft, Honoured
  <2>. QED  BY <1>0, <1>t, <2>5, <2>6, <2>7 DEF Inv
<1>3. CASE ~Repeats(page) /\ page # {}
  <2>. DEFINE q == InOrderOf(page)
  <2>1. /\ cursor' = CHOOSE r \in page : \A s \in page : s <= r
        /\ skip' = 0 /\ prev' = page /\ UNCHANGED result
        /\ finished' = LastPage(w, page) /\ buffer' = buffer \o q
    BY <1>3 DEF FetchKeyset, walk, S, w
  <2>q. /\ q \in Seq(Row) /\ Len(q) = Cardinality(page) /\ DOMAIN q = 1 .. Cardinality(page)
        /\ \A i \in DOMAIN q : q[i] \in page /\ Before(page, q[i]) = i - 1
        /\ \A r \in page : \E i \in DOMAIN q : q[i] = r
        /\ \A i, j \in DOMAIN q : i < j => q[i] < q[j]
    BY <1>p, PageInOrder
  <2>. HIDE DEF q
  <2>2. buffer' = q /\ q # <<>> /\ Cardinality(page) \in Nat \ {0}
    <3>1. Cardinality(page) \in Nat \ {0}
      BY <1>3, <1>p, LastRow
    <3>. QED  BY <1>0, <2>1, <2>q, <3>1
  <2>3. cursor' \in page /\ \A s \in page : s <= cursor'
    <3>1. \E r \in page : \A s \in page : s <= r
      BY <1>3, <1>p, LastRow
    <3>. QED  BY <2>1, <3>1
  <2>4. buffer'[Len(buffer')] = cursor'
    <3>1. Cardinality(page) \in DOMAIN q
      BY <2>2, <2>q
    <3>2. q[Cardinality(page)] \in page /\ Before(page, q[Cardinality(page)]) = Cardinality(page) - 1
      BY <2>q, <3>1
    <3>3. \A s \in page : s <= q[Cardinality(page)]
      BY <1>3, <1>p, <3>2, LastRow
    <3>4. cursor' \in Nat /\ q[Cardinality(page)] \in Nat
      BY <1>p, <1>y, <2>3, <3>2
    <3>5. q[Cardinality(page)] <= cursor' /\ cursor' <= q[Cardinality(page)]
      BY <2>3, <3>2, <3>3
    <3>. QED  BY <2>2, <2>q, <3>4, <3>5
  <2>5. Kept' = page
    BY <2>2, <2>q DEF Kept
  <2>6. TypeOK'
    <3>1. finished' \in BOOLEAN
      BY <2>1, LastPages
    <3>2. cursor' \in 0 .. MaxRow
      BY <1>p, <2>3, Constants
    <3>3. Len(buffer') <= PageSize /\ buffer' \in Seq(Row)
      BY <1>p, <2>2, <2>q
    <3>. QED  BY <1>0, <1>p, <1>t, <2>1, <3>1, <3>2, <3>3 DEF TypeOK
  <2>7. Endings'
    BY <1>0, <2>1 DEF Endings, CanaryIsRight
  <2>8. CursorIsLast'
    BY <2>2, <2>4 DEF CursorIsLast
  <2>9. ~deaf => \A r \in page : cursor < r
    BY <1>p, <1>w, <1>y DEF Ahead
  <2>10. Sorted'
    <3>. SUFFICES ASSUME ~deaf PROVE Sorted'
      BY <1>0 DEF Sorted, Honoured
    <3>1. \A r \in Written : r <= cursor /\ r \in Nat
      BY <1>0, <1>t, <1>y DEF Sorted, Honoured
    <3>2. cursor < cursor' /\ cursor' \in Nat
      BY <1>p, <1>y, <2>3, <2>9
    <3>3. \A r \in Written \cup page : r <= cursor'
      <4>1. \A r \in Written : r <= cursor'
        BY <1>y, <3>1, <3>2
      <4>. QED  BY <2>3, <4>1
    <3>4. \A i \in DOMAIN out, j \in DOMAIN q : out[i] < q[j]
      <4>. SUFFICES ASSUME NEW i \in DOMAIN out, NEW j \in DOMAIN q PROVE out[i] < q[j]
        OBVIOUS
      <4>1. out[i] \in Written /\ q[j] \in page
        BY <2>q DEF Written
      <4>2. out[i] <= cursor /\ cursor < q[j] /\ out[i] \in Nat /\ q[j] \in Nat
        BY <1>p, <1>y, <2>9, <3>1, <4>1
      <4>. QED  BY <1>y, <4>2
    <3>5. \A i, j \in DOMAIN out : i < j => out[i] < out[j]
      BY <1>0, <1>t DEF Sorted, Honoured
    <3>. QED  BY <1>0, <1>k, <2>1, <2>2, <2>5, <2>q, <3>3, <3>4, <3>5 DEF Sorted
  <2>11. NothingLeft'
    <3>. SUFFICES ASSUME ~deaf, counted PROVE NothingLeft'
      BY <1>0 DEF NothingLeft, Honoured
    <3>1. /\ S = Ahead /\ w \cap stable \subseteq page
          /\ Below(Ahead, skip) \cap stable \subseteq slid
      BY <1>0, <1>t, <1>y DEF NothingLeft, Honoured
    <3>2. \A r \in stable : r <= cursor => r \in Written \cup slid
      BY <1>0, <1>k, <1>t DEF NothingLeft, Honoured
    <3>3. \A r \in stable : r > cursor => r \in Ahead
      BY <1>t DEF Ahead
    <3>4. \A r \in stable : r <= cursor' => r \in Written \cup page \cup slid
      <4>. SUFFICES ASSUME NEW r \in stable, r <= cursor', r > cursor
           PROVE  r \in page \cup slid
        BY <1>y, <3>2
      <4>1. r \in Below(Ahead, skip) \cup w
        BY <1>p, <1>w, <2>3, <3>1, <3>3
      <4>. QED  BY <3>1, <4>1
    <3>5. finished' => stable \subseteq Written \cup page \cup slid
      <4>. SUFFICES ASSUME finished', NEW r \in stable, r > cursor
           PROVE  r \in page \cup slid
        BY <1>y, <3>2
      <4>1. r \in Below(Ahead, skip) \cup w
        BY <1>w, <2>1, <3>1, <3>3, LastPages
      <4>. QED  BY <3>1, <4>1
    <3>6. Below(Ahead', 0) = {}
      <4>1. Ahead' \in SUBSET Row
        BY <1>0, <1>t, Typed DEF Ahead
      <4>2. \A r \in Ahead' : Before(Ahead', r) \in Nat
        BY <4>1, Ranks
      <4>. QED  BY <4>2 DEF Below
    <3>. QED  BY <1>0, <1>k, <2>1, <2>5, <3>4, <3>5, <3>6 DEF NothingLeft
  <2>. QED  BY <1>0, <1>t, <2>6, <2>7, <2>8, <2>10, <2>11 DEF Inv
<1>. QED  BY <1>1, <1>2, <1>3

\* A page by offset.
LEMMA LinkKeeps ==
    ASSUME Inv, FetchLink
    PROVE  Inv'
<1>. DEFINE page == Window(present, skip) \ hidden
            q == InOrderOf(page)
<1>t. TypeOK /\ stable \subseteq present \ hidden /\ Endings
  BY DEF Inv
<1>0. /\ result = "running" /\ buffer = <<>> /\ mode = "link"
      /\ buffer' = buffer \o q
      /\ skip' = skip + PageSize
      /\ finished' = (skip + PageSize >= Cardinality(present))
      /\ UNCHANGED <<present, hidden, changes, deaf, counted, fails, mode, cursor, prev,
                     fresh, emitted, cap, out, result, stable, slid>>
  BY DEF FetchLink, Fetching, Drained, table
<1>1. page \in SUBSET Row /\ Cardinality(page) \in 0 .. PageSize
  <2>1. present \in SUBSET Row /\ skip \in Nat
    BY <1>t, Typed
  <2>. DEFINE w == Window(present, skip)
  <2>2. w \subseteq present /\ IsFiniteSet(w) /\ Cardinality(w) \in 0 .. PageSize
    BY <2>1, Scans
  <2>. HIDE DEF w
  <2>3. page \subseteq w
    BY DEF w
  <2>4. Cardinality(page) <= Cardinality(w) /\ Cardinality(page) \in Nat
    BY <2>1, <2>2, <2>3, FS_Subset, RowsAreFinite
  <2>5. page \in SUBSET Row
    BY <2>1, <2>2, <2>3
  <2>6. Cardinality(w) \in Nat /\ Cardinality(w) <= PageSize /\ PageSize \in Nat
    BY <2>2, Constants
  <2>. HIDE DEF page
  <2>. QED  BY <2>4, <2>5, <2>6
<1>. HIDE DEF page
<1>2. q \in Seq(Row) /\ Len(q) = Cardinality(page)
  BY <1>1, PageInOrder
<1>. HIDE DEF q
<1>3. buffer' \in Seq(Row) /\ Len(buffer') <= PageSize
  BY <1>0, <1>1, <1>2, Constants
<1>4. finished' \in BOOLEAN /\ skip' \in Nat
  BY <1>0, <1>t, Typed
<1>5. TypeOK'
  BY <1>0, <1>3, <1>4, <1>t DEF TypeOK
<1>6. Endings'
  BY <1>0, <1>t DEF Endings, CanaryIsRight
<1>. QED  BY <1>0, <1>5, <1>6, <1>t
     DEF Inv, Sorted, CursorIsLast, NothingLeft, Honoured

\* A record goes out of the buffer, and it is the first of it.
LEMMA EmitKeeps ==
    ASSUME Inv, Emit
    PROVE  Inv'
<1>t. TypeOK /\ stable \subseteq present \ hidden
      /\ Endings /\ Sorted /\ CursorIsLast /\ NothingLeft
  BY DEF Inv
<1>. DEFINE h == Head(buffer)
<1>0. /\ result = "running" /\ ~CapReached /\ buffer # <<>> /\ Len(out) < MaxOut
      /\ out' = Append(out, h) /\ buffer' = Tail(buffer) /\ emitted' = emitted + 1
      /\ UNCHANGED <<present, hidden, changes, deaf, counted, fails, mode, cursor, skip,
                     prev, fresh, cap, finished, result, stable, slid>>
  BY DEF Emit, table, walk
<1>y. /\ buffer \in Seq(Row) /\ out \in Seq(Row) /\ \A r \in Row : r \in Nat
      /\ cursor \in Nat
  BY <1>t, Typed
<1>1. /\ h \in Row /\ buffer' \in Seq(Row)
      /\ Len(buffer) \in Nat \ {0} /\ Len(buffer') = Len(buffer) - 1
      /\ DOMAIN buffer = 1 .. Len(buffer) /\ DOMAIN buffer' = 1 .. Len(buffer) - 1
      /\ h = buffer[1]
      /\ \A i \in DOMAIN buffer' : buffer'[i] = buffer[i + 1] /\ i + 1 \in DOMAIN buffer
  BY <1>0, <1>y
<1>. HIDE DEF h
<1>2. /\ out' \in Seq(Row) /\ Len(out') = Len(out) + 1 /\ Len(out) \in Nat
      /\ DOMAIN out = 1 .. Len(out) /\ DOMAIN out' = 1 .. Len(out) + 1
      /\ \A i \in DOMAIN out : out'[i] = out[i]
      /\ out'[Len(out) + 1] = h
  BY <1>0, <1>1, <1>y
<1>3. /\ \A i \in DOMAIN out' : i \in DOMAIN out \/ i = Len(out) + 1
      /\ \A i \in DOMAIN out : i \in DOMAIN out'
      /\ Len(out) + 1 \in DOMAIN out' /\ 1 \in DOMAIN buffer
  BY <1>1, <1>2
<1>4. Written' = Written \cup {h}
  BY <1>2, <1>3 DEF Written
<1>5. Kept' \subseteq Kept /\ Kept \subseteq Kept' \cup {h} /\ h \in Kept
  <2>1. Kept' \subseteq Kept
    BY <1>1 DEF Kept
  <2>2. h \in Kept
    BY <1>1, <1>3 DEF Kept
  <2>3. ASSUME NEW i \in DOMAIN buffer, i # 1 PROVE buffer[i] \in Kept'
    <3>1. i - 1 \in DOMAIN buffer' /\ (i - 1) + 1 = i
      BY <1>1, <2>3
    <3>2. buffer'[i - 1] = buffer[i]
      BY <1>1, <3>1
    <3>. QED  BY <3>1, <3>2 DEF Kept
  <2>4. Kept \subseteq Kept' \cup {h}
    BY <1>1, <2>3 DEF Kept
  <2>. QED  BY <2>1, <2>2, <2>4
<1>6. TypeOK'
  <2>1. emitted' \in Nat /\ (cap # 0 => emitted' <= cap)
    <3>1. emitted \in Nat /\ cap \in Nat
      BY <1>t, Constants DEF TypeOK
    <3>. QED  BY <1>0, <3>1 DEF CapReached
  <2>2. Len(buffer') <= PageSize
    BY <1>1, <1>t, Constants DEF TypeOK
  <2>3. Len(out') <= MaxOut
    BY <1>0, <1>2, Constants
  <2>. QED  BY <1>0, <1>1, <1>2, <1>t, <2>1, <2>2, <2>3 DEF TypeOK
<1>7. Endings'
  BY <1>0, <1>t DEF Endings, CanaryIsRight
<1>8. Sorted'
  <2>. SUFFICES ASSUME Honoured PROVE Sorted'
    BY <1>0 DEF Sorted, Honoured
  <2>s. /\ \A i, j \in DOMAIN out : i < j => out[i] < out[j]
        /\ \A i, j \in DOMAIN buffer : i < j => buffer[i] < buffer[j]
        /\ \A i \in DOMAIN out, j \in DOMAIN buffer : out[i] < buffer[j]
        /\ \A r \in Written \cup Kept \cup prev : r <= cursor
    BY <1>t DEF Sorted
  <2>1. \A i, j \in DOMAIN out' : i < j => out'[i] < out'[j]
    <3>. SUFFICES ASSUME NEW i \in DOMAIN out', NEW j \in DOMAIN out', i < j
         PROVE  out'[i] < out'[j]
      OBVIOUS
    <3>1. i \in DOMAIN out
      BY <1>2
    <3>2. CASE j \in DOMAIN out
      BY <1>2, <2>s, <3>1, <3>2
    <3>3. CASE j = Len(out) + 1
      BY <1>1, <1>2, <1>3, <2>s, <3>1, <3>3
    <3>. QED  BY <1>3, <3>2, <3>3
  <2>2. \A i, j \in DOMAIN buffer' : i < j => buffer'[i] < buffer'[j]
    <3>. SUFFICES ASSUME NEW i \in DOMAIN buffer', NEW j \in DOMAIN buffer', i < j
         PROVE  buffer'[i] < buffer'[j]
      OBVIOUS
    <3>1. i + 1 < j + 1
      BY <1>1
    <3>. QED  BY <1>1, <2>s, <3>1
  <2>3. \A i \in DOMAIN out', j \in DOMAIN buffer' : out'[i] < buffer'[j]
    <3>. SUFFICES ASSUME NEW i \in DOMAIN out', NEW j \in DOMAIN buffer'
         PROVE  out'[i] < buffer'[j]
      OBVIOUS
    <3>1. j + 1 \in DOMAIN buffer /\ buffer'[j] = buffer[j + 1] /\ 1 < j + 1
      BY <1>1
    <3>2. CASE i \in DOMAIN out
      BY <1>2, <2>s, <3>1, <3>2
    <3>3. CASE i = Len(out) + 1
      BY <1>1, <1>2, <1>3, <2>s, <3>1, <3>3
    <3>. QED  BY <1>3, <3>2, <3>3
  <2>. QED  BY <1>0, <1>4, <1>5, <2>s, <2>1, <2>2, <2>3 DEF Sorted
<1>9. CursorIsLast'
  <2>. SUFFICES ASSUME Honoured PROVE CursorIsLast'
    BY <1>0 DEF CursorIsLast, Honoured
  <2>1. buffer[Len(buffer)] = cursor
    BY <1>0, <1>t DEF CursorIsLast
  <2>2. buffer' = <<>> => Len(buffer) = 1
    BY <1>1
  <2>3. buffer' # <<>> => buffer'[Len(buffer')] = cursor
    <3>. SUFFICES ASSUME buffer' # <<>> PROVE buffer'[Len(buffer')] = cursor
      OBVIOUS
    <3>1. Len(buffer') # 0
      BY <1>1
    <3>2. Len(buffer') \in DOMAIN buffer' /\ Len(buffer') + 1 = Len(buffer)
      BY <1>1, <3>1
    <3>. QED  BY <1>1, <2>1, <3>2
  <2>4. buffer' = <<>> => out'[Len(out')] = cursor
    BY <1>1, <1>2, <2>1, <2>2
  <2>. QED  BY <1>0, <2>3, <2>4 DEF CursorIsLast
<1>10. NothingLeft'
  BY <1>0, <1>4, <1>5, <1>t DEF NothingLeft, Honoured, Ahead
<1>. QED  BY <1>0, <1>6, <1>7, <1>8, <1>9, <1>10, <1>t DEF Inv

\* A failure, the restart by offset, the end and a resumption.
LEMMA TurnsKeep ==
    ASSUME Inv, FetchFails \/ FallBack \/ End \/ Resume \/ UNCHANGED vars
    PROVE  Inv'
<1>t. TypeOK /\ stable \subseteq present \ hidden
      /\ Endings /\ Sorted /\ CursorIsLast /\ NothingLeft
  BY DEF Inv
<1>0. UNCHANGED <<present, hidden, deaf, counted, cap, out, stable, slid, cursor>>
  BY DEF FetchFails, FallBack, End, Resume, vars, table, walk
<1>w. Written' = Written /\ Ahead' = Ahead
  BY <1>0 DEF Written, Ahead
<1>1. CASE FetchFails
  <2>1. /\ fails < MaxFail /\ fails' = fails + 1 /\ buffer = <<>>
        /\ result' = IF Resumable THEN "interrupted" ELSE "failed"
        /\ finished' = TRUE
        /\ UNCHANGED <<changes, mode, skip, prev, fresh, buffer, emitted>>
    BY <1>1 DEF FetchFails, Fetching, Drained, table, walk
  <2>2. fails' \in 0 .. MaxFail
    BY <1>t, <2>1, Constants DEF TypeOK
  <2>3. TypeOK'
    BY <1>0, <1>t, <2>1, <2>2 DEF TypeOK
  <2>4. Endings'
    BY <2>1 DEF Endings, CanaryIsRight, Resumable
  <2>. QED  BY <1>0, <1>w, <1>t, <2>1, <2>3, <2>4
       DEF Inv, Sorted, CursorIsLast, NothingLeft, Honoured, Kept
<1>2. CASE FallBack
  <2>1. /\ fails < MaxFail /\ fails' = fails + 1 /\ result = "running"
        /\ mode' = "link" /\ skip' = 0 /\ fresh' = FALSE
        /\ UNCHANGED <<changes, prev, buffer, emitted, finished, result>>
    BY <1>2 DEF FallBack, Fetching, table
  <2>2. fails' \in 0 .. MaxFail
    BY <1>t, <2>1, Constants DEF TypeOK
  <2>3. TypeOK'
    BY <1>0, <1>t, <2>1, <2>2 DEF TypeOK
  <2>4. Endings'
    BY <2>1 DEF Endings, CanaryIsRight
  <2>. QED  BY <1>0, <1>t, <2>1, <2>3, <2>4
       DEF Inv, Sorted, CursorIsLast, NothingLeft, Honoured
<1>3. CASE End
  <2>1. /\ result = "running" /\ result' = "ok"
        /\ CapReached \/ (buffer = <<>> /\ finished)
        /\ UNCHANGED <<changes, fails, mode, skip, prev, fresh, buffer, emitted, finished>>
    BY <1>3 DEF End, table, walk
  <2>2. TypeOK'
    BY <1>0, <1>t, <2>1 DEF TypeOK
  <2>3. Endings'
    BY <1>0, <2>1 DEF Endings, CanaryIsRight, CapReached
  <2>. QED  BY <1>0, <1>w, <1>t, <2>1, <2>2, <2>3
       DEF Inv, Sorted, CursorIsLast, NothingLeft, Honoured, Kept
<1>4. CASE Resume
  <2>1. /\ result = "interrupted" /\ result' = "running" /\ mode' = "keyset"
        /\ skip' = 0 /\ prev' = {} /\ fresh' = FALSE
        /\ buffer' = <<>> /\ emitted' = 0 /\ finished' = FALSE
        /\ mode = "keyset" /\ buffer = <<>>
        /\ UNCHANGED <<changes, fails>>
    BY <1>4, <1>t DEF Resume, table, Endings
  <2>2. TypeOK'
    <3>1. cap \in Nat /\ 0 <= PageSize
      BY <1>t, Constants DEF TypeOK
    <3>2. <<>> \in Seq(Row) /\ Len(<<>>) = 0 /\ 0 \in Nat /\ (cap # 0 => 0 <= cap)
      BY <3>1
    <3>. QED  BY <1>0, <1>t, <2>1, <3>1, <3>2 DEF TypeOK
  <2>3. Endings'
    BY <2>1 DEF Endings, CanaryIsRight
  <2>4. Below(Ahead, 0) = {}
    <3>1. Ahead \in SUBSET Row
      BY <1>t, Typed DEF Ahead
    <3>2. \A r \in Ahead : Before(Ahead, r) \in Nat
      BY <3>1, Ranks
    <3>. QED  BY <3>2 DEF Below
  <2>. QED  BY <1>0, <1>w, <1>t, <2>1, <2>2, <2>3, <2>4
       DEF Inv, Sorted, CursorIsLast, NothingLeft, Honoured, Kept
<1>5. CASE UNCHANGED vars
  BY <1>5, <1>t DEF vars, table, walk, Inv, TypeOK, Endings, CanaryIsRight, Sorted,
     CursorIsLast, NothingLeft, Honoured, Kept, Written, Ahead
<1>. QED  BY <1>1, <1>2, <1>3, <1>4, <1>5

-----------------------------------------------------------------------------
\* The theorems.

\* The invariant holds of every walk, over every table and every history of
\* writes, failures and resumptions.
THEOREM InvAlways == Spec => []Inv
<1>1. ASSUME Inv, [Next]_vars PROVE Inv'
  BY <1>1, ChangeKeeps, FetchKeeps, LinkKeeps, EmitKeeps, TurnsKeep DEF Next, Walk
<1>. QED  BY <1>1, Initially, PTL DEF Spec

\* Every variable keeps its type; a page fits the buffer and no invocation
\* writes more than --max-records.
THEOREM TypeCorrect == Spec => []TypeOK
<1>1. Inv => TypeOK
  BY DEF Inv
<1>. QED  BY <1>1, InvAlways, PTL

\* `sn table list --all` writes the records in the order of their sys_ids and
\* none twice, and a walk that ended well without --max-records wrote every row
\* that matched and was readable throughout, but for those a deletion moved
\* below its offset.
THEOREM WalkIsComplete == Spec => []AllButTheSlid
<1>1. Inv => AllButTheSlid
  <2>. SUFFICES ASSUME Inv PROVE AllButTheSlid
    OBVIOUS
  <2>t. TypeOK /\ Endings /\ Sorted /\ NothingLeft
    BY DEF Inv
  <2>1. Ascending
    BY <2>t DEF Ascending, Sorted, Honoured
  <2>2. Complete => stable \subseteq Written \cup slid
    <3>1. buffer = <<>> => Kept = {}
      BY DEF Kept
    <3>. QED  BY <2>t, <3>1 DEF Complete, Endings, NothingLeft, Honoured
  <2>. QED  BY <2>1, <2>2 DEF AllButTheSlid
<1>. QED  BY <1>1, InvAlways, PTL

\* The token of an interrupted walk is the last record on stdout, and nothing
\* it leaves behind is missing there.
THEOREM TokensAreTruthful == Spec => []TokenIsLastWritten
<1>1. Inv => TokenIsLastWritten
  <2>. SUFFICES ASSUME Inv, result = "interrupted", ~deaf, counted
       PROVE  /\ out # <<>> => out[Len(out)] = cursor
              /\ \A r \in stable : r <= cursor => r \in Written \cup slid
    BY DEF TokenIsLastWritten
  <2>1. Honoured /\ buffer = <<>> /\ Kept = {}
    BY DEF Inv, Endings, Honoured, Kept
  <2>. QED  BY <2>1 DEF Inv, CursorIsLast, NothingLeft
<1>. QED  BY <1>1, InvAlways, PTL

\* The canary accuses nobody but an instance that drops the cursor from the
\* query, whatever others write between two pages.
THEOREM CanaryAccusesTheGuilty == Spec => []CanaryIsRight
<1>1. Inv => CanaryIsRight
  BY DEF Inv, Endings
<1>. QED  BY <1>1, InvAlways, PTL
=============================================================================
