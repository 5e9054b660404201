------------------------------ MODULE AmbProofs ------------------------------
(***************************************************************************)
(* Proofs about Amb, for any number of events: one connect is out and      *)
(* never two, poll returns the events of the channel in order and without  *)
(* a hole however they were framed, and a verdict costs no event.          *)
(***************************************************************************)
EXTENDS Amb, Integers, FiniteSetTheorems, SequenceTheorems, TLAPS

-----------------------------------------------------------------------------
\* The inductive invariant.

\* What a run of messages carries, in which order, and where its verdicts are.
EventsOf(s) == {s[i].n : i \in Places(s)}
Ascends(s) == \A i, j \in Places(s) : i < j => s[i].n < s[j].n
EndsOnVerdict(s) == \A i \in DOMAIN s : s[i] \in Condemning => \A j \in Places(s) : j < i

\* The same of a sequence of numbers.
Elements(s) == {s[i] : i \in DOMAIN s}
Rising(s) == \A i, j \in DOMAIN s : i < j => s[i] < s[j]

Gapless(S) == \A a, b \in S : \A e \in Event : a < e /\ e < b => e \in S

\* A connect that is on its way, held, or answered and unread; or the priming one.
Primes == Count(requests, {"prime"})
Armed ==
    /\ Connects + Primes <= 1
    /\ pc \in {"new", "handshake"} => Connects + Primes = 0
    /\ pc \notin {"new", "handshake", "prime"} => Primes = 0
    /\ pc \in {"open", "subscribe", "ready"} /\ up /\ ~dying => Careless \/ Connects = 1

\* Events are returned, then on the wire, then with the instance.
Ordered ==
    /\ Rising(returned) /\ Ascends(wire) /\ Rising(pending)
    /\ \A a \in Elements(returned), b \in EventsOf(wire) \cup Elements(pending) : a < b
    /\ \A a \in EventsOf(wire), b \in Elements(pending) : a < b
    /\ pc \notin {"ready", "closed"} => returned = <<>>

\* None is missing between two of them, nor behind the last while there is one.
Known == Elements(returned) \cup EventsOf(wire) \cup (IF up THEN Elements(pending) ELSE {})
Whole ==
    /\ Gapless(Known)
    /\ \A e \in Known \cup Elements(pending) : e <= published
    /\ up /\ ~Dead /\ Known # {} => published \in Known

\* After the verdict nothing comes.
Final ==
    /\ Dead => pending = <<>>
    /\ verdict => Dead /\ EventsOf(wire) = {}
    /\ EndsOnVerdict(wire)
    /\ Has(wire, Condemning) => Dead

Inv == TypeOK /\ Armed /\ Ordered /\ Whole /\ Final

-----------------------------------------------------------------------------
\* Messages, and runs of them.

\* Replies and events are messages, and events are told from replies.
LEMMA Messages ==
    /\ \A k \in Meta, b \in BOOLEAN :
           /\ Reply(k, b) \in Message /\ Reply(k, b).kind = k /\ Reply(k, b).bad = b
           /\ Reply(k, b).kind # "event"
           /\ Reply(k, b) \in Connect <=> k = "connect"
           /\ Reply(k, b) \in Condemning <=> k = "connect" /\ b
    /\ \A n \in Event :
           /\ Data(n) \in Message /\ Data(n).kind = "event" /\ Data(n).n = n
           /\ Data(n) \notin Connect /\ Data(n) \notin Condemning
    /\ \A m \in Message : m.kind = "event" => m.n \in Event /\ m \notin Connect
    /\ Condemning \subseteq Connect
    /\ Event = 1 .. MaxEvent /\ MaxEvent \in Nat
<1>1. \A k, b : Reply(k, b).kind = k /\ Reply(k, b).bad = b
  BY DEF Reply
<1>2. \A n : Data(n).kind = "event" /\ Data(n).n = n
  BY DEF Data
<1>3. \A k \in Meta : k # "event"
  BY DEF Meta
<1>4. \A m \in Connect : m.kind = "connect"
  BY <1>1 DEF Connect, RepliesTo
<1>5. Condemning \subseteq Connect
  BY DEF Condemning, Connect, RepliesTo
<1>6. \A k \in Meta, b \in BOOLEAN : Reply(k, b) \in Connect <=> k = "connect"
  BY <1>1 DEF Connect, RepliesTo
<1>7. \A k \in Meta, b \in BOOLEAN : Reply(k, b) \in Condemning <=> k = "connect" /\ b
  <2>. SUFFICES ASSUME NEW k \in Meta, NEW b \in BOOLEAN
       PROVE  Reply(k, b) = Reply("connect", TRUE) <=> k = "connect" /\ b
    BY DEF Condemning
  <2>1. CASE b = TRUE
    <3>1. Reply(k, TRUE) = Reply("connect", TRUE) <=> k = "connect"
      <4>1. Reply(k, TRUE).kind = k /\ Reply("connect", TRUE).kind = "connect"
        BY <1>1
      <4>. QED  BY <4>1
    <3>. QED  BY <2>1, <3>1
  <2>2. CASE b = FALSE
    <3>1. Reply(k, b).bad = FALSE /\ Reply("connect", TRUE).bad = TRUE
      BY <1>1, <2>2
    <3>2. Reply(k, b) # Reply("connect", TRUE)
      BY <3>1
    <3>. QED  BY <2>2, <3>2
  <2>. QED  BY <2>1, <2>2
<1>8. \A m \in Message : m.kind = "event" => m.n \in Event /\ m \notin Connect
  BY <1>1, <1>2, <1>3, <1>4 DEF Message
<1>. QED  BY <1>1, <1>2, <1>3, <1>4, <1>5, <1>6, <1>7, <1>8, AmbAssumption DEF Message, Event

\* The places of a run at which something stands are finitely many.
LEMMA PlacesAreFinite ==
    ASSUME NEW T, NEW s \in Seq(T), NEW S \in SUBSET DOMAIN s
    PROVE  /\ IsFiniteSet(S) /\ Cardinality(S) \in Nat
           /\ Cardinality(S) = 0 <=> S = {}
           /\ S \subseteq Nat /\ DOMAIN s = 1 .. Len(s) /\ Len(s) \in Nat
<1>1. DOMAIN s = 1 .. Len(s) /\ Len(s) \in Nat
  OBVIOUS
<1>2. IsFiniteSet(1 .. Len(s))
  BY <1>1, FS_Interval
<1>3. IsFiniteSet(S)
  BY <1>1, <1>2, FS_Subset
<1>. QED  BY <1>1, <1>3, FS_CardinalityType, FS_EmptySet

\* A count is a number, and 0 when there is nothing to count.
LEMMA CountIsNat ==
    ASSUME NEW T, NEW s \in Seq(T), NEW S
    PROVE  /\ Count(s, S) \in Nat
           /\ Count(s, S) = 0 <=> ~Has(s, S)
<1>. DEFINE P == {i \in DOMAIN s : s[i] \in S}
<1>1. P \in SUBSET DOMAIN s
  OBVIOUS
<1>. HIDE DEF P
<1>2. Cardinality(P) \in Nat /\ (Cardinality(P) = 0 <=> P = {})
  BY <1>1, PlacesAreFinite
<1>. QED  BY <1>2 DEF P, Count, Has

\* Two runs, one behind the other.
LEMMA Joined ==
    ASSUME NEW T, NEW s \in Seq(T), NEW t \in Seq(T)
    PROVE  /\ s \o t \in Seq(T) /\ Len(s \o t) = Len(s) + Len(t)
           /\ Len(s) \in Nat /\ Len(t) \in Nat
           /\ DOMAIN s = 1 .. Len(s) /\ DOMAIN t = 1 .. Len(t)
           /\ DOMAIN (s \o t) = 1 .. Len(s) + Len(t)
           /\ \A i \in DOMAIN s : i \in DOMAIN (s \o t) /\ (s \o t)[i] = s[i]
           /\ \A i \in DOMAIN t : Len(s) + i \in DOMAIN (s \o t) /\ (s \o t)[Len(s) + i] = t[i]
           /\ \A i \in DOMAIN (s \o t) :
                  i \in DOMAIN s \/ \E j \in DOMAIN t : i = Len(s) + j
<1>1. /\ s \o t \in Seq(T) /\ Len(s \o t) = Len(s) + Len(t)
      /\ Len(s) \in Nat /\ Len(t) \in Nat
      /\ DOMAIN s = 1 .. Len(s) /\ DOMAIN t = 1 .. Len(t)
      /\ DOMAIN (s \o t) = 1 .. Len(s) + Len(t)
  OBVIOUS
<1>2. \A i \in DOMAIN s : i \in DOMAIN (s \o t) /\ (s \o t)[i] = s[i]
  BY <1>1
<1>3. ASSUME NEW i \in DOMAIN t
      PROVE  Len(s) + i \in DOMAIN (s \o t) /\ (s \o t)[Len(s) + i] = t[i]
  <2>1. i \in 1 .. Len(t) /\ Len(s) + i \in 1 .. Len(s) + Len(t) /\ Len(s) + i > Len(s)
        /\ (Len(s) + i) - Len(s) = i
    BY <1>1
  <2>. QED  BY <1>1, <2>1
<1>4. ASSUME NEW i \in DOMAIN (s \o t), i \notin DOMAIN s
      PROVE  \E j \in DOMAIN t : i = Len(s) + j
  <2>1. i - Len(s) \in DOMAIN t /\ i = Len(s) + (i - Len(s))
    BY <1>1, <1>4
  <2>. QED  BY <2>1
<1>. QED  BY <1>1, <1>2, <1>3, <1>4

\* A run counts what its parts count.
LEMMA CountJoined ==
    ASSUME NEW T, NEW s \in Seq(T), NEW t \in Seq(T), NEW S
    PROVE  Count(s \o t, S) = Count(s, S) + Count(t, S)
<1>. DEFINE A == {i \in DOMAIN s : s[i] \in S}
            B == {i \in DOMAIN t : t[i] \in S}
            C == {i \in DOMAIN (s \o t) : (s \o t)[i] \in S}
            D == C \ A
            f == [i \in B |-> Len(s) + i]
<1>j. /\ s \o t \in Seq(T) /\ Len(s) \in Nat /\ Len(t) \in Nat
      /\ DOMAIN s = 1 .. Len(s) /\ DOMAIN t = 1 .. Len(t)
      /\ \A i \in DOMAIN s : i \in DOMAIN (s \o t) /\ (s \o t)[i] = s[i]
      /\ \A i \in DOMAIN t : Len(s) + i \in DOMAIN (s \o t) /\ (s \o t)[Len(s) + i] = t[i]
      /\ \A i \in DOMAIN (s \o t) :
             i \in DOMAIN s \/ \E j \in DOMAIN t : i = Len(s) + j
  BY Joined
<1>1. /\ IsFiniteSet(A) /\ IsFiniteSet(B) /\ IsFiniteSet(C)
      /\ Cardinality(A) \in Nat /\ Cardinality(B) \in Nat
  <2>1. A \in SUBSET DOMAIN s /\ B \in SUBSET DOMAIN t /\ C \in SUBSET DOMAIN (s \o t)
    OBVIOUS
  <2>. HIDE DEF A, B, C
  <2>. QED  BY <1>j, <2>1, PlacesAreFinite
<1>2. A \subseteq C
  BY <1>j
<1>3. \A i \in B : Len(s) + i \in D
  <2>. SUFFICES ASSUME NEW i \in B PROVE Len(s) + i \in C /\ Len(s) + i \notin A
    OBVIOUS
  <2>1. i \in 1 .. Len(t) /\ Len(s) + i \notin 1 .. Len(s)
    BY <1>j
  <2>. QED  BY <1>j, <2>1
<1>4. \A k \in D : \E i \in B : k = Len(s) + i
  <2>. SUFFICES ASSUME NEW k \in D PROVE \E i \in B : k = Len(s) + i
    OBVIOUS
  <2>1. k \in DOMAIN (s \o t) /\ (s \o t)[k] \in S /\ k \notin A
    OBVIOUS
  <2>2. k \notin DOMAIN s
    BY <1>j, <2>1
  <2>3. PICK j \in DOMAIN t : k = Len(s) + j
    BY <1>j, <2>1, <2>2
  <2>4. t[j] \in S
    BY <1>j, <2>1, <2>3
  <2>. QED  BY <2>3, <2>4
<1>5. f \in Bijection(B, D)
  <2>1. f \in [B -> D]
    BY <1>3
  <2>2. \A i, j \in B : f[i] = f[j] => i = j
    BY <1>j
  <2>3. f \in Injection(B, D)
    BY <2>1, <2>2 DEF Injection, IsInjective
  <2>4. f \in Surjection(B, D)
    BY <1>4, <2>1 DEF Surjection
  <2>. QED  BY <2>3, <2>4 DEF Bijection
<1>. HIDE DEF A, B, C, f
<1>6. IsFiniteSet(D) /\ Cardinality(D) = Cardinality(B)
  BY <1>1, <1>5, FS_Bijection DEF ExistsBijection
<1>7. Cardinality(A \cup D) = Cardinality(A) + Cardinality(D)
  <2>1. A \cap D = {}
    OBVIOUS
  <2>2. Cardinality(A \cap D) = 0
    BY <2>1, FS_EmptySet
  <2>. HIDE DEF D
  <2>3. Cardinality(A \cup D) = Cardinality(A) + Cardinality(D) - Cardinality(A \cap D)
    BY <1>1, <1>6, FS_Union
  <2>. QED  BY <1>1, <1>6, <2>2, <2>3
<1>8. A \cup D = C
  BY <1>2
<1>9. /\ Count(s, S) = Cardinality(A) /\ Count(t, S) = Cardinality(B)
      /\ Count(s \o t, S) = Cardinality(C)
  BY DEF A, B, C, Count
<1>. QED  BY <1>6, <1>7, <1>8, <1>9

\* A run carries what its parts carry, in order if they do, and ends on a verdict
\* if they do and nothing follows one.
LEMMA EventsJoined ==
    ASSUME NEW s \in Seq(Message), NEW t \in Seq(Message)
    PROVE  /\ s \o t \in Seq(Message)
           /\ EventsOf(s) \subseteq Event
           /\ EventsOf(s \o t) = EventsOf(s) \cup EventsOf(t)
           /\ Ascends(s \o t) <=>
                  /\ Ascends(s) /\ Ascends(t)
                  /\ \A a \in EventsOf(s), b \in EventsOf(t) : a < b
           /\ EndsOnVerdict(s \o t) <=>
                  /\ EndsOnVerdict(s) /\ EndsOnVerdict(t)
                  /\ Has(s, Condemning) => EventsOf(t) = {}
           /\ \A S : Has(s \o t, S) <=> Has(s, S) \/ Has(t, S)
<1>. DEFINE u == s \o t
            l == Len(s)
<1>j. /\ u \in Seq(Message) /\ l \in Nat /\ Len(t) \in Nat
      /\ DOMAIN s = 1 .. l /\ DOMAIN t = 1 .. Len(t)
      /\ \A i \in DOMAIN s : i \in DOMAIN u /\ u[i] = s[i]
      /\ \A i \in DOMAIN t : l + i \in DOMAIN u /\ u[l + i] = t[i]
      /\ \A i \in DOMAIN u : i \in DOMAIN s \/ \E j \in DOMAIN t : i = l + j
  BY Joined
<1>m. /\ \A i \in DOMAIN s : s[i] \in Message /\ i \in Nat /\ i <= l
      /\ \A i \in DOMAIN t : t[i] \in Message /\ i \in Nat /\ 0 < i
  BY <1>j
<1>. HIDE DEF u, l
<1>s. EventsOf(s) \subseteq Event /\ EventsOf(t) \subseteq Event /\ Event \subseteq Nat
  BY <1>m, Messages DEF EventsOf, Places
<1>p. /\ \A i \in Places(s) : i \in Places(u) /\ u[i] = s[i]
      /\ \A i \in Places(t) : l + i \in Places(u) /\ u[l + i] = t[i]
      /\ \A i \in Places(u) : i \in Places(s) \/ \E j \in Places(t) : i = l + j
  BY <1>j DEF Places
<1>q. Places(s) \subseteq DOMAIN s /\ Places(t) \subseteq DOMAIN t
  BY DEF Places
<1>1. EventsOf(u) = EventsOf(s) \cup EventsOf(t)
  BY <1>p DEF EventsOf
<1>2. ASSUME Ascends(u)
      PROVE  /\ Ascends(s) /\ Ascends(t)
             /\ \A a \in EventsOf(s), b \in EventsOf(t) : a < b
  <2>1. Ascends(s)
    BY <1>2, <1>p DEF Ascends
  <2>2. Ascends(t)
    <3>. SUFFICES ASSUME NEW i \in Places(t), NEW j \in Places(t), i < j
         PROVE  t[i].n < t[j].n
      BY DEF Ascends
    <3>1. l + i < l + j
      BY <1>j, <1>m, <1>q
    <3>. QED  BY <1>2, <1>p, <3>1 DEF Ascends
  <2>3. \A i \in Places(s), j \in Places(t) : s[i].n < t[j].n
    <3>. SUFFICES ASSUME NEW i \in Places(s), NEW j \in Places(t)
         PROVE  s[i].n < t[j].n
      OBVIOUS
    <3>1. i < l + j
      BY <1>j, <1>m, <1>q
    <3>. QED  BY <1>2, <1>p, <3>1 DEF Ascends
  <2>. QED  BY <2>1, <2>2, <2>3 DEF EventsOf
<1>3. ASSUME Ascends(s), Ascends(t), \A a \in EventsOf(s), b \in EventsOf(t) : a < b
      PROVE  Ascends(u)
  <2>. SUFFICES ASSUME NEW i \in Places(u), NEW j \in Places(u), i < j
       PROVE  u[i].n < u[j].n
    BY DEF Ascends
  <2>1. CASE i \in Places(s) /\ j \in Places(s)
    BY <1>3, <1>p, <2>1 DEF Ascends
  <2>2. CASE i \in Places(s) /\ j \notin Places(s)
    <3>1. PICK k \in Places(t) : j = l + k
      BY <1>p, <2>2
    <3>2. u[i] = s[i] /\ u[j] = t[k]
      BY <1>p, <2>2, <3>1
    <3>3. s[i].n \in EventsOf(s) /\ t[k].n \in EventsOf(t)
      BY <2>2 DEF EventsOf
    <3>. QED  BY <1>3, <3>2, <3>3
  <2>3. CASE i \notin Places(s)
    <3>1. PICK h \in Places(t) : i = l + h
      BY <1>p, <2>3
    <3>2. l < i /\ h \in Nat
      BY <1>j, <1>m, <1>q, <3>1
    <3>3. j \notin Places(s)
      BY <1>j, <1>m, <1>q, <3>1, <3>2
    <3>4. PICK k \in Places(t) : j = l + k
      BY <1>p, <3>3
    <3>5. h < k
      BY <1>j, <1>m, <1>q, <3>1, <3>2, <3>4
    <3>. QED  BY <1>3, <1>p, <3>1, <3>4, <3>5 DEF Ascends
  <2>. QED  BY <2>1, <2>2, <2>3
<1>4. ASSUME EndsOnVerdict(u)
      PROVE  /\ EndsOnVerdict(s) /\ EndsOnVerdict(t)
             /\ Has(s, Condemning) => EventsOf(t) = {}
  <2>1. EndsOnVerdict(s)
    BY <1>4, <1>j, <1>p DEF EndsOnVerdict
  <2>2. EndsOnVerdict(t)
    <3>. SUFFICES ASSUME NEW i \in DOMAIN t, t[i] \in Condemning, NEW j \in Places(t)
         PROVE  j < i
      BY DEF EndsOnVerdict
    <3>1. l + j < l + i
      BY <1>4, <1>j, <1>p DEF EndsOnVerdict
    <3>. QED  BY <1>j, <1>m, <1>q, <3>1
  <2>3. ASSUME NEW i \in DOMAIN s, s[i] \in Condemning, NEW j \in Places(t)
        PROVE  FALSE
    <3>1. l + j < i
      BY <1>4, <1>j, <1>p, <2>3 DEF EndsOnVerdict
    <3>. QED  BY <1>j, <1>m, <1>q, <3>1
  <2>. QED  BY <2>1, <2>2, <2>3 DEF Has, EventsOf
<1>5. ASSUME EndsOnVerdict(s), EndsOnVerdict(t), Has(s, Condemning) => EventsOf(t) = {}
      PROVE  EndsOnVerdict(u)
  <2>. SUFFICES ASSUME NEW i \in DOMAIN u, u[i] \in Condemning, NEW j \in Places(u)
       PROVE  j < i
    BY DEF EndsOnVerdict
  <2>1. CASE i \in DOMAIN s
    <3>1. Places(t) = {}
      BY <1>5, <1>j, <2>1 DEF Has, EventsOf
    <3>. QED  BY <1>5, <1>j, <1>p, <2>1, <3>1 DEF EndsOnVerdict
  <2>2. CASE i \notin DOMAIN s
    <3>1. PICK h \in DOMAIN t : i = l + h
      BY <1>j, <2>2
    <3>2. t[h] \in Condemning
      BY <1>j, <3>1
    <3>3. CASE j \in Places(s)
      BY <1>j, <1>m, <1>q, <3>1, <3>3
    <3>4. CASE j \notin Places(s)
      <4>1. PICK k \in Places(t) : j = l + k
        BY <1>p, <3>4
      <4>2. k < h
        BY <1>5, <3>2 DEF EndsOnVerdict
      <4>. QED  BY <1>j, <1>m, <1>q, <3>1, <4>1, <4>2
    <3>. QED  BY <3>3, <3>4
  <2>. QED  BY <2>1, <2>2
<1>6. \A S : Has(u, S) <=> Has(s, S) \/ Has(t, S)
  BY <1>j DEF Has
<1>. QED  BY <1>j, <1>s, <1>1, <1>2, <1>3, <1>4, <1>5, <1>6 DEF u

\* One message.
LEMMA Single ==
    ASSUME NEW m
    PROVE  /\ \A S : Count(<<m>>, S) = IF m \in S THEN 1 ELSE 0
           /\ \A S : Has(<<m>>, S) <=> m \in S
           /\ m \in Message =>
                  /\ <<m>> \in Seq(Message)
                  /\ EventsOf(<<m>>) = IF m.kind = "event" THEN {m.n} ELSE {}
                  /\ Ascends(<<m>>) /\ EndsOnVerdict(<<m>>)
<1>1. DOMAIN <<m>> = {1} /\ <<m>>[1] = m
  OBVIOUS
<1>2. ASSUME NEW S PROVE Count(<<m>>, S) = IF m \in S THEN 1 ELSE 0
  <2>1. {i \in DOMAIN <<m>> : <<m>>[i] \in S} = IF m \in S THEN {1} ELSE {}
    BY <1>1
  <2>. QED  BY <2>1, FS_Singleton, FS_EmptySet DEF Count
<1>3. Places(<<m>>) = IF m.kind = "event" THEN {1} ELSE {}
  BY <1>1 DEF Places
<1>4. EventsOf(<<m>>) = IF m.kind = "event" THEN {m.n} ELSE {}
  BY <1>1, <1>3 DEF EventsOf
<1>5. Ascends(<<m>>)
  BY <1>3 DEF Ascends
<1>6. m \in Message => EndsOnVerdict(<<m>>)
  BY <1>1, <1>3, Messages DEF EndsOnVerdict
<1>. QED  BY <1>1, <1>2, <1>4, <1>5, <1>6 DEF Has

\* The places of a set are numbered from 1 on, in their order.
LEMMA Ranked ==
    ASSUME NEW S \in SUBSET Nat, IsFiniteSet(S)
    PROVE  /\ Cardinality(S) \in Nat
           /\ \A k \in 1 .. Cardinality(S) : Nth(S, k) \in S
           /\ \A k, l \in 1 .. Cardinality(S) : k < l => Nth(S, k) < Nth(S, l)
           /\ \A i \in S : \E k \in 1 .. Cardinality(S) : Nth(S, k) = i
<1>. DEFINE Low(i) == {j \in S : j < i}
            n == Cardinality(S)
            f == [i \in S |-> Cardinality(Low(i))]
            T == 0 .. n - 1
<1>0. n \in Nat
  BY FS_CardinalityType
<1>1. \A i \in S : IsFiniteSet(Low(i)) /\ Cardinality(Low(i)) \in Nat
  <2>. SUFFICES ASSUME NEW i \in S PROVE IsFiniteSet(Low(i)) /\ Cardinality(Low(i)) \in Nat
    OBVIOUS
  <2>1. Low(i) \in SUBSET S
    OBVIOUS
  <2>. HIDE DEF Low
  <2>. QED  BY <2>1, FS_Subset, FS_CardinalityType
<1>2. \A i \in S : /\ IsFiniteSet(Low(i) \cup {i})
                   /\ Cardinality(Low(i) \cup {i}) = Cardinality(Low(i)) + 1
  <2>. SUFFICES ASSUME NEW i \in S
       PROVE  /\ IsFiniteSet(Low(i) \cup {i})
              /\ Cardinality(Low(i) \cup {i}) = Cardinality(Low(i)) + 1
    OBVIOUS
  <2>0. i \in Nat
    OBVIOUS
  <2>1. i \notin Low(i)
    BY <2>0
  <2>2. IsFiniteSet(Low(i))
    BY <1>1
  <2>. HIDE DEF Low
  <2>. QED  BY <2>1, <2>2, FS_AddElement
<1>3. \A i, j \in S : i < j => Cardinality(Low(i)) < Cardinality(Low(j))
  <2>. SUFFICES ASSUME NEW i \in S, NEW j \in S, i < j
       PROVE  Cardinality(Low(i)) < Cardinality(Low(j))
    OBVIOUS
  <2>0. \A h \in S : h \in Nat
    OBVIOUS
  <2>1. Low(i) \cup {i} \subseteq Low(j)
    <3>. SUFFICES ASSUME NEW h \in Low(i) \cup {i} PROVE h \in S /\ h < j
      OBVIOUS
    <3>. QED  BY <2>0
  <2>. HIDE DEF Low
  <2>2. Cardinality(Low(i) \cup {i}) <= Cardinality(Low(j))
    BY <1>1, <2>1, FS_Subset
  <2>. QED  BY <1>1, <1>2, <2>2
<1>4. \A i \in S : Cardinality(Low(i)) < n
  <2>. SUFFICES ASSUME NEW i \in S PROVE Cardinality(Low(i)) < n
    OBVIOUS
  <2>1. Low(i) \cup {i} \subseteq S
    OBVIOUS
  <2>. HIDE DEF Low
  <2>2. Cardinality(Low(i) \cup {i}) <= n
    BY <2>1, FS_Subset
  <2>. QED  BY <1>0, <1>1, <1>2, <2>2
<1>. HIDE DEF Low
<1>5. f \in [S -> T]
  BY <1>0, <1>1, <1>4
<1>6. \A i, j \in S : f[i] = f[j] => i = j
  <2>. SUFFICES ASSUME NEW i \in S, NEW j \in S, i # j
       PROVE  Cardinality(Low(i)) # Cardinality(Low(j))
    OBVIOUS
  <2>1. i < j \/ j < i
    OBVIOUS
  <2>2. Cardinality(Low(i)) < Cardinality(Low(j)) \/ Cardinality(Low(j)) < Cardinality(Low(i))
    BY <1>3, <2>1
  <2>. QED  BY <1>1, <2>2
<1>7. \A k \in T : \E i \in S : Cardinality(Low(i)) = k
  <2>1. f \in Injection(S, T)
    BY <1>5, <1>6 DEF Injection, IsInjective
  <2>2. IsFiniteSet(T) /\ Cardinality(T) = n
    <3>. HIDE DEF n
    <3>1. 0 \in Int /\ n - 1 \in Int /\ (IF 0 > n - 1 THEN 0 ELSE (n - 1) - 0 + 1) = n
      BY <1>0
    <3>. QED  BY <3>1, FS_Interval
  <2>3. f \in Surjection(S, T)
    BY <2>1, <2>2, FS_Injection
  <2>. QED  BY <2>3 DEF Surjection
<1>8. \A k \in 1 .. n : Nth(S, k) \in S /\ Cardinality(Low(Nth(S, k))) = k - 1
  <2>. SUFFICES ASSUME NEW k \in 1 .. n
       PROVE  Nth(S, k) \in S /\ Cardinality(Low(Nth(S, k))) = k - 1
    OBVIOUS
  <2>1. k - 1 \in T
    BY <1>0
  <2>2. \E i \in S : Cardinality(Low(i)) = k - 1
    BY <1>7, <2>1
  <2>3. Nth(S, k) = CHOOSE i \in S : Cardinality(Low(i)) = k - 1
    BY DEF Nth, Low
  <2>. QED  BY <2>2, <2>3
<1>9. \A k, l \in 1 .. n : k < l => Nth(S, k) < Nth(S, l)
  <2>. SUFFICES ASSUME NEW k \in 1 .. n, NEW l \in 1 .. n, k < l
       PROVE  Nth(S, k) < Nth(S, l)
    OBVIOUS
  <2>1. /\ Nth(S, k) \in S /\ Nth(S, l) \in S
        /\ Cardinality(Low(Nth(S, k))) < Cardinality(Low(Nth(S, l)))
    BY <1>0, <1>8
  <2>2. Cardinality(Low(Nth(S, k))) \in Nat /\ Cardinality(Low(Nth(S, l))) \in Nat
    BY <1>1, <2>1
  <2>3. ~ (Nth(S, l) < Nth(S, k))
    <3>1. Nth(S, l) < Nth(S, k) =>
              Cardinality(Low(Nth(S, l))) < Cardinality(Low(Nth(S, k)))
      BY <1>3, <2>1
    <3>. QED  BY <2>1, <2>2, <3>1
  <2>4. Nth(S, k) # Nth(S, l)
    BY <2>1, <2>2
  <2>5. Nth(S, k) \in Nat /\ Nth(S, l) \in Nat
    BY <2>1
  <2>. QED  BY <2>3, <2>4, <2>5
<1>10. \A i \in S : \E k \in 1 .. n : Nth(S, k) = i
  <2>. SUFFICES ASSUME NEW i \in S PROVE \E k \in 1 .. n : Nth(S, k) = i
    OBVIOUS
  <2>1. PICK k \in 1 .. n : k - 1 = Cardinality(Low(i))
    <3>1. Cardinality(Low(i)) + 1 \in 1 .. n /\ (Cardinality(Low(i)) + 1) - 1 = Cardinality(Low(i))
      BY <1>0, <1>1, <1>4
    <3>. QED  BY <3>1
  <2>2. Nth(S, k) \in S /\ Cardinality(Low(Nth(S, k))) = Cardinality(Low(i))
    BY <1>8, <2>1
  <2>3. Nth(S, k) = i
    BY <1>5, <1>6, <2>2
  <2>. QED  BY <2>3
<1>. QED  BY <1>0, <1>8, <1>9, <1>10

\* The events of a frame, one by one.
LEMMA NumbersOf ==
    ASSUME NEW s \in Seq(Message)
    PROVE  /\ Numbers(s) \in Seq(Event)
           /\ Elements(Numbers(s)) = EventsOf(s)
           /\ Ascends(s) => Rising(Numbers(s))
           /\ Numbers(s) = <<>> <=> EventsOf(s) = {}
<1>. DEFINE S == Places(s)
            n == Cardinality(S)
            q == Numbers(s)
<1>1. S \in SUBSET Nat /\ IsFiniteSet(S) /\ S \subseteq DOMAIN s /\ (n = 0 <=> S = {})
  <2>1. S \in SUBSET DOMAIN s
    BY DEF Places
  <2>. HIDE DEF S
  <2>. QED  BY <2>1, PlacesAreFinite
<1>2. /\ DOMAIN q = 1 .. n
      /\ \A k \in 1 .. n : q[k] = s[Nth(S, k)].n
  BY DEF Numbers
<1>3. \A i \in S : s[i].n \in Event
  <2>1. \A i \in S : s[i] \in Message /\ s[i].kind = "event"
    BY <1>1 DEF Places
  <2>. QED  BY <2>1, Messages
<1>. HIDE DEF S
<1>4. /\ n \in Nat
      /\ \A k \in 1 .. n : Nth(S, k) \in S
      /\ \A k, l \in 1 .. n : k < l => Nth(S, k) < Nth(S, l)
      /\ \A i \in S : \E k \in 1 .. n : Nth(S, k) = i
  BY <1>1, Ranked
<1>5. q = [k \in 1 .. n |-> s[Nth(S, k)].n]
  BY DEF Numbers, S
<1>. HIDE DEF n
<1>6. q \in [1 .. n -> Event]
  BY <1>3, <1>4, <1>5
<1>. HIDE DEF q
<1>7. q \in Seq(Event) /\ Len(q) = n
  BY <1>2, <1>4, <1>6
<1>8. Elements(q) = EventsOf(s)
  BY <1>2, <1>4 DEF Elements, EventsOf, S
<1>9. Ascends(s) => Rising(q)
  BY <1>2, <1>4 DEF Ascends, Rising, S
<1>10. q = <<>> <=> EventsOf(s) = {}
  <2>1. q = <<>> <=> n = 0
    BY <1>7
  <2>2. EventsOf(s) = {} <=> S = {}
    BY DEF EventsOf, S
  <2>. QED  BY <1>1, <2>1, <2>2 DEF n
<1>. QED  BY <1>7, <1>8, <1>9, <1>10 DEF q

\* Two runs of numbers.
LEMMA RisingJoined ==
    ASSUME NEW s \in Seq(Event), NEW t \in Seq(Event)
    PROVE  /\ s \o t \in Seq(Event)
           /\ Elements(s) \subseteq Event
           /\ Elements(s \o t) = Elements(s) \cup Elements(t)
           /\ Rising(s) /\ Rising(t) /\ (\A a \in Elements(s), b \in Elements(t) : a < b)
                  => Rising(s \o t)
<1>. DEFINE u == s \o t
            l == Len(s)
<1>j. /\ u \in Seq(Event) /\ l \in Nat /\ Len(t) \in Nat
      /\ DOMAIN s = 1 .. l /\ DOMAIN t = 1 .. Len(t)
      /\ \A i \in DOMAIN s : i \in DOMAIN u /\ u[i] = s[i]
      /\ \A i \in DOMAIN t : l + i \in DOMAIN u /\ u[l + i] = t[i]
      /\ \A i \in DOMAIN u : i \in DOMAIN s \/ \E j \in DOMAIN t : i = l + j
  BY Joined
<1>. HIDE DEF u, l
<1>1. Elements(u) = Elements(s) \cup Elements(t)
  BY <1>j DEF Elements
<1>2. Elements(s) \subseteq Event
  BY DEF Elements
<1>3. ASSUME Rising(s), Rising(t), \A a \in Elements(s), b \in Elements(t) : a < b
      PROVE  Rising(u)
  <2>. SUFFICES ASSUME NEW i \in DOMAIN u, NEW j \in DOMAIN u, i < j PROVE u[i] < u[j]
    BY DEF Rising
  <2>1. CASE i \in DOMAIN s /\ j \in DOMAIN s
    BY <1>3, <1>j, <2>1 DEF Rising
  <2>2. CASE i \in DOMAIN s /\ j \notin DOMAIN s
    <3>1. PICK k \in DOMAIN t : j = l + k
      BY <1>j, <2>2
    <3>. QED  BY <1>3, <1>j, <2>2, <3>1 DEF Elements
  <2>3. CASE i \notin DOMAIN s
    <3>1. PICK h \in DOMAIN t : i = l + h
      BY <1>j, <2>3
    <3>2. j \notin DOMAIN s
      BY <1>j, <3>1
    <3>3. PICK k \in DOMAIN t : j = l + k
      BY <1>j, <3>2
    <3>4. h < k
      BY <1>j, <3>1, <3>3
    <3>. QED  BY <1>3, <1>j, <3>1, <3>3, <3>4 DEF Rising
  <2>. QED  BY <2>1, <2>2, <2>3
<1>. QED  BY <1>j, <1>1, <1>2, <1>3 DEF u

\* A rising run of numbers without a gap counts by one.
LEMMA Consecutive ==
    ASSUME NEW s \in Seq(Event), Rising(s), Gapless(Elements(s))
    PROVE  \A i \in 1 .. Len(s) - 1 : s[i + 1] = s[i] + 1
<1>. SUFFICES ASSUME NEW i \in 1 .. Len(s) - 1, s[i + 1] # s[i] + 1
     PROVE  FALSE
  OBVIOUS
<1>1. /\ DOMAIN s = 1 .. Len(s) /\ Len(s) \in Nat
      /\ i \in DOMAIN s /\ i + 1 \in DOMAIN s /\ i < i + 1
  OBVIOUS
<1>2. /\ Event = 1 .. MaxEvent /\ MaxEvent \in Nat
      /\ s[i] \in Event /\ s[i + 1] \in Event /\ s[i] < s[i + 1]
  BY <1>1, Messages DEF Rising
<1>3. s[i] + 1 \in Event /\ s[i] < s[i] + 1 /\ s[i] + 1 < s[i + 1]
  BY <1>2
<1>4. PICK j \in DOMAIN s : s[j] = s[i] + 1
  BY <1>1, <1>3 DEF Gapless, Elements
<1>5. i < j /\ j < i + 1
  <2>1. ~ (j < i) /\ j # i
    BY <1>1, <1>2, <1>4 DEF Rising
  <2>2. ~ (i + 1 < j) /\ j # i + 1
    BY <1>1, <1>2, <1>3, <1>4 DEF Rising
  <2>. QED  BY <1>1, <2>1, <2>2
<1>. QED  BY <1>1, <1>5

\* A frame and what the socket still has are what it had.
LEMMA Framed ==
    ASSUME NEW T, NEW s \in Seq(T), NEW n \in 0 .. Len(s)
    PROVE  /\ SubSeq(s, 1, n) \in Seq(T) /\ SubSeq(s, n + 1, Len(s)) \in Seq(T)
           /\ Len(SubSeq(s, 1, n)) = n /\ \A i \in 1 .. n : SubSeq(s, 1, n)[i] = s[i]
           /\ s = SubSeq(s, 1, n) \o SubSeq(s, n + 1, Len(s))
<1>. DEFINE a == SubSeq(s, 1, n)
            b == SubSeq(s, n + 1, Len(s))
<1>1. /\ Len(s) \in Nat /\ n \in Nat /\ n <= Len(s) /\ DOMAIN s = 1 .. Len(s)
      /\ \A i \in DOMAIN s : s[i] \in T
  OBVIOUS
<1>2. /\ a \in Seq(T) /\ Len(a) = n /\ \A i \in 1 .. n : a[i] = s[i]
  <2>1. 1 \in Int /\ n \in Int /\ \A i \in 1 .. n : s[i] \in T /\ 1 + i - 1 = i
    BY <1>1
  <2>2. /\ a \in Seq(T) /\ Len(a) = IF 1 <= n THEN n - 1 + 1 ELSE 0
        /\ \A i \in 1 .. n - 1 + 1 : a[i] = s[1 + i - 1]
    BY <2>1, SubSeqProperties
  <2>. HIDE DEF a
  <2>. QED  BY <1>1, <2>1, <2>2
<1>3. /\ b \in Seq(T) /\ Len(b) = Len(s) - n
      /\ \A i \in 1 .. Len(s) - n : b[i] = s[n + i]
  <2>. DEFINE l == Len(s)
  <2>1. n + 1 \in Int /\ l \in Int /\ \A i \in n + 1 .. l : s[i] \in T
    BY <1>1
  <2>2. /\ b \in Seq(T) /\ Len(b) = IF n + 1 <= l THEN l - (n + 1) + 1 ELSE 0
        /\ \A i \in 1 .. l - (n + 1) + 1 : b[i] = s[n + 1 + i - 1]
    BY <2>1, SubSeqProperties
  <2>3. l \in Nat /\ n <= l
    BY <1>1
  <2>. HIDE DEF b, l
  <2>4. l - (n + 1) + 1 = l - n /\ \A i \in 1 .. l - n : n + 1 + i - 1 = n + i
    BY <1>1, <2>3
  <2>5. Len(b) = l - n
    BY <1>1, <2>2, <2>3
  <2>. QED  BY <2>2, <2>4, <2>5 DEF l
<1>. HIDE DEF a, b
<1>4. a \o b \in Seq(T) /\ Len(a \o b) = Len(s)
  <2>1. Len(s) = n + (Len(s) - n)
    BY <1>1
  <2>. QED  BY <1>2, <1>3, <2>1, ConcatProperties
<1>5. \A i \in 1 .. Len(s) : (a \o b)[i] = s[i]
  <2>. SUFFICES ASSUME NEW i \in 1 .. Len(s) PROVE (a \o b)[i] = s[i]
    OBVIOUS
  <2>1. CASE i <= n
    BY <1>1, <1>2, <1>3, <2>1
  <2>2. CASE ~ (i <= n)
    <3>1. i - n \in 1 .. Len(s) - n /\ n + (i - n) = i
      BY <1>1, <2>2
    <3>2. (a \o b)[i] = b[i - n]
      BY <1>1, <1>2, <1>3, <2>2
    <3>. QED  BY <1>3, <3>1, <3>2
  <2>. QED  BY <2>1, <2>2
<1>6. a \o b = s
  BY <1>4, <1>5, SeqEqual
<1>. QED  BY <1>2, <1>3, <1>6 DEF a, b

-----------------------------------------------------------------------------
\* The state, one variable at a time, and what the steps do to it.

\* Counts are numbers, and what is carried are events.
LEMMA Types ==
    ASSUME TypeOK
    PROVE  /\ wire \in Seq(Message) /\ pending \in Seq(Event) /\ returned \in Seq(Event)
           /\ requests \in Seq(Request) /\ waiting \in Nat /\ waiting <= 1
           /\ published \in 0 .. MaxEvent /\ MaxEvent \in Nat /\ Event = 1 .. MaxEvent
           /\ Count(wire, Connect) \in Nat
           /\ Count(requests, {"connect"}) \in Nat /\ Primes \in Nat /\ Connects \in Nat
           /\ EventsOf(wire) \subseteq Event /\ Elements(pending) \subseteq Event
           /\ Elements(returned) \subseteq Event
<1>1. /\ wire \in Seq(Message) /\ pending \in Seq(Event) /\ returned \in Seq(Event)
      /\ requests \in Seq(Request) /\ waiting \in Nat /\ waiting <= 1
      /\ published \in 0 .. MaxEvent
  BY DEF TypeOK
<1>2. MaxEvent \in Nat /\ Event = 1 .. MaxEvent
  BY AmbAssumption DEF Event
<1>3. /\ Count(wire, Connect) \in Nat /\ Count(requests, {"connect"}) \in Nat
      /\ Primes \in Nat
  BY <1>1, CountIsNat DEF Primes
<1>4. Connects \in Nat
  BY <1>1, <1>3 DEF Connects
<1>5. /\ EventsOf(wire) \subseteq Event /\ Elements(pending) \subseteq Event
      /\ Elements(returned) \subseteq Event
  BY <1>1, EventsJoined, RisingJoined
<1>. QED  BY <1>1, <1>2, <1>3, <1>4, <1>5

\* Nothing.
LEMMA Nothing ==
    /\ \A T : <<>> \in Seq(T)
    /\ \A S : Count(<<>>, S) = 0 /\ ~Has(<<>>, S)
    /\ EventsOf(<<>>) = {} /\ Elements(<<>>) = {}
    /\ Ascends(<<>>) /\ Rising(<<>>) /\ EndsOnVerdict(<<>>)
<1>1. DOMAIN <<>> = {} /\ \A T : <<>> \in Seq(T)
  OBVIOUS
<1>2. \A S : {i \in DOMAIN <<>> : <<>>[i] \in S} = {}
  BY <1>1
<1>3. \A S : Count(<<>>, S) = 0
  BY <1>2, FS_EmptySet DEF Count
<1>4. Places(<<>>) = {}
  BY <1>1 DEF Places
<1>. QED  BY <1>1, <1>3, <1>4
     DEF Has, EventsOf, Elements, Ascends, Rising, EndsOnVerdict

\* Reading a frame splits what was on the wire.
LEMMA Reading ==
    ASSUME TypeOK, NEW n \in 0 .. Len(wire)
    PROVE  /\ Frame(n) \in Seq(Message) /\ Rest(n) \in Seq(Message)
           /\ wire = Frame(n) \o Rest(n)
           /\ Rest(Len(Frame(n))) = Rest(n)
           /\ DOMAIN Frame(n) = 1 .. n /\ \A i \in 1 .. n : Frame(n)[i] = wire[i] /\ i \in DOMAIN wire
           /\ EventsOf(wire) = EventsOf(Frame(n)) \cup EventsOf(Rest(n))
           /\ \A S : Count(wire, S) = Count(Frame(n), S) + Count(Rest(n), S)
           /\ \A S : Count(Frame(n), S) \in Nat /\ Count(Rest(n), S) \in Nat
           /\ \A S : Count(Frame(n), S) = 0 <=> ~Has(Frame(n), S)
           /\ \A S : Has(wire, S) <=> Has(Frame(n), S) \/ Has(Rest(n), S)
           /\ Ascends(wire) =>
                  /\ Ascends(Frame(n)) /\ Ascends(Rest(n))
                  /\ \A a \in EventsOf(Frame(n)), b \in EventsOf(Rest(n)) : a < b
           /\ EndsOnVerdict(wire) =>
                  /\ EndsOnVerdict(Frame(n)) /\ EndsOnVerdict(Rest(n))
                  /\ Has(Frame(n), Condemning) => EventsOf(Rest(n)) = {}
<1>1. wire \in Seq(Message) /\ n \in 0 .. Len(wire) /\ n \in Nat
      /\ DOMAIN wire = 1 .. Len(wire) /\ Len(wire) \in Nat
  BY DEF TypeOK
<1>2. /\ Frame(n) \in Seq(Message) /\ Rest(n) \in Seq(Message)
      /\ Len(Frame(n)) = n /\ \A i \in 1 .. n : Frame(n)[i] = wire[i]
      /\ wire = Frame(n) \o Rest(n)
  BY <1>1, Framed DEF Frame, Rest
<1>. DEFINE a == Frame(n)
            b == Rest(n)
<1>3. DOMAIN a = 1 .. n /\ Rest(Len(a)) = b /\ \A i \in 1 .. n : i \in DOMAIN wire
  BY <1>1, <1>2
<1>. HIDE DEF a, b
<1>4. a \in Seq(Message) /\ b \in Seq(Message) /\ wire = a \o b
  BY <1>2 DEF a, b
<1>5. \A S : Count(wire, S) = Count(a, S) + Count(b, S)
  BY <1>4, CountJoined
<1>6. \A S : /\ Count(a, S) \in Nat /\ Count(b, S) \in Nat
             /\ Count(a, S) = 0 <=> ~Has(a, S)
  BY <1>4, CountIsNat
<1>7. /\ EventsOf(wire) = EventsOf(a) \cup EventsOf(b)
      /\ \A S : Has(wire, S) <=> Has(a, S) \/ Has(b, S)
      /\ Ascends(wire) =>
             /\ Ascends(a) /\ Ascends(b)
             /\ \A x \in EventsOf(a), y \in EventsOf(b) : x < y
      /\ EndsOnVerdict(wire) =>
             /\ EndsOnVerdict(a) /\ EndsOnVerdict(b)
             /\ Has(a, Condemning) => EventsOf(b) = {}
  BY <1>4, EventsJoined
<1>. QED  BY <1>2, <1>3, <1>5, <1>6, <1>7 DEF a, b

\* What waited for a connect.
LEMMA Carrying ==
    ASSUME TypeOK
    PROVE  /\ Carried \in Seq(Message) /\ EventsOf(Carried) = Elements(pending)
           /\ Rising(pending) => Ascends(Carried)
           /\ EndsOnVerdict(Carried) /\ ~Has(Carried, Condemning)
           /\ Count(Carried, Connect) = 0
<1>1. /\ pending \in Seq(Event) /\ DOMAIN pending = 1 .. Len(pending) /\ Len(pending) \in Nat
      /\ \A i \in DOMAIN pending : pending[i] \in Event
  BY DEF TypeOK
<1>2. /\ DOMAIN Carried = DOMAIN pending
      /\ \A i \in DOMAIN pending : Carried[i] = Data(pending[i])
  BY DEF Carried
<1>3. \A i \in DOMAIN pending :
          /\ Carried[i] \in Message /\ Carried[i].kind = "event" /\ Carried[i].n = pending[i]
          /\ Carried[i] \notin Connect /\ Carried[i] \notin Condemning
  BY <1>1, <1>2, Messages
<1>4. Carried \in Seq(Message)
  <2>1. Carried \in [1 .. Len(pending) -> Message]
    BY <1>1, <1>3 DEF Carried
  <2>. QED  BY <1>1, <2>1
<1>5. Places(Carried) = DOMAIN pending
  BY <1>2, <1>3 DEF Places
<1>6. EventsOf(Carried) = Elements(pending)
  BY <1>3, <1>5 DEF EventsOf, Elements
<1>7. Rising(pending) => Ascends(Carried)
  BY <1>3, <1>5 DEF Ascends, Rising
<1>8. \A S : (\A i \in DOMAIN pending : Carried[i] \notin S) => ~Has(Carried, S)
  BY <1>2 DEF Has
<1>9. ~Has(Carried, Connect) /\ ~Has(Carried, Condemning)
  BY <1>3, <1>8
<1>10. Count(Carried, Connect) = 0
  BY <1>4, <1>9, CountIsNat
<1>11. EndsOnVerdict(Carried)
  BY <1>2, <1>3 DEF EndsOnVerdict
<1>. QED  BY <1>4, <1>6, <1>7, <1>9, <1>10, <1>11

\* A send puts its request behind the others, if there is a socket.
LEMMA Sends ==
    ASSUME TypeOK, NEW m \in Request, Send(m)
    PROVE  /\ requests' \in Seq(Request)
           /\ \A S : Count(requests', S) =
                  IF up /\ m \in S THEN Count(requests, S) + 1 ELSE Count(requests, S)
<1>1. requests \in Seq(Request) /\ <<m>> \in Seq(Request)
  BY DEF TypeOK
<1>2. Append(requests, m) = requests \o <<m>>
  BY <1>1
<1>3. \A S : Count(requests \o <<m>>, S) = Count(requests, S) + Count(<<m>>, S)
  BY <1>1, CountJoined
<1>4. \A S : Count(requests, S) \in Nat
  BY <1>1, CountIsNat
<1>5. \A S : Count(<<m>>, S) = IF m \in S THEN 1 ELSE 0
  BY Single
<1>6. CASE up
  <2>1. requests' = requests \o <<m>>
    BY <1>2, <1>6 DEF Send
  <2>2. \A S : Count(requests', S) = Count(requests, S) + IF m \in S THEN 1 ELSE 0
    BY <1>3, <1>5, <2>1
  <2>3. requests' \in Seq(Request)
    BY <1>1, <2>1, ConcatProperties
  <2>. QED  BY <1>4, <1>6, <2>2, <2>3
<1>7. CASE ~up
  BY <1>1, <1>7 DEF Send
<1>. QED  BY <1>6, <1>7

\* The instance takes the first of the requests.
LEMMA Takes ==
    ASSUME TypeOK, requests # <<>>, requests' = Tail(requests)
    PROVE  /\ requests' \in Seq(Request) /\ Head(requests) \in Request
           /\ \A S : /\ Count(requests', S) \in Nat
                     /\ Count(requests, S) =
                           IF Head(requests) \in S THEN Count(requests', S) + 1
                                                   ELSE Count(requests', S)
<1>. DEFINE h == Head(requests)
            r == Tail(requests)
<1>1. requests \in Seq(Request) /\ h \in Request /\ r \in Seq(Request) /\ <<h>> \in Seq(Request)
  BY DEF TypeOK
<1>2. requests = <<h>> \o r
  <2>1. /\ Len(<<h>>) = 1 /\ <<h>>[1] = h /\ Len(requests) \in Nat \ {0}
        /\ Len(r) = Len(requests) - 1 /\ h = requests[1]
        /\ \A i \in 1 .. Len(r) : r[i] = requests[i + 1]
    BY <1>1
  <2>. HIDE DEF h, r
  <2>2. /\ <<h>> \o r \in Seq(Request) /\ Len(<<h>> \o r) = 1 + Len(r)
        /\ \A i \in 1 .. 1 + Len(r) : (<<h>> \o r)[i] = IF i <= 1 THEN <<h>>[i] ELSE r[i - 1]
    BY <1>1, <2>1, ConcatProperties
  <2>3. \A i \in 1 .. Len(requests) : requests[i] = (<<h>> \o r)[i]
    <3>. SUFFICES ASSUME NEW i \in 1 .. Len(requests) PROVE requests[i] = (<<h>> \o r)[i]
      OBVIOUS
    <3>1. CASE i = 1
      BY <2>1, <2>2, <3>1
    <3>2. CASE i # 1
      <4>1. i - 1 \in 1 .. Len(r) /\ (i - 1) + 1 = i /\ i \in 1 .. 1 + Len(r) /\ ~ (i <= 1)
        BY <2>1, <3>2
      <4>. QED  BY <2>1, <2>2, <4>1
    <3>. QED  BY <3>1, <3>2
  <2>4. Len(requests) = Len(<<h>> \o r)
    BY <2>1, <2>2
  <2>. QED  BY <1>1, <2>2, <2>3, <2>4, SeqEqual
<1>3. \A S : Count(<<h>>, S) = IF h \in S THEN 1 ELSE 0
  BY Single
<1>. HIDE DEF h, r
<1>4. \A S : Count(requests, S) = Count(<<h>>, S) + Count(r, S) /\ Count(r, S) \in Nat
  <2>1. \A S : Count(<<h>> \o r, S) = Count(<<h>>, S) + Count(r, S)
    BY <1>1, CountJoined
  <2>2. \A S : Count(r, S) \in Nat
    BY <1>1, CountIsNat
  <2>. QED  BY <1>2, <2>1, <2>2
<1>5. requests' = r
  BY DEF r
<1>6. \A S : Count(requests, S) = IF h \in S THEN Count(r, S) + 1 ELSE Count(r, S)
  <2>. SUFFICES ASSUME NEW S
       PROVE  Count(requests, S) = IF h \in S THEN Count(r, S) + 1 ELSE Count(r, S)
    OBVIOUS
  <2>. QED  BY <1>3, <1>4
<1>. QED  BY <1>1, <1>4, <1>5, <1>6 DEF h

\* The instance puts something behind what is on the wire.
LEMMA Delivers ==
    ASSUME Inv, NEW t \in Seq(Message), wire' = wire \o t
    PROVE  /\ wire' \in Seq(Message)
           /\ Count(wire', Connect) = Count(wire, Connect) + Count(t, Connect)
           /\ EventsOf(wire') = EventsOf(wire) \cup EventsOf(t)
           /\ Ascends(t) /\ (\A a \in EventsOf(wire), b \in EventsOf(t) : a < b) => Ascends(wire')
           /\ EndsOnVerdict(t) /\ (Dead => EventsOf(t) = {}) => EndsOnVerdict(wire')
           /\ Has(wire', Condemning) <=> Has(wire, Condemning) \/ Has(t, Condemning)
<1>1. /\ wire \in Seq(Message) /\ Ascends(wire) /\ EndsOnVerdict(wire)
      /\ Has(wire, Condemning) => Dead
  BY DEF Inv, TypeOK, Ordered, Final
<1>2. Count(wire', Connect) = Count(wire, Connect) + Count(t, Connect)
  BY <1>1, CountJoined
<1>. QED  BY <1>1, <1>2, EventsJoined

-----------------------------------------------------------------------------
\* The instance's steps.

\* A request is taken: a connect is held, or answered if it is the priming one.
LEMMA ServeKeeps ==
    ASSUME Inv, Serve
    PROVE  Inv'
<1>t. TypeOK /\ Armed /\ Ordered /\ Whole /\ Final
  BY DEF Inv
<1>. DEFINE C == Count(requests, {"connect"})
            W == Count(wire, Connect)
<1>0. /\ up /\ requests # <<>> /\ requests' = Tail(requests)
      /\ UNCHANGED <<session, published, pending, up, pc, dying, returned, ended,
                     verdict, passed>>
  BY DEF Serve, client
<1>1. /\ requests' \in Seq(Request) /\ Head(requests) \in Request
      /\ C' \in Nat /\ Primes' \in Nat
      /\ C = IF Head(requests) = "connect" THEN C' + 1 ELSE C'
      /\ Primes = IF Head(requests) = "prime" THEN Primes' + 1 ELSE Primes'
  BY <1>0, <1>t, Takes DEF Primes
<1>2. /\ W \in Nat /\ waiting \in Nat /\ Primes \in Nat /\ C \in Nat /\ Connects = waiting + C + W
  BY <1>t, Types DEF Connects
<1>3. Connects' = waiting' + C' + W'
  BY DEF Connects
<1>c. Careless' = Careless
  BY <1>0 DEF Careless
<1>d. Dead \in BOOLEAN /\ Dead' = Dead
  BY <1>0 DEF Dead
<1>. HIDE DEF C, W
\* What the reply is to the counts and to the events.
<1>4. ASSUME NEW k \in Meta, NEW b \in BOOLEAN, b /\ k = "connect" => Dead,
             wire' = Append(wire, Reply(k, b))
      PROVE  /\ wire' \in Seq(Message) /\ W' = IF k = "connect" THEN W + 1 ELSE W
             /\ EventsOf(wire') = EventsOf(wire) /\ Ascends(wire') /\ EndsOnVerdict(wire')
             /\ Has(wire', Condemning) => Dead
  <2>. DEFINE m == Reply(k, b)
  <2>1. /\ m \in Message /\ m.kind # "event"
        /\ m \in Connect <=> k = "connect"
        /\ m \in Condemning <=> k = "connect" /\ b
    BY Messages
  <2>. HIDE DEF m
  <2>2. /\ <<m>> \in Seq(Message) /\ EventsOf(<<m>>) = {}
        /\ Ascends(<<m>>) /\ EndsOnVerdict(<<m>>)
        /\ Count(<<m>>, Connect) = IF k = "connect" THEN 1 ELSE 0
        /\ Has(<<m>>, Condemning) => Dead
    BY <1>4, <2>1, Single
  <2>3. wire' = wire \o <<m>>
    BY <1>4, <1>t, <2>1, Types DEF m
  <2>4. /\ wire' \in Seq(Message)
        /\ Count(wire', Connect) = Count(wire, Connect) + Count(<<m>>, Connect)
        /\ EventsOf(wire') = EventsOf(wire) /\ Ascends(wire') /\ EndsOnVerdict(wire')
        /\ Has(wire', Condemning) => Has(wire, Condemning) \/ Has(<<m>>, Condemning)
    BY <2>2, <2>3, Delivers
  <2>5. W' = IF k = "connect" THEN W + 1 ELSE W
    BY <1>2, <2>2, <2>4 DEF W
  <2>. QED  BY <1>t, <2>2, <2>4, <2>5 DEF Final
<1>5. CASE Head(requests) = "handshake"
  <2>1. wire' = Append(wire, Reply("handshake", Dead)) /\ UNCHANGED <<channel, waiting>>
    BY <1>5 DEF Serve
  <2>2. /\ wire' \in Seq(Message) /\ W' = W
        /\ EventsOf(wire') = EventsOf(wire) /\ Ascends(wire') /\ EndsOnVerdict(wire')
        /\ Has(wire', Condemning) => Dead
    BY <1>4, <1>d, <2>1 DEF Meta
  <2>3. Connects' = Connects /\ Primes' = Primes
    BY <1>1, <1>2, <1>3, <1>5, <2>1, <2>2
  <2>4. Armed'
    BY <1>0, <1>c, <1>t, <2>3 DEF Armed
  <2>5. TypeOK'
    BY <1>0, <1>1, <1>t, <2>1, <2>2 DEF TypeOK
  <2>. QED  BY <1>0, <1>d, <1>t, <2>2, <2>4, <2>5 DEF Inv, Ordered, Whole, Known, Final
<1>6. CASE Head(requests) = "prime"
  <2>1. wire' = Append(wire, Reply("connect", Dead)) /\ UNCHANGED <<channel, waiting>>
    BY <1>6 DEF Serve
  <2>2. /\ wire' \in Seq(Message) /\ W' = W + 1
        /\ EventsOf(wire') = EventsOf(wire) /\ Ascends(wire') /\ EndsOnVerdict(wire')
        /\ Has(wire', Condemning) => Dead
    BY <1>4, <1>d, <2>1 DEF Meta
  <2>c. C' = C /\ Primes = Primes' + 1 /\ waiting' = waiting
    BY <1>1, <1>6, <2>1
  <2>m. \A x, c, w \in Nat : x + c + (w + 1) = (x + c + w) + 1
    OBVIOUS
  <2>w. Connects' = waiting + C + (W + 1)
    BY <1>3, <2>2, <2>c
  <2>3. Connects' = Connects + 1 /\ Primes = Primes' + 1
    BY <1>2, <2>c, <2>m, <2>w
  <2>n. Connects \in Nat /\ Primes \in Nat /\ Primes' \in Nat
    BY <1>1, <1>t, Types
  <2>a. /\ Connects' + Primes' = Connects + Primes /\ Primes # 0
        /\ Connects \in Nat /\ Primes \in Nat
    <3>1. \A x, y \in Nat : (x + 1) + y = x + (y + 1) /\ y + 1 # 0
      OBVIOUS
    <3>2. (Connects + 1) + Primes' = Connects + (Primes' + 1) /\ Primes' + 1 # 0
      BY <2>n, <3>1
    <3>. QED  BY <2>n, <2>3, <3>2
  <2>b. pc = "prime"
    BY <1>t, <2>a DEF Armed, TypeOK, Awaiting
  <2>4. Armed'
    BY <1>0, <1>t, <2>a, <2>b DEF Armed
  <2>5. TypeOK'
    BY <1>0, <1>1, <1>t, <2>1, <2>2 DEF TypeOK
  <2>. QED  BY <1>0, <1>d, <1>t, <2>2, <2>4, <2>5 DEF Inv, Ordered, Whole, Known, Final
<1>7. CASE Head(requests) = "connect"
  <2>1. waiting' = waiting + 1 /\ UNCHANGED <<channel, wire>>
    BY <1>7 DEF Serve
  <2>w. W' = W
    BY <2>1 DEF W
  <2>c. C = C' + 1 /\ Primes = Primes'
    BY <1>1, <1>7
  <2>n. C \in Nat /\ C' \in Nat /\ W \in Nat /\ waiting \in Nat /\ Primes \in Nat
    BY <1>1, <1>2
  <2>2. Connects' = Connects /\ Primes' = Primes
    <3>1. Connects = waiting + C + W /\ Connects' = (waiting + 1) + C' + W
      BY <1>2, <1>3, <2>1, <2>w
    <3>2. waiting + (C' + 1) + W = (waiting + 1) + C' + W
      BY <2>n
    <3>. QED  BY <2>c, <3>1, <3>2
  <2>3. Armed'
    BY <1>0, <1>c, <1>t, <2>2 DEF Armed
  <2>4. waiting' \in 0 .. 1
    <3>1. waiting + (C' + 1) + W + Primes <= 1
      BY <1>2, <1>t, <2>c DEF Armed
    <3>2. \A x, y, z, w \in Nat : x + (y + 1) + z + w <= 1 => x = 0
      OBVIOUS
    <3>3. waiting = 0
      BY <2>n, <3>1, <3>2
    <3>. QED  BY <2>1, <3>3
  <2>5. TypeOK'
    BY <1>0, <1>1, <1>t, <2>1, <2>4 DEF TypeOK
  <2>. QED  BY <1>0, <1>d, <1>t, <2>1, <2>3, <2>5 DEF Inv, Ordered, Whole, Known, Final
<1>8. CASE Head(requests) = "subscribe"
  <2>1. PICK refused \in BOOLEAN :
            /\ wire' = Append(wire, Reply("subscribe", refused))
            /\ channel' \in BOOLEAN /\ UNCHANGED waiting
    BY <1>8, <1>d DEF Serve
  <2>2. /\ wire' \in Seq(Message) /\ W' = W
        /\ EventsOf(wire') = EventsOf(wire) /\ Ascends(wire') /\ EndsOnVerdict(wire')
        /\ Has(wire', Condemning) => Dead
    BY <1>4, <2>1 DEF Meta
  <2>3. Connects' = Connects /\ Primes' = Primes
    BY <1>1, <1>2, <1>3, <1>8, <2>1, <2>2
  <2>4. Armed'
    BY <1>0, <1>c, <1>t, <2>3 DEF Armed
  <2>5. TypeOK'
    BY <1>0, <1>1, <1>t, <2>1, <2>2 DEF TypeOK
  <2>. QED  BY <1>0, <1>d, <1>t, <2>2, <2>4, <2>5 DEF Inv, Ordered, Whole, Known, Final
<1>. QED  BY <1>1, <1>5, <1>6, <1>7, <1>8 DEF Request

\* What the instance held is on the wire: the same events, in the same order.
LEMMA HeldGoesOut ==
    ASSUME Inv, NEW t \in Seq(Message), wire' = wire \o t, pending' = <<>>, up,
           EventsOf(t) = Elements(pending), Ascends(t), EndsOnVerdict(t),
           Has(t, Condemning) => Dead,
           UNCHANGED <<session, channel, published, up, requests, client>>
    PROVE  /\ wire' \in Seq(Message) /\ Ordered' /\ Whole' /\ Final'
           /\ Count(wire', Connect) = Count(wire, Connect) + Count(t, Connect)
<1>t. TypeOK /\ Ordered /\ Whole /\ Final
  BY DEF Inv
<1>0. Dead' = Dead /\ UNCHANGED <<pc, dying, returned, ended, verdict, passed>>
  BY DEF Dead, client
<1>1. Dead => Elements(pending) = {}
  BY <1>t, Nothing DEF Final
<1>2. /\ wire' \in Seq(Message)
      /\ Count(wire', Connect) = Count(wire, Connect) + Count(t, Connect)
      /\ EventsOf(wire') = EventsOf(wire) \cup Elements(pending)
      /\ Ascends(wire') /\ EndsOnVerdict(wire')
      /\ Has(wire', Condemning) => Dead
  <2>1. \A a \in EventsOf(wire), b \in EventsOf(t) : a < b
    BY <1>t DEF Ordered
  <2>2. Dead => EventsOf(t) = {}
    BY <1>1
  <2>3. Has(wire, Condemning) \/ Has(t, Condemning) => Dead
    BY <1>t DEF Final
  <2>. QED  BY <2>1, <2>2, <2>3, Delivers
<1>3. Elements(pending') = {} /\ Rising(pending')
  BY Nothing
<1>4. Ordered'
  BY <1>0, <1>2, <1>3, <1>t DEF Ordered
<1>5. Known' = Known
  BY <1>0, <1>2, <1>3 DEF Known
<1>6. Whole'
  BY <1>0, <1>3, <1>5, <1>t DEF Whole, Gapless
<1>7. Final'
  BY <1>0, <1>1, <1>2, <1>t DEF Final
<1>. QED  BY <1>2, <1>4, <1>6, <1>7

\* A held connect is answered with what was pending.
LEMMA AnswerKeeps ==
    ASSUME Inv, AnswerConnect
    PROVE  Inv'
<1>t. TypeOK /\ Armed /\ Ordered /\ Whole /\ Final
  BY DEF Inv
<1>. DEFINE reply == <<Reply("connect", Dead)>>
<1>0. /\ up /\ waiting > 0 /\ waiting' = waiting - 1 /\ pending' = <<>>
      /\ wire' = wire \o Carried \o reply \/ wire' = wire \o reply \o Carried
      /\ UNCHANGED <<session, channel, published, up, requests, client>>
  BY DEF AnswerConnect
<1>1. /\ reply \in Seq(Message) /\ EventsOf(reply) = {} /\ Ascends(reply)
      /\ EndsOnVerdict(reply) /\ Count(reply, Connect) = 1
      /\ Has(reply, Condemning) <=> Dead
  <2>. DEFINE m == Reply("connect", Dead)
  <2>1. /\ m \in Message /\ m.kind # "event" /\ m \in Connect
        /\ m \in Condemning <=> Dead
    BY Messages DEF Dead, Meta
  <2>2. reply = <<m>>
    OBVIOUS
  <2>. HIDE DEF m, reply
  <2>. QED  BY <2>1, <2>2, Single
<1>. HIDE DEF reply
<1>2. /\ Carried \in Seq(Message) /\ EventsOf(Carried) = Elements(pending)
      /\ Ascends(Carried) /\ EndsOnVerdict(Carried) /\ ~Has(Carried, Condemning)
      /\ Count(Carried, Connect) = 0
  BY <1>t, Carrying DEF Ordered
<1>3. Dead => EventsOf(Carried) = {}
  BY <1>2, <1>t, Nothing DEF Final
<1>4. PICK t \in {Carried \o reply, reply \o Carried} : wire' = wire \o t
  <2>1. wire \in Seq(Message)
    BY <1>t, Types
  <2>2. wire \o Carried \o reply = wire \o (Carried \o reply)
    BY <1>1, <1>2, <2>1, ConcatAssociative
  <2>3. wire \o reply \o Carried = wire \o (reply \o Carried)
    BY <1>1, <1>2, <2>1, ConcatAssociative
  <2>. QED  BY <1>0, <2>2, <2>3
<1>5. /\ t \in Seq(Message) /\ EventsOf(t) = Elements(pending) /\ Ascends(t)
      /\ EndsOnVerdict(t) /\ (Has(t, Condemning) => Dead) /\ Count(t, Connect) = 1
  <2>1. CASE t = Carried \o reply
    <3>0. /\ Carried \o reply \in Seq(Message)
          /\ EventsOf(Carried \o reply) = EventsOf(Carried) \cup EventsOf(reply)
          /\ Ascends(Carried \o reply) /\ EndsOnVerdict(Carried \o reply)
          /\ Has(Carried \o reply, Condemning) <=> Has(reply, Condemning)
      BY <1>1, <1>2, EventsJoined
    <3>1. /\ t \in Seq(Message) /\ EventsOf(t) = Elements(pending) /\ Ascends(t)
          /\ EndsOnVerdict(t) /\ (Has(t, Condemning) => Dead)
      BY <1>1, <1>2, <2>1, <3>0
    <3>2. Count(t, Connect) = 0 + 1
      BY <1>1, <1>2, <2>1, CountJoined
    <3>. QED  BY <3>1, <3>2
  <2>2. CASE t = reply \o Carried
    <3>0. /\ reply \o Carried \in Seq(Message)
          /\ EventsOf(reply \o Carried) = EventsOf(reply) \cup EventsOf(Carried)
          /\ Ascends(reply \o Carried) /\ EndsOnVerdict(reply \o Carried)
          /\ Has(reply \o Carried, Condemning) <=> Has(reply, Condemning)
      BY <1>1, <1>2, <1>3, EventsJoined
    <3>1. /\ t \in Seq(Message) /\ EventsOf(t) = Elements(pending) /\ Ascends(t)
          /\ EndsOnVerdict(t) /\ (Has(t, Condemning) => Dead)
      BY <1>1, <1>2, <2>2, <3>0
    <3>2. Count(t, Connect) = 1 + 0
      BY <1>1, <1>2, <2>2, CountJoined
    <3>. QED  BY <3>1, <3>2
  <2>. QED  BY <2>1, <2>2
<1>6. /\ wire' \in Seq(Message) /\ Ordered' /\ Whole' /\ Final'
      /\ Count(wire', Connect) = Count(wire, Connect) + 1
  BY <1>0, <1>4, <1>5, HeldGoesOut
<1>7. waiting \in Nat /\ waiting <= 1 /\ Count(wire, Connect) \in Nat
      /\ Count(requests, {"connect"}) \in Nat
  BY <1>t, Types
<1>8. Connects' = Connects
  <2>. DEFINE C == Count(requests, {"connect"})
              W == Count(wire, Connect)
  <2>1. Connects = waiting + C + W /\ Connects' = (waiting - 1) + C + (W + 1)
    BY <1>0, <1>6 DEF Connects
  <2>2. waiting \in Nat /\ C \in Nat /\ W \in Nat
    BY <1>7
  <2>. HIDE DEF C, W
  <2>. QED  BY <2>1, <2>2
<1>9. Armed'
  BY <1>0, <1>8, <1>t DEF Armed, Primes, Careless, client
<1>10. TypeOK'
  <2>1. waiting' \in 0 .. 1 /\ pending' \in Seq(Event)
    BY <1>0, <1>7, Nothing
  <2>. QED  BY <1>0, <1>6, <1>t, <2>1 DEF TypeOK, client
<1>. QED  BY <1>6, <1>9, <1>10 DEF Inv

\* What was pending goes out while a connect is held.
LEMMA DeliverKeeps ==
    ASSUME Inv, Deliver
    PROVE  Inv'
<1>t. TypeOK /\ Armed /\ Ordered /\ Whole /\ Final
  BY DEF Inv
<1>0. /\ up /\ wire' = wire \o Carried /\ pending' = <<>> /\ UNCHANGED waiting
      /\ UNCHANGED <<session, channel, published, up, requests, client>>
  BY DEF Deliver
<1>1. /\ Carried \in Seq(Message) /\ EventsOf(Carried) = Elements(pending)
      /\ Ascends(Carried) /\ EndsOnVerdict(Carried) /\ ~Has(Carried, Condemning)
      /\ Count(Carried, Connect) = 0
  BY <1>t, Carrying DEF Ordered
<1>2. /\ wire' \in Seq(Message) /\ Ordered' /\ Whole' /\ Final'
      /\ Count(wire', Connect) = Count(wire, Connect) + 0
  BY <1>0, <1>1, HeldGoesOut
<1>3. Count(wire', Connect) = Count(wire, Connect)
  BY <1>2, <1>t, Types
<1>4. Connects' = Connects
  BY <1>0, <1>3 DEF Connects
<1>5. Armed'
  BY <1>0, <1>4, <1>t DEF Armed, Primes, Careless, client
<1>6. TypeOK'
  BY <1>0, <1>2, <1>t, Nothing DEF TypeOK, client
<1>. QED  BY <1>2, <1>5, <1>6 DEF Inv

\* The next event is newer than all before.
LEMMA PublishKeeps ==
    ASSUME Inv, Publish
    PROVE  Inv'
<1>t. TypeOK /\ Armed /\ Ordered /\ Whole /\ Final
  BY DEF Inv
<1>. DEFINE e == published + 1
<1>0. /\ published < MaxEvent /\ ~Dead /\ up /\ published' = e
      /\ pending' = Append(pending, e)
      /\ UNCHANGED <<session, channel, waiting, up, requests, wire, client>>
  BY DEF Publish
<1>1. /\ pending \in Seq(Event) /\ published \in Nat /\ published < e /\ e \in Event
      /\ published' \in 0 .. MaxEvent /\ Event \subseteq Nat
  BY <1>0, <1>t, Types
<1>2. \A a \in Known \cup Elements(pending) : a \in Nat /\ a <= published /\ a < e
  <2>1. \A a \in Known \cup Elements(pending) : a \in Nat /\ a <= published
    BY <1>1, <1>t, Types DEF Whole, Known
  <2>. QED  BY <1>1, <2>1
<1>. HIDE DEF e
<1>3. /\ pending' \in Seq(Event) /\ Elements(pending') = Elements(pending) \cup {e}
      /\ Rising(pending')
  <2>1. <<e>> \in Seq(Event) /\ Elements(<<e>>) = {e} /\ Rising(<<e>>)
    BY <1>1 DEF Elements, Rising
  <2>2. pending' = pending \o <<e>>
    BY <1>0, <1>1
  <2>3. \A a \in Elements(pending), b \in Elements(<<e>>) : a < b
    BY <1>2, <2>1
  <2>4. Rising(pending)
    BY <1>t DEF Ordered
  <2>. QED  BY <1>1, <2>1, <2>2, <2>3, <2>4, RisingJoined
<1>4. Known' = Known \cup {e}
  BY <1>0, <1>3 DEF Known, client
<1>5. Ordered'
  <2>1. \A a \in Elements(returned) \cup EventsOf(wire) : a < e
    BY <1>2 DEF Known
  <2>. QED  BY <1>0, <1>3, <1>t, <2>1 DEF Ordered, client
<1>6. Whole'
  <2>1. Gapless(Known')
    <3>. SUFFICES ASSUME NEW a \in Known \cup {e}, NEW b \in Known \cup {e},
                         NEW x \in Event, a < x, x < b
         PROVE  x \in Known \cup {e}
      BY <1>4 DEF Gapless
    <3>1. x \in Nat /\ a \in Nat /\ b \in Nat
      BY <1>1, <1>2
    <3>2. CASE a \in Known /\ b \in Known
      BY <1>t, <3>2 DEF Whole, Gapless
    <3>3. CASE a = e
      <4>1. b <= e
        BY <1>1, <1>2
      <4>. QED  BY <1>1, <3>1, <3>3, <4>1
    <3>4. CASE a \in Known /\ b = e
      <4>1. published \in Known
        BY <1>0, <1>t, <3>4 DEF Whole
      <4>2. x < published \/ x = published
        BY <1>1, <3>1, <3>4 DEF e
      <4>. QED  BY <1>t, <3>4, <4>1, <4>2 DEF Whole, Gapless
    <3>. QED  BY <3>2, <3>3, <3>4
  <2>2. \A a \in Known' \cup Elements(pending') : a <= published'
    BY <1>0, <1>1, <1>2, <1>3, <1>4
  <2>. QED  BY <1>0, <1>4, <2>1, <2>2 DEF Whole
<1>7. Final'
  BY <1>0, <1>t DEF Final, client, Dead
<1>8. Armed'
  BY <1>0, <1>t DEF Armed, Connects, Primes, Careless, client
<1>9. TypeOK'
  BY <1>0, <1>1, <1>3, <1>t DEF TypeOK, client
<1>. QED  BY <1>5, <1>6, <1>7, <1>8, <1>9 DEF Inv

\* A session that is reaped loses what was pending, which is the end of the run.
LEMMA ReapKeeps ==
    ASSUME Inv, Reap
    PROVE  Inv'
<1>t. TypeOK /\ Armed /\ Ordered /\ Whole /\ Final
  BY DEF Inv
<1>0. /\ session' = "reaped" /\ pending' = <<>>
      /\ UNCHANGED <<channel, waiting, published, up, requests, wire, client>>
  BY DEF Reap
<1>1. Dead' /\ Elements(pending') = {} /\ Rising(pending') /\ pending' \in Seq(Event)
  BY <1>0, Nothing DEF Dead
<1>2. Ordered'
  BY <1>0, <1>1, <1>t DEF Ordered, client
<1>3. Whole'
  <2>. DEFINE K == Elements(returned) \cup EventsOf(wire)
  <2>1. Known' = K /\ K \subseteq Known /\ Known \subseteq K \cup Elements(pending)
    BY <1>0, <1>1 DEF Known, client
  <2>2. K \subseteq Nat
    BY <1>t, Types
  <2>3. Gapless(K)
    <3>. SUFFICES ASSUME NEW a \in K, NEW b \in K, NEW x \in Event, a < x, x < b, x \notin K
         PROVE  FALSE
      BY DEF Gapless
    <3>1. x \in Elements(pending)
      BY <1>t, <2>1 DEF Whole, Gapless
    <3>2. b < x
      BY <1>t, <3>1 DEF Ordered
    <3>. QED  BY <1>t, <2>2, <3>2, Types
  <2>. HIDE DEF K
  <2>4. \A x \in K : x <= published
    BY <1>t, <2>1 DEF Whole
  <2>. QED  BY <1>0, <1>1, <2>1, <2>3, <2>4 DEF Whole
<1>4. Final'
  BY <1>0, <1>1, <1>t DEF Final, client
<1>5. Armed'
  BY <1>0, <1>t DEF Armed, Connects, Primes, Careless, client
<1>6. TypeOK'
  BY <1>0, <1>1, <1>t DEF TypeOK, client
<1>. QED  BY <1>2, <1>3, <1>4, <1>5, <1>6 DEF Inv

-----------------------------------------------------------------------------
\* The socket breaks.

\* The lower and the upper part of a set without a gap have none.
LEMMA Parts ==
    ASSUME NEW K \in SUBSET Event, Gapless(K), NEW S \in SUBSET K,
           \/ \A x \in K \ S, b \in S : b < x
           \/ \A x \in K \ S, b \in S : x < b
    PROVE  Gapless(S)
<1>1. Event \subseteq Nat
  BY Messages
<1>. SUFFICES ASSUME NEW a \in S, NEW b \in S, NEW x \in Event, a < x, x < b, x \notin S
     PROVE  FALSE
  BY DEF Gapless
<1>2. x \in K \ S
  BY DEF Gapless
<1>3. x \in Nat /\ a \in Nat /\ b \in Nat
  BY <1>1
<1>. QED  BY <1>2, <1>3

\* What is known are events that were published.
LEMMA KnownTypes ==
    ASSUME Inv
    PROVE  /\ Known \in SUBSET Event /\ Event \subseteq Nat /\ published \in Nat
           /\ \A e \in Known : e \in Nat /\ e <= published
<1>1. TypeOK /\ Whole
  BY DEF Inv
<1>2. Known \in SUBSET Event /\ Event \subseteq Nat /\ published \in Nat
  BY <1>1, Types DEF Known
<1>. QED  BY <1>1, <1>2 DEF Whole

\* The counts once a frame was read.
LEMMA CountsAfter ==
    ASSUME Inv, NEW n \in 0 .. Len(wire), UNCHANGED waiting, NEW part,
           part = Frame(n) \/ part = Rest(n), wire' = part, requests' \in Seq(Request),
           \A S : Count(requests', S) <= Count(requests, S)
    PROVE  /\ Connects' + Primes' <= 1 /\ Connects' \in Nat /\ Primes' \in Nat
           /\ Connects + Primes = 0 => Connects' + Primes' = 0
           /\ Primes = 0 => Primes' = 0
<1>t. TypeOK /\ Connects + Primes <= 1
  BY DEF Inv, Armed
<1>. DEFINE C == Count(requests, {"connect"})
            W == Count(wire, Connect)
<1>1. /\ W \in Nat /\ C \in Nat /\ waiting \in Nat /\ Primes \in Nat
      /\ Connects = waiting + C + W
  BY <1>t, Types DEF Connects
<1>2. C' \in Nat /\ C' <= C /\ Primes' \in Nat /\ Primes' <= Primes
  BY CountIsNat DEF Primes
<1>3. W' \in Nat /\ W' <= W
  <2>1. /\ W = Count(Frame(n), Connect) + Count(Rest(n), Connect)
        /\ Count(Frame(n), Connect) \in Nat /\ Count(Rest(n), Connect) \in Nat
    BY <1>t, Reading
  <2>2. W' = Count(part, Connect)
    OBVIOUS
  <2>. HIDE DEF W
  <2>. QED  BY <2>1, <2>2
<1>4. Connects' = waiting + C' + W'
  BY DEF Connects
<1>. HIDE DEF C, W
<1>5. Connects' \in Nat /\ Connects' <= Connects /\ Connects \in Nat
  <2>1. \A x, c, w, y, z \in Nat :
            y <= c /\ z <= w => x + y + z \in Nat /\ x + y + z <= x + c + w
                                /\ x + c + w \in Nat
    OBVIOUS
  <2>2. /\ waiting + C' + W' \in Nat /\ waiting + C' + W' <= waiting + C + W
        /\ waiting + C + W \in Nat
    BY <1>1, <1>2, <1>3, <2>1
  <2>. QED  BY <1>1, <1>4, <2>2
<1>6. \A x, p, y, q \in Nat :
          y <= x /\ q <= p =>
              /\ x + p <= 1 => y + q <= 1
              /\ x + p = 0 => y + q = 0
              /\ p = 0 => q = 0
  OBVIOUS
<1>7. /\ Connects + Primes <= 1 => Connects' + Primes' <= 1
      /\ Connects + Primes = 0 => Connects' + Primes' = 0
      /\ Primes = 0 => Primes' = 0
  <2>1. /\ Connects \in Nat /\ Primes \in Nat /\ Connects' \in Nat /\ Primes' \in Nat
        /\ Connects' <= Connects /\ Primes' <= Primes
    BY <1>1, <1>2, <1>5
  <2>2. PICK x, p, y, q \in Nat :
            x = Connects /\ p = Primes /\ y = Connects' /\ q = Primes'
    BY <2>1
  <2>3. y <= x /\ q <= p
    BY <2>1, <2>2
  <2>4. /\ x + p <= 1 => y + q <= 1
        /\ x + p = 0 => y + q = 0
        /\ p = 0 => q = 0
    BY <2>3
  <2>. QED  BY <2>2, <2>4
<1>. QED  BY <1>t, <1>2, <1>5, <1>7

\* A broken socket loses the end of the wire and everything behind it.
LEMMA BreakKeeps ==
    ASSUME Inv, Break
    PROVE  Inv'
<1>t. TypeOK /\ Armed /\ Ordered /\ Whole /\ Final
  BY DEF Inv
<1>1. PICK n \in 0 .. Len(wire) : wire' = Frame(n)
  BY DEF Break, Frame
<1>0. /\ ~up' /\ up' \in BOOLEAN /\ requests' = <<>> /\ requests' \in Seq(Request)
      /\ UNCHANGED <<session, channel, waiting, published, pending, pc, dying, returned,
                     ended, verdict, passed>>
  <2>1. up' = FALSE /\ requests' = <<>> /\ UNCHANGED <<instance, client>>
    BY DEF Break
  <2>. QED  BY <2>1, Nothing DEF instance, client
<1>2. /\ Frame(n) \in Seq(Message)
      /\ EventsOf(wire) = EventsOf(Frame(n)) \cup EventsOf(Rest(n))
      /\ Has(Frame(n), Condemning) => Has(wire, Condemning)
      /\ Ascends(Frame(n)) /\ EndsOnVerdict(Frame(n))
      /\ \A a \in EventsOf(Frame(n)), b \in EventsOf(Rest(n)) : a < b
  BY <1>t, Reading DEF Ordered, Final
<1>3. Ordered'
  BY <1>0, <1>1, <1>2, <1>t DEF Ordered
<1>4. Whole'
  <2>. DEFINE K == Elements(returned) \cup EventsOf(Frame(n))
  <2>1. Known' = K
    BY <1>0, <1>1 DEF Known
  <2>2. K \in SUBSET Known
    BY <1>2 DEF Known
  <2>3. \A x \in Known \ K, b \in K : b < x
    BY <1>2, <1>t DEF Known, Ordered
  <2>. HIDE DEF K
  <2>4. Gapless(K)
    BY <1>t, <2>2, <2>3, Parts, KnownTypes DEF Whole
  <2>. QED  BY <1>0, <1>t, <2>1, <2>2, <2>4 DEF Whole
<1>5. Final'
  BY <1>0, <1>1, <1>2, <1>t DEF Final, Dead
<1>6. Armed'
  <2>1. \A S : Count(requests', S) <= Count(requests, S)
    <3>1. \A S : Count(requests', S) = 0 /\ Count(requests, S) \in Nat
      BY <1>0, <1>t, Nothing, CountIsNat, Types
    <3>. QED  BY <3>1
  <2>2. /\ Connects' + Primes' <= 1 /\ Connects' \in Nat /\ Primes' \in Nat
        /\ Connects + Primes = 0 => Connects' + Primes' = 0
        /\ Primes = 0 => Primes' = 0
    BY <1>0, <1>1, <2>1, CountsAfter
  <2>. QED  BY <1>0, <1>t, <2>2 DEF Armed
<1>7. TypeOK'
  BY <1>0, <1>1, <1>2, <1>t DEF TypeOK
<1>. QED  BY <1>3, <1>4, <1>5, <1>6, <1>7 DEF Inv

-----------------------------------------------------------------------------
\* The client's steps.

\* Every way out that drops the socket.
LEMMA FailKeeps ==
    ASSUME Inv, NEW how \in {"asked", "auth", "transport", "refused"}, Fail(how),
           UNCHANGED <<instance, returned>>,
           verdict' \in BOOLEAN, verdict' => Dead, passed' \subseteq Message
    PROVE  Inv'
<1>t. TypeOK /\ Armed /\ Ordered /\ Whole /\ Final
  BY DEF Inv
<1>0. /\ pc' = "closed" /\ ended' = how /\ ~dying' /\ dying' \in BOOLEAN
      /\ up' \in BOOLEAN /\ ~up' /\ requests' = <<>> /\ wire' = <<>>
      /\ UNCHANGED <<session, channel, waiting, published, pending, returned>>
  BY DEF Fail, instance
<1>1. /\ EventsOf(wire') = {} /\ Ascends(wire') /\ EndsOnVerdict(wire')
      /\ \A S : Count(wire', S) = 0 /\ Count(requests', S) = 0 /\ ~Has(wire', S)
      /\ wire' \in Seq(Message) /\ requests' \in Seq(Request)
  BY <1>0, Nothing
<1>2. Ordered'
  BY <1>0, <1>1, <1>t DEF Ordered
<1>3. Whole'
  <2>1. Known' = Elements(returned)
    BY <1>0, <1>1 DEF Known
  <2>2. Elements(returned) \in SUBSET Known
    BY DEF Known
  <2>3. \A x \in Known \ Elements(returned), b \in Elements(returned) : b < x
    BY <1>t DEF Known, Ordered
  <2>4. Gapless(Elements(returned))
    BY <1>t, <2>2, <2>3, Parts, KnownTypes DEF Whole
  <2>. QED  BY <1>0, <1>t, <2>1, <2>2, <2>4 DEF Whole
<1>4. Final'
  BY <1>0, <1>1, <1>t DEF Final, Dead
<1>5. Armed'
  <2>1. waiting \in Nat /\ waiting <= 1
    BY <1>t, Types
  <2>2. Connects' = waiting + 0 + 0 /\ Primes' = 0
    BY <1>0, <1>1 DEF Connects, Primes
  <2>. QED  BY <1>0, <2>1, <2>2 DEF Armed
<1>6. TypeOK'
  BY <1>0, <1>1, <1>t DEF TypeOK
<1>. QED  BY <1>2, <1>3, <1>4, <1>5, <1>6 DEF Inv

\* A verdict that was read condemned a session that is dead.
LEMMA VerdictIsTrue ==
    ASSUME Inv, NEW i \in DOMAIN wire, wire[i] \in Condemning
    PROVE  Dead
BY DEF Inv, Final, Has

\* A frame whose events are dropped, when none has been returned yet.
LEMMA DropKeeps ==
    ASSUME Inv, NEW n \in 0 .. Len(wire), returned = <<>>, wire' = Rest(n),
           UNCHANGED <<instance, returned, up>>,
           verdict' => verdict \/ Has(Frame(n), Condemning)
    PROVE  wire' \in Seq(Message) /\ Ordered' /\ Whole' /\ Final'
<1>t. TypeOK /\ Armed /\ Ordered /\ Whole /\ Final
  BY DEF Inv
<1>0. UNCHANGED <<session, channel, waiting, published, pending, returned, up>>
  BY DEF instance
<1>2. /\ Rest(n) \in Seq(Message)
      /\ EventsOf(wire) = EventsOf(Frame(n)) \cup EventsOf(Rest(n))
      /\ Has(Frame(n), Condemning) \/ Has(Rest(n), Condemning) => Dead
      /\ Ascends(Rest(n)) /\ EndsOnVerdict(Rest(n))
      /\ Has(Frame(n), Condemning) => EventsOf(Rest(n)) = {}
      /\ \A a \in EventsOf(Frame(n)), b \in EventsOf(Rest(n)) : a < b
  BY <1>t, Reading DEF Ordered, Final
<1>3. Ordered'
  BY <1>0, <1>2, <1>t DEF Ordered
<1>4. Whole'
  <2>. DEFINE K == EventsOf(Rest(n)) \cup (IF up THEN Elements(pending) ELSE {})
  <2>1. Known' = K
    BY <1>0, Nothing DEF Known
  <2>2. K \in SUBSET Known
    BY <1>2 DEF Known
  <2>3. Known \ K \subseteq EventsOf(Frame(n))
    BY <1>2, Nothing DEF Known
  <2>4. \A x \in EventsOf(Frame(n)), b \in K : x < b
    BY <1>2, <1>t DEF Ordered
  <2>. HIDE DEF K
  <2>5. Gapless(K)
    BY <1>t, <2>2, <2>3, <2>4, Parts, KnownTypes DEF Whole
  <2>6. ASSUME up, ~Dead, NEW b \in K PROVE published \in K
    <3>1. published \in Known
      BY <1>t, <2>2, <2>6 DEF Whole
    <3>2. ~ (published < b)
      BY <2>2, KnownTypes
    <3>. QED  BY <2>3, <2>4, <3>1, <3>2
  <2>7. \A e \in K \cup Elements(pending) : e <= published
    BY <1>t, <2>2 DEF Whole
  <2>. QED  BY <1>0, <2>1, <2>5, <2>6, <2>7 DEF Whole, Dead
<1>5. Final'
  BY <1>0, <1>2, <1>t DEF Final, Dead
<1>. QED  BY <1>2, <1>3, <1>4, <1>5

\* What reading a frame and sending a request do to the counts.
LEMMA ReadCounts ==
    ASSUME Inv, NEW n \in 0 .. Len(wire), wire' = Rest(n), UNCHANGED waiting
    PROVE  \E f, w, c, x, p \in Nat :
               /\ Connects = x + c + (f + w) /\ Primes = p /\ x + c + (f + w) + p <= 1
               /\ f = 0 <=> ~Has(Frame(n), Connect)
               /\ Connects' = x + Count(requests', {"connect"}) + w
               /\ c = Count(requests, {"connect"})
<1>t. TypeOK /\ Connects + Primes <= 1
  BY DEF Inv, Armed
<1>. DEFINE f == Count(Frame(n), Connect)
            w == Count(Rest(n), Connect)
            c == Count(requests, {"connect"})
<1>1. /\ f \in Nat /\ w \in Nat /\ Count(wire, Connect) = f + w
      /\ f = 0 <=> ~Has(Frame(n), Connect)
  BY <1>t, Reading
<1>2. c \in Nat /\ waiting \in Nat /\ Primes \in Nat
  BY <1>t, Types
<1>3. /\ Connects = waiting + c + (f + w)
      /\ Connects' = waiting + Count(requests', {"connect"}) + w
  BY <1>1 DEF Connects
<1>. HIDE DEF f, w, c
<1>4. waiting + c + (f + w) + Primes <= 1
  BY <1>3, <1>t
<1>. QED  BY <1>1, <1>2, <1>3, <1>4 DEF c

\* Nothing is sent.
LEMMA Skims ==
    ASSUME Inv, NEW n \in 0 .. Len(wire), wire' = Rest(n), UNCHANGED <<waiting, requests>>
    PROVE  /\ Connects' + Primes' <= 1 /\ Primes' = Primes
           /\ Connects + Primes = 0 => Connects' + Primes' = 0
           /\ ~Has(Frame(n), Connect) => Connects' = Connects
<1>1. PICK f, w, c, x, p \in Nat :
          /\ Connects = x + c + (f + w) /\ Primes = p /\ x + c + (f + w) + p <= 1
          /\ f = 0 <=> ~Has(Frame(n), Connect)
          /\ Connects' = x + Count(requests', {"connect"}) + w
          /\ c = Count(requests, {"connect"})
  BY ReadCounts
<1>2. Primes' = p
  BY <1>1 DEF Primes
<1>3. Connects' = x + c + w
  BY <1>1
<1>4. /\ x + c + w + p <= 1
      /\ x + c + (f + w) + p = 0 => x + c + w + p = 0
      /\ f = 0 => x + c + (f + w) = x + c + w
  <2>1. \A a, b, d, e, g \in Nat :
            /\ a + b + (d + e) + g <= 1 => a + b + e + g <= 1
            /\ a + b + (d + e) + g = 0 => a + b + e + g = 0
            /\ d = 0 => a + b + (d + e) = a + b + e
    OBVIOUS
  <2>2. x + c + (f + w) + p <= 1
    BY <1>1
  <2>. QED  BY <2>1, <2>2
<1>5. Connects' + Primes' <= 1 /\ Primes' = Primes
  BY <1>1, <1>2, <1>3, <1>4
<1>6. Connects + Primes = 0 => Connects' + Primes' = 0
  BY <1>1, <1>2, <1>3, <1>4
<1>7. ~Has(Frame(n), Connect) => Connects' = Connects
  BY <1>1, <1>3, <1>4
<1>. QED  BY <1>5, <1>6, <1>7

\* The next connect goes out for the one that was answered.
LEMMA Rearms ==
    ASSUME Inv, NEW n \in 0 .. Len(wire), wire' = Rest(n), UNCHANGED waiting,
           Send("connect"), Has(Frame(n), Connect)
    PROVE  /\ requests' \in Seq(Request)
           /\ Connects' = (IF up THEN 1 ELSE 0) /\ Primes' = 0
           /\ Connects + Primes # 0
<1>1. PICK f, w, c, x, p \in Nat :
          /\ Connects = x + c + (f + w) /\ Primes = p /\ x + c + (f + w) + p <= 1
          /\ f = 0 <=> ~Has(Frame(n), Connect)
          /\ Connects' = x + Count(requests', {"connect"}) + w
          /\ c = Count(requests, {"connect"})
  BY ReadCounts
<1>2. f = 1 /\ x = 0 /\ c = 0 /\ w = 0 /\ p = 0
  <2>1. f # 0
    BY <1>1
  <2>2. \A a, b, d, e, g \in Nat :
            a # 0 /\ d + e + (a + b) + g <= 1 => a = 1 /\ b = 0 /\ d = 0 /\ e = 0 /\ g = 0
    OBVIOUS
  <2>3. x + c + (f + w) + p <= 1
    BY <1>1
  <2>. QED  BY <2>1, <2>2, <2>3
<1>3. /\ requests' \in Seq(Request) /\ Primes' = Primes
      /\ Count(requests', {"connect"}) = IF up THEN c + 1 ELSE c
  <2>1. "connect" \in Request /\ TypeOK
    BY DEF Request, Inv
  <2>2. /\ requests' \in Seq(Request)
        /\ \A S : Count(requests', S) =
               IF up /\ "connect" \in S THEN Count(requests, S) + 1 ELSE Count(requests, S)
    BY <2>1, Sends
  <2>3. "connect" \notin {"prime"}
    OBVIOUS
  <2>. QED  BY <1>1, <2>2, <2>3 DEF Primes
<1>. QED  BY <1>1, <1>2, <1>3

\* The priming connect goes out.
LEMMA Primings ==
    ASSUME Inv, NEW n \in 0 .. Len(wire), wire' = Rest(n), UNCHANGED waiting,
           Send("prime"), Connects + Primes = 0
    PROVE  requests' \in Seq(Request) /\ Connects' = 0 /\ Primes' \in {0, 1}
<1>1. PICK f, w, c, x, p \in Nat :
          /\ Connects = x + c + (f + w) /\ Primes = p /\ x + c + (f + w) + p <= 1
          /\ f = 0 <=> ~Has(Frame(n), Connect)
          /\ Connects' = x + Count(requests', {"connect"}) + w
          /\ c = Count(requests, {"connect"})
  BY ReadCounts
<1>2. x = 0 /\ c = 0 /\ w = 0 /\ p = 0
  <2>1. x + c + (f + w) + p = 0
    BY <1>1
  <2>. QED  BY <2>1
<1>3. /\ requests' \in Seq(Request) /\ Primes' = (IF up THEN p + 1 ELSE p)
      /\ Count(requests', {"connect"}) = c
  <2>1. "prime" \in Request /\ TypeOK
    BY DEF Request, Inv
  <2>2. /\ requests' \in Seq(Request)
        /\ \A S : Count(requests', S) =
               IF up /\ "prime" \in S THEN Count(requests, S) + 1 ELSE Count(requests, S)
    BY <2>1, Sends
  <2>3. "prime" \notin {"connect"}
    OBVIOUS
  <2>. QED  BY <1>1, <2>2, <2>3 DEF Primes
<1>4. Connects' = 0 + 0 + 0
  BY <1>1, <1>2, <1>3
<1>5. Primes' \in {0, 1}
  BY <1>2, <1>3
<1>. QED  BY <1>3, <1>4, <1>5

\* The handshake and the subscription go out.
LEMMA AskKeeps ==
    ASSUME Inv, Open \/ Subscribe
    PROVE  Inv'
<1>t. TypeOK /\ Armed /\ Ordered /\ Whole /\ Final
  BY DEF Inv
<1>0. UNCHANGED <<instance, returned, verdict, passed>>
  BY DEF Open, Subscribe
<1>1. CASE Fail("transport")
  <2>1. verdict' \in BOOLEAN /\ (verdict' => Dead) /\ passed' \subseteq Message
    BY <1>0, <1>t DEF TypeOK, Final
  <2>. QED  BY <1>0, <1>1, <2>1, FailKeeps
<1>2. ASSUME NEW m \in {"handshake", "subscribe"}, Send(m), pc' = m,
             UNCHANGED <<up, wire, ended, dying>>,
             pc = IF m = "handshake" THEN "new" ELSE "open"
      PROVE  Inv'
  <2>0. /\ UNCHANGED <<session, channel, waiting, published, pending, returned, verdict, passed>>
        /\ m \in Request
    BY <1>0 DEF instance, Request
  <2>1. /\ requests' \in Seq(Request)
        /\ \A S : Count(requests', S) =
               IF up /\ m \in S THEN Count(requests, S) + 1 ELSE Count(requests, S)
    BY <1>2, <1>t, <2>0, Sends
  <2>2. Connects' = Connects /\ Primes' = Primes /\ Careless' = Careless
    <3>1. m \notin {"connect"} /\ m \notin {"prime"}
      OBVIOUS
    <3>2. /\ Count(requests', {"connect"}) = Count(requests, {"connect"})
          /\ Count(requests', {"prime"}) = Count(requests, {"prime"})
      BY <2>1, <3>1
    <3>. QED  BY <1>2, <2>0, <3>2 DEF Connects, Primes, Careless
  <2>3. Armed'
    BY <1>2, <1>t, <2>2 DEF Armed
  <2>4. Ordered' /\ Whole' /\ Final'
    BY <1>2, <1>t, <2>0 DEF Ordered, Whole, Known, Final, Dead
  <2>5. TypeOK'
    BY <1>2, <1>t, <2>0, <2>1 DEF TypeOK, Awaiting
  <2>. QED  BY <2>3, <2>4, <2>5 DEF Inv
<1>. QED  BY <1>1, <1>2 DEF Open, Subscribe

\* await_reply returns the reply it waited for.
LEMMA ReplyKeeps ==
    ASSUME Inv, AwaitReply
    PROVE  Inv'
<1>t. TypeOK /\ Armed /\ Ordered /\ Whole /\ Final
  BY DEF Inv
<1>0. pc \in Awaiting /\ UNCHANGED <<instance, returned>>
  BY DEF AwaitReply
<1>1. PICK n \in Frames : \E at \in 1 .. n :
          /\ wire[at] \in RepliesTo(Awaited)
          /\ verdict' = (verdict \/ wire[at] \in Condemning)
          /\ passed' = passed \cup {wire[i] : i \in (1 .. n) \ {at}}
          /\ \/ Answered(wire[at]) /\ wire' = Rest(n)
             \/ Fail("auth") \/ Fail("refused") \/ Fail("transport")
  BY DEF AwaitReply
<1>2. PICK at \in 1 .. n :
          /\ wire[at] \in RepliesTo(Awaited)
          /\ verdict' = (verdict \/ wire[at] \in Condemning)
          /\ passed' = passed \cup {wire[i] : i \in (1 .. n) \ {at}}
          /\ \/ Answered(wire[at]) /\ wire' = Rest(n)
             \/ Fail("auth") \/ Fail("refused") \/ Fail("transport")
  BY <1>1
<1>n. n \in 0 .. Len(wire)
  BY DEF Frames
<1>3. /\ DOMAIN Frame(n) = 1 .. n
      /\ \A i \in 1 .. n : Frame(n)[i] = wire[i] /\ i \in DOMAIN wire /\ wire[i] \in Message
  <2>1. /\ DOMAIN Frame(n) = 1 .. n
        /\ \A i \in 1 .. n : Frame(n)[i] = wire[i] /\ i \in DOMAIN wire
    BY <1>n, <1>t, Reading
  <2>2. \A i \in DOMAIN wire : wire[i] \in Message
    BY <1>t, Types
  <2>. QED  BY <2>1, <2>2
<1>4. /\ verdict' \in BOOLEAN /\ passed' \subseteq Message /\ (verdict' => Dead)
      /\ verdict' => verdict \/ Has(Frame(n), Condemning)
  BY <1>2, <1>3, <1>t, VerdictIsTrue DEF TypeOK, Final, Has
<1>5. CASE Fail("auth") \/ Fail("refused") \/ Fail("transport")
  BY <1>0, <1>4, <1>5, FailKeeps
<1>6. CASE Answered(wire[at]) /\ wire' = Rest(n)
  <2>0. /\ UNCHANGED <<session, channel, waiting, published, pending, returned>>
        /\ UNCHANGED <<up, ended, dying>>
    BY <1>0, <1>6 DEF Answered, instance
  <2>1. wire' \in Seq(Message) /\ Ordered' /\ Whole' /\ Final'
    <3>1. returned = <<>>
      BY <1>0, <1>t DEF Ordered, Awaiting
    <3>. QED  BY <1>0, <1>4, <1>6, <1>n, <2>0, <3>1, DropKeeps
  <2>2. Careless => Careless'
    BY <1>2 DEF Careless
  <2>3. CASE pc = "handshake" /\ Send("prime") /\ pc' = "prime"
    <3>1. Connects + Primes = 0
      BY <1>t, <2>3 DEF Armed
    <3>2. requests' \in Seq(Request) /\ Connects' = 0 /\ Primes' \in {0, 1}
      BY <1>6, <1>n, <2>0, <2>3, <3>1, Primings
    <3>. DEFINE x == Connects'
                p == Primes'
    <3>a. x = 0 /\ (p = 0 \/ p = 1)
      BY <3>2
    <3>. HIDE DEF x, p
    <3>b. x + p <= 1
      BY <3>a
    <3>3. Armed'
      BY <2>3, <3>b DEF Armed, x, p
    <3>4. TypeOK'
      BY <1>4, <1>t, <2>0, <2>1, <2>3, <3>2 DEF TypeOK, Awaiting
    <3>. QED  BY <2>1, <3>3, <3>4 DEF Inv
  <2>4. CASE pc = "prime" /\ Send("connect") /\ pc' = "open"
    <3>1. Has(Frame(n), Connect)
      BY <1>2, <1>3, <2>4 DEF Has, Connect, Awaited
    <3>2. /\ requests' \in Seq(Request)
          /\ Connects' = (IF up THEN 1 ELSE 0) /\ Primes' = 0
      BY <1>6, <1>n, <2>0, <2>4, <3>1, Rearms
    <3>3. Armed'
      BY <2>0, <2>4, <3>2 DEF Armed
    <3>4. TypeOK'
      BY <1>4, <1>t, <2>0, <2>1, <2>4, <3>2 DEF TypeOK
    <3>. QED  BY <2>1, <3>3, <3>4 DEF Inv
  <2>5. CASE pc = "subscribe" /\ pc' = "ready" /\ UNCHANGED requests
    <3>1. /\ Connects' + Primes' <= 1 /\ Primes' = Primes
          /\ ~Has(Frame(n), Connect) => Connects' = Connects
      BY <1>6, <1>n, <2>0, <2>5, Skims
    <3>2. Has(Frame(n), Connect) => Careless'
      <4>1. ASSUME NEW i \in DOMAIN Frame(n), Frame(n)[i] \in Connect
            PROVE  Careless'
        <5>1. wire[i] \in Connect /\ i \in 1 .. n
          BY <1>3, <4>1
        <5>2. wire[at] \notin Connect
          <6>1. wire[at].kind = "subscribe"
            BY <1>2, <2>5 DEF Awaited, RepliesTo, Reply
          <6>2. \A m \in Connect : m.kind = "connect"
            BY DEF Connect, RepliesTo, Reply
          <6>. QED  BY <6>1, <6>2
        <5>3. wire[i] \in passed'
          BY <1>2, <5>1, <5>2
        <5>. QED  BY <5>1, <5>3 DEF Careless
      <4>. QED  BY <4>1 DEF Has
    <3>3. Armed'
      BY <1>t, <2>0, <2>2, <2>5, <3>1, <3>2 DEF Armed
    <3>4. TypeOK'
      BY <1>4, <1>t, <2>0, <2>1, <2>5 DEF TypeOK
    <3>. QED  BY <2>1, <3>3, <3>4 DEF Inv
  <2>. QED  BY <1>6, <2>3, <2>4, <2>5 DEF Answered
<1>. QED  BY <1>2, <1>5, <1>6

\* await_reply goes on without its reply, or gives up.
LEMMA MoreKeeps ==
    ASSUME Inv, AwaitVerdict \/ AwaitMore \/ AwaitFails
    PROVE  Inv'
<1>t. TypeOK /\ Armed /\ Ordered /\ Whole /\ Final
  BY DEF Inv
<1>0. /\ pc \in Awaiting /\ UNCHANGED <<instance, returned, passed>>
      /\ passed' \subseteq Message
  BY <1>t DEF AwaitVerdict, AwaitMore, AwaitFails, TypeOK, Awaiting
<1>1. CASE AwaitVerdict
  <2>1. Fail("transport") /\ verdict' = TRUE /\ Dead
    BY <1>1, VerdictIsTrue DEF AwaitVerdict
  <2>. QED  BY <1>0, <2>1, FailKeeps
<1>2. ASSUME Fail("transport"), UNCHANGED verdict PROVE Inv'
  <2>1. verdict' \in BOOLEAN /\ (verdict' => Dead)
    BY <1>2, <1>t DEF TypeOK, Final
  <2>. QED  BY <1>0, <1>2, <2>1, FailKeeps
<1>3. CASE AwaitFails
  BY <1>2, <1>3 DEF AwaitFails
<1>4. CASE AwaitMore
  <2>1. PICK n \in Frames :
            /\ ~Has(Frame(n), RepliesTo(Awaited) \cup Condemning)
            /\ IF Has(Frame(n), Connect)
               THEN \/ Rearm /\ wire' = Rest(n)
                    \/ SendMayFail /\ Fail("transport")
               ELSE wire' = Rest(n) /\ UNCHANGED <<requests, pc, ended, dying, up>>
    BY <1>4 DEF AwaitMore
  <2>2. UNCHANGED verdict /\ n \in 0 .. Len(wire)
    BY <1>4 DEF AwaitMore, Frames
  <2>3. CASE Fail("transport")
    BY <1>2, <2>2, <2>3
  <2>4. ASSUME wire' = Rest(n), UNCHANGED <<pc, ended, dying, up>>,
               requests' \in Seq(Request), Armed'
        PROVE  Inv'
    <3>1. UNCHANGED <<session, channel, waiting, published, pending, returned, passed>>
      BY <1>0 DEF instance
    <3>2. wire' \in Seq(Message) /\ Ordered' /\ Whole' /\ Final'
      <4>1. returned = <<>>
        BY <1>0, <1>t DEF Ordered, Awaiting
      <4>. QED  BY <1>0, <2>2, <2>4, <4>1, DropKeeps
    <3>3. TypeOK'
      BY <1>t, <2>2, <2>4, <3>1, <3>2 DEF TypeOK
    <3>. QED  BY <2>4, <3>2, <3>3 DEF Inv
  <2>5. Careless' = Careless
    BY <1>0 DEF Careless
  <2>6. CASE Has(Frame(n), Connect) /\ Rearm /\ wire' = Rest(n)
    <3>1. UNCHANGED <<waiting, pc, ended, dying, up>> /\ Send("connect")
      BY <1>0, <2>6 DEF Rearm, instance
    <3>2. /\ requests' \in Seq(Request) /\ Connects' = (IF up THEN 1 ELSE 0) /\ Primes' = 0
          /\ Connects + Primes # 0
      BY <2>2, <2>6, <3>1, Rearms
    <3>3. pc \notin {"new", "handshake"}
      BY <1>t, <3>2 DEF Armed
    <3>4. Armed'
      BY <3>1, <3>2, <3>3 DEF Armed
    <3>. QED  BY <2>4, <2>6, <3>1, <3>2, <3>4
  <2>7. CASE ~Has(Frame(n), Connect) /\ wire' = Rest(n)
             /\ UNCHANGED <<requests, pc, ended, dying, up>>
    <3>1. UNCHANGED waiting
      BY <1>0 DEF instance
    <3>2. /\ Connects' + Primes' <= 1 /\ Primes' = Primes
          /\ Connects' = Connects
      BY <2>2, <2>7, <3>1, Skims
    <3>3. Armed'
      BY <1>t, <2>5, <2>7, <3>2 DEF Armed
    <3>4. requests' \in Seq(Request)
      BY <1>t, <2>7 DEF TypeOK
    <3>. QED  BY <2>4, <2>7, <3>3, <3>4
  <2>. QED  BY <2>1, <2>3, <2>6, <2>7
<1>. QED  BY <1>1, <1>3, <1>4

\* A frame whose events are returned.
LEMMA TakeKeeps ==
    ASSUME Inv, NEW n \in 0 .. Len(wire), wire' = Rest(n), pc = "ready", pc' = "ready",
           returned' = returned \o Numbers(Frame(n)),
           UNCHANGED <<instance, up>>,
           verdict' => verdict \/ Has(Frame(n), Condemning)
    PROVE  /\ wire' \in Seq(Message) /\ returned' \in Seq(Event)
           /\ Ordered' /\ Whole' /\ Final'
<1>t. TypeOK /\ Armed /\ Ordered /\ Whole /\ Final
  BY DEF Inv
<1>0. UNCHANGED <<session, channel, waiting, published, pending, up>>
  BY DEF instance
<1>1. /\ Frame(n) \in Seq(Message) /\ Rest(n) \in Seq(Message)
      /\ EventsOf(wire) = EventsOf(Frame(n)) \cup EventsOf(Rest(n))
      /\ Has(Frame(n), Condemning) \/ Has(Rest(n), Condemning) => Dead
      /\ Ascends(Frame(n)) /\ Ascends(Rest(n)) /\ EndsOnVerdict(Rest(n))
      /\ Has(Frame(n), Condemning) => EventsOf(Rest(n)) = {}
      /\ \A a \in EventsOf(Frame(n)), b \in EventsOf(Rest(n)) : a < b
  BY <1>t, Reading DEF Ordered, Final
<1>2. /\ Numbers(Frame(n)) \in Seq(Event) /\ Rising(Numbers(Frame(n)))
      /\ Elements(Numbers(Frame(n))) = EventsOf(Frame(n))
  BY <1>1, NumbersOf
<1>3. /\ returned' \in Seq(Event) /\ Rising(returned')
      /\ Elements(returned') = Elements(returned) \cup EventsOf(Frame(n))
  <2>1. /\ returned \in Seq(Event) /\ Rising(returned)
        /\ \A a \in Elements(returned), b \in EventsOf(Frame(n)) : a < b
    BY <1>1, <1>t, Types DEF Ordered
  <2>. QED  BY <1>2, <2>1, RisingJoined
<1>4. Ordered'
  <2>1. /\ \A a \in EventsOf(wire) \cup Elements(returned), b \in Elements(pending) : a < b
        /\ \A a \in Elements(returned), b \in EventsOf(wire) : a < b
    BY <1>t DEF Ordered
  <2>. QED  BY <1>0, <1>1, <1>3, <1>t, <2>1 DEF Ordered
<1>5. Known' = Known
  BY <1>0, <1>1, <1>3 DEF Known
<1>6. Whole'
  BY <1>0, <1>5, <1>t DEF Whole, Gapless, Dead
<1>7. Final'
  BY <1>0, <1>1, <1>t DEF Final, Dead
<1>. QED  BY <1>1, <1>3, <1>4, <1>6, <1>7

\* A poll returns the events of a frame, which come first on the wire.
LEMMA PollKeeps ==
    ASSUME Inv, Poll
    PROVE  Inv'
<1>t. TypeOK /\ Armed /\ Ordered /\ Whole /\ Final
  BY DEF Inv
<1>0. pc = "ready" /\ UNCHANGED <<instance, passed>> /\ passed' \subseteq Message
  BY <1>t DEF Poll, TypeOK
<1>1. PICK n \in Frames : PollVerdict(Frame(n)) \/ PollBatch(Frame(n))
  BY DEF Poll
<1>n. n \in 0 .. Len(wire)
  BY DEF Frames
<1>2. /\ Rest(Len(Frame(n))) = Rest(n)
      /\ Numbers(Frame(n)) = <<>> => returned \o Numbers(Frame(n)) = returned
  <2>1. returned \in Seq(Event) /\ Rest(Len(Frame(n))) = Rest(n)
    BY <1>n, <1>t, Reading, Types
  <2>. QED  BY <2>1
<1>3. Has(Frame(n), Condemning) => Dead
  <2>1. Has(Frame(n), Condemning) => Has(wire, Condemning)
    BY <1>n, <1>t, Reading
  <2>. QED  BY <1>t, <2>1 DEF Final
<1>4. ASSUME wire' = Rest(n), returned' = returned \o Numbers(Frame(n)),
             UNCHANGED <<pc, ended, up>>, dying' \in BOOLEAN,
             requests' \in Seq(Request), Armed', verdict' \in BOOLEAN,
             verdict' => verdict \/ Has(Frame(n), Condemning)
      PROVE  Inv'
  <2>1. UNCHANGED <<session, channel, waiting, published, pending, passed>>
    BY <1>0 DEF instance
  <2>2. /\ wire' \in Seq(Message) /\ returned' \in Seq(Event)
        /\ Ordered' /\ Whole' /\ Final'
    BY <1>0, <1>4, <1>n, TakeKeeps
  <2>3. TypeOK'
    BY <1>4, <1>t, <2>1, <2>2 DEF TypeOK
  <2>. QED  BY <1>4, <2>2, <2>3 DEF Inv
<1>5. Careless' = Careless /\ UNCHANGED waiting
  BY <1>0 DEF Careless, instance
<1>6. CASE PollVerdict(Frame(n))
  <2>1. Has(Frame(n), Condemning) /\ verdict' = TRUE
        /\ returned' = returned \o Numbers(Frame(n))
    BY <1>6 DEF PollVerdict
  <2>2. CASE Numbers(Frame(n)) = <<>>
    <3>1. Fail("transport") /\ returned' = returned
      BY <1>2, <1>6, <2>1, <2>2 DEF PollVerdict
    <3>. QED  BY <1>0, <1>3, <2>1, <3>1, FailKeeps
  <2>3. CASE Numbers(Frame(n)) # <<>>
    <3>1. dying' = TRUE /\ wire' = Rest(n) /\ UNCHANGED <<requests, pc, ended, up>>
      BY <1>2, <1>6, <2>3 DEF PollVerdict
    <3>2. Connects' + Primes' <= 1 /\ Primes' = Primes
      BY <1>5, <1>n, <3>1, Skims
    <3>3. Armed'
      BY <1>0, <1>t, <3>1, <3>2 DEF Armed
    <3>4. requests' \in Seq(Request)
      BY <1>t, <3>1 DEF TypeOK
    <3>. QED  BY <1>4, <2>1, <3>1, <3>3, <3>4
  <2>. QED  BY <2>2, <2>3
<1>7. CASE PollBatch(Frame(n))
  <2>1. UNCHANGED verdict /\ verdict' \in BOOLEAN /\ (verdict' => Dead)
    BY <1>7, <1>t DEF PollBatch, TypeOK, Final
  <2>2. CASE Fail("transport") /\ UNCHANGED returned
    BY <1>0, <2>1, <2>2, FailKeeps
  <2>3. CASE /\ returned' = returned \o Numbers(Frame(n)) /\ wire' = Rest(n)
             /\ Has(Frame(n), Connect) /\ Rearm
    <3>1. UNCHANGED <<pc, ended, dying, up>> /\ Send("connect")
      BY <2>3 DEF Rearm
    <3>2. requests' \in Seq(Request) /\ Connects' = (IF up THEN 1 ELSE 0) /\ Primes' = 0
      BY <1>5, <1>n, <2>3, <3>1, Rearms
    <3>3. Armed'
      BY <1>0, <3>1, <3>2 DEF Armed
    <3>4. dying' \in BOOLEAN
      BY <1>t, <3>1 DEF TypeOK
    <3>. QED  BY <1>4, <2>1, <2>3, <3>1, <3>2, <3>3, <3>4
  <2>4. CASE /\ returned' = returned \o Numbers(Frame(n)) /\ wire' = Rest(n)
             /\ ~Has(Frame(n), Connect) /\ UNCHANGED <<requests, pc, ended, dying, up>>
    <3>1. Connects' + Primes' <= 1 /\ Primes' = Primes /\ Connects' = Connects
      BY <1>5, <1>n, <2>4, Skims
    <3>2. Armed'
      BY <1>5, <1>t, <2>4, <3>1 DEF Armed
    <3>3. dying' \in BOOLEAN /\ requests' \in Seq(Request)
      BY <1>t, <2>4 DEF TypeOK
    <3>. QED  BY <1>4, <2>1, <2>4, <3>2, <3>3
  <2>. QED  BY <1>2, <1>7, <2>2, <2>3, <2>4 DEF PollBatch
<1>. QED  BY <1>1, <1>6, <1>7

\* poll, or the user, ends the session.
LEMMA EndsKeep ==
    ASSUME Inv, PollFails \/ Disconnect
    PROVE  Inv'
<1>1. /\ \E how \in {"asked", "transport"} : Fail(how)
      /\ UNCHANGED <<instance, returned, verdict, passed>>
  BY DEF PollFails, Disconnect
<1>2. verdict' \in BOOLEAN /\ (verdict' => Dead) /\ passed' \subseteq Message
  BY <1>1 DEF Inv, TypeOK, Final
<1>. QED  BY <1>1, <1>2, FailKeeps

-----------------------------------------------------------------------------
\* The theorems.

\* Before the handshake there is nothing.
LEMMA Initially == Init => Inv
<1>. SUFFICES ASSUME Init PROVE Inv
  OBVIOUS
<1>0. /\ session \in {"live", "reaped"} /\ channel = FALSE /\ waiting = 0
      /\ published = 0 /\ pending = <<>> /\ up = TRUE /\ requests = <<>> /\ wire = <<>>
      /\ pc = "new" /\ dying = FALSE /\ returned = <<>> /\ ended = None
      /\ verdict = FALSE /\ passed = {}
  BY DEF Init
<1>1. /\ pending \in Seq(Event) /\ requests \in Seq(Request) /\ wire \in Seq(Message)
      /\ returned \in Seq(Event)
      /\ Elements(pending) = {} /\ Elements(returned) = {} /\ EventsOf(wire) = {}
      /\ Rising(pending) /\ Rising(returned) /\ Ascends(wire) /\ EndsOnVerdict(wire)
      /\ ~Has(wire, Condemning)
  BY <1>0, Nothing
<1>2. TypeOK
  <2>1. MaxEvent \in Nat
    BY AmbAssumption
  <2>2. 0 \in 0 .. 1 /\ 0 \in 0 .. MaxEvent
    BY <2>1
  <2>3. "new" \in Awaiting \cup {"new", "open", "ready", "closed"}
    OBVIOUS
  <2>4. None \in {None, "asked", "auth", "transport", "refused"}
    OBVIOUS
  <2>5. {} \subseteq Message /\ FALSE \in BOOLEAN /\ TRUE \in BOOLEAN
    OBVIOUS
  <2>6. waiting \in 0 .. 1 /\ published \in 0 .. MaxEvent
    BY <1>0, <2>2
  <2>7. /\ pc \in Awaiting \cup {"new", "open", "ready", "closed"}
        /\ ended \in {None, "asked", "auth", "transport", "refused"}
    BY <1>0, <2>3, <2>4
  <2>8. channel \in BOOLEAN /\ up \in BOOLEAN /\ dying \in BOOLEAN /\ verdict \in BOOLEAN
        /\ passed \subseteq Message
    BY <1>0, <2>5
  <2>9. session \in {"live", "reaped"}
    BY <1>0
  <2>. QED  BY <1>1, <2>6, <2>7, <2>8, <2>9 DEF TypeOK
<1>3. Connects = 0 + 0 + 0 /\ Primes = 0
  BY <1>0, Nothing DEF Connects, Primes
<1>4. Armed
  BY <1>0, <1>3 DEF Armed
<1>5. Ordered /\ Final
  BY <1>0, <1>1 DEF Ordered, Final
<1>6. Known = {}
  BY <1>1 DEF Known
<1>7. Whole
  BY <1>1, <1>6 DEF Whole, Gapless
<1>. QED  BY <1>2, <1>4, <1>5, <1>7 DEF Inv

\* The invariant depends on the variables alone.
LEMMA Stutters == Inv /\ UNCHANGED vars => Inv'
BY DEF Inv, vars, instance, client, TypeOK, Armed, Connects, Primes, Careless, Ordered, Whole,
       Known, Final, Dead

\* The invariant holds however the instance frames, delays, loses and reaps, for
\* any number of events.
THEOREM InvAlways == Spec => []Inv
<1>1. ASSUME Inv, [Next]_vars PROVE Inv'
  BY <1>1, ServeKeeps, AnswerKeeps, DeliverKeeps, PublishKeeps, ReapKeeps, BreakKeeps,
     AskKeeps, ReplyKeeps, MoreKeeps, PollKeeps, EndsKeep, Stutters
     DEF Next, Server, Client
<1>. QED  BY <1>1, Initially, PTL DEF Spec

\* Every variable keeps its type; the instance never holds two connects.
THEOREM TypeCorrect == Spec => []TypeOK
<1>1. Inv => TypeOK
  BY DEF Inv
<1>. QED  BY <1>1, InvAlways, PTL

\* rearm: never are two connects out, and while the session is read one is,
\* unless await_reply read past a connect reply.
THEOREM OneConnectIsOut == Spec => []ArmedOnce
<1>1. Inv => ArmedOnce
  <2>. SUFFICES ASSUME Inv PROVE ArmedOnce
    OBVIOUS
  <2>1. Armed /\ Connects \in Nat /\ Primes \in Nat
    BY Types DEF Inv
  <2>2. PICK x, p \in Nat : x = Connects /\ p = Primes
    BY <2>1
  <2>3. x + p <= 1
    BY <2>1, <2>2 DEF Armed
  <2>4. Connects <= 1
    BY <2>2, <2>3
  <2>. QED  BY <2>1, <2>4 DEF ArmedOnce, Armed
<1>. QED  BY <1>1, InvAlways, PTL

\* poll returns the events of the channel in order, none twice and none left out
\* between two, and it goes on where it stopped.
THEOREM StreamHasNoHole == Spec => []NoHole
<1>1. Inv => NoHole
  <2>. SUFFICES ASSUME Inv PROVE NoHole
    OBVIOUS
  <2>t. /\ TypeOK /\ Ordered /\ Whole
        /\ wire \in Seq(Message) /\ pending \in Seq(Event) /\ returned \in Seq(Event)
    BY DEF Inv, TypeOK
  <2>. DEFINE s == returned \o (IF pc = "ready" /\ up THEN Unread \o pending ELSE <<>>)
  <2>1. s \in Seq(Event) /\ Rising(s) /\ Gapless(Elements(s))
    <3>1. CASE pc = "ready" /\ up
      <4>1. /\ Unread \in Seq(Event) /\ Elements(Unread) = EventsOf(wire) /\ Rising(Unread)
        BY <2>t, NumbersOf DEF Unread, Ordered
      <4>2. /\ Unread \o pending \in Seq(Event) /\ Rising(Unread \o pending)
            /\ Elements(Unread \o pending) = EventsOf(wire) \cup Elements(pending)
        <5>1. Rising(pending) /\ \A a \in Elements(Unread), b \in Elements(pending) : a < b
          BY <2>t, <4>1 DEF Ordered
        <5>. QED  BY <2>t, <4>1, <5>1, RisingJoined
      <4>3. s = returned \o (Unread \o pending)
        BY <3>1
      <4>4. /\ s \in Seq(Event) /\ Rising(s)
            /\ Elements(s) = Elements(returned) \cup (EventsOf(wire) \cup Elements(pending))
        <5>1. /\ Rising(returned)
              /\ \A a \in Elements(returned), b \in Elements(Unread \o pending) : a < b
          BY <2>t, <4>2 DEF Ordered
        <5>. DEFINE u == Unread \o pending
        <5>2. /\ u \in Seq(Event) /\ Rising(u) /\ s = returned \o u
              /\ Elements(u) = EventsOf(wire) \cup Elements(pending)
              /\ \A a \in Elements(returned), b \in Elements(u) : a < b
          BY <4>2, <4>3, <5>1
        <5>. HIDE DEF u, s
        <5>3. /\ returned \o u \in Seq(Event) /\ Rising(returned \o u)
              /\ Elements(returned \o u) = Elements(returned) \cup Elements(u)
          BY <2>t, <5>1, <5>2, RisingJoined
        <5>. QED  BY <5>2, <5>3
      <4>5. Elements(s) = Known
        BY <3>1, <4>4 DEF Known
      <4>. QED  BY <2>t, <4>4, <4>5 DEF Whole
    <3>2. CASE ~ (pc = "ready" /\ up)
      <4>1. s = returned
        <5>1. s = returned \o <<>>
          BY <3>2
        <5>. QED  BY <2>t, <5>1
      <4>2. Elements(returned) \in SUBSET Known
        BY DEF Known
      <4>3. \A x \in Known \ Elements(returned), b \in Elements(returned) : b < x
        BY <2>t DEF Known, Ordered
      <4>4. Gapless(Elements(returned))
        BY <2>t, <4>2, <4>3, Parts, KnownTypes DEF Whole
      <4>. QED  BY <2>t, <4>1, <4>4 DEF Ordered
    <3>. QED  BY <3>1, <3>2
  <2>2. \A i \in 1 .. Len(s) - 1 : s[i + 1] = s[i] + 1
    <3>. HIDE DEF s
    <3>. QED  BY <2>1, Consecutive
  <2>. QED  BY <2>2 DEF NoHole
<1>. QED  BY <1>1, InvAlways, PTL

\* A verdict never costs an event: when the session ends on one, nothing the
\* instance delivered is left unread.
THEOREM NothingLostToVerdicts == Spec => VerdictComesLast
<1>1. ASSUME Inv, [Next]_vars, pc = "ready", pc' = "closed", verdict', ended' = "transport", up
      PROVE  \A i \in DOMAIN Unread : Unread[i] \in Returned'
  <2>t. TypeOK /\ Ordered /\ Final
    BY <1>1 DEF Inv
  <2>1. Poll \/ PollFails
    BY <1>1 DEF Next, Server, Client, Serve, AnswerConnect, Deliver, Publish, Reap, Break,
       Open, Subscribe, AwaitReply, AwaitVerdict, AwaitMore, AwaitFails, Awaiting,
       Disconnect, Fail, vars, client
  <2>2. EventsOf(wire) = {}
    <3>1. CASE verdict
      BY <2>t, <3>1 DEF Final
    <3>2. CASE ~verdict /\ Poll
      <4>1. PICK n \in Frames : PollVerdict(Frame(n)) \/ PollBatch(Frame(n))
        BY <3>2 DEF Poll
      <4>2. PollVerdict(Frame(n))
        BY <1>1, <3>2, <4>1 DEF PollBatch
      <4>3. Has(Frame(n), Condemning) /\ Numbers(Frame(n)) = <<>>
        BY <1>1, <4>2 DEF PollVerdict
      <4>4. n \in 0 .. Len(wire)
        BY DEF Frames
      <4>5. /\ EventsOf(wire) = EventsOf(Frame(n)) \cup EventsOf(Rest(n))
            /\ EventsOf(Rest(n)) = {} /\ Frame(n) \in Seq(Message)
        BY <2>t, <4>3, <4>4, Reading DEF Final
      <4>6. EventsOf(Frame(n)) = {}
        BY <4>3, <4>5, NumbersOf
      <4>. QED  BY <4>5, <4>6
    <3>3. CASE ~verdict /\ PollFails
      BY <1>1, <3>3 DEF PollFails
    <3>. QED  BY <2>1, <3>1, <3>2, <3>3
  <2>3. Unread = <<>>
    BY <2>2, <2>t, NumbersOf DEF Unread, TypeOK
  <2>. QED  BY <2>3
<1>2. Inv /\ [Next]_vars =>
          [pc = "ready" /\ pc' = "closed" /\ verdict' /\ ended' = "transport" /\ up
              => \A i \in DOMAIN Unread : Unread[i] \in Returned']_vars
  BY <1>1
<1>. QED  BY <1>2, InvAlways, PTL DEF Spec, VerdictComesLast
=============================================================================
