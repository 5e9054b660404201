------------------------------ MODULE WatchProofs ------------------------------
(***************************************************************************)
(* Proofs about Watch for any number of events, drops, attempts and polls, *)
(* any filter and any limit: its types, that no subscription is stranded,  *)
(* that --max-events counts events, that the stream is in order, and that  *)
(* what it misses is marked.                                               *)
(***************************************************************************)
EXTENDS Watch, FiniteSetTheorems, TLAPS

-----------------------------------------------------------------------------
\* The inductive invariant.

\* What the control state says of the sessions.
Control ==
    /\ batch # <<>> => pc \in {"pump", "drain"}
    /\ pc \in {"connect", "backoff", "done"} <=> link = None
    /\ pc \in Subscribed => link.sub /\ established
    /\ pc = "subscribe" => ~link.sub /\ link.inbox = <<>>
    /\ pc \in {"rsubscribe", "drain"} <=> fresh # None
    /\ pc = "drain" => fresh.sub /\ seam
    /\ pc = "rsubscribe" => ~fresh.sub /\ fresh.inbox = <<>>
    /\ pc = "backoff" => established /\ attempt # 0

\* A hole is open from the end of a subscribed session to its marker.
Holes ==
    /\ pc \in Subscribed \ {"announce"} => gap = None
    /\ pc \in Connecting => (gap = None <=> ~established)
    /\ pc = "announce" /\ gap = None => since = base
    /\ base <= published /\ since <= published

Counts ==
    /\ LimitCountsEvents
    /\ pc \in Subscribed \ {"announce"} => Markers = outages
    /\ pc = "backoff" => Markers + 1 = outages
    /\ pc \in Connecting \cup {"announce"} =>
           outages = IF gap = None THEN Markers ELSE Markers + 1
    /\ pc = "done" => Markers <= outages

\* What the current session still has to say, in the batch and behind it.
Coming(e) == InSeq(e, batch) \/ InSeq(e, Pending(link))

\* Everything printed is older.
Later(e) == \A j \in DOMAIN out : out[j] < e

Increasing(s) == \A i, j \in DOMAIN s : i < j => s[i] < s[j]

\* A session's events arrive in the order they were published in.
Arrival ==
    /\ Increasing(batch) /\ Increasing(Pending(link)) /\ Increasing(Pending(fresh))
    /\ \A x, y \in Event : InSeq(x, batch) /\ InSeq(y, Pending(link)) => x < y
    /\ \A x \in Event : Coming(x) \/ InSeq(x, Pending(fresh)) =>
           since < x /\ x <= published
    /\ \A j \in DOMAIN out : out[j] <= published

\* What is to come is either newer than everything printed or a second copy,
\* which only a seam brings and which is then among recent.
Copies ==
    /\ InOrder
    /\ \A x \in recent : InSeq(x, out)
    /\ \A x \in Event \ Unwanted : Coming(x) => InSeq(x, out) \/ Later(x)
    /\ \A x \in Event \ Unkeyed : Coming(x) /\ InSeq(x, out) =>
           pc \in {"announce", "pump"} /\ seam /\ x \in recent

\* In a drain the new session has what the old one printed, has still to come
\* to, or died before.
Seam ==
    pc = "drain" =>
        /\ \A x \in Event \ Unwanted : InSeq(x, fresh.inbox) =>
               \/ InSeq(x, out)
               \/ Coming(x)
               \/ ~link.up /\ Later(x) /\ \A y \in Event : Coming(y) => y < x
        /\ \A x \in Event \ Unkeyed : InSeq(x, fresh.inbox) /\ InSeq(x, out) =>
               x \in recent

\* A marker separates what was printed before n from what came after.
Marked(n) == \E i \in DOMAIN out : out[i] = Gap /\ \A k \in 1 .. i - 1 : out[k] < n

\* n is lost, and either nothing will be printed any more, or a marker comes
\* first, or what comes first is older, from a session that is already dead.
Owed(n) ==
    /\ Later(n)
    /\ \/ pc \in {"backoff", "done"}
       \/ pc \in Connecting \cup {"announce"} /\ gap # None
       \/ /\ pc \in Subscribed /\ ~link.up /\ since < n
          /\ \A y \in Event : Coming(y) => y < n

Losses ==
    established => \A n \in base + 1 .. published :
        \/ n \in Unwanted \cup uncovered \/ InSeq(n, out)
        \/ Coming(n) \/ InSeq(n, Pending(fresh))
        \/ Marked(n) \/ Owed(n)

Inv == TypeOK /\ Control /\ Holes /\ Counts /\ Arrival /\ Copies /\ Seam /\ Losses

-----------------------------------------------------------------------------
\* Sequences of events.

\* The empty sequence.
LEMMA EmptySeq == Increasing(<<>>) /\ \A x : ~InSeq(x, <<>>)
BY DEF Increasing, InSeq

\* An event at the end.
LEMMA Appended ==
    ASSUME NEW S, NEW s \in Seq(S), NEW e \in S
    PROVE  /\ Append(s, e) \in Seq(S) /\ Len(Append(s, e)) = Len(s) + 1
           /\ \A i \in DOMAIN s : Append(s, e)[i] = s[i]
           /\ Append(s, e)[Len(s) + 1] = e
           /\ DOMAIN Append(s, e) = 1 .. Len(s) + 1 /\ DOMAIN s = 1 .. Len(s)
           /\ Len(s) \in Nat
           /\ \A x : InSeq(x, Append(s, e)) <=> x = e \/ InSeq(x, s)
<1>1. /\ Append(s, e) \in Seq(S) /\ Len(Append(s, e)) = Len(s) + 1
      /\ \A i \in DOMAIN s : Append(s, e)[i] = s[i]
      /\ Append(s, e)[Len(s) + 1] = e
      /\ DOMAIN Append(s, e) = 1 .. Len(s) + 1 /\ DOMAIN s = 1 .. Len(s)
      /\ Len(s) \in Nat
  OBVIOUS
<1>2. \A i \in 1 .. Len(s) + 1 : i \in 1 .. Len(s) \/ i = Len(s) + 1
  BY <1>1
<1>3. \A x : InSeq(x, Append(s, e)) <=> x = e \/ InSeq(x, s)
  BY <1>1, <1>2 DEF InSeq
<1>. QED  BY <1>1, <1>3

\* A newer event keeps the order.
LEMMA AppendIncreasing ==
    ASSUME NEW s \in Seq(Event), Increasing(s), NEW e \in Event,
           \A x \in Event : InSeq(x, s) => x < e
    PROVE  Increasing(Append(s, e))
<1>1. /\ \A i \in DOMAIN s : Append(s, e)[i] = s[i] /\ s[i] \in Event /\ s[i] < e
      /\ Append(s, e)[Len(s) + 1] = e
      /\ DOMAIN Append(s, e) = 1 .. Len(s) + 1 /\ DOMAIN s = 1 .. Len(s)
      /\ Len(s) \in Nat
  BY Appended DEF InSeq
<1>. QED  BY <1>1 DEF Increasing

\* The first of an increasing sequence and the rest.
LEMMA HeadAndTail ==
    ASSUME NEW s \in Seq(Event), Increasing(s), s # <<>>
    PROVE  /\ Head(s) \in Event /\ Tail(s) \in Seq(Event) /\ Increasing(Tail(s))
           /\ \A x : InSeq(x, s) <=> x = Head(s) \/ InSeq(x, Tail(s))
           /\ \A x \in Event : InSeq(x, Tail(s)) => Head(s) < x
<1>1. /\ Len(s) \in Nat \ {0} /\ DOMAIN s = 1 .. Len(s)
      /\ Head(s) = s[1] /\ Tail(s) \in Seq(Event)
      /\ DOMAIN Tail(s) = 1 .. Len(s) - 1
      /\ \A i \in 1 .. Len(s) - 1 : Tail(s)[i] = s[i + 1]
      /\ \A i \in 1 .. Len(s) : s[i] \in Event
  OBVIOUS
<1>2. \A i \in 1 .. Len(s) - 1 : i + 1 \in 1 .. Len(s)
  BY <1>1
<1>3. Increasing(Tail(s))
  BY <1>1, <1>2 DEF Increasing
<1>4. \A x : InSeq(x, Tail(s)) => InSeq(x, s)
  BY <1>1, <1>2 DEF InSeq
<1>5. \A x : InSeq(x, s) => x = Head(s) \/ InSeq(x, Tail(s))
  <2>. SUFFICES ASSUME NEW x, NEW i \in 1 .. Len(s), s[i] = x, i # 1
       PROVE  InSeq(x, Tail(s))
    BY <1>1 DEF InSeq
  <2>1. i - 1 \in 1 .. Len(s) - 1 /\ (i - 1) + 1 = i
    BY <1>1
  <2>. QED  BY <1>1, <2>1 DEF InSeq
<1>6. InSeq(Head(s), s)
  BY <1>1 DEF InSeq
<1>7. \A x \in Event : InSeq(x, Tail(s)) => Head(s) < x
  <2>. SUFFICES ASSUME NEW i \in 1 .. Len(s) - 1 PROVE s[1] < s[i + 1]
    BY <1>1 DEF InSeq
  <2>. QED  BY <1>1, <1>2 DEF Increasing
<1>. QED  BY <1>1, <1>3, <1>4, <1>5, <1>6, <1>7

\* An increasing sequence cut in two.
LEMMA Split ==
    ASSUME NEW s \in Seq(Event), Increasing(s), NEW n \in 1 .. Len(s)
    PROVE  LET a == SubSeq(s, 1, n)
               b == SubSeq(s, n + 1, Len(s)) IN
           /\ a \in Seq(Event) /\ b \in Seq(Event)
           /\ Increasing(a) /\ Increasing(b)
           /\ \A x : InSeq(x, s) <=> InSeq(x, a) \/ InSeq(x, b)
           /\ \A x, y \in Event : InSeq(x, a) /\ InSeq(y, b) => x < y
<1>. DEFINE a == SubSeq(s, 1, n)
            b == SubSeq(s, n + 1, Len(s))
<1>1. /\ Len(s) \in Nat /\ DOMAIN s = 1 .. Len(s)
      /\ \A i \in 1 .. Len(s) : s[i] \in Event
  OBVIOUS
<1>2. /\ a \in Seq(Event) /\ b \in Seq(Event)
      /\ DOMAIN a = 1 .. n /\ DOMAIN b = 1 .. Len(s) - n
      /\ \A i \in 1 .. n : a[i] = s[i] /\ i \in 1 .. Len(s)
      /\ \A i \in 1 .. Len(s) - n : b[i] = s[n + i] /\ n + i \in 1 .. Len(s)
  BY <1>1
<1>3. Increasing(a) /\ Increasing(b)
  <2>1. Increasing(a)
    BY <1>1, <1>2 DEF Increasing
  <2>2. ASSUME NEW i \in 1 .. Len(s) - n, NEW j \in 1 .. Len(s) - n, i < j
        PROVE  b[i] < b[j]
    <3>1. n + i \in 1 .. Len(s) /\ n + j \in 1 .. Len(s) /\ n + i < n + j
      BY <1>1, <2>2
    <3>2. s[n + i] < s[n + j]
      BY <1>1, <3>1 DEF Increasing
    <3>. QED  BY <1>2, <3>2
  <2>. QED  BY <1>2, <2>1, <2>2 DEF Increasing
<1>4. \A x : InSeq(x, a) \/ InSeq(x, b) => InSeq(x, s)
  BY <1>1, <1>2 DEF InSeq
<1>5. \A x : InSeq(x, s) => InSeq(x, a) \/ InSeq(x, b)
  <2>. SUFFICES ASSUME NEW x, NEW i \in 1 .. Len(s), s[i] = x, ~ (i \in 1 .. n)
       PROVE  InSeq(x, b)
    BY <1>1, <1>2 DEF InSeq
  <2>1. i - n \in 1 .. Len(s) - n /\ n + (i - n) = i
    BY <1>1
  <2>. QED  BY <1>2, <2>1 DEF InSeq
<1>6. \A x, y \in Event : InSeq(x, a) /\ InSeq(y, b) => x < y
  <2>. SUFFICES ASSUME NEW x \in Event, NEW y \in Event,
                       NEW i \in DOMAIN a, a[i] = x, NEW j \in DOMAIN b, b[j] = y
       PROVE  s[i] < s[n + j]
    BY <1>2 DEF InSeq
  <2>. i \in 1 .. n /\ j \in 1 .. Len(s) - n
    BY <1>2
  <2>1. i \in 1 .. Len(s) /\ n + j \in 1 .. Len(s) /\ i < n + j
    BY <1>1
  <2>. QED  BY <1>1, <2>1 DEF Increasing
<1>. QED  BY <1>2, <1>3, <1>4, <1>5, <1>6
-----------------------------------------------------------------------------
\* The markers on stdout.

MarkersOf(s) == Cardinality({i \in DOMAIN s : s[i] = Gap})

\* A marker more is counted, an event is not.
LEMMA CountMarkers ==
    ASSUME NEW s \in Seq(Event \cup {Gap}), NEW e \in Event \cup {Gap}
    PROVE  /\ MarkersOf(s) \in Nat
           /\ MarkersOf(Append(s, e)) = IF e = Gap THEN MarkersOf(s) + 1 ELSE MarkersOf(s)
<1>. DEFINE M(t) == {i \in DOMAIN t : t[i] = Gap}
<1>1. /\ \A i \in DOMAIN s : Append(s, e)[i] = s[i]
      /\ Append(s, e)[Len(s) + 1] = e
      /\ DOMAIN Append(s, e) = 1 .. Len(s) + 1 /\ DOMAIN s = 1 .. Len(s)
      /\ Len(s) \in Nat
  BY Appended
<1>2. IsFiniteSet(1 .. Len(s))
  BY <1>1, FS_Interval
<1>3. IsFiniteSet(M(s))
  BY <1>1, <1>2, FS_Subset
<1>4. \A i \in 1 .. Len(s) + 1 : i \in 1 .. Len(s) \/ i = Len(s) + 1
  BY <1>1
<1>5. M(Append(s, e)) = IF e = Gap THEN M(s) \cup {Len(s) + 1} ELSE M(s)
  BY <1>1, <1>4
<1>6. Len(s) + 1 \notin M(s)
  BY <1>1
<1>7. Cardinality(M(s)) \in Nat
  BY <1>3, FS_CardinalityType
<1>8. Cardinality(M(s) \cup {Len(s) + 1}) = Cardinality(M(s)) + 1
  BY <1>3, <1>6, FS_AddElement
<1>. QED  BY <1>5, <1>7, <1>8 DEF MarkersOf

-----------------------------------------------------------------------------
\* What the types say, one variable at a time.

\* A session that is there has an inbox and two flags.
LEMMA Types ==
    ASSUME TypeOK
    PROVE  /\ link # None => /\ link \in Session /\ link.inbox \in Seq(Event)
                             /\ Pending(link) = link.inbox
                             /\ link.sub \in BOOLEAN /\ link.up \in BOOLEAN
           /\ fresh # None => /\ fresh \in Session /\ fresh.inbox \in Seq(Event)
                              /\ Pending(fresh) = fresh.inbox
                              /\ fresh.sub \in BOOLEAN /\ fresh.up \in BOOLEAN
           /\ Pending(link) \in Seq(Event) /\ Pending(fresh) \in Seq(Event)
           /\ Pending(None) = <<>>
           /\ batch \in Seq(Event) /\ out \in Seq(Event \cup {Gap})
           /\ recent \subseteq Event /\ uncovered \subseteq Event
           /\ published \in 0 .. MaxEvent /\ since \in 0 .. MaxEvent /\ base \in 0 .. MaxEvent
           /\ MaxEvent \in Nat /\ Limit \in Nat \ {0} /\ MaxAttempts \in Nat
           /\ None \notin Nat /\ None \notin Session
           /\ Event = 1 .. MaxEvent /\ Gap = 0
<1>1. link # None => /\ link \in Session /\ link.inbox \in Seq(Event)
                     /\ Pending(link) = link.inbox
                     /\ link.sub \in BOOLEAN /\ link.up \in BOOLEAN
  BY DEF TypeOK, Session, Pending
<1>2. fresh # None => /\ fresh \in Session /\ fresh.inbox \in Seq(Event)
                      /\ Pending(fresh) = fresh.inbox
                      /\ fresh.sub \in BOOLEAN /\ fresh.up \in BOOLEAN
  BY DEF TypeOK, Session, Pending
<1>3. Pending(None) = <<>> /\ <<>> \in Seq(Event)
  BY DEF Pending
<1>4. Pending(link) \in Seq(Event) /\ Pending(fresh) \in Seq(Event)
  BY <1>1, <1>2, <1>3
<1>5. /\ batch \in Seq(Event) /\ out \in Seq(Event \cup {Gap})
      /\ recent \subseteq Event /\ uncovered \subseteq Event
      /\ published \in 0 .. MaxEvent /\ since \in 0 .. MaxEvent /\ base \in 0 .. MaxEvent
  BY DEF TypeOK
<1>6. /\ MaxEvent \in Nat /\ Limit \in Nat \ {0} /\ MaxAttempts \in Nat
      /\ None \notin Nat /\ None \notin Session
      /\ Event = 1 .. MaxEvent /\ Gap = 0
  BY WatchAssumption, SessionAssumption DEF Event, Gap
<1>. QED  BY <1>1, <1>2, <1>3, <1>4, <1>5, <1>6

\* The invariant depends on what an idle step leaves alone.
Quiet ==
    UNCHANGED <<published, link, fresh, batch, pc, attempt, gap, established, seam,
                recent, emitted, out, base, outages, since, uncovered>>

\* So an idle step keeps the invariant.
LEMMA QuietStep == Inv /\ Quiet => (Control /\ Holes /\ Counts /\ Arrival /\ Copies /\ Seam /\ Losses)'
<1>. SUFFICES ASSUME Inv, Quiet
     PROVE (Control /\ Holes /\ Counts /\ Arrival /\ Copies /\ Seam /\ Losses)'
  OBVIOUS
<1>1. Control' /\ Holes'
  BY DEF Inv, Quiet, Control, Holes
<1>2. Counts'
  BY DEF Inv, Quiet, Counts, LimitCountsEvents, Markers
<1>3. Arrival'
  BY DEF Inv, Quiet, Arrival, Coming
<1>4. Copies' /\ Seam'
  BY DEF Inv, Quiet, Copies, Seam, Coming, Later, InOrder
<1>5. Losses'
  BY DEF Inv, Quiet, Losses, Coming, Later, Marked, Owed
<1>. QED  BY <1>1, <1>2, <1>3, <1>4, <1>5

\* The instance going down, Ctrl-C and a quiet poll are idle.
LEMMA QuietSteps ==
    ASSUME Inv, GoDown \/ Interrupt \/ DrainQuiet \/ UNCHANGED vars
    PROVE  Inv'
<1>1. Quiet
  BY DEF Quiet, GoDown, Interrupt, DrainQuiet, vars, env, output, history
<1>2. TypeOK'
  <2>t. TypeOK
    BY DEF Inv
  <2>f. down \in BOOLEAN /\ stop \in BOOLEAN /\ quiet \in Nat /\ polls \in Nat
        /\ quiet \in 0 .. QuietPolls /\ polls \in 0 .. DrainPolls
    BY <2>t, WatchAssumption DEF TypeOK
  <2>1. CASE GoDown \/ Interrupt \/ UNCHANGED vars
    <3>1. down' \in BOOLEAN /\ stop' \in BOOLEAN /\ UNCHANGED <<drops, quiet, polls>>
      BY <2>1, <2>f DEF GoDown, Interrupt, vars, env
    <3>. QED  BY <1>1, <2>t, <3>1 DEF TypeOK, Quiet
  <2>2. CASE DrainQuiet
    <3>1. UNCHANGED <<drops, down, stop>>
      BY <2>2 DEF DrainQuiet, env
    <3>2. /\ polls < DrainPolls /\ quiet + 1 < QuietPolls
          /\ quiet' = quiet + 1 /\ polls' = polls + 1
      BY <2>2 DEF DrainQuiet
    <3>3. quiet' \in 0 .. QuietPolls /\ polls' \in 0 .. DrainPolls
      BY <2>f, <3>2, WatchAssumption
    <3>. QED  BY <1>1, <2>t, <3>1, <3>3 DEF TypeOK, Quiet
  <2>. QED  BY <2>1, <2>2
<1>. QED  BY <1>1, <1>2, QuietStep DEF Inv
-----------------------------------------------------------------------------
\* Every way out of a session, but for one that prints a last event.

\* The decision of supervise: done, or one more attempt after a transport error.
LEMMA EndsDoes ==
    ASSUME TypeOK, NEW err, Ends(err)
    PROVE  \/ pc' = "done" /\ UNCHANGED <<attempt, outages>>
           \/ /\ err = "transport" /\ established
              /\ pc' = "backoff"
              /\ attempt' \in 1 .. MaxAttempts
              /\ outages' = IF pc \in Subscribed THEN outages + 1 ELSE outages
<1>1. attempt \in 0 .. MaxAttempts /\ MaxAttempts \in Nat
  BY WatchAssumption DEF TypeOK
<1>2. \A slow : AttemptsNext(slow) \in Nat \ {0}
  BY <1>1 DEF AttemptsNext
<1>3. CASE pc' = "done" /\ UNCHANGED <<attempt, outages>>
  BY <1>3
<1>4. CASE ~ (pc' = "done" /\ UNCHANGED <<attempt, outages>>)
  <2>1. Recoverable(err)
    BY <1>4 DEF Ends
  <2>2. \E slow : /\ ~ (AttemptsNext(slow) > MaxAttempts)
                  /\ pc' = "backoff" /\ attempt' = AttemptsNext(slow)
                  /\ outages' = IF pc \in Subscribed THEN outages + 1 ELSE outages
    BY <1>4 DEF Ends
  <2>. QED  BY <1>1, <1>2, <2>1, <2>2 DEF Recoverable
<1>. QED  BY <1>3, <1>4

Exit ==
    /\ link' = None /\ fresh' = None /\ batch' = <<>>
    /\ UNCHANGED <<published, established, output, base, since, uncovered>>
    /\ gap' = IF pc = "announce" THEN None ELSE gap
    /\ \/ pc' = "done" /\ UNCHANGED <<attempt, outages>>
       \/ /\ pc \in Connecting /\ established
          /\ pc' = "backoff" /\ attempt' \in 1 .. MaxAttempts
          /\ UNCHANGED outages
       \/ /\ AtPump /\ ~link.up /\ link.inbox = <<>>
          /\ pc' = "backoff" /\ attempt' \in 1 .. MaxAttempts
          /\ outages' = outages + 1

\* The steps that end a session.
Exiting ==
    \/ Connect /\ pc' # "subscribe"
    \/ Subscribe /\ pc' # "announce"
    \/ Announce /\ pc' # "pump"
    \/ PumpStop \/ IdleExpires \/ PumpError
    \/ DrainStop \/ DeliverFails

\* Each of these actions is such an exit.
LEMMA Exits ==
    ASSUME Inv, Exiting
    PROVE  Exit
<1>. USE DEF Disconnect, Connecting, Subscribed, env, output, history
<1>0. /\ TypeOK
      /\ batch # <<>> => pc \in {"pump", "drain"}
      /\ pc \in {"rsubscribe", "drain"} <=> fresh # None
      /\ gap # None => pc \notin {"pump", "drain"}
  BY DEF Inv, Control, Holes
<1>1. CASE Connect /\ pc' # "subscribe"
  BY <1>0, <1>1, EndsDoes DEF Connect, Exit
<1>2. CASE Subscribe /\ pc' # "announce"
  BY <1>0, <1>2, EndsDoes DEF Subscribe, Exit
<1>3. CASE Announce /\ pc' # "pump"
  BY <1>0, <1>3, EndsDoes DEF Announce, Exit
<1>4. CASE PumpStop \/ IdleExpires
  BY <1>0, <1>4, EndsDoes DEF PumpStop, IdleExpires, AtPump, Exit
<1>5. CASE PumpError
  BY <1>0, <1>5, EndsDoes DEF PumpError, AtPump, Exit
<1>6. CASE DrainStop
  BY <1>0, <1>6, EndsDoes DEF DrainStop, AtDrain, Handoff, Exit
<1>7. CASE DeliverFails
  BY <1>0, <1>7, EndsDoes DEF DeliverFails, AbandonBoth, Exit
<1>. QED  BY <1>1, <1>2, <1>3, <1>4, <1>5, <1>6, <1>7 DEF Exiting

\* An exit opens a gap or ends the watch, and strands nothing.
LEMMA ExitKeeps ==
    ASSUME Inv, Exiting
    PROVE  Inv'
<1>. USE DEF Connecting, Subscribed, output
<1>0. Exit
  BY Exits
<1>t. TypeOK /\ Control /\ Holes /\ Counts /\ Arrival /\ Copies /\ Seam /\ Losses
  BY DEF Inv
<1>p. /\ Pending(link)' = <<>> /\ Pending(fresh)' = <<>>
      /\ \A x : ~Coming(x)' /\ ~InSeq(x, Pending(fresh)')
  BY <1>0, EmptySeq DEF Exit, Pending, Coming
<1>1. TypeOK'
  <2>1. /\ stop' \in BOOLEAN /\ down' \in BOOLEAN /\ drops' \in 0 .. MaxDrop
        /\ quiet' \in 0 .. QuietPolls /\ polls' \in 0 .. DrainPolls
    BY <1>t DEF TypeOK, Exiting, Connect, Subscribe, Announce, PumpStop, IdleExpires,
                PumpError, DrainStop, DeliverFails, env
  <2>2. /\ link' = None /\ fresh' = None /\ batch' \in Seq(Event)
        /\ pc' \in {"backoff", "done"} /\ attempt' \in 0 .. MaxAttempts
        /\ gap' \in (1 .. MaxAttempts) \cup {None} /\ outages' \in Nat
    BY <1>0, <1>t, WatchAssumption DEF Exit, TypeOK
  <2>. QED  BY <1>0, <1>t, <2>1, <2>2 DEF Exit, TypeOK
<1>2. Control'
  <2>1. /\ link' = None /\ fresh' = None /\ batch' = <<>>
        /\ pc' \in {"backoff", "done"}
        /\ pc' = "backoff" => established' /\ attempt' # 0
    BY <1>0, <1>t DEF Exit, Control, AtPump
  <2>. QED  BY <2>1 DEF Control
<1>3. Holes'
  BY <1>0, <1>t DEF Exit, Holes
<1>c. pc # "done"
  BY DEF Exiting, Connect, Subscribe, Announce, PumpStop, IdleExpires, PumpError,
         DrainStop, DeliverFails, AtPump, AtDrain, Inv, Control
<1>4. Counts'
  <2>1. Markers' = Markers /\ Markers \in Nat
    BY <1>0, <1>t, CountMarkers, Types DEF Exit, Markers, MarkersOf
  <2>2. LimitCountsEvents'
    BY <1>0, <1>t, <1>c, <2>1 DEF Exit, Counts, LimitCountsEvents
  <2>. QED  BY <1>0, <1>t, <2>1, <2>2 DEF Exit, Counts, AtPump, Holes, TypeOK
<1>5. Arrival'
  BY <1>0, <1>t, <1>p, EmptySeq DEF Exit, Arrival
<1>6. Copies' /\ Seam'
  BY <1>0, <1>t, <1>p DEF Exit, Copies, Seam, InOrder
<1>7. Losses'
  <2>. SUFFICES ASSUME established, NEW n \in base + 1 .. published,
                       n \notin Unwanted \cup uncovered, ~InSeq(n, out), ~Marked(n)
       PROVE  Owed(n)'
    BY <1>0 DEF Exit, Losses, Marked
  <2>1. n \in Event
    BY <1>t, Types
  <2>2. Coming(n) \/ InSeq(n, Pending(fresh)) \/ Owed(n)
    BY <1>t DEF Losses
  <2>3. Later(n)
    <3>1. InSeq(n, Pending(fresh)) => pc = "drain"
      BY <1>t, EmptySeq, Types DEF Control, Pending
    <3>2. fresh # None => Pending(fresh) = fresh.inbox
      BY <1>t, Types
    <3>3. Coming(n) => Later(n)
      BY <1>t, <2>1 DEF Copies
    <3>4. CASE InSeq(n, Pending(fresh))
      BY <1>t, <2>1, <3>1, <3>2, <3>3, <3>4 DEF Seam, Control
    <3>. QED  BY <2>2, <3>3, <3>4 DEF Owed
  <2>. QED  BY <1>0, <2>3 DEF Exit, Owed, Later
<1>. QED  BY <1>1, <1>2, <1>3, <1>4, <1>5, <1>6, <1>7 DEF Inv

-----------------------------------------------------------------------------
\* Opening a session, the backoff and the marker.

\* A session that is opened has nothing to say yet.
LEMMA ConnectKeeps ==
    ASSUME Inv, Connect, pc' = "subscribe"
    PROVE  Inv'
<1>. USE DEF Connecting, Subscribed, output
<1>0. /\ pc = "connect" /\ link = None /\ link' = Opened /\ fresh' = None /\ batch' = <<>>
      /\ fresh = None /\ batch = <<>>
      /\ UNCHANGED <<published, attempt, gap, established, seam, recent, emitted, out,
                     base, outages, since, uncovered>>
  BY EndsDoes DEF Inv, Control, Connect, output, env
<1>t. TypeOK /\ Control /\ Holes /\ Counts /\ Arrival /\ Copies /\ Seam /\ Losses
  BY DEF Inv
<1>o. Opened \in Session /\ Opened # None /\ Opened.inbox = <<>> /\ ~Opened.sub
  <2>1. <<>> \in Seq(Event)
    OBVIOUS
  <2>2. Opened \in Session /\ Opened.inbox = <<>> /\ ~Opened.sub
    BY <2>1 DEF Opened, Session
  <2>. QED  BY <2>2, SessionAssumption
<1>p. /\ Pending(link)' = <<>> /\ Pending(fresh)' = <<>> /\ Pending(link) = <<>>
      /\ \A x : ~Coming(x)' /\ ~InSeq(x, Pending(fresh)') /\ ~InSeq(x, Pending(fresh))
                /\ ~Coming(x)
  BY <1>0, <1>o, EmptySeq DEF Pending, Coming
<1>1. TypeOK'
  BY <1>0, <1>o, <1>t DEF TypeOK, Connect, env
<1>2. Control' /\ Holes'
  BY <1>0, <1>o, <1>t DEF Control, Holes
<1>4. Counts'
  BY <1>0, <1>t DEF Counts, LimitCountsEvents, Markers
<1>5. Arrival'
  BY <1>0, <1>t, <1>p, EmptySeq DEF Arrival
<1>6. Copies' /\ Seam'
  BY <1>0, <1>t, <1>p DEF Copies, Seam, InOrder
<1>7. Losses'
  BY <1>0, <1>t, <1>p DEF Losses, Marked, Owed, Later
<1>. QED  BY <1>1, <1>2, <1>4, <1>5, <1>6, <1>7 DEF Inv

\* What was published before the subscription is behind the gap.
LEMMA SubscribeKeeps ==
    ASSUME Inv, Subscribe, pc' = "announce"
    PROVE  Inv'
<1>. USE DEF Connecting, Subscribed, output
<1>t. TypeOK /\ Control /\ Holes /\ Counts /\ Arrival /\ Copies /\ Seam /\ Losses
  BY DEF Inv
<1>0. /\ pc = "subscribe" /\ link # None /\ link' = [link EXCEPT !.sub = TRUE]
      /\ fresh' = None /\ fresh = None /\ batch' = <<>> /\ batch = <<>>
      /\ established' = TRUE /\ since' = published
      /\ base' = IF established THEN base ELSE published
      /\ UNCHANGED <<published, attempt, gap, seam, recent, emitted, out,
                     outages, uncovered>>
  <2>1. ~ \E err : Ends(err)
    BY <1>t, EndsDoes
  <2>. QED  BY <1>t, <2>1 DEF Control, Subscribe, env
<1>o. /\ link' \in Session /\ link' # None /\ link'.inbox = <<>> /\ link'.sub
      /\ link.inbox = <<>>
  <2>1. link \in Session /\ link.inbox = <<>>
    BY <1>0, <1>t, Types DEF Control
  <2>. QED  BY <1>0, <2>1, SessionAssumption DEF Session
<1>p. /\ Pending(link)' = <<>> /\ Pending(fresh)' = <<>>
      /\ \A x : ~Coming(x)' /\ ~InSeq(x, Pending(fresh)') /\ ~InSeq(x, Pending(fresh))
                /\ ~Coming(x)
  BY <1>0, <1>o, EmptySeq DEF Pending, Coming
<1>1. TypeOK'
  BY <1>0, <1>o, <1>t DEF TypeOK, Subscribe, env
<1>2. Control' /\ Holes'
  BY <1>0, <1>o, <1>t DEF Control, Holes, TypeOK
<1>4. Counts'
  BY <1>0, <1>t DEF Counts, LimitCountsEvents, Markers
<1>5. Arrival'
  BY <1>0, <1>t, <1>p, EmptySeq DEF Arrival
<1>6. Copies' /\ Seam'
  BY <1>0, <1>t, <1>p DEF Copies, Seam, InOrder
<1>7. Losses'
  <2>. SUFFICES ASSUME established, NEW n \in base + 1 .. published
       PROVE  \/ n \in Unwanted \cup uncovered \/ InSeq(n, out)
              \/ Marked(n)' \/ Owed(n)'
    BY <1>0, <1>t DEF Losses, TypeOK
  <2>1. Marked(n) => Marked(n)'
    BY <1>0 DEF Marked
  <2>2. Owed(n) => Owed(n)'
    BY <1>0, <1>t DEF Owed, Later, Holes
  <2>. QED  BY <1>t, <1>p, <2>1, <2>2 DEF Losses
<1>. QED  BY <1>1, <1>2, <1>4, <1>5, <1>6, <1>7 DEF Inv

\* A backoff leaves a gap for the next marker, or ends the watch.
LEMMA BackoffKeeps ==
    ASSUME Inv, Backoff
    PROVE  Inv'
<1>. USE DEF Connecting, Subscribed, output
<1>t. TypeOK /\ Control /\ Holes /\ Counts /\ Arrival /\ Copies /\ Seam /\ Losses
  BY DEF Inv
<1>0. /\ pc = "backoff" /\ established /\ link = None /\ fresh = None /\ batch = <<>>
      /\ \/ pc' = "done" /\ UNCHANGED gap
         \/ pc' = "connect" /\ gap' = attempt /\ gap' \in 1 .. MaxAttempts /\ gap' # None
      /\ UNCHANGED <<published, link, fresh, batch, attempt, established, seam, recent,
                     emitted, out, base, outages, since, uncovered>>
  BY <1>t, WatchAssumption DEF Backoff, Control, TypeOK, env, history
<1>1. TypeOK'
  BY <1>0, <1>t DEF TypeOK, Backoff, env
<1>2. Control' /\ Holes'
  BY <1>0, <1>t DEF Control, Holes
<1>4. Counts'
  <2>1. Markers' = Markers /\ Markers \in Nat
    BY <1>0, <1>t, CountMarkers, Types DEF Markers, MarkersOf
  <2>. QED  BY <1>0, <1>t, <2>1 DEF Counts, LimitCountsEvents, TypeOK
<1>5. Arrival'
  BY <1>0, <1>t DEF Arrival, Coming
<1>6. Copies' /\ Seam'
  <2>1. \A x : ~Coming(x)'
    BY <1>0, EmptySeq DEF Coming, Pending
  <2>. QED  BY <1>0, <1>t, <2>1 DEF Copies, Seam, InOrder
<1>7. Losses'
  BY <1>0, <1>t DEF Losses, Coming, Marked, Owed, Later
<1>. QED  BY <1>1, <1>2, <1>4, <1>5, <1>6, <1>7 DEF Inv

\* The marker is printed before the first event of the session.
LEMMA AnnounceKeeps ==
    ASSUME Inv, Announce, pc' = "pump"
    PROVE  Inv'
<1>. USE DEF Connecting, Subscribed, output
<1>t. TypeOK /\ Control /\ Holes /\ Counts /\ Arrival /\ Copies /\ Seam /\ Losses
  BY DEF Inv
<1>0. /\ pc = "announce" /\ link # None /\ fresh = None /\ batch = <<>>
      /\ gap' = None /\ out' = IF gap = None THEN out ELSE Append(out, Gap)
      /\ UNCHANGED <<published, link, fresh, batch, attempt, established, seam, recent,
                     emitted, base, outages, since, uncovered>>
  <2>1. ~ \E err : Ends(err)
    BY <1>t, EndsDoes
  <2>. QED  BY <1>t, <2>1 DEF Announce, Control, env
<1>a. /\ out' \in Seq(Event \cup {Gap})
      /\ \A x \in Event : InSeq(x, out') <=> InSeq(x, out)
      /\ \A j \in DOMAIN out' : (j \in DOMAIN out /\ out'[j] = out[j]) \/ out'[j] = 0
      /\ \A j \in DOMAIN out : j \in DOMAIN out' /\ out'[j] = out[j]
      /\ gap # None => DOMAIN out' = 1 .. Len(out) + 1 /\ out'[Len(out) + 1] = Gap
      /\ DOMAIN out = 1 .. Len(out) /\ Len(out) \in Nat
  <2>1. out \in Seq(Event \cup {Gap}) /\ Event = 1 .. MaxEvent /\ Gap = 0 /\ MaxEvent \in Nat
    BY <1>t, Types
  <2>2. CASE gap = None
    BY <1>0, <2>1, <2>2
  <2>3. CASE gap # None
    <3>1. Gap \in Event \cup {Gap} /\ out' = Append(out, Gap)
      BY <1>0, <2>3
    <3>2. /\ out' \in Seq(Event \cup {Gap})
          /\ \A i \in DOMAIN out : out'[i] = out[i]
          /\ out'[Len(out) + 1] = Gap
          /\ DOMAIN out' = 1 .. Len(out) + 1 /\ DOMAIN out = 1 .. Len(out)
          /\ Len(out) \in Nat
          /\ \A x : InSeq(x, out') <=> x = Gap \/ InSeq(x, out)
      BY <2>1, <3>1, Appended
    <3>3. \A j \in 1 .. Len(out) + 1 : j \in 1 .. Len(out) \/ j = Len(out) + 1
      BY <3>2
    <3>. QED  BY <2>1, <3>2, <3>3
  <2>. QED  BY <2>2, <2>3
<1>b. \A n \in Event : Later(n) => Later(n)'
  <2>1. \A n \in Event : 0 < n
    BY <1>t, Types
  <2>. QED  BY <1>a, <2>1 DEF Later
<1>1. TypeOK'
  BY <1>0, <1>a, <1>t DEF TypeOK, Announce, env
<1>2. Control' /\ Holes'
  BY <1>0, <1>t DEF Control, Holes
<1>4. Counts'
  <2>1. /\ Markers \in Nat
        /\ Markers' = IF gap = None THEN Markers ELSE Markers + 1
    BY <1>0, <1>t, CountMarkers, Types DEF Markers, MarkersOf
  <2>2. Len(out') = IF gap = None THEN Len(out) ELSE Len(out) + 1
    BY <1>0, <1>t, Types, Appended
  <2>3. emitted # Limit /\ Gap \notin Unwanted
    BY <1>0, <1>t, Types, WatchAssumption DEF Counts, LimitCountsEvents
  <2>4. \A i \in DOMAIN out' : out'[i] \notin Unwanted
    BY <1>a, <1>t, <2>3 DEF Counts, LimitCountsEvents, Gap
  <2>5. LimitCountsEvents'
    BY <1>0, <1>a, <1>t, <2>1, <2>2, <2>3, <2>4 DEF Counts, LimitCountsEvents, TypeOK
  <2>. QED  BY <1>0, <1>t, <2>1, <2>5 DEF Counts, TypeOK
<1>5. Arrival'
  BY <1>0, <1>a, <1>t, Types DEF Arrival, Coming
<1>6. Copies' /\ Seam'
  <2>1. InOrder'
    BY <1>a, <1>t DEF Copies, InOrder, Gap
  <2>2. \A x : Coming(x)' = Coming(x)
    BY <1>0 DEF Coming
  <2>. QED  BY <1>0, <1>a, <1>b, <1>t, <2>1, <2>2 DEF Copies, Seam, TypeOK
<1>7. Losses'
  <2>. SUFFICES ASSUME NEW n \in base + 1 .. published, established
       PROVE  (\/ n \in Unwanted \cup uncovered \/ InSeq(n, out)
               \/ Coming(n) \/ InSeq(n, Pending(fresh))
               \/ Marked(n) \/ Owed(n))'
    BY <1>0 DEF Losses
  <2>1. n \in Event /\ n > 0
    BY <1>t, Types
  <2>2. \A x : Coming(x)' = Coming(x)
    BY <1>0 DEF Coming
  <2>3. Marked(n) => Marked(n)'
    BY <1>a DEF Marked
  <2>4. Owed(n) => Marked(n)' \/ Owed(n)'
    <3>1. CASE gap = None
      BY <1>0, <1>b, <2>1, <2>2, <3>1 DEF Owed
    <3>2. CASE gap # None
      <4>1. Later(n) => Marked(n)'
        BY <1>a, <3>2 DEF Later, Marked
      <4>. QED  BY <4>1 DEF Owed
    <3>. QED  BY <3>1, <3>2
  <2>. QED  BY <1>0, <1>a, <1>t, <2>1, <2>2, <2>3, <2>4 DEF Losses
<1>. QED  BY <1>1, <1>2, <1>4, <1>5, <1>6, <1>7 DEF Inv

-----------------------------------------------------------------------------
\* A poll, and the steps of a rotation.

\* A poll moves the head of the inbox into the batch.
LEMMA PollKeeps ==
    ASSUME Inv, PumpPoll \/ DrainPoll
    PROVE  Inv'
<1>. USE DEF Connecting, Subscribed, output
<1>t. TypeOK /\ Control /\ Holes /\ Counts /\ Arrival /\ Copies /\ Seam /\ Losses
  BY DEF Inv
<1>0. /\ pc \in {"pump", "drain"} /\ batch = <<>> /\ Poll
      /\ link # None /\ link \in Session /\ link.inbox \in Seq(Event)
      /\ UNCHANGED <<published, fresh, pc, attempt, gap, established, seam, recent,
                     emitted, out, base, outages, since, uncovered>>
  BY <1>t, Types DEF Control, PumpPoll, DrainPoll, AtPump, AtDrain, env, history
<1>a. PICK n \in 1 .. Len(link.inbox) :
          /\ batch' = SubSeq(link.inbox, 1, n)
          /\ link' = [link EXCEPT !.inbox = SubSeq(@, n + 1, Len(@))]
  BY <1>0 DEF Poll
<1>b. /\ link' = [sub |-> link.sub, up |-> link.up,
                  inbox |-> SubSeq(link.inbox, n + 1, Len(link.inbox))]
      /\ link.sub \in BOOLEAN /\ link.up \in BOOLEAN
  BY <1>0, <1>a DEF Session
<1>i. /\ link'.inbox = SubSeq(link.inbox, n + 1, Len(link.inbox))
      /\ link'.sub = link.sub /\ link'.up = link.up
  BY <1>b
<1>c. Increasing(link.inbox) /\ Pending(link) = link.inbox
  BY <1>0, <1>t DEF Arrival, Pending
<1>d. /\ batch' \in Seq(Event) /\ link'.inbox \in Seq(Event)
      /\ Increasing(batch') /\ Increasing(link'.inbox)
      /\ \A x : InSeq(x, link.inbox) <=> InSeq(x, batch') \/ InSeq(x, link'.inbox)
      /\ \A x, y \in Event : InSeq(x, batch') /\ InSeq(y, link'.inbox) => x < y
  <2>. DEFINE a == SubSeq(link.inbox, 1, n)
              b == SubSeq(link.inbox, n + 1, Len(link.inbox))
  <2>1. /\ a \in Seq(Event) /\ b \in Seq(Event)
        /\ Increasing(a) /\ Increasing(b)
        /\ \A x : InSeq(x, link.inbox) <=> InSeq(x, a) \/ InSeq(x, b)
        /\ \A x, y \in Event : InSeq(x, a) /\ InSeq(y, b) => x < y
    BY <1>0, <1>c, Split
  <2>2. batch' = a /\ link'.inbox = b
    BY <1>a, <1>i
  <2>. HIDE DEF a, b
  <2>. QED  BY <2>1, <2>2
<1>e. link' \in Session /\ link' # None /\ link'.sub = link.sub /\ link'.up = link.up
  <2>1. SubSeq(link.inbox, n + 1, Len(link.inbox)) \in Seq(Event)
    BY <1>d, <1>i
  <2>2. link' \in Session
    BY <1>b, <2>1 DEF Session
  <2>. QED  BY <1>i, <2>2, SessionAssumption
<1>p. /\ Pending(link)' = link'.inbox /\ Pending(fresh)' = Pending(fresh)
      /\ \A x : Coming(x)' <=> Coming(x)
  BY <1>0, <1>c, <1>d, <1>e, EmptySeq DEF Pending, Coming
<1>1. TypeOK'
  <2>1. /\ stop' \in BOOLEAN /\ down' \in BOOLEAN /\ drops' \in 0 .. MaxDrop
        /\ quiet' \in 0 .. QuietPolls /\ polls' \in 0 .. DrainPolls
    <3>1. stop' = stop /\ down' = down /\ drops' = drops
      BY DEF PumpPoll, DrainPoll, env
    <3>2. quiet' \in 0 .. QuietPolls
      BY <1>t, WatchAssumption DEF TypeOK, PumpPoll, DrainPoll
    <3>3. polls' \in 0 .. DrainPolls
      BY <1>t, WatchAssumption DEF TypeOK, PumpPoll, DrainPoll
    <3>. QED  BY <1>t, <3>1, <3>2, <3>3 DEF TypeOK
  <2>. QED  BY <1>0, <1>d, <1>e, <1>t, <2>1 DEF TypeOK
<1>2. Control' /\ Holes'
  BY <1>0, <1>e, <1>t DEF Control, Holes
<1>4. Counts'
  BY <1>0, <1>t DEF Counts, LimitCountsEvents, Markers
<1>5. Arrival'
  BY <1>0, <1>d, <1>p, <1>t DEF Arrival
<1>6. Copies' /\ Seam'
  BY <1>0, <1>e, <1>p, <1>t DEF Copies, Seam, InOrder, Later
<1>7. Losses'
  BY <1>0, <1>e, <1>p, <1>t DEF Losses, Marked, Owed, Later
<1>. QED  BY <1>1, <1>2, <1>4, <1>5, <1>6, <1>7 DEF Inv

\* A rotation begins.
LEMMA RotateKeeps ==
    ASSUME Inv, PumpRotate
    PROVE  Inv'
<1>. USE DEF Connecting, Subscribed, output
<1>t. TypeOK /\ Control /\ Holes /\ Counts /\ Arrival /\ Copies /\ Seam /\ Losses
  BY DEF Inv
<1>0. /\ pc = "pump" /\ batch = <<>> /\ Settled /\ pc' = "rconnect"
      /\ UNCHANGED <<published, link, fresh, batch, attempt, gap, established, seam,
                     recent, emitted, out, base, outages, since, uncovered>>
  BY DEF PumpRotate, AtPump, env, history
<1>p. \A x : Coming(x)' = Coming(x)
  BY <1>0 DEF Coming
<1>1. TypeOK'
  BY <1>0, <1>t DEF TypeOK, PumpRotate, env
<1>2. Control' /\ Holes' /\ Counts'
  BY <1>0, <1>t DEF Control, Holes, Counts, LimitCountsEvents, Markers
<1>5. Arrival'
  BY <1>0, <1>p, <1>t DEF Arrival
<1>6. Copies' /\ Seam'
  <2>1. \A x \in recent : ~Coming(x)
    BY <1>0 DEF Settled, Coming
  <2>. QED  BY <1>0, <1>p, <1>t, <2>1 DEF Copies, Seam, InOrder, Later
<1>7. Losses'
  BY <1>0, <1>p, <1>t DEF Losses, Marked, Owed, Later
<1>. QED  BY <1>1, <1>2, <1>5, <1>6, <1>7 DEF Inv

\* The replacement is connected and subscribed, or given up.
LEMMA ReplaceKeeps ==
    ASSUME Inv, ReplacementConnect \/ ReplacementSubscribe
    PROVE  Inv'
<1>. USE DEF Connecting, Subscribed, output
<1>t. TypeOK /\ Control /\ Holes /\ Counts /\ Arrival /\ Copies /\ Seam /\ Losses
  BY DEF Inv
<1>o. /\ Opened \in Session /\ Opened # None /\ Opened.inbox = <<>> /\ ~Opened.sub
      /\ <<>> \in Seq(Event)
  <2>1. <<>> \in Seq(Event)
    OBVIOUS
  <2>2. Opened \in Session /\ Opened.inbox = <<>> /\ ~Opened.sub
    BY <2>1 DEF Opened, Session
  <2>. QED  BY <2>1, <2>2, SessionAssumption
<1>0. /\ pc \in {"rconnect", "rsubscribe"} /\ batch = <<>> /\ link # None
      /\ UNCHANGED <<published, link, batch, attempt, gap, established,
                     emitted, out, base, outages, since, uncovered>>
  BY <1>t DEF Control, ReplacementConnect, ReplacementSubscribe, env, history
<1>f. fresh = None \/ (fresh \in Session /\ ~fresh.sub /\ fresh.inbox = <<>>)
  <2>1. fresh # None => pc = "rsubscribe" /\ fresh \in Session
    BY <1>0, <1>t, Types DEF Control
  <2>. QED  BY <1>t, <2>1 DEF Control
<1>a. \/ pc' = "pump" /\ fresh' = None /\ UNCHANGED <<seam, recent>>
      \/ /\ pc' = "rsubscribe" /\ UNCHANGED <<seam, recent>>
         /\ fresh' \in Session /\ fresh' # None /\ fresh'.inbox = <<>> /\ ~fresh'.sub
      \/ /\ pc' = "drain" /\ seam' = TRUE /\ recent' = {}
         /\ fresh' \in Session /\ fresh' # None /\ fresh'.inbox = <<>> /\ fresh'.sub
  <2>1. CASE ReplacementConnect
    BY <1>o, <1>t, <2>1 DEF ReplacementConnect, Control
  <2>2. CASE ReplacementSubscribe /\ pc' = "pump"
    BY <2>2 DEF ReplacementSubscribe
  <2>3. CASE ReplacementSubscribe /\ pc' # "pump"
    <3>1. fresh # None /\ fresh \in Session /\ fresh.inbox = <<>>
      BY <1>f, <1>t, <2>3 DEF ReplacementSubscribe, Control
    <3>2. fresh' = [fresh EXCEPT !.sub = TRUE] /\ seam' = TRUE /\ recent' = {}
          /\ pc' = "drain"
      BY <2>3 DEF ReplacementSubscribe
    <3>3. fresh' \in Session /\ fresh'.inbox = <<>> /\ fresh'.sub
      BY <3>1, <3>2 DEF Session
    <3>. QED  BY <3>2, <3>3, SessionAssumption
  <2>. QED  BY <2>1, <2>2, <2>3
<1>p. /\ \A x : Coming(x)' = Coming(x)
      /\ Pending(fresh)' = <<>>
      /\ \A x : ~InSeq(x, Pending(fresh)) /\ ~InSeq(x, Pending(fresh)')
  <2>1. \A x : Coming(x)' = Coming(x)
    BY <1>0 DEF Coming
  <2>2. Pending(fresh)' = <<>> /\ Pending(fresh) = <<>>
    BY <1>a, <1>f DEF Pending
  <2>. QED  BY <2>1, <2>2, EmptySeq
<1>1. TypeOK'
  <2>1. /\ stop' \in BOOLEAN /\ down' \in BOOLEAN /\ drops' \in 0 .. MaxDrop
        /\ quiet' \in 0 .. QuietPolls /\ polls' \in 0 .. DrainPolls
    <3>1. UNCHANGED <<stop, down, drops>>
      BY DEF ReplacementConnect, ReplacementSubscribe, env
    <3>2. UNCHANGED <<quiet, polls>> \/ (quiet' = 0 /\ polls' = 0)
      BY DEF ReplacementConnect, ReplacementSubscribe
    <3>3. 0 \in 0 .. QuietPolls /\ 0 \in 0 .. DrainPolls
      BY WatchAssumption
    <3>. QED  BY <1>t, <3>1, <3>2, <3>3 DEF TypeOK
  <2>. QED  BY <1>0, <1>a, <1>t, <2>1 DEF TypeOK
<1>2. Control' /\ Holes'
  BY <1>0, <1>a, <1>t DEF Control, Holes
<1>4. Counts'
  BY <1>0, <1>a, <1>t DEF Counts, LimitCountsEvents, Markers
<1>5. Arrival'
  BY <1>0, <1>p, <1>t, EmptySeq DEF Arrival
<1>6. Copies' /\ Seam'
  <2>1. \A x \in Event \ Unkeyed : ~ (Coming(x) /\ InSeq(x, out))
    BY <1>0, <1>t DEF Copies
  <2>2. Copies'
    BY <1>0, <1>a, <1>p, <1>t, <2>1 DEF Copies, InOrder, Later
  <2>3. Seam'
    BY <1>a, EmptySeq DEF Seam
  <2>. QED  BY <2>2, <2>3
<1>7. Losses'
  BY <1>0, <1>a, <1>p, <1>t DEF Losses, Marked, Owed, Later
<1>. QED  BY <1>1, <1>2, <1>4, <1>5, <1>6, <1>7 DEF Inv

\* The seam expires only once its second copies are read.
LEMMA SeamExpiresKeeps ==
    ASSUME Inv, SeamExpires
    PROVE  Inv'
<1>. USE DEF Connecting, Subscribed
<1>t. TypeOK /\ Control /\ Holes /\ Counts /\ Arrival /\ Copies /\ Seam /\ Losses
  BY DEF Inv
<1>0. /\ pc # "drain" /\ Settled /\ recent' = {} /\ seam' = FALSE
      /\ UNCHANGED <<published, link, fresh, batch, pc, attempt, gap, established,
                     emitted, out, base, outages, since, uncovered>>
  BY DEF SeamExpires, env, history
<1>p. \A x : Coming(x)' = Coming(x)
  BY <1>0 DEF Coming
<1>1. TypeOK'
  BY <1>0, <1>t DEF TypeOK, SeamExpires, env
<1>2. Control' /\ Holes' /\ Counts'
  BY <1>0, <1>t DEF Control, Holes, Counts, LimitCountsEvents, Markers
<1>5. Arrival'
  BY <1>0, <1>p, <1>t DEF Arrival
<1>6. Copies' /\ Seam'
  <2>1. \A x \in recent : ~Coming(x)
    BY <1>0 DEF Settled, Coming
  <2>. QED  BY <1>0, <1>p, <1>t, <2>1 DEF Copies, Seam, InOrder, Later
<1>7. Losses'
  BY <1>0, <1>p, <1>t DEF Losses, Marked, Owed, Later
<1>. QED  BY <1>1, <1>2, <1>5, <1>6, <1>7 DEF Inv

\* The handoff: what the old session had that the new one has not is in
\* uncovered, or was printed.
LEMMA DrainEndsKeeps ==
    ASSUME Inv, DrainEnds
    PROVE  Inv'
<1>. USE DEF Connecting, Subscribed, output
<1>t. TypeOK /\ Control /\ Holes /\ Counts /\ Arrival /\ Copies /\ Seam /\ Losses
  BY DEF Inv
<1>0. /\ pc = "drain" /\ pc' = "pump" /\ batch = <<>> /\ batch' = <<>>
      /\ fresh' = None /\ link' = fresh
      /\ uncovered' = uncovered \cup
             {e \in (since + 1 .. published) \ Unwanted :
                  ~InSeq(e, out) /\ ~InSeq(e, fresh.inbox)}
      /\ UNCHANGED <<published, attempt, gap, established, seam, recent, emitted, out,
                     base, outages, since>>
  BY DEF DrainEnds, AtDrain, Handoff, env
<1>a. /\ fresh # None /\ fresh \in Session /\ fresh.sub /\ Pending(fresh) = fresh.inbox
      /\ link # None /\ seam
  BY <1>0, <1>t, Types DEF Control
<1>p. /\ Pending(link)' = fresh.inbox /\ Pending(fresh)' = <<>>
      /\ \A x : Coming(x)' <=> InSeq(x, fresh.inbox)
      /\ \A x : ~InSeq(x, Pending(fresh)')
  BY <1>0, <1>a, EmptySeq DEF Pending, Coming
<1>1. TypeOK'
  <2>1. uncovered' \subseteq Event
    BY <1>0, <1>t, Types
  <2>. QED  BY <1>0, <1>a, <1>t, <2>1 DEF TypeOK, DrainEnds, env
<1>2. Control' /\ Holes'
  BY <1>0, <1>a, <1>t DEF Control, Holes
<1>4. Counts'
  BY <1>0, <1>t DEF Counts, LimitCountsEvents, Markers
<1>5. Arrival'
  BY <1>0, <1>a, <1>p, <1>t, EmptySeq DEF Arrival
<1>6. Copies' /\ Seam'
  <2>1. \A x \in Event \ Unwanted : InSeq(x, fresh.inbox) => InSeq(x, out) \/ Later(x)
    BY <1>0, <1>t DEF Seam, Copies
  <2>2. \A x \in Event \ Unkeyed : InSeq(x, fresh.inbox) /\ InSeq(x, out) => x \in recent
    BY <1>0, <1>t DEF Seam
  <2>3. Copies'
    BY <1>0, <1>a, <1>p, <1>t, <2>1, <2>2 DEF Copies, InOrder, Later
  <2>. QED  BY <1>0, <2>3 DEF Seam
<1>7. Losses'
  <2>. SUFFICES ASSUME established, NEW n \in base + 1 .. published,
                       n \notin Unwanted \cup uncovered', ~InSeq(n, out),
                       ~InSeq(n, fresh.inbox)
       PROVE  Marked(n)
    BY <1>0, <1>p DEF Losses, Marked
  <2>1. n \in Event /\ n \in Nat /\ since \in Nat /\ published \in Nat
    BY <1>t, Types
  <2>2. ~ (since < n)
    BY <1>0, <2>1
  <2>3. ~Coming(n) /\ ~Owed(n)
    BY <1>0, <1>t, <2>1, <2>2 DEF Arrival, Owed
  <2>. QED  BY <1>0, <1>a, <1>t, <2>3 DEF Losses
<1>. QED  BY <1>1, <1>2, <1>4, <1>5, <1>6, <1>7 DEF Inv
-----------------------------------------------------------------------------
\* deliver.

\* The head of the batch is the oldest of what is to come.
LEMMA HeadOfBatch ==
    ASSUME Inv, batch # <<>>
    PROVE  /\ pc \in {"pump", "drain"} /\ link # None
           /\ Head(batch) \in Event /\ Tail(batch) \in Seq(Event)
           /\ Increasing(Tail(batch)) /\ Coming(Head(batch))
           /\ \A x : InSeq(x, batch) <=> x = Head(batch) \/ InSeq(x, Tail(batch))
           /\ \A x \in Event : InSeq(x, Tail(batch)) \/ InSeq(x, Pending(link)) =>
                  Head(batch) < x
<1>1. batch \in Seq(Event) /\ Increasing(batch) /\ pc \in {"pump", "drain"}
      /\ (pc \in {"connect", "backoff", "done"} <=> link = None)
  BY Types DEF Inv, Control, Arrival
<1>2. /\ Head(batch) \in Event /\ Tail(batch) \in Seq(Event)
      /\ Increasing(Tail(batch))
      /\ \A x : InSeq(x, batch) <=> x = Head(batch) \/ InSeq(x, Tail(batch))
      /\ \A x \in Event : InSeq(x, Tail(batch)) => Head(batch) < x
  BY <1>1, HeadAndTail
<1>3. \A x \in Event : InSeq(x, Pending(link)) => Head(batch) < x
  BY <1>2 DEF Inv, Arrival
<1>. QED  BY <1>1, <1>2, <1>3 DEF Coming

\* An event the filter drops is not owed.
LEMMA SkipKeeps ==
    ASSUME Inv, DeliverSkip
    PROVE  Inv'
<1>. USE DEF Connecting, Subscribed, output
<1>. DEFINE e == Head(batch)
<1>t. TypeOK /\ Control /\ Holes /\ Counts /\ Arrival /\ Copies /\ Seam /\ Losses
  BY DEF Inv
<1>0. /\ batch # <<>> /\ ~Accepts(e) /\ batch' = Tail(batch)
      /\ UNCHANGED <<published, link, fresh, pc, attempt, gap, established, seam,
                     recent, emitted, out, base, outages, since, uncovered>>
  BY DEF DeliverSkip, env, history
<1>h. /\ pc \in {"pump", "drain"} /\ e \in Event /\ batch' \in Seq(Event)
      /\ Increasing(batch')
      /\ \A x : InSeq(x, batch) <=> x = e \/ InSeq(x, batch')
  BY <1>0, HeadOfBatch
<1>. HIDE DEF e
<1>p. /\ \A x : Coming(x) <=> x = e \/ Coming(x)'
      /\ e \in Unwanted \/ InSeq(e, out)
  <2>1. Coming(e)
    BY <1>h DEF Coming
  <2>2. \A x : Coming(x)' => Coming(x)
    BY <1>0, <1>h DEF Coming
  <2>3. \A x : Coming(x) => x = e \/ Coming(x)'
    BY <1>0, <1>h DEF Coming
  <2>. QED  BY <1>0, <1>t, <2>1, <2>2, <2>3 DEF Accepts, Copies
<1>1. TypeOK'
  BY <1>0, <1>h, <1>t DEF TypeOK, DeliverSkip, env
<1>2. Control' /\ Holes'
  BY <1>0, <1>h, <1>t DEF Control, Holes
<1>4. Counts'
  BY <1>0, <1>t DEF Counts, LimitCountsEvents, Markers
<1>5. Arrival'
  BY <1>0, <1>h, <1>p, <1>t DEF Arrival
<1>6. Copies' /\ Seam'
  <2>1. Copies'
    BY <1>0, <1>p, <1>t DEF Copies, InOrder, Later
  <2>2. Seam'
    BY <1>0, <1>p, <1>t DEF Seam, Later
  <2>. QED  BY <2>1, <2>2
<1>7. Losses'
  BY <1>0, <1>p, <1>t DEF Losses, Marked, Owed, Later
<1>. QED  BY <1>1, <1>2, <1>4, <1>5, <1>6, <1>7 DEF Inv

\* An event goes out: it is newer than what was printed, or has no identity.
LEMMA EventPrints ==
    ASSUME Inv, DeliverEvent, NEW e, e = Head(batch)
    PROVE  /\ pc \in {"pump", "drain"} /\ e \in Event /\ Coming(e) /\ e \notin Unwanted
           /\ out' \in Seq(Event \cup {Gap}) /\ out' = Append(out, e)
           /\ \A x : InSeq(x, out') <=> x = e \/ InSeq(x, out)
           /\ \A j \in DOMAIN out' : (j \in DOMAIN out /\ out'[j] = out[j]) \/ out'[j] = e
           /\ \A j \in DOMAIN out : j \in DOMAIN out' /\ out'[j] = out[j]
           /\ \A x \in Event : Coming(x) => x = e \/ e < x
           /\ InOrder'
           /\ emitted' = emitted + 1 /\ emitted' \in 0 .. Limit
           /\ Markers' = Markers /\ Markers \in Nat
           /\ emitted' = Len(out') - Markers'
           /\ \A i \in DOMAIN out' : out'[i] \notin Unwanted
           /\ \A x \in Event : Later(x) /\ e < x => Later(x)'
           /\ \A n \in Nat : Marked(n) => Marked(n)'
           /\ recent' = IF seam THEN recent \cup ({e} \ Unkeyed) ELSE recent
<1>t. TypeOK /\ Control /\ Holes /\ Counts /\ Arrival /\ Copies /\ Seam /\ Losses
  BY DEF Inv
<1>0. /\ batch # <<>> /\ Accepts(e) /\ out' = Append(out, e) /\ emitted' = emitted + 1
      /\ recent' = IF seam THEN recent \cup ({e} \ Unkeyed) ELSE recent
  BY DEF DeliverEvent, Emit
<1>h. /\ pc \in {"pump", "drain"} /\ e \in Event /\ Coming(e)
      /\ \A x \in Event : Coming(x) => x = e \/ e < x
  <2>1. /\ pc \in {"pump", "drain"} /\ e \in Event /\ Coming(e)
        /\ \A x : InSeq(x, batch) <=> x = e \/ InSeq(x, Tail(batch))
        /\ \A x \in Event : InSeq(x, Tail(batch)) \/ InSeq(x, Pending(link)) => e < x
    BY <1>0, HeadOfBatch
  <2>. QED  BY <2>1 DEF Coming
<1>a. /\ out \in Seq(Event \cup {Gap})
      /\ out' \in Seq(Event \cup {Gap}) /\ Len(out') = Len(out) + 1
      /\ \A i \in DOMAIN out : out'[i] = out[i]
      /\ out'[Len(out) + 1] = e
      /\ DOMAIN out' = 1 .. Len(out) + 1 /\ DOMAIN out = 1 .. Len(out)
      /\ Len(out) \in Nat
      /\ \A x : InSeq(x, out') <=> x = e \/ InSeq(x, out)
  <2>1. out \in Seq(Event \cup {Gap}) /\ e \in Event \cup {Gap}
    BY <1>h, <1>t, Types
  <2>. QED  BY <1>0, <2>1, Appended
<1>b. /\ \A j \in DOMAIN out' : j \in DOMAIN out \/ j = Len(out) + 1
      /\ \A j \in DOMAIN out : j \in DOMAIN out'
  BY <1>a
<1>c. e \notin Unwanted /\ (e \notin Unkeyed => Later(e))
  <2>1. e \notin Unwanted /\ ~(seam /\ e \in recent)
    BY <1>0 DEF Accepts
  <2>. QED  BY <1>h, <1>t, <2>1 DEF Copies
<1>1. InOrder'
  <2>. SUFFICES ASSUME NEW i \in DOMAIN out', NEW j \in DOMAIN out', i < j,
                       out'[i] \notin Unkeyed \cup {Gap}, out'[j] \notin Unkeyed \cup {Gap}
       PROVE  out'[i] < out'[j]
    BY DEF InOrder
  <2>1. i \in DOMAIN out
    BY <1>a
  <2>2. CASE j \in DOMAIN out
    BY <1>a, <1>t, <2>1, <2>2 DEF Copies, InOrder
  <2>3. CASE j = Len(out) + 1
    BY <1>a, <1>c, <2>1, <2>3 DEF Later
  <2>. QED  BY <1>b, <2>2, <2>3
<1>2. /\ emitted' \in 0 .. Limit
      /\ Markers' = Markers /\ Markers \in Nat
      /\ emitted' = Len(out') - Markers'
  <2>1. Markers' = Markers /\ Markers \in Nat
    <3>1. e \in Event \cup {Gap} /\ e # Gap
      BY <1>h, <1>t, Types
    <3>. QED  BY <1>0, <1>a, <3>1, CountMarkers DEF Markers, MarkersOf
  <2>2. emitted \in 0 .. Limit /\ emitted # Limit /\ Limit \in Nat
    BY <1>h, <1>t, Types DEF Counts, LimitCountsEvents, TypeOK
  <2>3. emitted = Len(out) - Markers
    BY <1>t DEF Counts, LimitCountsEvents
  <2>4. emitted' = emitted + 1 /\ Len(out') = Len(out) + 1 /\ Len(out) \in Nat
    BY <1>0, <1>a
  <2>5. emitted' \in 0 .. Limit
    BY <2>2, <2>4
  <2>6. emitted' = Len(out') - Markers
    BY <2>1, <2>3, <2>4
  <2>. QED  BY <2>1, <2>5, <2>6
<1>3. \A i \in DOMAIN out' : out'[i] \notin Unwanted
  BY <1>a, <1>b, <1>c, <1>t DEF Counts, LimitCountsEvents
<1>4. \A x \in Event : Later(x) /\ e < x => Later(x)'
  BY <1>a, <1>b DEF Later
<1>5. \A n \in Nat : Marked(n) => Marked(n)'
  <2>. SUFFICES ASSUME NEW n \in Nat, NEW i \in DOMAIN out, out[i] = Gap,
                       \A k \in 1 .. i - 1 : out[k] < n
       PROVE  Marked(n)'
    BY DEF Marked
  <2>1. i \in DOMAIN out' /\ out'[i] = Gap
    BY <1>a, <1>b
  <2>2. \A k \in 1 .. i - 1 : k \in DOMAIN out /\ out'[k] < n
    BY <1>a
  <2>. QED  BY <2>1, <2>2 DEF Marked
<1>. QED  BY <1>0, <1>a, <1>b, <1>c, <1>h, <1>1, <1>2, <1>3, <1>4, <1>5

\* An event that is printed is what the stream lacked next.
LEMMA EventKeeps ==
    ASSUME Inv, DeliverEvent
    PROVE  Inv'
<1>. USE DEF Connecting, Subscribed
<1>. DEFINE e == Head(batch)
<1>t. TypeOK /\ Control /\ Holes /\ Counts /\ Arrival /\ Copies /\ Seam /\ Losses
  BY DEF Inv
<1>e. /\ pc \in {"pump", "drain"} /\ e \in Event /\ Coming(e) /\ e \notin Unwanted
      /\ out' \in Seq(Event \cup {Gap}) /\ out' = Append(out, e)
      /\ \A x : InSeq(x, out') <=> x = e \/ InSeq(x, out)
      /\ \A j \in DOMAIN out' : (j \in DOMAIN out /\ out'[j] = out[j]) \/ out'[j] = e
      /\ \A x \in Event : Coming(x) => x = e \/ e < x
      /\ InOrder'
      /\ emitted' \in 0 .. Limit
      /\ Markers' = Markers /\ Markers \in Nat
      /\ emitted' = Len(out') - Markers'
      /\ \A i \in DOMAIN out' : out'[i] \notin Unwanted
      /\ \A x \in Event : Later(x) /\ e < x => Later(x)'
      /\ \A n \in Nat : Marked(n) => Marked(n)'
      /\ recent' = IF seam THEN recent \cup ({e} \ Unkeyed) ELSE recent
  BY EventPrints
<1>h. /\ batch # <<>> /\ Tail(batch) \in Seq(Event) /\ Increasing(Tail(batch))
      /\ link # None
      /\ \A x : InSeq(x, batch) <=> x = e \/ InSeq(x, Tail(batch))
      /\ \A x \in Event : InSeq(x, Tail(batch)) \/ InSeq(x, Pending(link)) => e < x
  <2>1. batch # <<>>
    BY DEF DeliverEvent
  <2>. QED  BY <2>1, HeadOfBatch
<1>0. UNCHANGED <<published, gap, established, seam, base, since, uncovered>>
  BY DEF DeliverEvent, env
<1>1. \/ /\ emitted' = Limit /\ pc' = "done" /\ batch' = <<>> /\ fresh' = None
         /\ link' = None /\ UNCHANGED <<attempt, outages>>
      \/ /\ emitted' # Limit /\ batch' = Tail(batch)
         /\ UNCHANGED <<link, fresh, pc, attempt, outages>>
  BY <1>t, EndsDoes DEF DeliverEvent, Disconnect
<1>. HIDE DEF e
<1>m. \A x \in Event : Coming(x)' => Coming(x) /\ x # e
  <2>1. CASE batch' = Tail(batch) /\ UNCHANGED link
    <3>1. \A x \in Event : e < x => x # e
      BY <1>e, <1>t, Types
    <3>2. Pending(link)' = Pending(link)
      BY <2>1
    <3>. QED  BY <1>h, <2>1, <3>1, <3>2 DEF Coming
  <2>2. CASE batch' = <<>> /\ link' = None
    BY <2>2, EmptySeq DEF Coming, Pending
  <2>. QED  BY <1>1, <2>1, <2>2
<1>n. emitted' # Limit => \A x : Coming(x) <=> x = e \/ Coming(x)'
  BY <1>1, <1>e, <1>h DEF Coming
<1>d. emitted' = Limit => (\A x : ~Coming(x)' /\ ~InSeq(x, Pending(fresh)'))
  BY <1>1, EmptySeq DEF Coming, Pending
<1>2. TypeOK'
  <2>1. /\ stop' \in BOOLEAN /\ down' \in BOOLEAN /\ drops' \in 0 .. MaxDrop
        /\ quiet' \in 0 .. QuietPolls /\ polls' \in 0 .. DrainPolls
    BY <1>t DEF TypeOK, DeliverEvent, env
  <2>2. recent' \subseteq Event /\ batch' \in Seq(Event)
    <3>1. recent \subseteq Event /\ <<>> \in Seq(Event)
      BY <1>t, Types
    <3>. QED  BY <1>1, <1>e, <1>h, <3>1
  <2>. QED  BY <1>0, <1>1, <1>e, <1>t, <2>1, <2>2 DEF TypeOK
<1>3. Control' /\ Holes'
  BY <1>0, <1>1, <1>e, <1>t DEF Control, Holes
<1>4. Counts'
  <2>1. LimitCountsEvents'
    BY <1>1, <1>e DEF LimitCountsEvents
  <2>2. Markers = outages /\ outages \in Nat
    BY <1>e, <1>t DEF Counts, TypeOK
  <2>. QED  BY <1>0, <1>1, <1>e, <1>t, <2>1, <2>2 DEF Counts
<1>5. Arrival'
  <2>1. e <= published /\ published \in Nat
    BY <1>e, <1>t, Types DEF Arrival
  <2>2. \A j \in DOMAIN out' : out'[j] <= published'
    BY <1>0, <1>e, <1>t, <2>1 DEF Arrival
  <2>3. CASE emitted' = Limit
    BY <1>0, <1>1, <1>d, <1>t, <2>2, <2>3, EmptySeq DEF Arrival, Coming, Pending
  <2>4. CASE emitted' # Limit
    BY <1>0, <1>1, <1>h, <1>n, <1>t, <2>2, <2>4 DEF Arrival
  <2>. QED  BY <2>3, <2>4
<1>6. Copies' /\ Seam'
  <2>1. \A x \in recent' : InSeq(x, out')
    BY <1>e, <1>t DEF Copies
  <2>2. \A x \in Event \ Unwanted : Coming(x)' => InSeq(x, out') \/ Later(x)'
    BY <1>e, <1>m, <1>t DEF Copies
  <2>3. \A x \in Event \ Unkeyed : Coming(x)' /\ InSeq(x, out') =>
            pc' \in {"announce", "pump"} /\ seam' /\ x \in recent'
    BY <1>0, <1>1, <1>d, <1>e, <1>m, <1>t DEF Copies
  <2>4. Copies'
    BY <1>e, <2>1, <2>2, <2>3 DEF Copies
  <2>5. Seam'
    <3>. SUFFICES ASSUME pc' = "drain" PROVE Seam'
      BY DEF Seam
    <3>1. pc = "drain" /\ emitted' # Limit /\ UNCHANGED <<link, fresh>> /\ seam
      BY <1>1, <1>t DEF Control
    <3>2. \A x \in Event \ Unwanted : InSeq(x, fresh.inbox) =>
              \/ InSeq(x, out')
              \/ Coming(x)'
              \/ ~link.up /\ Later(x)' /\ \A y \in Event : Coming(y)' => y < x
      BY <1>e, <1>n, <1>t, <3>1 DEF Seam
    <3>3. \A x \in Event \ Unkeyed : InSeq(x, fresh.inbox) /\ InSeq(x, out') =>
              x \in recent'
      BY <1>e, <1>t, <3>1 DEF Seam
    <3>. QED  BY <3>1, <3>2, <3>3 DEF Seam
  <2>. QED  BY <2>4, <2>5
<1>7. Losses'
  <2>. SUFFICES ASSUME established, NEW n \in base + 1 .. published,
                       n \notin Unwanted \cup uncovered, ~InSeq(n, out'),
                       ~Marked(n)'
       PROVE  (Coming(n) \/ InSeq(n, Pending(fresh)) \/ Owed(n))'
    BY <1>0 DEF Losses
  <2>0. n \in Event /\ n \in Nat
    BY <1>t, Types
  <2>1. n \in Event /\ n \in Nat /\ n # e /\ ~InSeq(n, out) /\ ~Marked(n)
    BY <1>e, <2>0
  <2>2. Coming(n) \/ InSeq(n, Pending(fresh)) \/ Owed(n)
    BY <1>t, <2>1 DEF Losses
  <2>3. CASE emitted' # Limit
    <3>1. Owed(n) => Owed(n)'
      BY <1>0, <1>1, <1>e, <1>n, <2>1, <2>3 DEF Owed
    <3>. QED  BY <1>1, <1>n, <2>1, <2>2, <2>3, <3>1
  <2>4. CASE emitted' = Limit
    <3>1. Coming(n) => Later(n)'
      BY <1>e, <1>t, <2>1 DEF Copies
    <3>2. Owed(n) => Later(n)'
      BY <1>e, <2>1 DEF Owed
    <3>3. InSeq(n, Pending(fresh)) => pc = "drain" /\ Pending(fresh) = fresh.inbox
      BY <1>t, EmptySeq, Types DEF Control, Pending
    <3>4. InSeq(n, Pending(fresh)) => Later(n)'
      BY <1>e, <1>t, <2>1, <3>1, <3>3 DEF Seam
    <3>. QED  BY <1>1, <2>2, <2>4, <3>1, <3>2, <3>4 DEF Owed
  <2>. QED  BY <2>3, <2>4
<1>. QED  BY <1>2, <1>3, <1>4, <1>5, <1>6, <1>7 DEF Inv

-----------------------------------------------------------------------------
\* The instance publishes, or ends a session.

Receive(s, x) == IF Live(s) THEN [s EXCEPT !.inbox = Append(@, x)] ELSE s

\* A session that listens gets the event at the end of its inbox.
LEMMA Received ==
    ASSUME NEW s \in Session \cup {None}, Increasing(Pending(s)), NEW x \in Event,
           \A y \in Event : InSeq(y, Pending(s)) => y < x,
           NEW t, t = Receive(s, x)
    PROVE  /\ t \in Session \cup {None} /\ (t = None <=> s = None)
           /\ s # None => t.sub = s.sub /\ t.up = s.up
           /\ ~Live(s) => t = s
           /\ Increasing(Pending(t))
           /\ \A y : InSeq(y, Pending(t)) <=> InSeq(y, Pending(s)) \/ (Live(s) /\ y = x)
<1>1. CASE ~Live(s)
  BY <1>1 DEF Receive
<1>2. CASE Live(s)
  <2>1. s \in Session /\ s # None /\ s.inbox \in Seq(Event) /\ Pending(s) = s.inbox
    BY <1>2 DEF Live, Session, Pending
  <2>2. /\ Append(s.inbox, x) \in Seq(Event) /\ Increasing(Append(s.inbox, x))
        /\ \A y : InSeq(y, Append(s.inbox, x)) <=> y = x \/ InSeq(y, s.inbox)
    BY <2>1, Appended, AppendIncreasing
  <2>3. t = [sub |-> s.sub, up |-> s.up, inbox |-> Append(s.inbox, x)]
        /\ s.sub \in BOOLEAN /\ s.up \in BOOLEAN
    BY <1>2, <2>1 DEF Session, Receive
  <2>. DEFINE q == Append(s.inbox, x)
  <2>4. q \in Seq(Event) /\ t = [sub |-> s.sub, up |-> s.up, inbox |-> q]
    BY <2>2, <2>3
  <2>. HIDE DEF q
  <2>a. s.sub \in BOOLEAN /\ s.up \in BOOLEAN
    BY <2>3
  <2>b. [sub |-> s.sub, up |-> s.up, inbox |-> q] \in Session
    BY <2>4, <2>a DEF Session
  <2>5. t \in Session /\ t.sub = s.sub /\ t.up = s.up /\ t.inbox = q
    BY <2>4, <2>b
  <2>6. t # None
    BY <2>5, SessionAssumption
  <2>7. Pending(t) = q
    BY <2>5, <2>6 DEF Pending
  <2>. QED  BY <1>2, <2>1, <2>2, <2>5, <2>6, <2>7 DEF q
<1>. QED  BY <1>1, <1>2

\* What is published comes, or is owed.
LEMMA PublishKeeps ==
    ASSUME Inv, Publish
    PROVE  Inv'
<1>. USE DEF Connecting, Subscribed, output
<1>t. TypeOK /\ Control /\ Holes /\ Counts /\ Arrival /\ Copies /\ Seam /\ Losses
  BY DEF Inv
<1>n. PICK e \in Event : e = published + 1
  <2>1. published \in Nat /\ MaxEvent \in Nat /\ Event = 1 .. MaxEvent
    BY <1>t, Types
  <2>. QED  BY <2>1 DEF Publish
<1>0. /\ published < MaxEvent /\ published' = e
      /\ link' = Receive(link, e) /\ fresh' = Receive(fresh, e)
      /\ UNCHANGED <<batch, pc, attempt, gap, established, seam, recent, emitted, out,
                     base, outages, since, uncovered>>
  BY <1>n DEF Publish, Receive, history
<1>e. /\ e \in Event /\ e \in Nat /\ published \in Nat
      /\ \A y \in Event : y <= published => y < e
      /\ \A y \in Nat : y <= published => y < e /\ y <= e /\ y # e
  <2>1. published \in Nat /\ MaxEvent \in Nat /\ Event = 1 .. MaxEvent
    BY <1>t, Types
  <2>. QED  BY <1>n, <2>1
<1>o. \A j \in DOMAIN out : out[j] \in Nat /\ out[j] <= published
  <2>1. out \in Seq(Event \cup {Gap}) /\ Event \cup {Gap} \subseteq Nat
    BY <1>t, Types
  <2>. QED  BY <1>t, <2>1 DEF Arrival
<1>i. \A y \in Event : Coming(y) \/ InSeq(y, Pending(fresh)) => y < e
  BY <1>e, <1>t DEF Arrival
<1>l. /\ link' \in Session \cup {None} /\ (link' = None <=> link = None)
      /\ link # None => link'.sub = link.sub /\ link'.up = link.up
      /\ ~Live(link) => link' = link
      /\ Increasing(Pending(link'))
      /\ \A y : InSeq(y, Pending(link')) <=>
                    InSeq(y, Pending(link)) \/ (Live(link) /\ y = e)
  <2>1. link \in Session \cup {None} /\ Increasing(Pending(link))
        /\ \A y \in Event : InSeq(y, Pending(link)) => y < e
    BY <1>i, <1>t DEF TypeOK, Arrival, Coming
  <2>2. e \in Event /\ link' = Receive(link, e)
    BY <1>0, <1>e
  <2>. QED  BY <2>1, <2>2, Received
<1>f. /\ fresh' \in Session \cup {None} /\ (fresh' = None <=> fresh = None)
      /\ fresh # None => fresh'.sub = fresh.sub /\ fresh'.up = fresh.up
      /\ ~Live(fresh) => fresh' = fresh
      /\ Increasing(Pending(fresh'))
      /\ \A y : InSeq(y, Pending(fresh')) <=>
                    InSeq(y, Pending(fresh)) \/ (Live(fresh) /\ y = e)
  <2>1. fresh \in Session \cup {None} /\ Increasing(Pending(fresh))
        /\ \A y \in Event : InSeq(y, Pending(fresh)) => y < e
    BY <1>i, <1>t DEF TypeOK, Arrival
  <2>2. e \in Event /\ fresh' = Receive(fresh, e)
    BY <1>0, <1>e
  <2>. QED  BY <2>1, <2>2, Received
<1>c. /\ \A y : Coming(y)' <=> Coming(y) \/ (Live(link) /\ y = e)
      /\ Pending(link)' = Pending(link') /\ Pending(fresh)' = Pending(fresh')
  BY <1>0, <1>l DEF Coming, Pending
<1>r. Later(e) /\ Later(e)' /\ ~InSeq(e, out)
  <2>1. \A j \in DOMAIN out : out[j] < e /\ out[j] # e
    BY <1>e, <1>o
  <2>2. Later(e) /\ ~InSeq(e, out)
    BY <2>1 DEF Later, InSeq
  <2>3. Later(e)'
    BY <1>0, <2>1 DEF Later
  <2>. QED  BY <2>2, <2>3
<1>1. TypeOK'
  <2>1. /\ stop' \in BOOLEAN /\ down' \in BOOLEAN /\ drops' \in 0 .. MaxDrop
        /\ quiet' \in 0 .. QuietPolls /\ polls' \in 0 .. DrainPolls
    BY <1>t DEF TypeOK, Publish
  <2>2. published' \in 0 .. MaxEvent
    <3>1. published \in Nat /\ MaxEvent \in Nat
      BY <1>t, Types
    <3>. QED  BY <1>0, <1>n, <3>1
  <2>. QED  BY <1>0, <1>f, <1>l, <1>t, <2>1, <2>2 DEF TypeOK
<1>2. Control'
  BY <1>0, <1>f, <1>l, <1>t DEF Control, Live
<1>3. Holes'
  <2>1. base \in Nat /\ since \in Nat
    BY <1>t, Types
  <2>. QED  BY <1>0, <1>e, <1>t, <2>1 DEF Holes
<1>4. Counts'
  BY <1>0, <1>t DEF Counts, LimitCountsEvents, Markers
<1>5. Arrival'
  <2>1. \A x, y \in Event : InSeq(x, batch) /\ InSeq(y, Pending(link)') => x < y
    BY <1>c, <1>i, <1>l, <1>t DEF Arrival, Coming
  <2>2. \A x \in Event : Coming(x)' \/ InSeq(x, Pending(fresh)') => since < x /\ x <= e
    <3>1. since \in Nat /\ since <= published
      BY <1>t, Types DEF Holes
    <3>2. \A x \in Event : x <= published => x <= e
      BY <1>e, <1>t, Types
    <3>3. since < e /\ e <= e
      BY <1>e, <3>1
    <3>. QED  BY <1>c, <1>f, <1>t, <3>2, <3>3 DEF Arrival
  <2>3. \A j \in DOMAIN out : out[j] <= e
    BY <1>e, <1>o
  <2>. QED  BY <1>0, <1>c, <1>f, <1>l, <1>t, <2>1, <2>2, <2>3 DEF Arrival
<1>6. Copies' /\ Seam'
  <2>1. Copies'
    BY <1>0, <1>c, <1>r, <1>t DEF Copies, InOrder, Later
  <2>2. Seam'
    <3>. SUFFICES ASSUME pc = "drain" PROVE Seam'
      BY <1>0 DEF Seam
    <3>1. link # None /\ fresh # None /\ link.sub
      BY <1>t DEF Control
    <3>2. Pending(fresh) = fresh.inbox /\ Pending(fresh') = fresh'.inbox
      BY <1>f, <3>1 DEF Pending
    <3>3. link.up \/ ~Live(link)
      BY DEF Live
    <3>4. \A x \in Event \ Unwanted : InSeq(x, fresh'.inbox) =>
              \/ InSeq(x, out)
              \/ Coming(x)'
              \/ ~link'.up /\ Later(x) /\ \A y \in Event : Coming(y)' => y < x
      <4>. SUFFICES ASSUME NEW x \in Event \ Unwanted, InSeq(x, fresh'.inbox),
                           ~InSeq(x, out), ~Coming(x)'
           PROVE  ~link'.up /\ Later(x) /\ \A y \in Event : Coming(y)' => y < x
        OBVIOUS
      <4>1. CASE InSeq(x, fresh.inbox)
        BY <1>c, <1>l, <1>t, <3>1, <3>3, <4>1 DEF Seam, Live
      <4>2. CASE x = e
        BY <1>c, <1>i, <1>l, <1>r, <3>1, <4>2 DEF Live
      <4>. QED  BY <1>f, <3>2, <4>1, <4>2
    <3>5. \A x \in Event \ Unkeyed : InSeq(x, fresh'.inbox) /\ InSeq(x, out) =>
               x \in recent
      BY <1>f, <1>r, <1>t, <3>2 DEF Seam
    <3>. QED  BY <1>0, <3>4, <3>5 DEF Seam, Later
  <2>. QED  BY <2>1, <2>2
<1>7. Losses'
  <2>. SUFFICES ASSUME established, NEW n \in base + 1 .. e,
                       n \notin Unwanted \cup uncovered, ~InSeq(n, out), ~Marked(n),
                       ~Coming(n)', ~InSeq(n, Pending(fresh)')
       PROVE  Owed(n)'
    BY <1>0 DEF Losses, Marked
  <2>1. (Owed(n) => Owed(n)') /\ ~Coming(n) /\ ~InSeq(n, Pending(fresh))
    BY <1>0, <1>c, <1>f, <1>l, <1>t DEF Owed, Later, Live, Control
  <2>2. CASE n = e
    <3>1. ~Live(link)
      BY <1>c, <2>2
    <3>2. since \in Nat /\ since < e
      BY <1>e, <1>t, Types DEF Holes
    <3>3. pc \in Subscribed => ~link.up
      BY <1>t, <3>1 DEF Live, Control
    <3>4. \A y \in Event : Coming(y)' => y < e
      BY <1>c, <1>i, <3>1
    <3>5. CASE pc \in Subscribed
      <4>1. link # None /\ ~link'.up
        BY <1>l, <1>t, <3>3, <3>5 DEF Control
      <4>. QED  BY <1>0, <1>r, <2>2, <3>2, <3>4, <3>5, <4>1 DEF Owed
    <3>6. CASE pc \in Connecting
      BY <1>0, <1>r, <1>t, <2>2, <3>6 DEF Owed, Holes
    <3>7. CASE pc \in {"backoff", "done"}
      BY <1>0, <1>r, <2>2, <3>7 DEF Owed
    <3>. QED  BY <1>t, <3>5, <3>6, <3>7 DEF TypeOK
  <2>3. CASE n # e
    <3>1. n \in base + 1 .. published
      BY <1>n, <1>t, <2>3, Types
    <3>. QED  BY <1>t, <2>1, <3>1 DEF Losses
  <2>. QED  BY <2>2, <2>3
<1>. QED  BY <1>1, <1>2, <1>3, <1>4, <1>5, <1>6, <1>7 DEF Inv

\* A dead session has its inbox still, or nothing.
LEMMA Ended ==
    ASSUME NEW s \in Session, NEW t \in EndOf(s)
    PROVE  /\ t \in Session /\ t # None /\ t.sub = s.sub /\ ~t.up
           /\ t.inbox = s.inbox \/ t.inbox = <<>>
           /\ \A x : InSeq(x, t.inbox) => InSeq(x, s.inbox)
           /\ Increasing(s.inbox) => Increasing(t.inbox)
<1>1. s.sub \in BOOLEAN /\ s.inbox \in Seq(Event) /\ <<>> \in Seq(Event)
  BY DEF Session
<1>2. t \in Session /\ t.sub = s.sub /\ ~t.up /\ (t.inbox = s.inbox \/ t.inbox = <<>>)
  <2>1. CASE t = [s EXCEPT !.up = FALSE]
    BY <1>1, <2>1 DEF Session
  <2>2. CASE t = [s EXCEPT !.up = FALSE, !.inbox = <<>>]
    BY <1>1, <2>2 DEF Session
  <2>. QED  BY <2>1, <2>2 DEF EndOf
<1>. QED  BY <1>2, EmptySeq, SessionAssumption

\* The session read from dies, perhaps with what was unread: what is lost is
\* newer than all that still comes.
LEMMA DropLinkKeeps ==
    ASSUME Inv, Drop, link # None, link.up, link' \in EndOf(link), UNCHANGED fresh
    PROVE  Inv'
<1>. USE DEF Connecting, Subscribed, output
<1>t. TypeOK /\ Control /\ Holes /\ Counts /\ Arrival /\ Copies /\ Seam /\ Losses
  BY DEF Inv
<1>0. UNCHANGED <<published, fresh, batch, pc, attempt, gap, established, seam, recent,
                  emitted, out, base, outages, since, uncovered>>
  BY DEF Drop, history
<1>s. link \in Session /\ Pending(link) = link.inbox
  BY <1>t, Types
<1>l. /\ link' \in Session /\ link' # None /\ link'.sub = link.sub /\ ~link'.up
      /\ link'.inbox = link.inbox \/ link'.inbox = <<>>
      /\ \A x : InSeq(x, link'.inbox) => InSeq(x, link.inbox)
      /\ Increasing(link.inbox) => Increasing(link'.inbox)
      /\ Pending(link)' = link'.inbox
  BY <1>s, Ended DEF Pending
<1>c. /\ \A x : Coming(x)' => Coming(x)
      /\ Pending(fresh)' = Pending(fresh)
  BY <1>0, <1>s, <1>l DEF Coming, Pending
<1>d. \A x, y \in Event : Coming(x) /\ ~Coming(x)' /\ Coming(y)' => y < x
  BY <1>0, <1>l, <1>s, <1>t, EmptySeq DEF Coming, Arrival
<1>1. TypeOK'
  <2>1. /\ stop' \in BOOLEAN /\ down' \in BOOLEAN /\ drops' \in 0 .. MaxDrop
        /\ quiet' \in 0 .. QuietPolls /\ polls' \in 0 .. DrainPolls
    BY <1>t, WatchAssumption DEF TypeOK, Drop
  <2>. QED  BY <1>0, <1>l, <1>t, <2>1 DEF TypeOK
<1>2. Control' /\ Holes'
  BY <1>0, <1>l, <1>t DEF Control, Holes
<1>4. Counts'
  BY <1>0, <1>t DEF Counts, LimitCountsEvents, Markers
<1>5. Arrival'
  BY <1>0, <1>c, <1>l, <1>s, <1>t DEF Arrival
<1>6. Copies' /\ Seam'
  <2>1. Copies'
    BY <1>0, <1>c, <1>t DEF Copies, InOrder, Later
  <2>2. Seam'
    <3>. SUFFICES ASSUME pc = "drain" PROVE Seam'
      BY <1>0 DEF Seam
    <3>1. \A x \in Event \ Unwanted : InSeq(x, fresh.inbox) =>
              \/ InSeq(x, out)
              \/ Coming(x)'
              \/ ~link'.up /\ Later(x) /\ \A y \in Event : Coming(y)' => y < x
      <4>. SUFFICES ASSUME NEW x \in Event \ Unwanted, InSeq(x, fresh.inbox),
                           ~InSeq(x, out), ~Coming(x)'
           PROVE  Later(x) /\ \A y \in Event : Coming(y)' => y < x
        BY <1>l
      <4>1. Coming(x)
        BY <1>t DEF Seam
      <4>. QED  BY <1>d, <1>t, <4>1 DEF Copies
    <3>. QED  BY <1>0, <1>t, <3>1 DEF Seam, Later
  <2>. QED  BY <2>1, <2>2
<1>7. Losses'
  <2>. SUFFICES ASSUME established, NEW n \in base + 1 .. published,
                       n \notin Unwanted \cup uncovered, ~InSeq(n, out), ~Marked(n),
                       ~Coming(n)', ~InSeq(n, Pending(fresh))
       PROVE  Owed(n)'
    BY <1>0, <1>c DEF Losses, Marked
  <2>1. n \in Event
    BY <1>t, Types
  <2>2. CASE Owed(n)
    BY <1>0, <2>2 DEF Owed, Later
  <2>3. CASE Coming(n)
    <3>1. pc # "subscribe"
      <4>1. pc = "subscribe" => batch = <<>> /\ link.inbox = <<>>
        BY <1>t DEF Control
      <4>. QED  BY <1>s, <2>3, <4>1, EmptySeq DEF Coming
    <3>2. pc \in Subscribed
      BY <1>t, <3>1 DEF Control, TypeOK
    <3>3. Later(n) /\ since < n /\ \A y \in Event : Coming(y)' => y < n
      BY <1>d, <1>t, <2>1, <2>3 DEF Copies, Arrival
    <3>. QED  BY <1>0, <1>l, <3>2, <3>3 DEF Owed, Later
  <2>. QED  BY <1>t, <2>2, <2>3 DEF Losses
<1>. QED  BY <1>1, <1>2, <1>4, <1>5, <1>6, <1>7 DEF Inv

\* The replacement dies in the drain, perhaps with what was unread.
LEMMA DropFreshKeeps ==
    ASSUME Inv, Drop, fresh # None, fresh.up, fresh' \in EndOf(fresh), UNCHANGED link
    PROVE  Inv'
<1>. USE DEF Connecting, Subscribed, output
<1>t. TypeOK /\ Control /\ Holes /\ Counts /\ Arrival /\ Copies /\ Seam /\ Losses
  BY DEF Inv
<1>0. UNCHANGED <<published, link, batch, pc, attempt, gap, established, seam, recent,
                  emitted, out, base, outages, since, uncovered>>
  BY DEF Drop, history
<1>s. fresh \in Session /\ Pending(fresh) = fresh.inbox
  BY <1>t, Types
<1>f. /\ fresh' \in Session /\ fresh' # None /\ fresh'.sub = fresh.sub
      /\ fresh'.inbox = fresh.inbox \/ fresh'.inbox = <<>>
      /\ \A x : InSeq(x, fresh'.inbox) => InSeq(x, fresh.inbox)
      /\ Increasing(fresh.inbox) => Increasing(fresh'.inbox)
      /\ Pending(fresh)' = fresh'.inbox
  BY <1>s, Ended DEF Pending
<1>c. \A x : Coming(x)' = Coming(x)
  BY <1>0 DEF Coming
<1>1. TypeOK'
  <2>1. /\ stop' \in BOOLEAN /\ down' \in BOOLEAN /\ drops' \in 0 .. MaxDrop
        /\ quiet' \in 0 .. QuietPolls /\ polls' \in 0 .. DrainPolls
    BY <1>t, WatchAssumption DEF TypeOK, Drop
  <2>. QED  BY <1>0, <1>f, <1>t, <2>1 DEF TypeOK
<1>2. Control' /\ Holes'
  BY <1>0, <1>f, <1>t DEF Control, Holes
<1>4. Counts'
  BY <1>0, <1>t DEF Counts, LimitCountsEvents, Markers
<1>5. Arrival'
  BY <1>0, <1>c, <1>f, <1>s, <1>t DEF Arrival
<1>6. Copies' /\ Seam'
  BY <1>0, <1>c, <1>f, <1>t DEF Copies, Seam, InOrder, Later
<1>7. Losses'
  <2>. SUFFICES ASSUME established, NEW n \in base + 1 .. published,
                       n \notin Unwanted \cup uncovered, ~InSeq(n, out), ~Marked(n),
                       ~Coming(n)
       PROVE  Owed(n)' \/ InSeq(n, Pending(fresh)')
    BY <1>0, <1>c DEF Losses, Marked
  <2>1. n \in Event
    BY <1>t, Types
  <2>2. Owed(n) => Owed(n)'
    BY <1>0, <1>c DEF Owed, Later
  <2>3. CASE InSeq(n, fresh.inbox)
    <3>1. pc = "drain"
      BY <1>t, <2>3, EmptySeq DEF Control
    <3>2. ~link.up /\ Later(n) /\ \A y \in Event : Coming(y) => y < n
      BY <1>t, <2>1, <2>3, <3>1 DEF Seam
    <3>3. since < n
      BY <1>s, <1>t, <2>1, <2>3 DEF Arrival
    <3>. QED  BY <2>2, <3>1, <3>2, <3>3 DEF Owed
  <2>. QED  BY <1>s, <1>t, <2>2, <2>3 DEF Losses
<1>. QED  BY <1>1, <1>2, <1>4, <1>5, <1>6, <1>7 DEF Inv

\* A session dies.
LEMMA DropKeeps ==
    ASSUME Inv, Drop
    PROVE  Inv'
BY DropLinkKeeps, DropFreshKeeps DEF Drop

-----------------------------------------------------------------------------
\* The theorems.

\* Before the first session nothing is owed.
LEMMA Initially == Init => Inv
<1>. SUFFICES ASSUME Init PROVE Inv
  OBVIOUS
<1>. USE DEF Connecting, Subscribed, Init
<1>0. <<>> \in Seq(Event) /\ out \in Seq(Event \cup {Gap}) /\ Pending(None) = <<>>
  BY DEF Pending
<1>c. \A x : ~Coming(x) /\ ~InSeq(x, Pending(fresh))
  BY <1>0, EmptySeq DEF Coming
<1>m. Markers = 0
  <2>1. {i \in DOMAIN out : out[i] = Gap} = {}
    OBVIOUS
  <2>. QED  BY <2>1, FS_EmptySet DEF Markers
<1>1. TypeOK
  <2>1. /\ MaxEvent \in Nat /\ MaxDrop \in Nat /\ Limit \in Nat /\ MaxAttempts \in Nat
        /\ QuietPolls \in Nat /\ DrainPolls \in Nat
    BY WatchAssumption
  <2>2. /\ 0 \in 0 .. MaxEvent /\ 0 \in 0 .. MaxDrop /\ 0 \in 0 .. Limit
        /\ 0 \in 0 .. MaxAttempts /\ 0 \in 0 .. QuietPolls /\ 0 \in 0 .. DrainPolls
    BY <2>1
  <2>. QED  BY <1>0, <2>2 DEF TypeOK
<1>2. Control /\ Holes
  BY DEF Control, Holes
<1>3. Counts
  BY <1>m, WatchAssumption DEF Counts, LimitCountsEvents
<1>4. Arrival
  BY <1>0, <1>c, EmptySeq DEF Arrival
<1>5. Copies /\ Seam /\ Losses
  BY <1>c DEF Copies, Seam, Losses, InOrder
<1>. QED  BY <1>1, <1>2, <1>3, <1>4, <1>5 DEF Inv

\* Whatever the instance publishes, drops or refuses, and whenever the watch is
\* stopped, the parts of the invariant hold of every state.
THEOREM InvAlways == Spec => []Inv
<1>1. ASSUME Inv, [Next]_vars PROVE Inv'
  <2>1. CASE Connect
    BY <1>1, <2>1, ConnectKeeps, ExitKeeps DEF Exiting
  <2>2. CASE Subscribe
    BY <1>1, <2>2, SubscribeKeeps, ExitKeeps DEF Exiting
  <2>3. CASE Announce
    BY <1>1, <2>3, AnnounceKeeps, ExitKeeps DEF Exiting
  <2>4. CASE PumpStop \/ IdleExpires \/ PumpError \/ DrainStop \/ DeliverFails
    BY <1>1, <2>4, ExitKeeps DEF Exiting
  <2>5. CASE Backoff \/ PumpPoll \/ DrainPoll \/ PumpRotate
    BY <1>1, <2>5, BackoffKeeps, PollKeeps, RotateKeeps
  <2>6. CASE ReplacementConnect \/ ReplacementSubscribe \/ DrainEnds \/ SeamExpires
    BY <1>1, <2>6, ReplaceKeeps, DrainEndsKeeps, SeamExpiresKeeps
  <2>7. CASE DeliverSkip \/ DeliverEvent
    BY <1>1, <2>7, SkipKeeps, EventKeeps
  <2>8. CASE Publish \/ Drop
    BY <1>1, <2>8, PublishKeeps, DropKeeps
  <2>9. CASE DrainQuiet \/ GoDown \/ Interrupt \/ UNCHANGED vars
    BY <1>1, <2>9, QuietSteps
  <2>. QED  BY <1>1, <2>1, <2>2, <2>3, <2>4, <2>5, <2>6, <2>7, <2>8, <2>9
       DEF Next, Supervise
<1>. QED  BY <1>1, Initially, PTL DEF Spec

\* Every variable keeps to its type: attempts and polls to their bounds, the
\* session to one or none.
THEOREM TypeCorrect == Spec => []TypeOK
<1>1. Inv => TypeOK
  BY DEF Inv
<1>. QED  BY <1>1, InvAlways, PTL

\* No subscription outlives its reader: after every way out of a session, the
\* failing ones included, it has been disconnected.
THEOREM NoneStranded == Spec => []NothingStranded
<1>1. Inv => NothingStranded
  BY DEF Inv, Control, NothingStranded, Live
<1>. QED  BY <1>1, InvAlways, PTL

\* --max-events counts exactly the events on stdout, and meeting it ends the
\* watch.
THEOREM LimitIsExact == Spec => []LimitCountsEvents
<1>1. Inv => LimitCountsEvents
  BY DEF Inv, Counts
<1>. QED  BY <1>1, InvAlways, PTL

\* However sessions overlap, end or are replaced, the events with an identity
\* come out in the order they were published in and once.
THEOREM StreamInOrder == Spec => []InOrder
<1>1. Inv => InOrder
  BY DEF Inv, Copies
<1>. QED  BY <1>1, InvAlways, PTL

\* Every outage the consumer read past has one marker, and every event that
\* was lost to one lies on the far side of a marker from all that came later.
THEOREM LossesAreMarked == Spec => []LossIsMarked
<1>1. Inv => LossIsMarked
  <2>. SUFFICES ASSUME Inv PROVE LossIsMarked
    OBVIOUS
  <2>t. TypeOK /\ Counts /\ Losses /\ Arrival
    BY DEF Inv
  <2>1. OneMarkerPerOutage
    <3>1. Markers \in Nat
      BY <2>t, CountMarkers, Types DEF Markers, MarkersOf
    <3>. QED  BY <2>t, <3>1 DEF Counts, OneMarkerPerOutage, TypeOK, Connecting, Subscribed
  <2>2. ASSUME established, NEW n \in base + 1 .. published,
               n \notin Unwanted \cup uncovered, ~InSeq(n, out), ~InSeq(n, batch),
               ~InSeq(n, Pending(link)), ~InSeq(n, Pending(fresh)),
               NEW j \in DOMAIN out, out[j] > n
        PROVE  \E i \in 1 .. j - 1 : out[i] = Gap /\ \A k \in 1 .. i - 1 : out[k] < n
    <3>1. /\ out \in Seq(Event \cup {Gap}) /\ Event \cup {Gap} \subseteq Nat
          /\ n \in Nat /\ 0 < n /\ Gap = 0
      BY <2>t, Types
    <3>2. Len(out) \in Nat /\ DOMAIN out = 1 .. Len(out) /\ out[j] \in Nat
      BY <3>1
    <3>3. ~Later(n)
      BY <2>2, <3>1, <3>2 DEF Later
    <3>4. PICK i \in DOMAIN out : out[i] = Gap /\ \A k \in 1 .. i - 1 : out[k] < n
      BY <2>t, <2>2, <3>3 DEF Losses, Coming, Marked, Owed
    <3>5. i < j
      <4>1. j # i
        BY <2>2, <3>1, <3>4
      <4>2. ~ (j \in 1 .. i - 1)
        BY <2>2, <3>1, <3>2, <3>4
      <4>. QED  BY <3>2, <4>1, <4>2
    <3>. QED  BY <3>2, <3>4, <3>5
  <2>. QED  BY <2>1, <2>2 DEF LossIsMarked
<1>. QED  BY <1>1, InvAlways, PTL
=============================================================================
