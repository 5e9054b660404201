------------------------------- MODULE Watch -------------------------------
(***************************************************************************)
(* `sn watch`: one AMB session after another, replaced before the instance *)
(* reaps them, reconnected when it did, and the one stream of lines a      *)
(* consumer reads.  Sessions are what the trait Link shows of them; the    *)
(* instance publishes, reaps and drops connections when it likes.          *)
(*                                                                         *)
(* Events are numbered as they are published.  Times appear as choices: a  *)
(* session may or may not have lasted HEALTHY, a rotation may be due.      *)
(***************************************************************************)
EXTENDS Naturals, Sequences, FiniteSets

CONSTANTS
    MaxEvent,      \* bound: events published
    MaxDrop,       \* bound: times the instance ends a session
    Unwanted,      \* events --operation / --on-change filter out
    Unkeyed,       \* events without a write identity (dedup_key is None)
    Limit,         \* --max-events
    MaxAttempts,   \* MAX_RECONNECT_ATTEMPTS
    DrainPolls,    \* DRAIN_POLLS
    QuietPolls,    \* DRAIN_QUIET_POLLS
    SlowConnect,   \* whether a failing connect may take HEALTHY or longer
    None

Event == 1 .. MaxEvent
Gap == 0           \* the marker line

ASSUME WatchAssumption ==
    /\ MaxEvent \in Nat /\ MaxDrop \in Nat /\ Limit \in Nat \ {0}
    /\ MaxAttempts \in Nat /\ DrainPolls \in Nat /\ QuietPolls \in Nat
    /\ Unwanted \subseteq Event /\ Unkeyed \subseteq Event
    /\ SlowConnect \in BOOLEAN
    /\ None \notin Nat

VARIABLES
    published,    \* instance: events so far
    down,         \* instance: unreachable from now on
    drops,        \* instance: sessions it has ended
    link,         \* the session read from
    fresh,        \* its replacement while a rotation is under way
    batch,        \* the last poll's events, those deliver has not come to yet
    pc,           \* where the supervisor is
    attempt,      \* the ordinal of the last reconnect
    gap,          \* the reconnect that will close the hole, None for no hole
    established,  \* a session once reached the subscribed state
    stop,         \* Ctrl-C, or the --duration deadline passed
    quiet, polls, \* drain's counters
    seam,         \* the seam dedup is armed
    recent,       \* events emitted inside the seam
    emitted,      \* what --max-events counts
    out,          \* stdout: events and Gap
    base,         \* history: events published before the first subscription
    outages,      \* history: subscribed sessions that ended in a reconnect
    since,        \* history: events published when a session was last opened
    uncovered     \* history: events a handoff left on neither session

env == <<published, down, drops>>
output == <<seam, recent, emitted, out>>
history == <<base, outages, since, uncovered>>
vars == <<env, link, fresh, batch, pc, attempt, gap, established, stop, quiet, polls,
          output, history>>

Session == [sub : BOOLEAN, up : BOOLEAN, inbox : Seq(Event)]

\* No session is none of the sessions there may be.
ASSUME SessionAssumption == None \notin Session

Connecting == {"connect", "subscribe"}
Subscribed == {"announce", "pump", "rconnect", "rsubscribe", "drain"}

TypeOK ==
    /\ published \in 0 .. MaxEvent /\ drops \in 0 .. MaxDrop
    /\ down \in BOOLEAN /\ established \in BOOLEAN /\ stop \in BOOLEAN
    /\ link \in Session \cup {None} /\ fresh \in Session \cup {None}
    /\ batch \in Seq(Event)
    /\ pc \in Connecting \cup Subscribed \cup {"backoff", "done"}
    /\ attempt \in 0 .. MaxAttempts
    /\ gap \in (1 .. MaxAttempts) \cup {None}
    /\ quiet \in 0 .. QuietPolls /\ polls \in 0 .. DrainPolls
    /\ seam \in BOOLEAN /\ recent \subseteq Event
    /\ emitted \in 0 .. Limit
    /\ out \in Seq(Event \cup {Gap})
    /\ base \in 0 .. MaxEvent
    /\ outages \in Nat /\ since \in 0 .. MaxEvent
    /\ uncovered \subseteq Event

Init ==
    /\ published = 0 /\ drops = 0 /\ down = FALSE
    /\ link = None /\ fresh = None /\ batch = <<>>
    /\ pc = "connect"
    /\ attempt = 0 /\ gap = None
    /\ established = FALSE /\ stop = FALSE
    /\ quiet = 0 /\ polls = 0
    /\ seam = FALSE /\ recent = {} /\ emitted = 0 /\ out = <<>>
    /\ base = 0 /\ outages = 0 /\ since = 0 /\ uncovered = {}

-----------------------------------------------------------------------------
\* The instance.

Live(s) == s # None /\ s.sub /\ s.up
Pending(s) == IF s = None THEN <<>> ELSE s.inbox
InSeq(e, s) == \E i \in DOMAIN s : s[i] = e

\* A record changes: every live subscription gets the event, and no other will.
Publish ==
    LET Receive(s) == IF Live(s) THEN [s EXCEPT !.inbox = Append(@, published + 1)] ELSE s
    IN /\ published < MaxEvent /\ ~down
       /\ published' = published + 1
       /\ link' = Receive(link) /\ fresh' = Receive(fresh)
       /\ UNCHANGED <<down, drops, batch, pc, attempt, gap, established, stop, quiet,
                      polls, output, history>>

\* It ends a session: the reaper's verdict follows what was sent, a broken
\* connection takes what was unread with it.
EndOf(s) == {[s EXCEPT !.up = FALSE], [s EXCEPT !.up = FALSE, !.inbox = <<>>]}

Drop ==
    /\ drops < MaxDrop
    /\ drops' = drops + 1
    /\ \/ link # None /\ link.up /\ link' \in EndOf(link) /\ UNCHANGED fresh
       \/ fresh # None /\ fresh.up /\ fresh' \in EndOf(fresh) /\ UNCHANGED link
    /\ UNCHANGED <<published, down, batch, pc, attempt, gap, established, stop, quiet,
                   polls, output, history>>

GoDown ==
    /\ ~down
    /\ down' = TRUE
    /\ UNCHANGED <<published, drops, link, fresh, batch, pc, attempt, gap,
                   established, stop, quiet, polls, output, history>>

Interrupt ==
    /\ ~stop /\ pc # "done"
    /\ stop' = TRUE
    /\ UNCHANGED <<env, link, fresh, batch, pc, attempt, gap, established, quiet, polls,
                   output, history>>

-----------------------------------------------------------------------------
\* Output.

\* (mutant) a seam's second copies go out as well
AllAccepted(e) == e \notin Unwanted

\* What deliver passes on: what the filter accepts, less the seam's second
\* copies.
Accepts(e) == e \notin Unwanted /\ ~(seam /\ e \in recent)

Emit(e) ==
    /\ out' = Append(out, e)
    /\ emitted' = emitted + 1
    /\ recent' = IF seam THEN recent \cup ({e} \ Unkeyed) ELSE recent

\* The seam stops being suspect SEAM_TTL after the rotation; the few seconds
\* it takes to read the second copies are over by then, and before the next
\* rotation is due.
Settled ==
    \A e \in recent : ~InSeq(e, batch) /\ ~InSeq(e, Pending(link))

SeamExpires ==
    /\ seam /\ pc # "drain" /\ Settled
    /\ seam' = FALSE /\ recent' = {}
    /\ UNCHANGED <<env, link, fresh, batch, pc, attempt, gap, established, stop, quiet,
                   polls, emitted, out, history>>

-----------------------------------------------------------------------------
\* The supervisor.

\* decide: the verdict on a session that ended with err, and how the next
\* attempt counts.  `lifetime` is measured from before connect().
Recoverable(err) == established /\ err = "transport"

AlwaysFirst(slow) == 1  \* (mutant)
AttemptsNext(slow) == IF slow THEN 1 ELSE attempt + 1
\* The session is over and supervise goes on.
Ends(err) ==
    IF ~Recoverable(err) \/ stop
    THEN pc' = "done" /\ UNCHANGED <<attempt, outages>>
    ELSE \E slow \in (IF pc \in Subscribed THEN BOOLEAN ELSE {FALSE, SlowConnect}) :
        IF AttemptsNext(slow) > MaxAttempts
        THEN pc' = "done" /\ UNCHANGED <<attempt, outages>>
        ELSE /\ pc' = "backoff"
             /\ attempt' = AttemptsNext(slow)
             /\ outages' = IF pc \in Subscribed THEN outages + 1 ELSE outages

\* /meta/disconnect: the instance forgets the session.
Disconnect == link' = None

Opened == [sub |-> FALSE, up |-> TRUE, inbox |-> <<>>]

\* An ordinary request mints the cookies, then the socket and the handshake.
Connect ==
    /\ pc = "connect"
    /\ \/ /\ ~down
          /\ link' = Opened
          /\ pc' = "subscribe"
          /\ UNCHANGED <<attempt, outages>>
       \/ /\ Disconnect
          /\ \E err \in {"transport", "refused"} : (down => err = "transport") /\ Ends(err)
    /\ UNCHANGED <<env, fresh, batch, gap, established, stop, quiet, polls, output,
                   base, since, uncovered>>

Subscribe ==
    /\ pc = "subscribe"
    /\ \/ /\ link.up /\ ~down
          /\ link' = [link EXCEPT !.sub = TRUE]
          /\ established' = TRUE
          /\ base' = IF established THEN base ELSE published
          /\ since' = published
          /\ pc' = "announce"
          /\ UNCHANGED <<attempt, outages>>
       \/ /\ Disconnect
          /\ \E err \in {"transport", "refused"} : (down => err = "transport") /\ Ends(err)
          /\ UNCHANGED <<established, base, since>>
    /\ UNCHANGED <<env, fresh, batch, gap, stop, quiet, polls, output, uncovered>>

\* (mutant) the marker spends --max-events
MarkerCounts ==
    /\ pc = "announce"
    /\ gap' = None
    /\ out' = IF gap = None THEN out ELSE Append(out, Gap)
    /\ emitted' = IF gap = None THEN emitted ELSE emitted + 1
    /\ pc' = "pump"
    /\ UNCHANGED <<env, link, fresh, batch, attempt, established, stop, quiet, polls,
                   seam, recent, history>>

\* The hole is announced once the channel is open again, and only then closed.
Announce ==
    /\ pc = "announce"
    /\ gap' = None
    /\ \/ /\ out' = IF gap = None THEN out ELSE Append(out, Gap)
          /\ pc' = "pump"
          /\ UNCHANGED <<link, attempt, outages>>
       \/ gap # None /\ Disconnect /\ Ends("stdout") /\ UNCHANGED out
    /\ UNCHANGED <<env, fresh, batch, established, stop, quiet, polls, seam, recent,
                   emitted, base, since, uncovered>>

\* The backoff; a stop in its last tick goes unnoticed.
Backoff ==
    /\ pc = "backoff"
    /\ \/ stop /\ pc' = "done" /\ UNCHANGED gap
       \/ gap' = attempt /\ pc' = "connect"
    /\ UNCHANGED <<env, link, fresh, batch, attempt, established, stop, quiet, polls,
                   output, history>>

-----------------------------------------------------------------------------
\* pump.

AtPump == pc = "pump" /\ batch = <<>>

PumpStop ==
    /\ AtPump /\ stop
    /\ Disconnect
    /\ Ends("none")
    /\ UNCHANGED <<env, fresh, batch, gap, established, stop, quiet, polls, output,
                   base, since, uncovered>>

\* --idle-timeout.
IdleExpires ==
    /\ AtPump /\ ~stop
    /\ Disconnect
    /\ Ends("none")
    /\ UNCHANGED <<env, fresh, batch, gap, established, stop, quiet, polls, output,
                   base, since, uncovered>>

\* A poll returns the first of the session's unread events.
Poll ==
    \E n \in 1 .. Len(link.inbox) :
        /\ batch' = SubSeq(link.inbox, 1, n)
        /\ link' = [link EXCEPT !.inbox = SubSeq(@, n + 1, Len(@))]

PumpPoll ==
    /\ AtPump /\ ~stop
    /\ Poll
    /\ UNCHANGED <<env, fresh, pc, attempt, gap, established, stop, quiet, polls,
                   output, history>>

\* The session is dead and everything it sent has been delivered.
PumpError ==
    /\ AtPump /\ ~stop /\ ~link.up /\ link.inbox = <<>>
    /\ Disconnect
    /\ Ends("transport")
    /\ UNCHANGED <<env, fresh, batch, gap, established, stop, quiet, polls, output,
                   base, since, uncovered>>

\* (mutant) rotation as a quiet reconnect
RotateByReconnect ==
    /\ AtPump /\ ~stop /\ Settled
    /\ pc' = "connect"
    /\ Disconnect
    /\ UNCHANGED <<env, fresh, batch, attempt, gap, established, stop, quiet, polls,
                   output, history>>

PumpRotate ==
    /\ AtPump /\ ~stop /\ Settled
    /\ pc' = "rconnect"
    /\ UNCHANGED <<env, link, fresh, batch, attempt, gap, established, stop, quiet,
                   polls, output, history>>

-----------------------------------------------------------------------------
\* Rotation: make before break.

ReplacementConnect ==
    /\ pc = "rconnect"
    /\ \/ ~down /\ fresh' = Opened /\ pc' = "rsubscribe"
       \/ pc' = "pump" /\ UNCHANGED fresh
    /\ UNCHANGED <<env, link, batch, attempt, gap, established, stop, quiet, polls,
                   output, history>>

ReplacementSubscribe ==
    /\ pc = "rsubscribe"
    /\ quiet' = 0 /\ polls' = 0
    /\ \/ /\ fresh.up /\ ~down
          /\ fresh' = [fresh EXCEPT !.sub = TRUE]
          /\ seam' = TRUE /\ recent' = {}
          /\ pc' = "drain"
       \/ /\ fresh' = None
          /\ pc' = "pump"
          /\ UNCHANGED <<seam, recent>>
    /\ UNCHANGED <<env, link, batch, attempt, gap, established, stop, emitted, out,
                   history>>

\* The old session says goodbye and the new one takes its place; with `done`
\* it says goodbye as well.
Handoff(done) ==
    /\ fresh' = None
    /\ IF done
       THEN Disconnect /\ Ends("none") /\ UNCHANGED uncovered
       ELSE /\ link' = fresh
            /\ pc' = "pump"
            /\ uncovered' = uncovered \cup
                   {e \in (since + 1 .. published) \ Unwanted :
                        ~InSeq(e, out) /\ ~InSeq(e, fresh.inbox)}
            /\ UNCHANGED <<attempt, outages>>
    /\ UNCHANGED since

AtDrain == pc = "drain" /\ batch = <<>>

DrainStop ==
    /\ AtDrain /\ stop
    /\ Handoff(TRUE)
    /\ UNCHANGED <<env, batch, gap, established, stop, quiet, polls, output, base>>

DrainPoll ==
    /\ AtDrain /\ ~stop /\ polls < DrainPolls
    /\ Poll
    /\ quiet' = 0 /\ polls' = polls + 1
    /\ UNCHANGED <<env, fresh, pc, attempt, gap, established, stop, output, history>>

DrainQuiet ==
    /\ AtDrain /\ ~stop /\ polls < DrainPolls /\ quiet + 1 < QuietPolls
    /\ link.up /\ link.inbox = <<>>
    /\ quiet' = quiet + 1 /\ polls' = polls + 1
    /\ UNCHANGED <<env, link, fresh, batch, pc, attempt, gap, established, stop,
                   output, history>>

\* The drain is over: dry, out of polls, or the old session died under it.
DrainEnds ==
    /\ AtDrain /\ ~stop
    /\ polls = DrainPolls \/ (link.inbox = <<>> /\ (~link.up \/ quiet + 1 >= QuietPolls))
    /\ Handoff(FALSE)
    /\ UNCHANGED <<env, batch, gap, established, stop, quiet, polls, output, base>>

-----------------------------------------------------------------------------
\* deliver, under the pump and under the drain: one event of the batch after
\* the other, whatever --duration or Ctrl-C say meanwhile.

DeliverSkip ==
    /\ batch # <<>> /\ ~Accepts(Head(batch))
    /\ batch' = Tail(batch)
    /\ UNCHANGED <<env, link, fresh, pc, attempt, gap, established, stop, quiet,
                   polls, output, history>>

\* --max-events met, the rest of the batch is dropped and the session, or in a
\* drain both, say goodbye.
DeliverEvent ==
    /\ batch # <<>> /\ Accepts(Head(batch))
    /\ Emit(Head(batch))
    /\ IF emitted' = Limit
       THEN batch' = <<>> /\ fresh' = None /\ Disconnect /\ Ends("none")
       ELSE batch' = Tail(batch) /\ UNCHANGED <<link, fresh, pc, attempt, outages>>
    /\ UNCHANGED <<env, gap, established, stop, quiet, polls, seam, base, since,
                   uncovered>>

\* stdout is closed.  Under the drain both sessions are subscribed and both
\* must say goodbye.
AbandonOld == UNCHANGED fresh /\ Disconnect /\ Ends("stdout")  \* (mutant)
AbandonBoth == fresh' = None /\ Disconnect /\ Ends("stdout")

DeliverFails ==
    /\ batch # <<>> /\ Accepts(Head(batch))
    /\ batch' = <<>>
    /\ AbandonBoth
    /\ UNCHANGED <<env, gap, established, stop, quiet, polls, output, base, since,
                   uncovered>>

Supervise ==
    \/ Connect \/ Subscribe \/ Announce \/ Backoff
    \/ PumpStop \/ PumpPoll \/ PumpError \/ PumpRotate
    \/ ReplacementConnect \/ ReplacementSubscribe
    \/ DrainStop \/ DrainPoll \/ DrainQuiet \/ DrainEnds
    \/ DeliverSkip \/ DeliverEvent \/ DeliverFails

Next == Supervise \/ IdleExpires \/ SeamExpires \/ Publish \/ Drop \/ GoDown \/ Interrupt

\* Minting cookies, dialling, every Bayeux exchange, polling and sleeping have
\* timeouts, so the supervisor keeps moving.  The TLS and websocket handshakes of
\* a connect have none of their own: that they end is assumed of the network.
Spec == Init /\ [][Next]_vars /\ WF_vars(Supervise)

-----------------------------------------------------------------------------
\* Properties.

Markers == Cardinality({i \in DOMAIN out : out[i] = Gap})

\* One marker per hole, however many attempts it took to close and whatever
\* ended the session: while it listens, a consumer has been told of every
\* outage exactly once.  (The first half of LossIsMarked.)
OneMarkerPerOutage ==
    /\ Markers <= outages
    /\ pc \in Subscribed \ {"announce"} => Markers = outages

\* An event that went by while no session was subscribed is on neither side of
\* its marker: whoever reads a later event has read, before it and after every
\* earlier one, that something is missing.
LossIsMarked ==
    OneMarkerPerOutage /\
    (established =>
        \A n \in base + 1 .. published :
            n \in Unwanted \cup uncovered \/ InSeq(n, out) \/ InSeq(n, batch)
            \/ InSeq(n, Pending(link)) \/ InSeq(n, Pending(fresh))
            \/ \A j \in DOMAIN out : out[j] > n =>
                   \E i \in 1 .. j - 1 : out[i] = Gap /\ \A k \in 1 .. i - 1 : out[k] < n)

\* Across drops and rotations the stream is in order and says nothing twice:
\* an event both sessions carried comes out once, from the old one first.
InOrder ==
    \A i, j \in DOMAIN out :
        i < j /\ out[i] \notin Unkeyed \cup {Gap} /\ out[j] \notin Unkeyed \cup {Gap}
            => out[i] < out[j]

\* --max-events counts events, and only those: not the markers, not what was
\* filtered out, not a seam's second copies.
LimitCountsEvents ==
    /\ emitted = Len(out) - Markers
    /\ emitted = Limit => pc = "done"
    /\ \A i \in DOMAIN out : out[i] \notin Unwanted

\* Every way out of a session known to be subscribed says goodbye: no subscription
\* outlives its reader, not even when stdout closes in the middle of a drain.
NothingStranded ==
    /\ pc \in {"connect", "backoff", "done"} => ~Live(link)
    /\ pc \notin {"rsubscribe", "drain"} => fresh = None

\* Ctrl-C and --duration end the watch from wherever it is.
StopsWhenAsked == stop ~> pc = "done"

\* "Give up after this many consecutive failed reconnects": a watch whose
\* instance never comes back ends once it has begun to reconnect.
GivesUp == down /\ pc = "backoff" ~> pc = "done"

\* A watch ends when it is told to and when its instance is gone for good.
WatchEnds == StopsWhenAsked /\ GivesUp

\* (Refuted, see README.)  "at every instant at least one live subscription
\* exists and a rotation opens no gap": no event falls between the session a
\* rotation retires and the one it brings in.
RotationOpensNoGap == uncovered = {}
=============================================================================
