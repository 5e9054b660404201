--------------------------------- MODULE Amb ---------------------------------
(***************************************************************************)
(* One AMB session (amb.rs): Bayeux over a websocket, from the handshake   *)
(* to its end.  Events flow only while a /meta/connect is outstanding, the *)
(* instance reaps the session when it likes, and a frame carries any run   *)
(* of messages: what poll and await_reply read is a non-empty prefix of    *)
(* what is on the wire.                                                    *)
(*                                                                         *)
(* The instance's half is modelled from what amb.rs says of it.  Whatever  *)
(* condemns a session (a status other than session.logged.in, an order to  *)
(* re-handshake) is one flag on a connect reply.                           *)
(***************************************************************************)
EXTENDS Naturals, Sequences, FiniteSets

CONSTANTS
    MaxEvent,   \* bound: events published
    None

ASSUME AmbAssumption == MaxEvent \in Nat /\ None \notin STRING

Event == 1 .. MaxEvent
Reply(k, b) == [kind |-> k, bad |-> b]
Data(n) == [kind |-> "event", n |-> n]

Meta == {"handshake", "connect", "subscribe"}
Message == {Reply(k, b) : k \in Meta, b \in BOOLEAN} \cup {Data(n) : n \in Event}
Request == {"handshake", "prime", "connect", "subscribe"}

VARIABLES
    session,    \* instance: the HTTP session behind the cookies, "live" or "reaped"
    channel,    \* instance: the channel is subscribed
    waiting,    \* instance: connects it has not answered
    published,  \* instance: events so far
    pending,    \* instance: events waiting for a connect to carry them
    up,         \* the socket
    requests,   \* client to instance
    wire,       \* instance to client
    pc,         \* where the client is
    dying,      \* Amb::dying
    returned,   \* the events poll has returned
    ended,      \* how the session ended
    verdict,    \* history: a connect reply that condemns the session was read
    passed      \* history: what await_reply dropped with the frame of its reply

instance == <<session, channel, waiting, published, pending>>
client == <<pc, dying, returned, ended, verdict, passed>>
vars == <<instance, up, requests, wire, client>>

Awaiting == {"handshake", "prime", "subscribe"}

TypeOK ==
    /\ session \in {"live", "reaped"} /\ channel \in BOOLEAN
    /\ waiting \in 0 .. 1
    /\ published \in 0 .. MaxEvent /\ pending \in Seq(Event)
    /\ up \in BOOLEAN
    /\ requests \in Seq(Request) /\ wire \in Seq(Message)
    /\ pc \in Awaiting \cup {"new", "open", "ready", "closed"}
    /\ dying \in BOOLEAN /\ returned \in Seq(Event)
    /\ ended \in {None, "asked", "auth", "transport", "refused"}
    /\ verdict \in BOOLEAN /\ passed \subseteq Message

Init ==
    /\ session \in {"live", "reaped"} /\ channel = FALSE /\ waiting = 0
    /\ published = 0 /\ pending = <<>>
    /\ up = TRUE /\ requests = <<>> /\ wire = <<>>
    /\ pc = "new" /\ dying = FALSE /\ returned = <<>> /\ ended = None
    /\ verdict = FALSE /\ passed = {}

-----------------------------------------------------------------------------
\* The instance.

Dead == session = "reaped"

\* It takes the next request: the priming connect is answered at once, the
\* next ones are held.  A table may be refused on a live session, and anything
\* is refused on a dead one.
Serve ==
    /\ up /\ requests # <<>>
    /\ requests' = Tail(requests)
    /\ \/ /\ Head(requests) = "handshake"
          /\ wire' = Append(wire, Reply("handshake", Dead))
          /\ UNCHANGED <<channel, waiting>>
       \/ /\ Head(requests) = "prime"
          /\ wire' = Append(wire, Reply("connect", Dead))
          /\ UNCHANGED <<channel, waiting>>
       \/ /\ Head(requests) = "connect"
          /\ waiting' = waiting + 1
          /\ UNCHANGED <<channel, wire>>
       \/ /\ Head(requests) = "subscribe"
          /\ \E refused \in {TRUE, Dead} :
                /\ wire' = Append(wire, Reply("subscribe", refused))
                /\ channel' = ~refused
          /\ UNCHANGED waiting
    /\ UNCHANGED <<session, published, pending, up, client>>

\* A held connect is answered, its time over or not, and whatever waits for it
\* goes along.
Carried == [i \in DOMAIN pending |-> Data(pending[i])]
AnswerConnect ==
    /\ up /\ waiting > 0
    /\ waiting' = waiting - 1
    /\ LET reply == <<Reply("connect", Dead)>>
       IN wire' \in {wire \o Carried \o reply, wire \o reply \o Carried}
    /\ pending' = <<>>
    /\ UNCHANGED <<session, channel, published, up, requests, client>>

\* A record changes.
Publish ==
    /\ published < MaxEvent /\ channel /\ ~Dead /\ up
    /\ published' = published + 1
    /\ pending' = Append(pending, published + 1)
    /\ UNCHANGED <<session, channel, waiting, up, requests, wire, client>>

\* Events flow while a connect is outstanding.
Deliver ==
    /\ up /\ waiting > 0 /\ pending # <<>>
    /\ wire' = wire \o Carried
    /\ pending' = <<>>
    /\ UNCHANGED <<session, channel, waiting, published, up, requests, client>>

\* A reaped session still answers and still takes connects; it just never
\* delivers another event.
Reap ==
    /\ ~Dead
    /\ session' = "reaped" /\ pending' = <<>>
    /\ UNCHANGED <<channel, waiting, published, up, requests, wire, client>>

\* The socket breaks, and what was in flight is lost from some point on.
Break ==
    /\ up
    /\ up' = FALSE /\ requests' = <<>>
    /\ \E n \in 0 .. Len(wire) : wire' = SubSeq(wire, 1, n)
    /\ UNCHANGED <<instance, client>>

-----------------------------------------------------------------------------
\* The client.

\* A send on a broken socket fails, or is lost without a word.
Send(m) == requests' = IF up THEN Append(requests, m) ELSE requests
SendMayFail == ~up

\* The error is returned and the socket dropped.
Fail(how) ==
    /\ pc' = "closed" /\ ended' = how /\ dying' = FALSE
    /\ up' = FALSE /\ requests' = <<>> /\ wire' = <<>>

RepliesTo(k) == {Reply(k, b) : b \in BOOLEAN}
Connect == RepliesTo("connect")
Condemning == {Reply("connect", TRUE)}      \* death_verdict
Has(frame, S) == \E i \in DOMAIN frame : frame[i] \in S

\* One websocket frame is read: what the socket has is framed as the instance
\* pleases.
Frames == 1 .. Len(wire)
Frame(n) == SubSeq(wire, 1, n)
Rest(n) == SubSeq(wire, n + 1, Len(wire))

\* Amb::connect: the upgrade is open, the handshake is sent.
Open ==
    /\ pc = "new"
    /\ \/ Send("handshake") /\ pc' = "handshake" /\ UNCHANGED <<up, wire, ended, dying>>
       \/ SendMayFail /\ Fail("transport")
    /\ UNCHANGED <<instance, returned, verdict, passed>>

\* Amb::subscribe, called on what connect returned.
Subscribe ==
    /\ pc = "open"
    /\ \/ Send("subscribe") /\ pc' = "subscribe" /\ UNCHANGED <<up, wire, ended, dying>>
       \/ SendMayFail /\ Fail("transport")
    /\ UNCHANGED <<instance, returned, verdict, passed>>

\* The channel whose reply await_reply is waiting for.
Awaited == IF pc = "prime" THEN "connect" ELSE pc

\* What its caller makes of the reply.
Answered(reply) ==
    \/ /\ pc = "handshake" /\ ~reply.bad
       /\ Send("prime") /\ pc' = "prime"
       /\ UNCHANGED <<up, ended, dying>>
    \/ /\ pc = "prime"
       /\ Send("connect") /\ pc' = "open"
       /\ UNCHANGED <<up, ended, dying>>
    \/ /\ pc = "subscribe" /\ ~reply.bad
       /\ pc' = "ready"
       /\ UNCHANGED <<requests, up, ended, dying>>

\* await_reply: the frame holds the reply.  It is returned from the middle of
\* the frame, whatever stands before it or after it.
AwaitReply ==
    /\ pc \in Awaiting
    /\ \E n \in Frames : \E at \in 1 .. n :
        /\ wire[at] \in RepliesTo(Awaited)
        /\ \A i \in 1 .. at - 1 : wire[i] \notin RepliesTo(Awaited) \cup Condemning
        /\ verdict' = (verdict \/ wire[at] \in Condemning)
        /\ passed' = passed \cup {wire[i] : i \in (1 .. n) \ {at}}
        /\ \/ Answered(wire[at]) /\ wire' = Rest(n)
           \/ pc = "handshake" /\ wire[at].bad /\ Fail("auth")
           \/ pc = "subscribe" /\ wire[at].bad /\ Fail("refused")
           \/ pc # "subscribe" /\ SendMayFail /\ Fail("transport")
    /\ UNCHANGED <<instance, returned>>

\* await_reply: a verdict overtook the reply.
AwaitVerdict ==
    /\ pc \in Awaiting \ {"prime"}
    /\ \E at \in DOMAIN wire :
        /\ wire[at] \in Condemning
        /\ \A i \in 1 .. at - 1 : wire[i] \notin RepliesTo(Awaited)
    /\ verdict' = TRUE
    /\ Fail("transport")
    /\ UNCHANGED <<instance, returned, passed>>

ForgetsToRearm == UNCHANGED <<requests, pc, ended, dying, up>>  \* (mutant)
\* The connect reply is answered with the next connect.
Rearm == Send("connect") /\ UNCHANGED <<pc, ended, dying, up>>

\* await_reply: something else came; a connect reply is re-armed.
AwaitMore ==
    /\ pc \in Awaiting
    /\ \E n \in Frames :
        /\ ~Has(Frame(n), RepliesTo(Awaited) \cup Condemning)
        /\ IF Has(Frame(n), Connect)
           THEN \/ Rearm /\ wire' = Rest(n)
                \/ SendMayFail /\ Fail("transport")
           ELSE wire' = Rest(n) /\ UNCHANGED <<requests, pc, ended, dying, up>>
    /\ UNCHANGED <<instance, returned, verdict, passed>>

\* read_batch found the socket closed, or nothing came within the timeout; or
\* the handshake reply says it was not successful.
AwaitFails ==
    /\ pc \in Awaiting /\ wire = <<>>
    /\ Fail("transport")
    /\ UNCHANGED <<instance, returned, verdict, passed>>

\* The events of a frame, in its order: the k-th of their places, and its number.
Places(frame) == {i \in DOMAIN frame : frame[i].kind = "event"}
Nth(S, k) == CHOOSE i \in S : Cardinality({j \in S : j < i}) = k - 1
FirstOnly(frame) ==  \* (mutant) only what comes first
    [k \in {1} \cap DOMAIN frame \cap Places(frame) |-> frame[k].n]
Numbers(frame) == [k \in 1 .. Cardinality(Places(frame)) |-> frame[Nth(Places(frame), k)].n]

\* (mutant) the verdict is returned at once, over the events beside it
VerdictAtOnce(frame) ==
    /\ Has(frame, Condemning)
    /\ verdict' = TRUE
    /\ Fail("transport") /\ UNCHANGED returned

\* (mutant) no one looks at the status
VerdictUnseen(frame) ==
    /\ Has(frame, Condemning)
    /\ verdict' = TRUE
    /\ returned' = returned \o Numbers(frame)
    /\ Send("connect") /\ wire' = Rest(Len(frame))
    /\ UNCHANGED <<pc, ended, dying, up>>

\* poll read a verdict: the events that share its frame go out first, and the
\* next poll reports it.
PollVerdict(frame) ==
    /\ Has(frame, Condemning)
    /\ verdict' = TRUE
    /\ returned' = returned \o Numbers(frame)
    /\ IF Numbers(frame) = <<>>
       THEN Fail("transport")
       ELSE /\ dying' = TRUE /\ wire' = Rest(Len(frame))
            /\ UNCHANGED <<requests, pc, ended, up>>

\* poll read events, a connect reply (never two, by ArmedOnce), or both.
PollBatch(frame) ==
    /\ ~Has(frame, Condemning)
    /\ \/ /\ returned' = returned \o Numbers(frame)
          /\ wire' = Rest(Len(frame))
          /\ IF Has(frame, Connect)
             THEN Rearm
             ELSE UNCHANGED <<requests, pc, ended, dying, up>>
       \/ /\ Has(frame, Connect) /\ SendMayFail
          /\ Fail("transport") /\ UNCHANGED returned
    /\ UNCHANGED verdict

Poll ==
    /\ pc = "ready" /\ ~dying
    /\ \E n \in Frames : PollVerdict(Frame(n)) \/ PollBatch(Frame(n))
    /\ UNCHANGED <<instance, passed>>

\* The verdict kept back last time, or a closed socket.
PollFails ==
    /\ pc = "ready"
    /\ dying \/ (~up /\ wire = <<>>)
    /\ Fail("transport")
    /\ UNCHANGED <<instance, returned, verdict, passed>>

\* Amb::disconnect.
Disconnect ==
    /\ pc \in {"open", "ready"}
    /\ Fail("asked")
    /\ UNCHANGED <<instance, returned, verdict, passed>>

Server == Serve \/ AnswerConnect \/ Deliver
Client == Open \/ Subscribe \/ AwaitReply \/ AwaitVerdict \/ AwaitMore \/ AwaitFails
              \/ Poll \/ PollFails
Next == Server \/ Client \/ Publish \/ Reap \/ Break \/ Disconnect

\* The instance answers what it is asked and delivers while it may; every read
\* of the client's has a timeout and the pump polls again.
Spec == Init /\ [][Next]_vars
          /\ WF_vars(Serve) /\ WF_vars(AnswerConnect) /\ WF_vars(Deliver) /\ WF_vars(Client)

-----------------------------------------------------------------------------
\* Properties.

Count(s, S) == Cardinality({i \in DOMAIN s : s[i] \in S})
Connects == waiting + Count(requests, {"connect"}) + Count(wire, Connect)

\* "every connect response must be answered with another one or the stream
\* goes quiet" (rearm): while a session is being read exactly one connect is
\* out -- with the instance, on its way, or answered and unread.
AlwaysArmed == pc \in {"subscribe", "ready"} /\ up /\ ~dying => Connects = 1

Careless == passed \cap Connect # {}

\* The same, but for the replies await_reply reads past; and never are two out,
\* which would double the instance's work at every reply.
ArmedOnce ==
    /\ Connects <= 1
    /\ pc \in {"subscribe", "ready"} /\ up /\ ~dying => Careless \/ Connects = 1

Unread == Numbers(wire)
Returned == {returned[i] : i \in DOMAIN returned}

\* What poll returns is a run of the channel's events with no hole in it and
\* nothing twice, however they were framed; and it goes on where it stopped,
\* with the wire and then with what the instance still holds.
NoHole ==
    LET s == returned \o (IF pc = "ready" /\ up THEN Unread \o pending ELSE <<>>)
    IN \A i \in 1 .. Len(s) - 1 : s[i + 1] = s[i] + 1

\* An event that shares its frame with the verdict is not lost to it: if the
\* session ends on a verdict, everything the instance delivered was returned.
VerdictComesLast ==
    [][pc = "ready" /\ pc' = "closed" /\ verdict' /\ ended' = "transport" /\ up
            => \A i \in DOMAIN Unread : Unread[i] \in Returned']_vars

\* No silent zombie: a session the instance has reaped ends at the client.
ReapedIsNoticed == Dead ~> (pc = "closed" \/ Careless)

\* A change is delivered or the session ends, and a session that is gone ends
\* here too: the stream is never quiet over an event.
EventArrives ==
    /\ ReapedIsNoticed
    /\ \A e \in Event : published >= e ~> (e \in Returned \/ Data(e) \in passed \/ pc = "closed" \/ Careless)
=============================================================================
