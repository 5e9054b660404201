---------------------------- MODULE TokenRefresh ----------------------------
(***************************************************************************)
(* Single-flight OAuth refresh: concurrent sn invocations that share one   *)
(* profile's cached tokens, the identity provider that may rotate refresh  *)
(* tokens, and the commands that replace or forget the tokens meanwhile.   *)
(*                                                                         *)
(* A token is the number of the IdP answer that issued it.  Time is        *)
(* counted in ticks where a timeout races another (an HTTP request, a wait *)
(* for the config lock); an access token may expire at any moment.         *)
(***************************************************************************)
EXTENDS Naturals, FiniteSets

CONSTANTS
    Proc,       \* sn invocations
    Client,     \* OAuth client configurations a profile may carry
    Headless,   \* those whose grant mints without a browser
    Commands,   \* the command lines an invocation may be started with
    MaxToken,   \* bound: the IdP answers this many requests
    Http,       \* ticks before an invocation's HTTP request times out
    Slack,      \* REFRESH_LOCK_SLACK in ticks
    LockWait,   \* LOCK_TIMEOUT in ticks
    None,       \* absent
    Free        \* the owner of a lock nobody holds

Token == 1 .. MaxToken
TokenSet == [access : Token, refresh : Token \cup {None}]

\* "api" is any command that talks to the instance; "readd" is `sn profile add
\* --force --no-verify` and "remove" `sn profile remove`.
Command == [kind : {"api", "refresh", "login", "logout", "readd", "remove"},
            client : Client]

ASSUME RefreshAssumption ==
    /\ Headless \subseteq Client /\ Commands \subseteq Command
    /\ MaxToken \in Nat /\ Slack \in Nat \ {0} /\ LockWait \in Nat
    /\ Http \in [Proc -> Nat]
    /\ Free \notin Proc
    /\ None \notin Client \cup Nat \cup TokenSet \cup Command

VARIABLES
    client,     \* config.toml: the profile's OAuth client, None when removed
    tokens,     \* credentials.toml: the profile's oauth_tokens
    lock,       \* who holds .sn.lock
    valid,      \* IdP: the refresh tokens it accepts
    issued,     \* IdP: the client each token was issued to, in order
    stray,      \* refresh requests given up on that may still reach the IdP
    expired,    \* access tokens within REFRESH_SKEW_SECS of their expiry
    pc,         \* where each invocation is
    cmd,        \* what it was asked; a login becomes "api" to verify itself
    view,       \* the client it resolved
    snap,       \* the tokens it resolved
    rt,         \* the refresh token in its request, None for a minting grant
    got,        \* the token set the IdP answered with
    clock,      \* ticks since it began to wait, or sent its request
    overtaken,  \* history: the lock was released while it waited
    lost        \* history: spent refresh tokens whose successor was not saved

vars == <<client, tokens, lock, valid, issued, stray, expired, pc, cmd, view,
          snap, rt, got, clock, overtaken, lost>>
disk == <<client, tokens>>
idp == <<valid, issued>>

Waiting == {"wait"}
Network == {"sent", "answered"}
LockedLocal == {"locked", "second", "save"}
Steps == {"config", "creds", "exchange"} \cup Waiting \cup Network \cup LockedLocal

TypeOK ==
    /\ client \in Client \cup {None}
    /\ tokens \in TokenSet \cup {None}
    /\ lock \in Proc \cup {Free}
    /\ valid \subseteq Token
    /\ issued \in [Token -> Client \cup {None}]
    /\ stray \subseteq Token
    /\ expired \subseteq Token
    /\ pc \in [Proc -> Steps \cup {"idle", "done"}]
    /\ cmd \in [Proc -> Command \cup {None}]
    /\ view \in [Proc -> Client \cup {None}]
    /\ snap \in [Proc -> TokenSet \cup {None}]
    /\ rt \in [Proc -> Token \cup {None}]
    /\ got \in [Proc -> TokenSet \cup {None}]
    /\ clock \in [Proc -> Nat]
    /\ overtaken \in [Proc -> BOOLEAN]
    /\ lost \subseteq Token

\* A configured profile, logged in or not; its tokens are the first the IdP
\* issued.
Init ==
    /\ client \in Client
    /\ \/ /\ tokens = None
          /\ valid = {}
          /\ issued = [k \in Token |-> None]
       \/ /\ 1 \in Token
          /\ tokens \in [access : {1}, refresh : {1, None}]
          /\ valid = {tokens.refresh} \ {None}
          /\ issued = [k \in Token |-> IF k = 1 THEN client ELSE None]
    /\ lock = Free
    /\ stray = {} /\ expired = {} /\ lost = {}
    /\ pc = [p \in Proc |-> "idle"]
    /\ cmd = [p \in Proc |-> None]
    /\ view = [p \in Proc |-> None]
    /\ snap = [p \in Proc |-> None]
    /\ rt = [p \in Proc |-> None]
    /\ got = [p \in Proc |-> None]
    /\ clock = [p \in Proc |-> 0]
    /\ overtaken = [p \in Proc |-> FALSE]

-----------------------------------------------------------------------------
Kind(p) == cmd[p].kind

\* is_expired(REFRESH_SKEW_SECS) says no.
Fresh(t) == t # None /\ t.access \notin expired

RefreshOf(t) == IF t = None THEN None ELSE t.refresh

\* (mutant) a refresher waits like any other writer
PlainBudget(p) == LockWait

\* refresh_lock_timeout for whoever refreshes under the lock, LOCK_TIMEOUT for
\* the plain writers.
Budget(p) == IF Kind(p) \in {"api", "refresh"} THEN Http[p] + Slack ELSE LockWait

Goto(p, l) == pc' = [pc EXCEPT ![p] = l]

Busy(p) == pc[p] \in Steps

\* Start to wait for the lock.
Queue(p) ==
    /\ Goto(p, "wait")
    /\ clock' = [clock EXCEPT ![p] = 0]
    /\ overtaken' = [overtaken EXCEPT ![p] = FALSE]

\* Drop the lock: whoever else waits may be overtaken.
Release(p) ==
    /\ lock' = Free
    /\ overtaken' = [q \in Proc |-> q # p /\ (overtaken[q] \/ pc[q] = "wait")]

\* The invocation ends, and with it all it knew.
End(p) ==
    /\ Goto(p, "done")
    /\ view' = [view EXCEPT ![p] = None]
    /\ snap' = [snap EXCEPT ![p] = None]
    /\ rt' = [rt EXCEPT ![p] = None]
    /\ got' = [got EXCEPT ![p] = None]
    /\ clock' = [clock EXCEPT ![p] = 0]

Begin(p) ==
    /\ pc[p] = "idle"
    /\ \E c \in Commands :
        /\ cmd' = [cmd EXCEPT ![p] = c]
        /\ IF c.kind \in {"api", "refresh", "login"}
           THEN Goto(p, "config") /\ UNCHANGED <<clock, overtaken>>
           ELSE Queue(p)
    /\ UNCHANGED <<disk, lock, idp, stray, expired, view, snap, rt, got, lost>>

\* build_profile, without the lock: config.toml, then credentials.toml.
ReadConfig(p) ==
    /\ pc[p] = "config"
    /\ view' = [view EXCEPT ![p] = client]
    /\ Goto(p, IF client = None THEN "done" ELSE "creds")
    /\ UNCHANGED <<disk, lock, idp, stray, expired, cmd, snap, rt, got, clock,
                   overtaken, lost>>

\* ensure_access_token's fast path: an unexpired snapshot needs no lock.
ReadCreds(p) ==
    /\ pc[p] = "creds"
    /\ CASE Kind(p) = "login" ->
               /\ Goto(p, "exchange")
               /\ UNCHANGED <<view, snap, rt, got, clock, overtaken>>
         [] Kind(p) = "api" /\ Fresh(tokens) -> End(p) /\ UNCHANGED overtaken
         [] OTHER ->
               /\ snap' = [snap EXCEPT ![p] = tokens]
               /\ Queue(p)
               /\ UNCHANGED <<view, rt, got>>
    /\ UNCHANGED <<disk, lock, idp, stray, expired, cmd, lost>>

Acquire(p) ==
    /\ pc[p] = "wait" /\ lock = Free
    /\ lock' = p
    /\ Goto(p, IF Kind(p) = "login" THEN "save" ELSE "locked")
    /\ clock' = [clock EXCEPT ![p] = 0]
    /\ UNCHANGED <<disk, idp, stray, expired, cmd, view, snap, rt, got,
                   overtaken, lost>>

\* lock_dir gives up once a try after its deadline still finds the lock held.
LockTimeout(p) ==
    /\ pc[p] = "wait" /\ lock # Free
    /\ clock[p] >= Budget(p)
    /\ End(p)
    /\ UNCHANGED <<disk, lock, idp, stray, expired, cmd, overtaken, lost>>

\* Under the lock the file is the truth: its refresh token before the one the
\* invocation resolved when it started.
SnapshotFirst(p) ==  \* (mutant)
    IF RefreshOf(snap[p]) # None THEN RefreshOf(snap[p]) ELSE RefreshOf(tokens)
RefreshToken(p) ==
    IF RefreshOf(tokens) # None THEN RefreshOf(tokens) ELSE RefreshOf(snap[p])

\* What a refresher does after its second look at the tokens.
AlwaysRefresh(p) ==  \* (mutant) no second look
    IF RefreshToken(p) # None THEN "refresh"
    ELSE IF view[p] \in Headless THEN "mint" ELSE "login"
Plan(p) ==
    IF Kind(p) = "api" /\ Fresh(tokens) THEN "return"
    ELSE IF RefreshToken(p) # None /\ ~(Kind(p) = "refresh" /\ view[p] \in Headless)
         THEN "refresh"
    ELSE IF view[p] \in Headless THEN "mint" ELSE "login"

\* ensure_access_token and force_refresh, from the lock to the request: only
\* "mint" and "refresh" go on to the IdP.
Reread(p) ==
    /\ pc[p] = "locked" /\ Kind(p) \in {"api", "refresh"}
    /\ IF Plan(p) \in {"return", "login"}
       THEN End(p) /\ Release(p)
       ELSE /\ rt' = [rt EXCEPT ![p] =
                          IF Plan(p) = "refresh" THEN RefreshToken(p) ELSE None]
            /\ Goto(p, "sent")
            /\ UNCHANGED <<lock, view, snap, got, clock, overtaken>>
    /\ UNCHANGED <<disk, idp, stray, expired, cmd, lost>>

-----------------------------------------------------------------------------
\* The identity provider.

\* The number of its next answer.
NextToken(k) == issued[k] = None /\ \A j \in Token : j < k => issued[j] # None

\* It issues the token set t to the client c, and from now on accepts the
\* refresh tokens keep and the set's own.
Issue(t, c, keep) ==
    /\ issued' = [issued EXCEPT ![t.access] = c]
    /\ valid' = keep \cup ({t.refresh} \ {None})

\* It processes p's request.  A refresh token it accepts may be rotated (the
\* old one is spent, a new one is in the answer) or kept (`refresh` then
\* carries the old one over); any other is a 401.
Answer(p) ==
    /\ pc[p] = "sent"
    /\ \E k \in Token : \E r \in {k, rt[p]} :
        /\ NextToken(k)
        /\ IF rt[p] = None \/ (rt[p] \in valid /\ issued[rt[p]] = view[p])
           THEN /\ got' = [got EXCEPT ![p] = [access |-> k, refresh |-> r]]
                /\ Issue([access |-> k, refresh |-> r], view[p], valid \ {rt[p]})
           ELSE UNCHANGED <<got, idp>>
    /\ Goto(p, "answered")
    /\ UNCHANGED <<disk, lock, stray, expired, cmd, view, snap, rt, clock,
                   overtaken, lost>>

\* A request whose sender gave up reaches it after all, and its answer nobody.
LateRequest ==
    /\ \E r \in stray :
        /\ stray' = stray \ {r}
        /\ \/ UNCHANGED <<valid, lost>>
           \/ /\ r \in valid
              /\ valid' = valid \ {r}
              /\ lost' = lost \cup {r}
    /\ UNCHANGED <<disk, lock, issued, expired, pc, cmd, view, snap, rt, got,
                   clock, overtaken>>

\* The user signs in, or a headless grant is minted: a code's answer carries a
\* refresh token, a minted one may not.  No lock is held.
Exchange(p) ==
    /\ pc[p] = "exchange"
    /\ \E k \in Token : \E r \in {k, None} :
        /\ NextToken(k)
        /\ r = k \/ view[p] \in Headless
        /\ got' = [got EXCEPT ![p] = [access |-> k, refresh |-> r]]
        /\ Issue([access |-> k, refresh |-> r], view[p], valid)
    /\ Queue(p)
    /\ UNCHANGED <<disk, lock, stray, expired, cmd, view, snap, rt, lost>>

\* The sign-in is given up, or fails.
NoSignIn(p) ==
    /\ pc[p] = "exchange"
    /\ End(p)
    /\ UNCHANGED <<disk, lock, idp, stray, expired, cmd, overtaken, lost>>

Expire ==
    /\ \E k \in Token \ expired : issued[k] # None /\ expired' = expired \cup {k}
    /\ UNCHANGED <<disk, lock, idp, stray, pc, cmd, view, snap, rt, got, clock,
                   overtaken, lost>>

-----------------------------------------------------------------------------
Receive(p) ==
    /\ pc[p] = "answered"
    /\ IF got[p] = None
       THEN End(p) /\ Release(p)
       ELSE Goto(p, "save") /\ UNCHANGED <<lock, view, snap, rt, got, clock, overtaken>>
    /\ UNCHANGED <<disk, idp, stray, expired, cmd, lost>>

\* save_oauth_tokens, nested in the refresher's lock or taking a login's own.
\* A login then verifies what it saved, as any command would.
Save(p) ==
    /\ pc[p] = "save"
    /\ tokens' = got[p]
    /\ Release(p)
    /\ IF Kind(p) = "login"
       THEN /\ cmd' = [cmd EXCEPT ![p].kind = "api"]
            /\ Goto(p, "config")
            /\ got' = [got EXCEPT ![p] = None]
            /\ UNCHANGED <<view, snap, rt, clock>>
       ELSE End(p) /\ UNCHANGED cmd
    /\ UNCHANGED <<client, idp, stray, expired, lost>>

\* clear_oauth_tokens.
Logout(p) ==
    /\ pc[p] = "locked" /\ Kind(p) = "logout"
    /\ tokens' = None
    /\ End(p) /\ Release(p)
    /\ UNCHANGED <<client, idp, stray, expired, cmd, lost>>

\* save_profile_locked renames credentials.toml, the tokens cleared, and then
\* config.toml; a removal goes the other way round.
ReplaceFirst(p) ==
    /\ pc[p] = "locked" /\ Kind(p) \in {"readd", "remove"}
    /\ IF Kind(p) = "readd"
       THEN tokens' = None /\ UNCHANGED client
       ELSE client' = None /\ UNCHANGED tokens
    /\ Goto(p, "second")
    /\ UNCHANGED <<lock, idp, stray, expired, cmd, view, snap, rt, got, clock,
                   overtaken, lost>>

ReplaceSecond(p) ==
    /\ pc[p] = "second"
    /\ IF Kind(p) = "readd"
       THEN client' = cmd[p].client /\ UNCHANGED tokens
       ELSE tokens' = None /\ UNCHANGED client
    /\ End(p) /\ Release(p)
    /\ UNCHANGED <<idp, stray, expired, cmd, lost>>

-----------------------------------------------------------------------------
\* Giving up.  The guard drops the lock; an answer on its way or in hand is
\* gone, and a request still on its way may yet be processed.
Abandon(p) ==
    /\ End(p)
    /\ IF lock = p THEN Release(p) ELSE UNCHANGED <<lock, overtaken>>
    /\ stray' = IF pc[p] = "sent" THEN stray \cup ({rt[p]} \ {None}) ELSE stray
    /\ lost' = IF pc[p] \in {"answered", "save"} /\ got[p] # None
               THEN lost \cup ({rt[p]} \ ({None} \cup valid)) ELSE lost
    /\ UNCHANGED <<disk, idp, expired, cmd>>

\* The client's request timeout.
NoHttpTimeout(p) == FALSE /\ UNCHANGED vars  \* (mutant) a client built without one
HttpTimeout(p) == pc[p] \in Network /\ clock[p] >= Http[p] /\ Abandon(p)

\* The connection fails, or reading or writing a file does.
IOError(p) == pc[p] \in Network \cup LockedLocal /\ Abandon(p)

\* The process is killed; the kernel closes its handle on the lock.
Crash(p) == Busy(p) /\ Abandon(p)

\* Time passes for those who wait: never past a deadline that is due, and the
\* work done under the lock without the network takes none of it.
Tick ==
    /\ \E p \in Proc : pc[p] \in Waiting \cup Network
    /\ \A p \in Proc :
        /\ pc[p] \notin LockedLocal
        /\ pc[p] = "wait" => lock # Free /\ clock[p] < Budget(p)
        /\ pc[p] \in Network => clock[p] < Http[p]
    /\ clock' = [p \in Proc |->
                     IF pc[p] \in Waiting \cup Network THEN clock[p] + 1 ELSE clock[p]]
    /\ UNCHANGED <<disk, lock, idp, stray, expired, pc, cmd, view, snap, rt, got,
                   overtaken, lost>>

\* What sn itself does; the rest is up to the IdP, the user and the machine.
Step(p) ==
    \/ ReadConfig(p) \/ ReadCreds(p) \/ Acquire(p) \/ LockTimeout(p) \/ Reread(p)
    \/ Receive(p) \/ Save(p) \/ Logout(p) \/ ReplaceFirst(p) \/ ReplaceSecond(p)
    \/ HttpTimeout(p)

Next ==
    \/ \E p \in Proc : Begin(p) \/ Step(p) \/ Answer(p) \/ Exchange(p)
                         \/ NoSignIn(p) \/ IOError(p) \/ Crash(p)
    \/ LateRequest \/ Expire \/ Tick

\* A started invocation keeps running and time passes.  Nothing is assumed of
\* the IdP, nor of the user a sign-in waits for.
Spec == Init /\ [][Next]_vars /\ WF_vars(Tick) /\ \A p \in Proc : WF_vars(Step(p))

-----------------------------------------------------------------------------
\* Properties.

\* Single flight: whoever gets the lock second finds the token its sibling has
\* just written and returns it; no command refreshes while what is cached is
\* good, however many of them woke up on the token that was not.
RefreshesOnce ==
    \A p \in Proc : pc[p] \in Network /\ Kind(p) = "api" /\ tokens # None
        => tokens.access \in expired

\* Under rotation nobody presents a refresh token a sibling has spent: as long
\* as tokens are cached, the one in a request is still good, or its successor
\* never reached the disk.
NoSiblingSpentIt ==
    \A p \in Proc : pc[p] = "sent" /\ RefreshOf(tokens) # None
        => rt[p] \in valid \cup lost \cup {None}

\* The write half of it: whenever the lock is free, the cached refresh token is
\* one the IdP still accepts, unless an answer was lost between the IdP and the
\* disk - to a crash, a timeout or a failed write.
DiskTokenIsLive ==
    lock = Free => RefreshOf(tokens) \in valid \cup lost \cup {None}

\* Refresh tokens that the IdP rotates are neither presented twice nor mislaid.
RotationIsSafe == NoSiblingSpentIt /\ DiskTokenIsLive

\* A refresher out-waits a holder that uses up its whole request budget: it can
\* only run out of patience once the lock has passed to yet another process,
\* or behind one that was given a longer --timeout.
WaiterOutlastsHolder ==
    \A p \in Proc :
        pc[p] = "wait" /\ Kind(p) \in {"api", "refresh"} /\ lock # Free
        /\ clock[p] >= Budget(p)
            => overtaken[p] \/ Http[lock] > Http[p]

\* Holding the lock across a round trip hangs nobody, whatever the IdP does:
\* an invocation that is not waiting for its user ends.
NobodyHangs ==
    \A p \in Proc :
        pc[p] \in Steps \ {"exchange"} ~> pc[p] \in {"exchange", "done"}

\* What `save_profile_locked` says when it clears them: tokens minted under the
\* old client must not keep answering for the new configuration.
OldClientForgotten ==
    lock = Free /\ tokens # None /\ client # None
        => issued[tokens.access] = client
=============================================================================
