-------------------------- MODULE TokenRefreshProofs --------------------------
(***************************************************************************)
(* Proofs about TokenRefresh for any number of invocations, clients,       *)
(* tokens and timeouts: the lock is held by one invocation, an expired     *)
(* token is refreshed once, a rotated refresh token is neither presented   *)
(* twice nor mislaid, and a refresher out-waits the holder of the lock.    *)
(***************************************************************************)
EXTENDS TokenRefresh, TLAPS

Refreshers == {"api", "refresh"}

\* Where an invocation is says who holds the lock and what it was asked.
ControlState ==
    \A p \in Proc :
        /\ lock = p <=> pc[p] \in Network \cup LockedLocal
        /\ pc[p] \in Steps => cmd[p] \in Command
        /\ pc[p] \in {"config", "creds"} => Kind(p) \in Refreshers \cup {"login"}
        /\ pc[p] = "exchange" => Kind(p) = "login"
        /\ pc[p] \in Network => Kind(p) \in Refreshers
        /\ pc[p] \in {"locked", "second"} => Kind(p) # "login"
        /\ pc[p] = "save" => Kind(p) \in Refreshers \cup {"login"}
        /\ pc[p] \in Steps \ {"config"} /\ Kind(p) \in Refreshers \cup {"login"} =>
               view[p] # None

\* Only an answer in hand is a token set got and not yet saved.
AnswerInHand ==
    \A p \in Proc : got[p] # None =>
        \/ pc[p] \in {"answered", "save"}
        \/ pc[p] = "wait" /\ Kind(p) = "login"

\* A refresh token that is known anywhere was issued.
KnownWereIssued ==
    /\ RefreshOf(tokens) # None => issued[RefreshOf(tokens)] # None
    /\ \A k \in valid : issued[k] # None
    /\ \A p \in Proc :
        /\ RefreshOf(snap[p]) # None => issued[RefreshOf(snap[p])] # None
        /\ RefreshOf(got[p]) # None => issued[RefreshOf(got[p])] # None
        /\ rt[p] # None => issued[rt[p]] # None

\* What a login has got and not saved is known to nobody else.
LoginIsPrivate ==
    \A p \in Proc : pc[p] \in {"wait", "save"} /\ Kind(p) = "login" /\ RefreshOf(got[p]) # None =>
        /\ RefreshOf(tokens) # RefreshOf(got[p])
        /\ \A q \in Proc :
            /\ RefreshOf(snap[q]) # RefreshOf(got[p])
            /\ rt[q] # RefreshOf(got[p])
            /\ q # p => RefreshOf(got[q]) # RefreshOf(got[p])

\* A request made under the lock presents the cached refresh token, if there
\* is one; what is cached is good, and what is in hand is better, when the
\* answer has spent it.
Good == valid \cup lost \cup {None}
TokensInUse ==
    /\ \A p \in Proc :
        /\ pc[p] = "sent" /\ RefreshOf(tokens) # None => rt[p] \in {None, RefreshOf(tokens)}
        /\ RefreshOf(got[p]) \in Good
    /\ \/ RefreshOf(tokens) \in Good
       \/ \E p \in Proc : pc[p] \in {"answered", "save"} /\ got[p] # None
                            /\ RefreshOf(tokens) = rt[p]

\* Whoever waits has waited no longer than the holder has held the lock, and
\* the holder no longer than its request may take.
Clocks ==
    \A p \in Proc :
        /\ pc[p] \in Network \cup LockedLocal => clock[p] <= Http[p]
        /\ pc[p] = "wait" /\ ~overtaken[p] =>
              /\ lock = Free => clock[p] = 0
              /\ lock # Free => clock[p] <= clock[lock]

Inv == TypeOK /\ ControlState /\ AnswerInHand /\ KnownWereIssued /\ LoginIsPrivate
         /\ TokensInUse /\ Clocks /\ RefreshesOnce
-----------------------------------------------------------------------------
\* It holds of the files an invocation may find.
LEMMA InitInv == Init => Inv
<1>. SUFFICES ASSUME Init PROVE Inv
  OBVIOUS
<1>. USE RefreshAssumption DEF Init
<1>1. TypeOK
  BY DEF TypeOK, Token, TokenSet
<1>2. KnownWereIssued
  BY DEF KnownWereIssued, RefreshOf, Token
<1>3. TokensInUse
  BY DEF TokensInUse, Good, RefreshOf
<1>4. ControlState /\ AnswerInHand /\ LoginIsPrivate /\ Clocks /\ RefreshesOnce
  BY DEF ControlState, AnswerInHand, LoginIsPrivate, Clocks, RefreshesOnce, Steps,
         Network, LockedLocal, Waiting
<1>. QED  BY <1>1, <1>2, <1>3, <1>4 DEF Inv

\* A failed request, a failed write and a kill are one way out.
LEMMA GivingUp ==
    ASSUME NEW p \in Proc, HttpTimeout(p) \/ IOError(p) \/ Crash(p)
    PROVE  Busy(p) /\ Abandon(p)
BY DEF HttpTimeout, IOError, Crash, Busy, Steps
-----------------------------------------------------------------------------
\* The steps that all actions share keep the types.
LEMMA LocalTypes ==
    ASSUME TypeOK, NEW p \in Proc
    PROVE  /\ \A l \in Steps \cup {"done"} :
                 Goto(p, l) => pc' \in [Proc -> Steps \cup {"idle", "done"}]
           /\ Queue(p) => /\ pc' \in [Proc -> Steps \cup {"idle", "done"}]
                          /\ clock' \in [Proc -> Nat]
                          /\ overtaken' \in [Proc -> BOOLEAN]
           /\ Release(p) => lock' \in Proc \cup {Free} /\ overtaken' \in [Proc -> BOOLEAN]
           /\ End(p) => /\ pc' \in [Proc -> Steps \cup {"idle", "done"}]
                        /\ view' \in [Proc -> Client \cup {None}]
                        /\ snap' \in [Proc -> TokenSet \cup {None}]
                        /\ rt' \in [Proc -> Token \cup {None}]
                        /\ got' \in [Proc -> TokenSet \cup {None}]
                        /\ clock' \in [Proc -> Nat]
<1>. USE DEF TypeOK, Goto, Steps, Waiting
<1>1. \A l \in Steps \cup {"done"} :
          Goto(p, l) => pc' \in [Proc -> Steps \cup {"idle", "done"}]
  OBVIOUS
<1>2. Queue(p) => clock' \in [Proc -> Nat] /\ overtaken' \in [Proc -> BOOLEAN]
  BY DEF Queue
<1>3. Release(p) => lock' \in Proc \cup {Free} /\ overtaken' \in [Proc -> BOOLEAN]
  BY DEF Release
<1>4. End(p) => /\ view' \in [Proc -> Client \cup {None}]
                /\ snap' \in [Proc -> TokenSet \cup {None}]
                /\ rt' \in [Proc -> Token \cup {None}]
                /\ got' \in [Proc -> TokenSet \cup {None}]
                /\ clock' \in [Proc -> Nat]
  BY DEF End
<1>. QED  BY <1>1, <1>2, <1>3, <1>4 DEF Queue, End

\* Every step keeps the types.
LEMMA StepKeepsType == Inv /\ [Next]_vars => TypeOK'
<1>. SUFFICES ASSUME Inv, [Next]_vars PROVE TypeOK'
  OBVIOUS
<1>0. TypeOK
  BY DEF Inv
<1>. USE <1>0, LocalTypes DEF TypeOK, disk, idp, Steps, Waiting, Network, LockedLocal
<1>1. ASSUME NEW p \in Proc, Begin(p) PROVE TypeOK'
  <2>1. PICK c \in Commands : cmd' = [cmd EXCEPT ![p] = c]
    BY <1>1 DEF Begin
  <2>2. cmd' \in [Proc -> Command \cup {None}]
    BY <2>1, RefreshAssumption
  <2>. QED  BY <1>1, <2>2 DEF Begin
<1>2. ASSUME NEW p \in Proc, ReadConfig(p) PROVE TypeOK'
  BY <1>2 DEF ReadConfig
<1>3. ASSUME NEW p \in Proc, ReadCreds(p) PROVE TypeOK'
  BY <1>3 DEF ReadCreds
<1>4. ASSUME NEW p \in Proc, Acquire(p) PROVE TypeOK'
  BY <1>4 DEF Acquire
<1>5. ASSUME NEW p \in Proc, LockTimeout(p) PROVE TypeOK'
  BY <1>5 DEF LockTimeout
<1>6. ASSUME NEW p \in Proc, Reread(p) PROVE TypeOK'
  <2>1. RefreshToken(p) \in Token \cup {None}
    BY DEF RefreshToken, RefreshOf, TokenSet
  <2>. QED  BY <1>6, <2>1 DEF Reread
<1>7. ASSUME NEW p \in Proc, Answer(p) PROVE TypeOK'
  <2>1. PICK k \in Token, r \in Token \cup {None} :
           \/ /\ got' = [got EXCEPT ![p] = [access |-> k, refresh |-> r]]
              /\ Issue([access |-> k, refresh |-> r], view[p], valid \ {rt[p]})
           \/ UNCHANGED <<got, valid, issued>>
    BY <1>7 DEF Answer
  <2>2. [access |-> k, refresh |-> r] \in TokenSet
    BY DEF TokenSet
  <2>3. got' \in [Proc -> TokenSet \cup {None}]
    BY <2>1, <2>2
  <2>4. valid' \subseteq Token /\ issued' \in [Token -> Client \cup {None}]
    BY <2>1 DEF Issue
  <2>. QED  BY <1>7, <2>3, <2>4 DEF Answer
<1>8. ASSUME NEW p \in Proc, Exchange(p) PROVE TypeOK'
  <2>1. PICK k \in Token, r \in Token \cup {None} :
           /\ got' = [got EXCEPT ![p] = [access |-> k, refresh |-> r]]
           /\ Issue([access |-> k, refresh |-> r], view[p], valid)
    BY <1>8 DEF Exchange
  <2>2. [access |-> k, refresh |-> r] \in TokenSet
    BY DEF TokenSet
  <2>3. got' \in [Proc -> TokenSet \cup {None}]
    BY <2>1, <2>2
  <2>4. valid' \subseteq Token /\ issued' \in [Token -> Client \cup {None}]
    BY <2>1 DEF Issue
  <2>. QED  BY <1>8, <2>3, <2>4 DEF Exchange
<1>9. ASSUME NEW p \in Proc, NoSignIn(p) PROVE TypeOK'
  BY <1>9 DEF NoSignIn
<1>10. ASSUME NEW p \in Proc, Receive(p) PROVE TypeOK'
  BY <1>10 DEF Receive
<1>11. ASSUME NEW p \in Proc, Save(p) PROVE TypeOK'
  <2>1. tokens' \in TokenSet \cup {None}
    BY <1>11 DEF Save
  <2>2. cmd' \in [Proc -> Command \cup {None}]
    <3>1. cmd[p] \in Command
      BY <1>11 DEF Save, Inv, ControlState
    <3>2. [cmd[p] EXCEPT !.kind = "api"] \in Command
      BY <3>1 DEF Command
    <3>. QED  BY <1>11, <3>2 DEF Save
  <2>3. /\ got' \in [Proc -> TokenSet \cup {None}]
        /\ pc' \in [Proc -> Steps \cup {"idle", "done"}]
    BY <1>11 DEF Save
  <2>. QED  BY <1>11, <2>1, <2>2, <2>3 DEF Save
<1>12. ASSUME NEW p \in Proc, Logout(p) PROVE TypeOK'
  BY <1>12 DEF Logout
<1>13. ASSUME NEW p \in Proc, ReplaceFirst(p) PROVE TypeOK'
  BY <1>13 DEF ReplaceFirst
<1>14. ASSUME NEW p \in Proc, ReplaceSecond(p) PROVE TypeOK'
  <2>1. cmd[p] \in Command
    BY <1>14 DEF ReplaceSecond, Inv, ControlState
  <2>2. client' \in Client \cup {None} /\ tokens' \in TokenSet \cup {None}
    BY <1>14, <2>1 DEF ReplaceSecond, Command
  <2>. QED  BY <1>14, <2>2 DEF ReplaceSecond
<1>15. ASSUME NEW p \in Proc, Abandon(p) PROVE TypeOK'
  BY <1>15 DEF Abandon
<1>16. CASE LateRequest
  BY <1>16 DEF LateRequest
<1>17. CASE Expire
  BY <1>17 DEF Expire
<1>18. CASE Tick
  BY <1>18 DEF Tick
<1>19. CASE UNCHANGED vars
  BY <1>19 DEF vars
<1>. QED
  BY <1>1, <1>2, <1>3, <1>4, <1>5, <1>6, <1>7, <1>8, <1>9, <1>10, <1>11, <1>12, <1>13, <1>14, <1>15, <1>16, <1>17, <1>18, <1>19, GivingUp DEF Next, Step

\* Every step leaves an invocation where its lock and command say.
LEMMA StepKeepsControl == Inv /\ [Next]_vars => ControlState'
<1>. SUFFICES ASSUME Inv, [Next]_vars PROVE ControlState'
  OBVIOUS
<1>. USE RefreshAssumption DEF Inv, TypeOK, Goto, End, Release, Queue, disk, idp, Steps, Waiting, Network,
           LockedLocal, Kind, ControlState, Refreshers, Command
<1>1. ASSUME NEW p \in Proc, Begin(p) PROVE ControlState'
  BY <1>1 DEF Begin
<1>2. ASSUME NEW p \in Proc, ReadConfig(p) PROVE ControlState'
  BY <1>2 DEF ReadConfig
<1>3. ASSUME NEW p \in Proc, ReadCreds(p) PROVE ControlState'
  BY <1>3 DEF ReadCreds
<1>4. ASSUME NEW p \in Proc, Acquire(p) PROVE ControlState'
  BY <1>4 DEF Acquire
<1>5. ASSUME NEW p \in Proc, LockTimeout(p) PROVE ControlState'
  BY <1>5 DEF LockTimeout
<1>6. ASSUME NEW p \in Proc, Reread(p) PROVE ControlState'
  BY <1>6 DEF Reread
<1>7. ASSUME NEW p \in Proc, Answer(p) PROVE ControlState'
  BY <1>7 DEF Answer
<1>8. ASSUME NEW p \in Proc, Exchange(p) PROVE ControlState'
  BY <1>8 DEF Exchange
<1>9. ASSUME NEW p \in Proc, NoSignIn(p) PROVE ControlState'
  BY <1>9 DEF NoSignIn
<1>10. ASSUME NEW p \in Proc, Receive(p) PROVE ControlState'
  BY <1>10 DEF Receive
<1>11. ASSUME NEW p \in Proc, Save(p) PROVE ControlState'
  BY <1>11 DEF Save
<1>12. ASSUME NEW p \in Proc, Logout(p) PROVE ControlState'
  BY <1>12 DEF Logout
<1>13. ASSUME NEW p \in Proc, ReplaceFirst(p) PROVE ControlState'
  BY <1>13 DEF ReplaceFirst
<1>14. ASSUME NEW p \in Proc, ReplaceSecond(p) PROVE ControlState'
  BY <1>14 DEF ReplaceSecond
<1>15. ASSUME NEW p \in Proc, Busy(p), Abandon(p) PROVE ControlState'
  BY <1>15 DEF Abandon, Busy
<1>16. CASE LateRequest
  BY <1>16 DEF LateRequest
<1>17. CASE Expire
  BY <1>17 DEF Expire
<1>18. CASE Tick
  BY <1>18 DEF Tick
<1>19. CASE UNCHANGED vars
  BY <1>19 DEF vars
<1>. QED
  BY <1>1, <1>2, <1>3, <1>4, <1>5, <1>6, <1>7, <1>8, <1>9, <1>10, <1>11, <1>12, <1>13, <1>14, <1>15, <1>16, <1>17, <1>18, <1>19, GivingUp DEF Next, Step

\* Tokens come into hand with an answer and leave with the save.
LEMMA StepKeepsAnswers == Inv /\ [Next]_vars => AnswerInHand'
<1>. SUFFICES ASSUME Inv, [Next]_vars PROVE AnswerInHand'
  OBVIOUS
<1>. USE DEF Inv, TypeOK, Goto, End, Release, Queue, disk, idp, Steps, Waiting, Network,
           LockedLocal, Kind, ControlState, Refreshers, AnswerInHand
<1>1. ASSUME NEW p \in Proc, Begin(p) PROVE AnswerInHand'
  BY <1>1 DEF Begin
<1>2. ASSUME NEW p \in Proc, ReadConfig(p) PROVE AnswerInHand'
  BY <1>2 DEF ReadConfig
<1>3. ASSUME NEW p \in Proc, ReadCreds(p) PROVE AnswerInHand'
  BY <1>3 DEF ReadCreds
<1>4. ASSUME NEW p \in Proc, Acquire(p) PROVE AnswerInHand'
  BY <1>4 DEF Acquire
<1>5. ASSUME NEW p \in Proc, LockTimeout(p) PROVE AnswerInHand'
  BY <1>5 DEF LockTimeout
<1>6. ASSUME NEW p \in Proc, Reread(p) PROVE AnswerInHand'
  BY <1>6 DEF Reread
<1>7. ASSUME NEW p \in Proc, Answer(p) PROVE AnswerInHand'
  BY <1>7 DEF Answer
<1>8. ASSUME NEW p \in Proc, Exchange(p) PROVE AnswerInHand'
  BY <1>8 DEF Exchange
<1>9. ASSUME NEW p \in Proc, NoSignIn(p) PROVE AnswerInHand'
  BY <1>9 DEF NoSignIn
<1>10. ASSUME NEW p \in Proc, Receive(p) PROVE AnswerInHand'
  BY <1>10 DEF Receive
<1>11. ASSUME NEW p \in Proc, Save(p) PROVE AnswerInHand'
  BY <1>11 DEF Save
<1>12. ASSUME NEW p \in Proc, Logout(p) PROVE AnswerInHand'
  BY <1>12 DEF Logout
<1>13. ASSUME NEW p \in Proc, ReplaceFirst(p) PROVE AnswerInHand'
  BY <1>13 DEF ReplaceFirst
<1>14. ASSUME NEW p \in Proc, ReplaceSecond(p) PROVE AnswerInHand'
  BY <1>14 DEF ReplaceSecond
<1>15. ASSUME NEW p \in Proc, Busy(p), Abandon(p) PROVE AnswerInHand'
  BY <1>15 DEF Abandon, Busy
<1>16. CASE LateRequest
  BY <1>16 DEF LateRequest
<1>17. CASE Expire
  BY <1>17 DEF Expire
<1>18. CASE Tick
  BY <1>18 DEF Tick
<1>19. CASE UNCHANGED vars
  BY <1>19 DEF vars
<1>. QED
  BY <1>1, <1>2, <1>3, <1>4, <1>5, <1>6, <1>7, <1>8, <1>9, <1>10, <1>11, <1>12, <1>13, <1>14, <1>15, <1>16, <1>17, <1>18, <1>19, GivingUp DEF Next, Step

\* Whoever still waits when the lock is dropped has been overtaken.
LEMMA ReleaseKeepsClocks ==
    ASSUME Inv, NEW p \in Proc, NEW l \in {"done", "config"},
           lock = p, Goto(p, l), Release(p)
    PROVE  Clocks'
<1>1. ASSUME NEW q \in Proc PROVE pc'[q] \notin Network \cup LockedLocal
  BY DEF Inv, TypeOK, ControlState, Goto, Network, LockedLocal
<1>2. ASSUME NEW q \in Proc, pc'[q] = "wait" PROVE overtaken'[q]
  BY <1>2 DEF Inv, TypeOK, Goto, Release
<1>. QED  BY <1>1, <1>2 DEF Clocks

\* Waiters and the holder are on the clock alike, and the holder's is bounded.
LEMMA StepKeepsClocks == Inv /\ [Next]_vars => Clocks'
<1>. SUFFICES ASSUME Inv, [Next]_vars PROVE Clocks'
  OBVIOUS
<1>. USE RefreshAssumption DEF Inv, TypeOK, Goto, End, Release, Queue, disk, idp, Steps, Waiting, Network,
           LockedLocal, Kind, ControlState, Refreshers, Clocks
<1>1. ASSUME NEW p \in Proc, Begin(p) PROVE Clocks'
  BY <1>1 DEF Begin
<1>2. ASSUME NEW p \in Proc, ReadConfig(p) PROVE Clocks'
  BY <1>2 DEF ReadConfig
<1>3. ASSUME NEW p \in Proc, ReadCreds(p) PROVE Clocks'
  BY <1>3 DEF ReadCreds
<1>4. ASSUME NEW p \in Proc, Acquire(p) PROVE Clocks'
  BY <1>4 DEF Acquire
<1>5. ASSUME NEW p \in Proc, LockTimeout(p) PROVE Clocks'
  BY <1>5 DEF LockTimeout
<1>6. ASSUME NEW p \in Proc, Reread(p) PROVE Clocks'
  <2>1. CASE Plan(p) \in {"return", "login"}
    BY <1>6, <2>1, ReleaseKeepsClocks DEF Reread
  <2>2. CASE Plan(p) \notin {"return", "login"}
    BY <1>6, <2>2 DEF Reread
  <2>. QED  BY <2>1, <2>2
<1>7. ASSUME NEW p \in Proc, Answer(p) PROVE Clocks'
  BY <1>7 DEF Answer
<1>8. ASSUME NEW p \in Proc, Exchange(p) PROVE Clocks'
  BY <1>8 DEF Exchange
<1>9. ASSUME NEW p \in Proc, NoSignIn(p) PROVE Clocks'
  BY <1>9 DEF NoSignIn
<1>10. ASSUME NEW p \in Proc, Receive(p) PROVE Clocks'
  <2>1. CASE got[p] = None
    BY <1>10, <2>1, ReleaseKeepsClocks DEF Receive
  <2>2. CASE got[p] # None
    BY <1>10, <2>2 DEF Receive
  <2>. QED  BY <2>1, <2>2
<1>11. ASSUME NEW p \in Proc, Save(p) PROVE Clocks'
  <2>1. lock = p /\ Release(p) /\ (Goto(p, "done") \/ Goto(p, "config"))
    BY <1>11 DEF Save
  <2>. QED  BY <2>1, ReleaseKeepsClocks
<1>12. ASSUME NEW p \in Proc, Logout(p) PROVE Clocks'
  BY <1>12 DEF Logout
<1>13. ASSUME NEW p \in Proc, ReplaceFirst(p) PROVE Clocks'
  BY <1>13 DEF ReplaceFirst
<1>14. ASSUME NEW p \in Proc, ReplaceSecond(p) PROVE Clocks'
  BY <1>14 DEF ReplaceSecond
<1>15. ASSUME NEW p \in Proc, Busy(p), Abandon(p) PROVE Clocks'
  <2>1. CASE lock = p
    BY <1>15, <2>1, ReleaseKeepsClocks DEF Abandon
  <2>2. CASE lock # p
    BY <1>15, <2>2 DEF Abandon, Busy
  <2>. QED  BY <2>1, <2>2
<1>16. CASE LateRequest
  BY <1>16 DEF LateRequest
<1>17. CASE Expire
  BY <1>17 DEF Expire
<1>18. CASE Tick
  BY <1>18 DEF Tick
<1>19. CASE UNCHANGED vars
  BY <1>19 DEF vars
<1>. QED
  BY <1>1, <1>2, <1>3, <1>4, <1>5, <1>6, <1>7, <1>8, <1>9, <1>10, <1>11, <1>12, <1>13, <1>14, <1>15, <1>16, <1>17, <1>18, <1>19, GivingUp DEF Next, Step

\* A good token on disk is used.
LEMMA FreshIsReturned ==
    ASSUME NEW p \in Proc, cmd[p].kind = "api", Fresh(tokens)
    PROVE  Plan(p) = "return"
BY DEF Plan, Kind, Fresh

\* Nobody leaves the look inside the lock for a request over a good token.
LEMMA StepKeepsRefreshesOnce == Inv /\ [Next]_vars => RefreshesOnce'
<1>. SUFFICES ASSUME Inv, [Next]_vars PROVE RefreshesOnce'
  OBVIOUS
<1>. USE DEF Inv, TypeOK, Goto, End, Release, Queue, disk, idp, Steps, Waiting, Network,
           LockedLocal, Kind, ControlState, Refreshers, RefreshesOnce
<1>1. ASSUME NEW p \in Proc, Begin(p) PROVE RefreshesOnce'
  BY <1>1 DEF Begin
<1>2. ASSUME NEW p \in Proc, ReadConfig(p) PROVE RefreshesOnce'
  BY <1>2 DEF ReadConfig
<1>3. ASSUME NEW p \in Proc, ReadCreds(p) PROVE RefreshesOnce'
  BY <1>3 DEF ReadCreds
<1>4. ASSUME NEW p \in Proc, Acquire(p) PROVE RefreshesOnce'
  BY <1>4 DEF Acquire
<1>5. ASSUME NEW p \in Proc, LockTimeout(p) PROVE RefreshesOnce'
  BY <1>5 DEF LockTimeout
<1>6. ASSUME NEW p \in Proc, Reread(p) PROVE RefreshesOnce'
  <2>1. Kind(p) = "api" /\ pc'[p] = "sent" => tokens = None \/ tokens.access \in expired
    <3>1. pc'[p] = "sent" => Plan(p) # "return"
      BY <1>6 DEF Reread
    <3>. QED  BY <3>1, FreshIsReturned DEF Fresh
  <2>2. \A q \in Proc \ {p} : pc[q] \notin Network
    BY <1>6 DEF Reread
  <2>. QED  BY <1>6, <2>1, <2>2 DEF Reread
<1>7. ASSUME NEW p \in Proc, Answer(p) PROVE RefreshesOnce'
  BY <1>7 DEF Answer
<1>8. ASSUME NEW p \in Proc, Exchange(p) PROVE RefreshesOnce'
  BY <1>8 DEF Exchange
<1>9. ASSUME NEW p \in Proc, NoSignIn(p) PROVE RefreshesOnce'
  BY <1>9 DEF NoSignIn
<1>10. ASSUME NEW p \in Proc, Receive(p) PROVE RefreshesOnce'
  BY <1>10 DEF Receive
<1>11. ASSUME NEW p \in Proc, Save(p) PROVE RefreshesOnce'
  BY <1>11 DEF Save
<1>12. ASSUME NEW p \in Proc, Logout(p) PROVE RefreshesOnce'
  BY <1>12 DEF Logout
<1>13. ASSUME NEW p \in Proc, ReplaceFirst(p) PROVE RefreshesOnce'
  BY <1>13 DEF ReplaceFirst
<1>14. ASSUME NEW p \in Proc, ReplaceSecond(p) PROVE RefreshesOnce'
  BY <1>14 DEF ReplaceSecond
<1>15. ASSUME NEW p \in Proc, Busy(p), Abandon(p) PROVE RefreshesOnce'
  BY <1>15 DEF Abandon, Busy
<1>16. CASE LateRequest
  BY <1>16 DEF LateRequest
<1>17. CASE Expire
  BY <1>17 DEF Expire
<1>18. CASE Tick
  BY <1>18 DEF Tick
<1>19. CASE UNCHANGED vars
  BY <1>19 DEF vars
<1>. QED
  BY <1>1, <1>2, <1>3, <1>4, <1>5, <1>6, <1>7, <1>8, <1>9, <1>10, <1>11, <1>12, <1>13, <1>14, <1>15, <1>16, <1>17, <1>18, <1>19, GivingUp DEF Next, Step

-----------------------------------------------------------------------------
\* What the IdP's two kinds of answers do to the tokens in use.

\* A refresh spends the token it presented, or keeps it, and issues a successor.
LEMMA AnswerIssues ==
    ASSUME Inv, NEW p \in Proc, Answer(p)
    PROVE  \/ UNCHANGED <<got, valid, issued>>
           \/ \E k \in Token, r \in Token \cup {None} :
                 /\ issued[k] = None /\ issued' = [issued EXCEPT ![k] = view[p]]
                 /\ view[p] # None
                 /\ r \in {k, rt[p]} /\ rt[p] \in valid \cup {None}
                 /\ valid' = (valid \ {rt[p]}) \cup ({r} \ {None})
                 /\ got' = [got EXCEPT ![p] = [access |-> k, refresh |-> r]]
<1>1. view[p] # None
  BY DEF Inv, ControlState, Answer, Steps, Network, Refreshers
<1>2. rt[p] \in Token \cup {None}
  BY DEF Inv, TypeOK
<1>. QED  BY <1>1, <1>2 DEF Answer, Issue, NextToken, idp

\* A login issues tokens and spends none.
LEMMA ExchangeIssues ==
    ASSUME Inv, NEW p \in Proc, Exchange(p)
    PROVE  \E k \in Token, r \in Token \cup {None} :
              /\ issued[k] = None /\ issued' = [issued EXCEPT ![k] = view[p]]
              /\ view[p] # None
              /\ r \in {k, None}
              /\ valid' = valid \cup ({r} \ {None})
              /\ got' = [got EXCEPT ![p] = [access |-> k, refresh |-> r]]
<1>1. view[p] # None
  BY DEF Inv, ControlState, Exchange, Steps
<1>. QED  BY <1>1 DEF Exchange, Issue, NextToken

\* A request presents the token on disk, or the one in the snapshot when there
\* is none on disk.
LEMMA RereadPresents ==
    ASSUME Inv, NEW p \in Proc, Reread(p)
    PROVE  \/ End(p) /\ Release(p) 
           \/ \E r \in {None, RefreshOf(tokens), RefreshOf(snap[p])} :
                 /\ RefreshOf(tokens) # None => r \in {None, RefreshOf(tokens)}
                 /\ rt' = [rt EXCEPT ![p] = r]
                 /\ Goto(p, "sent")
                 /\ UNCHANGED <<lock, view, snap, got, clock, overtaken>>
BY DEF Reread, RefreshToken

\* Tokens are copied, never made up.
LEMMA StepKeepsKnown == Inv /\ [Next]_vars => KnownWereIssued'
<1>. SUFFICES ASSUME Inv, [Next]_vars PROVE KnownWereIssued'
  OBVIOUS
<1>. USE DEF Inv, TypeOK, Goto, End, Release, Queue, disk, idp, Steps, Waiting, Network,
           LockedLocal, Kind, KnownWereIssued, RefreshOf
<1>1. ASSUME NEW p \in Proc, Begin(p) PROVE KnownWereIssued'
  BY <1>1 DEF Begin
<1>2. ASSUME NEW p \in Proc, ReadConfig(p) PROVE KnownWereIssued'
  BY <1>2 DEF ReadConfig
<1>3. ASSUME NEW p \in Proc, ReadCreds(p) PROVE KnownWereIssued'
  BY <1>3 DEF ReadCreds
<1>4. ASSUME NEW p \in Proc, Acquire(p) PROVE KnownWereIssued'
  BY <1>4 DEF Acquire
<1>5. ASSUME NEW p \in Proc, LockTimeout(p) PROVE KnownWereIssued'
  BY <1>5 DEF LockTimeout
<1>6. ASSUME NEW p \in Proc, Reread(p) PROVE KnownWereIssued'
  BY <1>6, RereadPresents DEF Reread
<1>7. ASSUME NEW p \in Proc, Answer(p) PROVE KnownWereIssued'
  <2>1. CASE UNCHANGED <<got, valid, issued>>
    BY <1>7, <2>1 DEF Answer
  <2>2. CASE ~UNCHANGED <<got, valid, issued>>
    <3>1. PICK k \in Token, r \in Token \cup {None} :
             /\ issued[k] = None /\ issued' = [issued EXCEPT ![k] = view[p]]
             /\ view[p] # None
             /\ r \in {k, rt[p]} /\ rt[p] \in valid \cup {None}
             /\ valid' = (valid \ {rt[p]}) \cup ({r} \ {None})
             /\ got' = [got EXCEPT ![p] = [access |-> k, refresh |-> r]]
      BY <1>7, <2>2, AnswerIssues
    <3>. QED  BY <1>7, <3>1, RefreshAssumption DEF Answer
  <2>. QED  BY <2>1, <2>2
<1>8. ASSUME NEW p \in Proc, Exchange(p) PROVE KnownWereIssued'
  <2>1. PICK k \in Token, r \in Token \cup {None} :
           /\ issued[k] = None /\ issued' = [issued EXCEPT ![k] = view[p]]
           /\ view[p] # None
           /\ r \in {k, None}
           /\ valid' = valid \cup ({r} \ {None})
           /\ got' = [got EXCEPT ![p] = [access |-> k, refresh |-> r]]
    BY <1>8, ExchangeIssues
  <2>. QED  BY <1>8, <2>1, RefreshAssumption DEF Exchange
<1>9. ASSUME NEW p \in Proc, NoSignIn(p) PROVE KnownWereIssued'
  BY <1>9 DEF NoSignIn
<1>10. ASSUME NEW p \in Proc, Receive(p) PROVE KnownWereIssued'
  BY <1>10 DEF Receive
<1>11. ASSUME NEW p \in Proc, Save(p) PROVE KnownWereIssued'
  BY <1>11 DEF Save
<1>12. ASSUME NEW p \in Proc, Logout(p) PROVE KnownWereIssued'
  BY <1>12 DEF Logout
<1>13. ASSUME NEW p \in Proc, ReplaceFirst(p) PROVE KnownWereIssued'
  BY <1>13 DEF ReplaceFirst
<1>14. ASSUME NEW p \in Proc, ReplaceSecond(p) PROVE KnownWereIssued'
  BY <1>14 DEF ReplaceSecond
<1>15. ASSUME NEW p \in Proc, Busy(p), Abandon(p) PROVE KnownWereIssued'
  BY <1>15 DEF Abandon, Busy
<1>16. CASE LateRequest
  BY <1>16 DEF LateRequest
<1>17. CASE Expire
  BY <1>17 DEF Expire
<1>18. CASE Tick
  BY <1>18 DEF Tick
<1>19. CASE UNCHANGED vars
  BY <1>19 DEF vars
<1>. QED
  BY <1>1, <1>2, <1>3, <1>4, <1>5, <1>6, <1>7, <1>8, <1>9, <1>10, <1>11, <1>12, <1>13, <1>14, <1>15, <1>16, <1>17, <1>18, <1>19, GivingUp DEF Next, Step

\* A login's tokens stay its own until it saves them.
LEMMA StepKeepsPrivate == Inv /\ [Next]_vars => LoginIsPrivate'
<1>. SUFFICES ASSUME Inv, [Next]_vars PROVE LoginIsPrivate'
  OBVIOUS
<1>. USE DEF Inv, TypeOK, Goto, End, Release, Queue, disk, idp, Steps, Waiting, Network,
           LockedLocal, Kind, LoginIsPrivate, ControlState, AnswerInHand, RefreshOf, Refreshers
<1>1. ASSUME NEW p \in Proc, Begin(p) PROVE LoginIsPrivate'
  BY <1>1 DEF Begin
<1>2. ASSUME NEW p \in Proc, ReadConfig(p) PROVE LoginIsPrivate'
  BY <1>2 DEF ReadConfig
<1>3. ASSUME NEW p \in Proc, ReadCreds(p) PROVE LoginIsPrivate'
  BY <1>3 DEF ReadCreds
<1>4. ASSUME NEW p \in Proc, Acquire(p) PROVE LoginIsPrivate'
  BY <1>4 DEF Acquire
<1>5. ASSUME NEW p \in Proc, LockTimeout(p) PROVE LoginIsPrivate'
  BY <1>5 DEF LockTimeout
<1>6. ASSUME NEW p \in Proc, Reread(p) PROVE LoginIsPrivate'
  BY <1>6, RereadPresents DEF Reread
<1>7. ASSUME NEW p \in Proc, Answer(p) PROVE LoginIsPrivate'
  <2>1. CASE UNCHANGED <<got, valid, issued>>
    BY <1>7, <2>1 DEF Answer
  <2>2. CASE ~UNCHANGED <<got, valid, issued>>
    <3>1. PICK k \in Token, r \in Token \cup {None} :
             /\ issued[k] = None /\ issued' = [issued EXCEPT ![k] = view[p]]
             /\ view[p] # None
             /\ r \in {k, rt[p]} /\ rt[p] \in valid \cup {None}
             /\ valid' = (valid \ {rt[p]}) \cup ({r} \ {None})
             /\ got' = [got EXCEPT ![p] = [access |-> k, refresh |-> r]]
      BY <1>7, <2>2, AnswerIssues
    <3>2. \A q \in Proc : RefreshOf(snap[q]) # k /\ rt[q] # k /\ RefreshOf(got[q]) # k
      BY <3>1, RefreshAssumption DEF KnownWereIssued, Token, TokenSet
    <3>3. RefreshOf(tokens) # k /\ RefreshOf(got'[p]) = r
      BY <3>1, RefreshAssumption DEF KnownWereIssued, Token, TokenSet
    <3>4. Kind(p) # "login" /\ lock = p
      BY <1>7 DEF Answer
    <3>5. ASSUME NEW q \in Proc, pc'[q] \in {"wait", "save"}, Kind(q) = "login",
                 RefreshOf(got'[q]) # None
          PROVE  /\ q # p /\ pc[q] = pc'[q] /\ got'[q] = got[q]
                 /\ RefreshOf(got[q]) # r
      BY <1>7, <3>1, <3>2, <3>4, <3>5 DEF Answer
    <3>. QED  BY <1>7, <3>1, <3>3, <3>5 DEF Answer
  <2>. QED  BY <2>1, <2>2
<1>8. ASSUME NEW p \in Proc, Exchange(p) PROVE LoginIsPrivate'
  <2>1. PICK k \in Token, r \in Token \cup {None} :
           /\ issued[k] = None /\ issued' = [issued EXCEPT ![k] = view[p]]
           /\ view[p] # None
           /\ r \in {k, None}
           /\ valid' = valid \cup ({r} \ {None})
           /\ got' = [got EXCEPT ![p] = [access |-> k, refresh |-> r]]
    BY <1>8, ExchangeIssues
  <2>2. \A q \in Proc : RefreshOf(snap[q]) # k /\ rt[q] # k /\ RefreshOf(got[q]) # k
    BY <2>1, RefreshAssumption DEF KnownWereIssued, Token, TokenSet
  <2>3. RefreshOf(tokens) # k /\ RefreshOf(got'[p]) = r
    BY <2>1, RefreshAssumption DEF KnownWereIssued, Token, TokenSet
  <2>4. UNCHANGED <<tokens, snap, rt, cmd>> /\ \A q \in Proc \ {p} : pc'[q] = pc[q] /\ got'[q] = got[q]
    BY <1>8, <2>1 DEF Exchange
  <2>. QED  BY <2>1, <2>2, <2>3, <2>4
<1>9. ASSUME NEW p \in Proc, NoSignIn(p) PROVE LoginIsPrivate'
  BY <1>9 DEF NoSignIn
<1>10. ASSUME NEW p \in Proc, Receive(p) PROVE LoginIsPrivate'
  <2>1. CASE got[p] = None
    BY <1>10, <2>1 DEF Receive
  <2>2. CASE got[p] # None
    <3>1. Kind(p) # "login" /\ \A q \in Proc \ {p} : pc'[q] = pc[q]
      BY <1>10, <2>2 DEF Receive
    <3>2. UNCHANGED <<tokens, snap, rt, got, cmd>>
      BY <1>10, <2>2 DEF Receive
    <3>. QED  BY <3>1, <3>2
  <2>. QED  BY <2>1, <2>2
<1>11. ASSUME NEW p \in Proc, Save(p) PROVE LoginIsPrivate'
  BY <1>11 DEF Save
<1>12. ASSUME NEW p \in Proc, Logout(p) PROVE LoginIsPrivate'
  BY <1>12 DEF Logout
<1>13. ASSUME NEW p \in Proc, ReplaceFirst(p) PROVE LoginIsPrivate'
  BY <1>13 DEF ReplaceFirst
<1>14. ASSUME NEW p \in Proc, ReplaceSecond(p) PROVE LoginIsPrivate'
  BY <1>14 DEF ReplaceSecond
<1>15. ASSUME NEW p \in Proc, Busy(p), Abandon(p) PROVE LoginIsPrivate'
  BY <1>15 DEF Abandon, Busy
<1>16. CASE LateRequest
  BY <1>16 DEF LateRequest
<1>17. CASE Expire
  BY <1>17 DEF Expire
<1>18. CASE Tick
  BY <1>18 DEF Tick
<1>19. CASE UNCHANGED vars
  BY <1>19 DEF vars
<1>. QED
  BY <1>1, <1>2, <1>3, <1>4, <1>5, <1>6, <1>7, <1>8, <1>9, <1>10, <1>11, <1>12, <1>13, <1>14, <1>15, <1>16, <1>17, <1>18, <1>19, GivingUp DEF Next, Step

\* A rotation spends the token on disk while the lock is held, and the holder
\* saves the successor or it is lost.
LEMMA StepKeepsTokensInUse == Inv /\ [Next]_vars => TokensInUse'
<1>. SUFFICES ASSUME Inv, [Next]_vars PROVE TokensInUse'
  OBVIOUS
<1>. USE DEF Inv, TypeOK, Goto, End, Release, Queue, disk, idp, Steps, Waiting, Network,
           LockedLocal, Kind, TokensInUse, Good, ControlState, RefreshOf
<1>1. ASSUME NEW p \in Proc, Begin(p) PROVE TokensInUse'
  BY <1>1 DEF Begin
<1>2. ASSUME NEW p \in Proc, ReadConfig(p) PROVE TokensInUse'
  BY <1>2 DEF ReadConfig
<1>3. ASSUME NEW p \in Proc, ReadCreds(p) PROVE TokensInUse'
  BY <1>3 DEF ReadCreds
<1>4. ASSUME NEW p \in Proc, Acquire(p) PROVE TokensInUse'
  BY <1>4 DEF Acquire
<1>5. ASSUME NEW p \in Proc, LockTimeout(p) PROVE TokensInUse'
  BY <1>5 DEF LockTimeout
<1>6. ASSUME NEW p \in Proc, Reread(p) PROVE TokensInUse'
  BY <1>6, RereadPresents DEF Reread
<1>7. ASSUME NEW p \in Proc, Answer(p) PROVE TokensInUse'
  <2>1. CASE UNCHANGED <<got, valid, issued>>
    BY <1>7, <2>1 DEF Answer
  <2>2. CASE ~UNCHANGED <<got, valid, issued>>
    <3>1. PICK k \in Token, r \in Token \cup {None} :
             /\ issued[k] = None /\ issued' = [issued EXCEPT ![k] = view[p]]
             /\ view[p] # None
             /\ r \in {k, rt[p]} /\ rt[p] \in valid \cup {None}
             /\ valid' = (valid \ {rt[p]}) \cup ({r} \ {None})
             /\ got' = [got EXCEPT ![p] = [access |-> k, refresh |-> r]]
      BY <1>7, <2>2, AnswerIssues
    <3>2. lock = p /\ \A q \in Proc \ {p} : pc[q] \notin Network \cup LockedLocal
      BY <1>7 DEF Answer
    <3>3. /\ pc'[p] = "answered" /\ UNCHANGED <<tokens, rt, lost>>
          /\ \A q \in Proc \ {p} : pc'[q] = pc[q] /\ got'[q] = got[q]
      BY <1>7, <3>1 DEF Answer
    <3>4. RefreshOf(got'[p]) = r /\ got'[p] # None
      BY <3>1, RefreshAssumption DEF Token, TokenSet
    <3>5. ASSUME NEW q \in Proc PROVE RefreshOf(got'[q]) \in Good'
      <4>1. CASE q = p
        BY <3>1, <3>4, <4>1
      <4>2. CASE q # p
        <5>1. got[q] # None => pc[q] = "wait" /\ Kind(q) = "login"
          BY <3>2, <4>2 DEF AnswerInHand
        <5>2. RefreshOf(got[q]) # None => RefreshOf(got[q]) # rt[p]
          BY <5>1 DEF LoginIsPrivate
        <5>. QED  BY <3>1, <3>3, <4>2, <5>2
      <4>. QED  BY <4>1, <4>2
    <3>6. RefreshOf(tokens) \in Good' \/ RefreshOf(tokens) = rt[p]
      BY <3>1, <3>2, <3>3
    <3>. QED  BY <3>2, <3>3, <3>4, <3>5, <3>6
  <2>. QED  BY <2>1, <2>2
<1>8. ASSUME NEW p \in Proc, Exchange(p) PROVE TokensInUse'
  <2>1. PICK k \in Token, r \in Token \cup {None} :
           /\ issued[k] = None /\ issued' = [issued EXCEPT ![k] = view[p]]
           /\ view[p] # None
           /\ r \in {k, None}
           /\ valid' = valid \cup ({r} \ {None})
           /\ got' = [got EXCEPT ![p] = [access |-> k, refresh |-> r]]
    BY <1>8, ExchangeIssues
  <2>. QED  BY <1>8, <2>1, RefreshAssumption DEF Exchange
<1>9. ASSUME NEW p \in Proc, NoSignIn(p) PROVE TokensInUse'
  BY <1>9 DEF NoSignIn
<1>10. ASSUME NEW p \in Proc, Receive(p) PROVE TokensInUse'
  BY <1>10 DEF Receive
<1>11. ASSUME NEW p \in Proc, Save(p) PROVE TokensInUse'
  BY <1>11 DEF Save
<1>12. ASSUME NEW p \in Proc, Logout(p) PROVE TokensInUse'
  BY <1>12 DEF Logout
<1>13. ASSUME NEW p \in Proc, ReplaceFirst(p) PROVE TokensInUse'
  BY <1>13 DEF ReplaceFirst
<1>14. ASSUME NEW p \in Proc, ReplaceSecond(p) PROVE TokensInUse'
  BY <1>14 DEF ReplaceSecond
<1>15. ASSUME NEW p \in Proc, Busy(p), Abandon(p) PROVE TokensInUse'
  BY <1>15 DEF Abandon, Busy
<1>16. CASE LateRequest
  BY <1>16 DEF LateRequest
<1>17. CASE Expire
  BY <1>17 DEF Expire
<1>18. CASE Tick
  BY <1>18 DEF Tick
<1>19. CASE UNCHANGED vars
  BY <1>19 DEF vars
<1>. QED
  BY <1>1, <1>2, <1>3, <1>4, <1>5, <1>6, <1>7, <1>8, <1>9, <1>10, <1>11, <1>12, <1>13, <1>14, <1>15, <1>16, <1>17, <1>18, <1>19, GivingUp DEF Next, Step
-----------------------------------------------------------------------------

\* The inductive invariant holds of every behaviour: whatever the identity
\* provider answers, loses or serves late, and whoever is killed.
THEOREM InvAlways == Spec => []Inv
<1>1. Inv /\ [Next]_vars => Inv'
  BY StepKeepsType, StepKeepsControl, StepKeepsAnswers, StepKeepsClocks,
     StepKeepsRefreshesOnce, StepKeepsKnown, StepKeepsPrivate, StepKeepsTokensInUse
     DEF Inv
<1>. QED  BY <1>1, InitInv, PTL DEF Spec

\* Every variable keeps its type.
THEOREM TypeCorrect == Spec => []TypeOK
BY InvAlways, PTL DEF Inv

\* Single flight: no command refreshes while what is cached is good, however
\* many of them woke up on the token that was not.
THEOREM SingleFlight == Spec => []RefreshesOnce
BY InvAlways, PTL DEF Inv

\* Under rotation a request presents a refresh token that is good, or whose
\* successor was lost on its way; and one that was lost is the only bad one
\* an invocation that gets the lock can find.
THEOREM RotationSafety == Spec => []RotationIsSafe
<1>1. Inv => NoSiblingSpentIt
  <2>. SUFFICES ASSUME Inv, NEW p \in Proc, pc[p] = "sent", RefreshOf(tokens) # None
                PROVE  rt[p] \in valid \cup lost \cup {None}
    BY DEF NoSiblingSpentIt
  <2>1. \A q \in Proc : pc[q] \notin {"answered", "save"}
    BY DEF Inv, ControlState, Network, LockedLocal
  <2>2. RefreshOf(tokens) \in Good
    BY <2>1 DEF Inv, TokensInUse
  <2>3. rt[p] \in {None, RefreshOf(tokens)}
    BY DEF Inv, TokensInUse
  <2>. QED  BY <2>2, <2>3 DEF Good
<1>2. Inv => DiskTokenIsLive
  <2>. SUFFICES ASSUME Inv, lock = Free PROVE RefreshOf(tokens) \in Good
    BY DEF DiskTokenIsLive, Good
  <2>1. \A q \in Proc : pc[q] \notin {"answered", "save"}
    BY RefreshAssumption DEF Inv, ControlState, Network, LockedLocal
  <2>. QED  BY <2>1 DEF Inv, TokensInUse
<1>. QED  BY <1>1, <1>2, InvAlways, PTL DEF RotationIsSafe

\* A refresher that gives up has been overtaken, or waited behind an invocation
\* with a longer --timeout than its own.
THEOREM WaitersOutlast == Spec => []WaiterOutlastsHolder
<1>1. Inv => WaiterOutlastsHolder
  <2>. SUFFICES ASSUME Inv, NEW p \in Proc, pc[p] = "wait", Kind(p) \in Refreshers,
                       lock # Free, clock[p] >= Budget(p), ~overtaken[p]
                PROVE  Http[lock] > Http[p]
    BY DEF WaiterOutlastsHolder, Refreshers
  <2>1. lock \in Proc /\ pc[lock] \in Network \cup LockedLocal
    BY DEF Inv, TypeOK, ControlState
  <2>2. clock[p] <= clock[lock] /\ clock[lock] <= Http[lock]
    BY <2>1 DEF Inv, Clocks
  <2>3. clock[p] >= Http[p] + Slack
    BY DEF Budget, Refreshers
  <2>4. /\ clock[p] \in Nat /\ clock[lock] \in Nat
        /\ Http[p] \in Nat /\ Http[lock] \in Nat /\ Slack \in Nat \ {0}
    BY <2>1, RefreshAssumption DEF Inv, TypeOK
  <2>. QED  BY <2>2, <2>3, <2>4
<1>. QED  BY <1>1, InvAlways, PTL
=============================================================================
