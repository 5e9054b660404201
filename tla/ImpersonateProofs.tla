--------------------------- MODULE ImpersonateProofs ---------------------------
(***************************************************************************)
(* Proofs about Impersonate for any command lines, any number of requests  *)
(* and whatever the instance ignores: the command's requests run as the    *)
(* target, the session is ended on every exit path and no file is left     *)
(* half written.                                                           *)
(***************************************************************************)
EXTENDS Impersonate, TLAPS

Before == {"prepare", "mint", "guard"}
Ending == {"revert", "logout", "confirm"}
CommandSteps == {"command", "create", "install", "copy", "rename"}

\* The requests a thread sends, each from its own step.
Sends == {<<"mint", "mint">>, <<"original", "lookup">>, <<"target", "lookup">>,
          <<"hop", "hop">>, <<"took", "session">>, <<"command", "work">>,
          <<"revert", "revert">>, <<"logout", "logout">>, <<"confirm", "confirm">>}

\* What is in flight is what the thread's step sends; each thread has steps of
\* its own, the handler's once the user has pressed Ctrl-C.
ThreadState ==
    /\ \A t \in Thread : flight[t] # None => <<pc[t], flight[t]>> \in Sends
    /\ pc["main"] \notin {"idle", "unlink", "done"}
    /\ pc["handler"] \in {"idle", "end", "unlink", "exit"} \cup Ending
    /\ pc["handler"] # "idle" => signalled /\ handler # "default"
    /\ pc["main"] \in Before \cup {"can", "original", "target", "arm", "hop", "took"} => sent = 0
    /\ Running /\ pc["main"] = "command" /\ flight["main"] = None => sent < Requests

\* The guard and its handler exist from the mint to the end of the process,
\* and the other handler only around a download that has neither.
Guarding ==
    /\ guarded <=> handler = "end"
    /\ guarded => cmd.hop
    /\ pc["main"] \in Before => ~guarded
    /\ pc["main"] \in {"mint", "guard"} => cmd.hop
    /\ cmd.hop /\ pc["main"] \notin Before \cup {"exit"} => guarded
    /\ pc["handler"] \in {"end"} \cup Ending => guarded
    /\ pc["handler"] = "unlink" => handler = "reap"
    /\ handler = "reap" => pc["main"] \in {"copy", "rename", "report", "exit"}

\* The mutex is held from the decision to end the session to the verdict, and
\* whichever thread is past its end() leaves it ended and unlocked.
EndState ==
    /\ \A t \in Thread : lock = t <=> pc[t] \in Ending
    /\ lock # None => ended
    /\ guarded /\ (pc["main"] \in {"report", "exit"} \/ pc["handler"] = "exit") =>
           ended /\ lock = None
    /\ exit \in {"ok", "error"} => pc["main"] = "exit"
    /\ exit = "130" => pc["handler"] = "exit"

\* As long as nobody interrupts it the command runs while the session is the
\* target's, and a session that may be the target's is switched back.
TargetState ==
    /\ session = "target" \/ pc["main"] = "hop" => revert_to
    /\ end_result["main"] # "none" => ended /\ pc["main"] \in {"end", "report", "exit"}
    /\ ~signalled =>
         /\ ended => pc["main"] \in {"end", "report", "exit"} \cup Ending
         /\ cmd.hop /\ pc["main"] \in CommandSteps => session = "target"
         /\ ended /\ pc["main"] = "end" => end_result["main"] # "none"
         /\ end_result["main"] = "ok" => session # "target"

\* The staging file is there while the download is under way, and not after
\* the handler has unlinked it.
FileState ==
    /\ dest # "partial"
    /\ staging # "none" => pc["main"] \in {"install", "copy", "rename"}
    /\ handler = "reap" /\ pc["handler"] = "exit" => staging = "none"

Inv == TypeOK /\ ThreadState /\ Guarding /\ EndState /\ TargetState /\ FileState
         /\ ActsAsTargetUnlessInterrupted
-----------------------------------------------------------------------------
\* It holds before the session is minted.
LEMMA InitInv == Init => Inv
<1>. SUFFICES ASSUME Init PROVE Inv
  OBVIOUS
<1>. USE ImpersonateAssumption DEF Init
<1>1. pc \in [Thread -> Steps] /\ pc["main"] = "prepare" /\ pc["handler"] = "idle"
  BY DEF Thread, Steps
<1>2. /\ flight \in [Thread -> Request \cup {None}]
      /\ end_result \in [Thread -> {"none", "ok", "err"}] /\ end_result["main"] = "none"
  BY DEF Thread
<1>3. 0 \in 0..Requests /\ actedAs \subseteq {"original", "target", "nobody", "credential"}
  OBVIOUS
<1>8. TypeOK
  BY <1>1, <1>2, <1>3 DEF TypeOK
<1>4. ThreadState /\ Guarding /\ FileState
  BY <1>1 DEF ThreadState, Guarding, FileState, Before, Ending
<1>5. None \notin Thread
  OBVIOUS
<1>6. \A t \in Thread : lock = t <=> pc[t] \in Ending
  BY <1>1, <1>5 DEF Ending, Thread
<1>7. EndState /\ TargetState
  BY <1>1, <1>2, <1>6 DEF EndState, TargetState, Ending, CommandSteps
<1>. QED
  BY <1>4, <1>7, <1>8 DEF Inv, ActsAsTargetUnlessInterrupted, CommandActsAsTarget
-----------------------------------------------------------------------------
\* What serving a request, or losing it, may change.
ServedEffect(t) ==
    /\ flight' = [flight EXCEPT ![t] = None]
    /\ session' \in {"none", "original", "target", "gone"}
    /\ session' = "target" => session = "target" \/ flight[t] = "hop"
    /\ flight[t] \notin {"mint", "hop", "revert", "logout"} => session' = session
    /\ actedAs' \subseteq {"original", "target", "nobody", "credential"}
    /\ flight[t] # "work" => actedAs' = actedAs
    /\ actedAs' \subseteq actedAs \cup {ActingUser}

\* A request that is served has the effect of its kind, as whoever the session is.
LEMMA Serving ==
    ASSUME Inv, NEW t \in Thread,
           \/ Served(t)
           \/ flight' = [flight EXCEPT ![t] = None] /\ UNCHANGED <<session, actedAs>>
    PROVE  ServedEffect(t)
<1>. USE DEF Inv, TypeOK, ServedEffect
<1>1. CASE Served(t)
  <2>1. session' \in {session, Effect(flight[t])} /\ flight' = [flight EXCEPT ![t] = None]
    BY <1>1 DEF Served
  <2>2. ActingUser \in {"original", "target", "nobody", "credential"}
    BY DEF ActingUser, Alive
  <2>. QED  BY <1>1, <2>1, <2>2 DEF Served, Effect
<1>2. CASE flight' = [flight EXCEPT ![t] = None] /\ UNCHANGED <<session, actedAs>>
  BY <1>2
<1>. QED  BY <1>1, <1>2

\* What every answer, or its absence, leaves alone.
Effects(t) ==
    /\ exit = "running" /\ flight[t] # None
    /\ ServedEffect(t)
    /\ UNCHANGED <<cmd, revert_to, ended, guarded, handler, sent, files, signalled>>

\* So has one whose answer, or the lack of it, reached its thread.
LEMMA AnswerEffects ==
    ASSUME Inv, NEW t \in Thread, Answer(t) \/ NoAnswer(t) \/ Confirm(t)
    PROVE  Effects(t)
<1>1. CASE Answer(t)
  <2>1. Served(t)
    BY <1>1 DEF Answer
  <2>. QED  BY <1>1, <2>1, Serving DEF Answer, Running, Served, hopState, Effects
<1>2. CASE NoAnswer(t)
  <2>1. \/ Served(t)
        \/ flight' = [flight EXCEPT ![t] = None] /\ UNCHANGED <<session, actedAs>>
    BY <1>2 DEF NoAnswer
  <2>. QED  BY <1>2, <2>1, Serving DEF NoAnswer, Running, Effects
<1>3. CASE Confirm(t)
  <2>1. Served(t)
    BY <1>3 DEF Confirm
  <2>. QED  BY <1>3, <2>1, Serving DEF Confirm, Running, Served, Effects
<1>. QED  BY <1>1, <1>2, <1>3

\* And where the thread goes: on, or to the end of the session, or to the end
\* of the command, or on to the next step of Hop::end, or out of it.
Advances(t) ==
    /\ t = "main"
    /\ \E l \in {"guard", "target", "arm", "took", "command", "create"} :
          /\ Goto("main", l)
          /\ <<pc["main"], l>> \in {<<"mint", "guard">>, <<"original", "target">>,
                <<"target", "arm">>, <<"hop", "took">>, <<"took", "command">>,
                <<"command", "command">>, <<"command", "create">>}
    /\ pc["main"] = "took" => session = "target"
    /\ pc["main"] = "command" => sent < Requests \/ pc'["main"] = "create"
    /\ UNCHANGED <<outcome, exit, lock, end_result>>
GivesUp(t) ==
    /\ t = "main"
    /\ \/ pc["main"] = "mint" /\ Goto("main", "exit") /\ exit' = "error" /\ outcome' = outcome
       \/ pc["main"] \in {"original", "target", "hop", "took"} /\ Return /\ exit' = exit
    /\ UNCHANGED <<lock, end_result>>
Finishes(t) ==
    /\ t = "main" /\ pc["main"] = "command"
    /\ \E how \in {"ok", "err"} : Finished(how)
    /\ UNCHANGED <<exit, lock, end_result>>
EndsOn(t) ==
    /\ \/ pc[t] = "revert" /\ Goto(t, "logout")
       \/ pc[t] = "logout" /\ Goto(t, "confirm")
    /\ UNCHANGED <<outcome, exit, lock, end_result>>
Concludes(t) ==
    /\ pc[t] = "confirm"
    /\ \E how \in {"ok", "err"} : Unlocked(t, how) /\ (how = "ok" => EndedWell)
    /\ UNCHANGED <<outcome, exit>>

\* And its thread goes on, gives up, finishes or comes to the verdict.
LEMMA AnswerMoves ==
    ASSUME Inv, NEW t \in Thread, Answer(t) \/ NoAnswer(t) \/ Confirm(t)
    PROVE  Advances(t) \/ GivesUp(t) \/ Finishes(t) \/ EndsOn(t) \/ Concludes(t)
<1>1. /\ t \in {"main", "handler"} /\ flight[t] \in Request
      /\ <<pc[t], flight[t]>> \in Sends /\ pc \in [Thread -> Steps]
      /\ t = "handler" => pc[t] \in {"idle", "end", "unlink", "exit"} \cup Ending
  BY AnswerEffects DEF Inv, TypeOK, ThreadState, Thread, Effects
<1>2. CASE Confirm(t)
  BY <1>2 DEF Confirm, Concludes, Unlocked
<1>3. CASE NoAnswer(t)
  <2>1. CASE flight[t] = "mint"
    <3>1. Exit("error") /\ Goto(t, "exit") /\ UNCHANGED <<outcome, lock, end_result>>
      BY <1>3, <2>1 DEF NoAnswer
    <3>. QED  BY <1>1, <2>1, <3>1 DEF Sends, Ending, GivesUp, Exit
  <2>2. CASE flight[t] \in {"lookup", "session", "hop"}
    <3>1. Return /\ UNCHANGED <<exit, lock, end_result>>
      BY <1>3, <2>2 DEF NoAnswer
    <3>. QED  BY <1>1, <2>2, <3>1 DEF Sends, Ending, GivesUp
  <2>3. CASE flight[t] = "work"
    <3>1. Finished("err") /\ UNCHANGED <<exit, lock, end_result>>
      BY <1>3, <2>3 DEF NoAnswer
    <3>. QED  BY <1>1, <2>3, <3>1 DEF Sends, Ending, Finishes
  <2>4. CASE flight[t] \in {"revert", "logout"}
    <3>1. /\ Goto(t, IF flight[t] = "revert" THEN "logout" ELSE "confirm")
          /\ UNCHANGED <<exit, outcome, lock, end_result>>
      BY <1>3, <2>4 DEF NoAnswer
    <3>. QED  BY <1>1, <2>4, <3>1 DEF Sends, EndsOn
  <2>5. CASE flight[t] = "confirm"
    <3>1. Unlocked(t, "err") /\ UNCHANGED <<exit, outcome>>
      BY <1>3, <2>5 DEF NoAnswer
    <3>. QED  BY <1>1, <2>5, <3>1 DEF Sends, Concludes
  <2>. QED  BY <1>1, <2>1, <2>2, <2>3, <2>4, <2>5 DEF Request
<1>4. CASE Answer(t)
  <2>0. UNCHANGED <<lock, end_result>> /\ pc[t] # "confirm"
    BY <1>4 DEF Answer, hopState
  <2>1. CASE flight[t] \in {"mint", "lookup", "hop"}
    <3>1. \/ /\ Goto(t, CASE pc[t] = "mint" -> "guard"
                          [] pc[t] = "original" -> "target"
                          [] pc[t] = "target" -> "arm"
                          [] OTHER -> "took")
             /\ UNCHANGED <<outcome, exit>>
          \/ flight[t] = "mint" /\ Exit("error") /\ Goto(t, "exit") /\ outcome' = outcome
          \/ flight[t] # "mint" /\ Return /\ exit' = exit
      BY <1>4, <2>1 DEF Answer
    <3>2. t = "main" /\ pc[t] \in {"mint", "original", "target", "hop"}
          /\ (flight[t] = "mint" <=> pc[t] = "mint")
      BY <1>1, <2>1 DEF Sends, Ending
    <3>. QED  BY <2>0, <3>1, <3>2 DEF Advances, GivesUp, Exit, Goto
  <2>2. CASE flight[t] = "session"
    <3>1. /\ exit' = exit
          /\ \/ Took /\ Goto(t, "command") /\ outcome' = outcome
             \/ Return
      BY <1>4, <2>2 DEF Answer
    <3>2. t = "main" /\ pc[t] = "took"
      BY <1>1, <2>2 DEF Sends, Ending
    <3>. QED  BY <2>0, <3>1, <3>2 DEF Advances, GivesUp, Took
  <2>3. CASE flight[t] = "work"
    <3>1. /\ exit' = exit
          /\ \/ Finished("err") \/ Finished("ok")
             \/ Goto(t, "create") /\ outcome' = outcome
             \/ sent < Requests /\ UNCHANGED <<pc, outcome>>
      BY <1>4, <2>3 DEF Answer
    <3>2. t = "main" /\ pc[t] = "command"
      BY <1>1, <2>3 DEF Sends, Ending
    <3>3. UNCHANGED pc => Goto("main", "command")
      BY <1>1, <3>2 DEF Goto
    <3>4. Goto("main", "create") => pc'["main"] = "create"
      BY <1>1, <3>2 DEF Goto, Thread
    <3>. QED  BY <2>0, <3>1, <3>2, <3>3, <3>4 DEF Advances, Finishes
  <2>4. CASE flight[t] \in {"revert", "logout"}
    <3>1. /\ Goto(t, IF flight[t] = "revert" THEN "logout" ELSE "confirm")
          /\ UNCHANGED <<outcome, exit>>
      BY <1>4, <2>4 DEF Answer
    <3>. QED  BY <1>1, <2>0, <2>4, <3>1 DEF Sends, EndsOn
  <2>. QED  BY <1>1, <2>0, <2>1, <2>2, <2>3, <2>4 DEF Request, Sends
<1>. QED  BY <1>2, <1>3, <1>4
-----------------------------------------------------------------------------

\* Every step keeps the types.
LEMMA StepKeepsType == Inv /\ [Next]_vars => TypeOK'
<1>. SUFFICES ASSUME Inv, [Next]_vars PROVE TypeOK'
  OBVIOUS
<1>. USE ImpersonateAssumption DEF Inv, TypeOK, ThreadState, Before, Sends, Ending, hopState, files, At, Goto, Exit,
           Send, Finished, Return, Running, Thread, ServedEffect, Effects, Steps, Request, After, Unlocked, AlreadyEnded
<1>1. CASE Prepare
  BY <1>1 DEF Prepare
<1>2. CASE Mint
  BY <1>2 DEF Mint
<1>3. CASE Guard
  BY <1>3 DEF Guard
<1>4. CASE CheckCan
  BY <1>4 DEF CheckCan
<1>5. CASE Resolve
  BY <1>5 DEF Resolve
<1>6. CASE Arm
  BY <1>6 DEF Arm
<1>7. CASE PostHop
  BY <1>7 DEF PostHop
<1>8. CASE Work
  BY <1>8 DEF Work
<1>9. CASE Create
  BY <1>9 DEF Create
<1>10. CASE Install
  BY <1>10 DEF Install
<1>11. CASE Copy
  BY <1>11 DEF Copy
<1>12. CASE Rename
  BY <1>12 DEF Rename
<1>13. CASE Report
  BY <1>13 DEF Report
<1>14. CASE Interrupt
  BY <1>14 DEF Interrupt
<1>15. CASE Unlink
  BY <1>15 DEF Unlink
<1>16. CASE HandlerExits
  BY <1>16 DEF HandlerExits
<1>17. CASE Kill
  BY <1>17 DEF Kill
<1>18. ASSUME NEW t \in Thread, End(t) PROVE TypeOK'
  <2>1. CASE ended
    BY <1>18, <2>1 DEF End, AlreadyEnded
  <2>2. CASE ~ended
    <3>1. /\ ended' = TRUE /\ lock' = t /\ end_result' = end_result
          /\ Goto(t, IF revert_to THEN "revert" ELSE "logout")
          /\ UNCHANGED <<cmd, flight, session, revert_to, guarded, handler, sent, outcome,
                         files, signalled, exit, actedAs>>
      BY <1>18, <2>2 DEF End, AlreadyEnded
    <3>2. pc' \in [Thread -> Steps]
      BY <3>1
    <3>. QED  BY <3>1, <3>2
  <2>. QED  BY <2>1, <2>2
<1>19. ASSUME NEW t \in Thread, EndRequest(t) PROVE TypeOK'
  BY <1>19 DEF EndRequest
<1>20. ASSUME NEW t \in Thread, Answer(t) \/ NoAnswer(t) \/ Confirm(t) PROVE TypeOK'
  <2>0. Effects(t)
    BY <1>20, AnswerEffects
  <2>1. CASE Advances(t)
    BY <2>0, <2>1 DEF Advances
  <2>2. CASE GivesUp(t)
    BY <2>0, <2>2 DEF GivesUp
  <2>3. CASE Finishes(t)
    BY <2>0, <2>3 DEF Finishes
  <2>4. CASE EndsOn(t)
    BY <2>0, <2>4 DEF EndsOn
  <2>5. CASE Concludes(t)
    BY <2>0, <2>5 DEF Concludes
  <2>. QED  BY <1>20, <2>1, <2>2, <2>3, <2>4, <2>5, AnswerMoves
<1>21. ASSUME NEW t \in Thread, LateRequest(t) PROVE TypeOK'
  <2>1. ServedEffect(t)
    BY <1>21, Serving DEF LateRequest
  <2>. QED  BY <1>21, <2>1 DEF LateRequest
<1>22. CASE UNCHANGED vars
  BY <1>22 DEF vars
<1>. QED
  BY <1>1, <1>2, <1>3, <1>4, <1>5, <1>6, <1>7, <1>8, <1>9, <1>10, <1>11, <1>12, <1>13, <1>14, <1>15, <1>16, <1>17, <1>18, <1>19, <1>20, <1>21, <1>22 DEF Next, Main, Step

\* A thread has in flight only what its step sends.
LEMMA StepKeepsThreads == Inv /\ [Next]_vars => ThreadState'
<1>. SUFFICES ASSUME Inv, [Next]_vars PROVE ThreadState'
  OBVIOUS
<1>. USE ImpersonateAssumption DEF Inv, TypeOK, ThreadState, Before, Sends, Ending, hopState, files, At, Goto, Exit,
           Send, Finished, Return, Running, Thread, ServedEffect, Effects, Request, After, Unlocked, AlreadyEnded
<1>1. CASE Prepare
  BY <1>1 DEF Prepare
<1>2. CASE Mint
  BY <1>2 DEF Mint
<1>3. CASE Guard
  BY <1>3 DEF Guard
<1>4. CASE CheckCan
  BY <1>4 DEF CheckCan
<1>5. CASE Resolve
  BY <1>5 DEF Resolve
<1>6. CASE Arm
  BY <1>6 DEF Arm
<1>7. CASE PostHop
  BY <1>7 DEF PostHop
<1>8. CASE Work
  BY <1>8 DEF Work
<1>9. CASE Create
  BY <1>9 DEF Create
<1>10. CASE Install
  BY <1>10 DEF Install
<1>11. CASE Copy
  BY <1>11 DEF Copy
<1>12. CASE Rename
  BY <1>12 DEF Rename
<1>13. CASE Report
  BY <1>13 DEF Report
<1>14. CASE Interrupt
  BY <1>14 DEF Interrupt
<1>15. CASE Unlink
  BY <1>15 DEF Unlink
<1>16. CASE HandlerExits
  BY <1>16 DEF HandlerExits
<1>17. CASE Kill
  BY <1>17 DEF Kill
<1>18. ASSUME NEW t \in Thread, End(t) PROVE ThreadState'
  <2>1. CASE ended
    BY <1>18, <2>1 DEF End, AlreadyEnded
  <2>2. CASE ~ended
    BY <1>18, <2>2 DEF End
  <2>. QED  BY <2>1, <2>2
<1>19. ASSUME NEW t \in Thread, EndRequest(t) PROVE ThreadState'
  BY <1>19 DEF EndRequest
<1>20. ASSUME NEW t \in Thread, Answer(t) \/ NoAnswer(t) \/ Confirm(t) PROVE ThreadState'
  <2>0. Effects(t)
    BY <1>20, AnswerEffects
  <2>1. CASE Advances(t)
    BY <2>0, <2>1 DEF Advances
  <2>2. CASE GivesUp(t)
    BY <2>0, <2>2 DEF GivesUp
  <2>3. CASE Finishes(t)
    BY <2>0, <2>3 DEF Finishes
  <2>4. CASE EndsOn(t)
    BY <2>0, <2>4 DEF EndsOn
  <2>5. CASE Concludes(t)
    BY <2>0, <2>5 DEF Concludes
  <2>. QED  BY <1>20, <2>1, <2>2, <2>3, <2>4, <2>5, AnswerMoves
<1>21. ASSUME NEW t \in Thread, LateRequest(t) PROVE ThreadState'
  <2>1. ServedEffect(t)
    BY <1>21, Serving DEF LateRequest
  <2>. QED  BY <1>21, <2>1 DEF LateRequest
<1>22. CASE UNCHANGED vars
  BY <1>22 DEF vars
<1>. QED
  BY <1>1, <1>2, <1>3, <1>4, <1>5, <1>6, <1>7, <1>8, <1>9, <1>10, <1>11, <1>12, <1>13, <1>14, <1>15, <1>16, <1>17, <1>18, <1>19, <1>20, <1>21, <1>22 DEF Next, Main, Step

\* The guard is set up once and stays.
LEMMA StepKeepsGuarding == Inv /\ [Next]_vars => Guarding'
<1>. SUFFICES ASSUME Inv, [Next]_vars PROVE Guarding'
  OBVIOUS
<1>. USE ImpersonateAssumption DEF Inv, TypeOK, ThreadState, Before, Sends, Ending, hopState, files, At, Goto, Exit,
           Send, Finished, Return, Running, Thread, ServedEffect, Effects, Guarding, After, Unlocked, AlreadyEnded
<1>1. CASE Prepare
  BY <1>1 DEF Prepare
<1>2. CASE Mint
  BY <1>2 DEF Mint
<1>3. CASE Guard
  BY <1>3 DEF Guard
<1>4. CASE CheckCan
  BY <1>4 DEF CheckCan
<1>5. CASE Resolve
  BY <1>5 DEF Resolve
<1>6. CASE Arm
  BY <1>6 DEF Arm
<1>7. CASE PostHop
  BY <1>7 DEF PostHop
<1>8. CASE Work
  BY <1>8 DEF Work
<1>9. CASE Create
  BY <1>9 DEF Create
<1>10. CASE Install
  BY <1>10 DEF Install
<1>11. CASE Copy
  BY <1>11 DEF Copy
<1>12. CASE Rename
  BY <1>12 DEF Rename
<1>13. CASE Report
  BY <1>13 DEF Report
<1>14. CASE Interrupt
  BY <1>14 DEF Interrupt
<1>15. CASE Unlink
  BY <1>15 DEF Unlink
<1>16. CASE HandlerExits
  BY <1>16 DEF HandlerExits
<1>17. CASE Kill
  BY <1>17 DEF Kill
<1>18. ASSUME NEW t \in Thread, End(t) PROVE Guarding'
  <2>1. CASE ended
    BY <1>18, <2>1 DEF End, AlreadyEnded
  <2>2. CASE ~ended
    BY <1>18, <2>2 DEF End
  <2>. QED  BY <2>1, <2>2
<1>19. ASSUME NEW t \in Thread, EndRequest(t) PROVE Guarding'
  BY <1>19 DEF EndRequest
<1>20. ASSUME NEW t \in Thread, Answer(t) \/ NoAnswer(t) \/ Confirm(t) PROVE Guarding'
  <2>0. Effects(t)
    BY <1>20, AnswerEffects
  <2>1. CASE Advances(t)
    BY <2>0, <2>1 DEF Advances
  <2>2. CASE GivesUp(t)
    BY <2>0, <2>2 DEF GivesUp
  <2>3. CASE Finishes(t)
    BY <2>0, <2>3 DEF Finishes
  <2>4. CASE EndsOn(t)
    BY <2>0, <2>4 DEF EndsOn
  <2>5. CASE Concludes(t)
    BY <2>0, <2>5 DEF Concludes
  <2>. QED  BY <1>20, <2>1, <2>2, <2>3, <2>4, <2>5, AnswerMoves
<1>21. ASSUME NEW t \in Thread, LateRequest(t) PROVE Guarding'
  <2>1. ServedEffect(t)
    BY <1>21, Serving DEF LateRequest
  <2>. QED  BY <1>21, <2>1 DEF LateRequest
<1>22. CASE UNCHANGED vars
  BY <1>22 DEF vars
<1>. QED
  BY <1>1, <1>2, <1>3, <1>4, <1>5, <1>6, <1>7, <1>8, <1>9, <1>10, <1>11, <1>12, <1>13, <1>14, <1>15, <1>16, <1>17, <1>18, <1>19, <1>20, <1>21, <1>22 DEF Next, Main, Step

\* The mutex goes to one thread and is released with the verdict.
LEMMA StepKeepsEndState == Inv /\ [Next]_vars => EndState'
<1>. SUFFICES ASSUME Inv, [Next]_vars PROVE EndState'
  OBVIOUS
<1>. USE ImpersonateAssumption DEF Inv, TypeOK, ThreadState, Before, Sends, Ending, hopState, files, At, Goto, Exit,
           Send, Finished, Return, Running, Thread, ServedEffect, Effects, Guarding, EndState, After, Unlocked, AlreadyEnded
<1>1. CASE Prepare
  BY <1>1 DEF Prepare
<1>2. CASE Mint
  BY <1>2 DEF Mint
<1>3. CASE Guard
  BY <1>3 DEF Guard
<1>4. CASE CheckCan
  BY <1>4 DEF CheckCan
<1>5. CASE Resolve
  BY <1>5 DEF Resolve
<1>6. CASE Arm
  BY <1>6 DEF Arm
<1>7. CASE PostHop
  BY <1>7 DEF PostHop
<1>8. CASE Work
  BY <1>8 DEF Work
<1>9. CASE Create
  BY <1>9 DEF Create
<1>10. CASE Install
  BY <1>10 DEF Install
<1>11. CASE Copy
  BY <1>11 DEF Copy
<1>12. CASE Rename
  BY <1>12 DEF Rename
<1>13. CASE Report
  BY <1>13 DEF Report
<1>14. CASE Interrupt
  BY <1>14 DEF Interrupt
<1>15. CASE Unlink
  BY <1>15 DEF Unlink
<1>16. CASE HandlerExits
  BY <1>16 DEF HandlerExits
<1>17. CASE Kill
  BY <1>17 DEF Kill
<1>18. ASSUME NEW t \in Thread, End(t) PROVE EndState'
  <2>1. CASE ended
    BY <1>18, <2>1 DEF End, AlreadyEnded
  <2>2. CASE ~ended
    BY <1>18, <2>2 DEF End
  <2>. QED  BY <2>1, <2>2
<1>19. ASSUME NEW t \in Thread, EndRequest(t) PROVE EndState'
  BY <1>19 DEF EndRequest
<1>20. ASSUME NEW t \in Thread, Answer(t) \/ NoAnswer(t) \/ Confirm(t) PROVE EndState'
  <2>0. Effects(t)
    BY <1>20, AnswerEffects
  <2>1. CASE Advances(t)
    BY <2>0, <2>1 DEF Advances
  <2>2. CASE GivesUp(t)
    BY <2>0, <2>2 DEF GivesUp
  <2>3. CASE Finishes(t)
    BY <2>0, <2>3 DEF Finishes
  <2>4. CASE EndsOn(t)
    BY <2>0, <2>4 DEF EndsOn
  <2>5. CASE Concludes(t)
    BY <2>0, <2>5 DEF Concludes
  <2>. QED  BY <1>20, <2>1, <2>2, <2>3, <2>4, <2>5, AnswerMoves
<1>21. ASSUME NEW t \in Thread, LateRequest(t) PROVE EndState'
  <2>1. ServedEffect(t)
    BY <1>21, Serving DEF LateRequest
  <2>. QED  BY <1>21, <2>1 DEF LateRequest
<1>22. CASE UNCHANGED vars
  BY <1>22 DEF vars
<1>. QED
  BY <1>1, <1>2, <1>3, <1>4, <1>5, <1>6, <1>7, <1>8, <1>9, <1>10, <1>11, <1>12, <1>13, <1>14, <1>15, <1>16, <1>17, <1>18, <1>19, <1>20, <1>21, <1>22 DEF Next, Main, Step

\* The session becomes the target's only by a hop that will be reverted.
LEMMA StepKeepsTarget == Inv /\ [Next]_vars => TargetState'
<1>. SUFFICES ASSUME Inv, [Next]_vars PROVE TargetState'
  OBVIOUS
<1>. USE ImpersonateAssumption DEF Inv, TypeOK, ThreadState, Before, Sends, Ending, hopState, files, At, Goto, Exit,
           Send, Finished, Return, Running, Thread, ServedEffect, Effects, Guarding, EndState, TargetState,
           CommandSteps, After, Unlocked, AlreadyEnded, EndedWell, Alive
<1>1. CASE Prepare
  BY <1>1 DEF Prepare
<1>2. CASE Mint
  BY <1>2 DEF Mint
<1>3. CASE Guard
  BY <1>3 DEF Guard
<1>4. CASE CheckCan
  BY <1>4 DEF CheckCan
<1>5. CASE Resolve
  BY <1>5 DEF Resolve
<1>6. CASE Arm
  BY <1>6 DEF Arm
<1>7. CASE PostHop
  BY <1>7 DEF PostHop
<1>8. CASE Work
  BY <1>8 DEF Work
<1>9. CASE Create
  BY <1>9 DEF Create
<1>10. CASE Install
  BY <1>10 DEF Install
<1>11. CASE Copy
  BY <1>11 DEF Copy
<1>12. CASE Rename
  BY <1>12 DEF Rename
<1>13. CASE Report
  BY <1>13 DEF Report
<1>14. CASE Interrupt
  BY <1>14 DEF Interrupt
<1>15. CASE Unlink
  BY <1>15 DEF Unlink
<1>16. CASE HandlerExits
  BY <1>16 DEF HandlerExits
<1>17. CASE Kill
  BY <1>17 DEF Kill
<1>18. ASSUME NEW t \in Thread, End(t) PROVE TargetState'
  <2>1. CASE ended
    BY <1>18, <2>1 DEF End, AlreadyEnded
  <2>2. CASE ~ended
    BY <1>18, <2>2 DEF End
  <2>. QED  BY <2>1, <2>2
<1>19. ASSUME NEW t \in Thread, EndRequest(t) PROVE TargetState'
  BY <1>19 DEF EndRequest
<1>20. ASSUME NEW t \in Thread, Answer(t) \/ NoAnswer(t) \/ Confirm(t) PROVE TargetState'
  <2>0. Effects(t)
    BY <1>20, AnswerEffects
  <2>1. CASE Advances(t)
    BY <2>0, <2>1 DEF Advances
  <2>2. CASE GivesUp(t)
    BY <2>0, <2>2 DEF GivesUp
  <2>3. CASE Finishes(t)
    BY <2>0, <2>3 DEF Finishes
  <2>4. CASE EndsOn(t)
    BY <2>0, <2>4 DEF EndsOn
  <2>5. CASE Concludes(t)
    BY <2>0, <2>5 DEF Concludes
  <2>. QED  BY <1>20, <2>1, <2>2, <2>3, <2>4, <2>5, AnswerMoves
<1>21. ASSUME NEW t \in Thread, LateRequest(t) PROVE TargetState'
  <2>1. ServedEffect(t)
    BY <1>21, Serving DEF LateRequest
  <2>2. <<pc[t], flight[t]>> \in Sends /\ (t = "main" \/ signalled)
    BY <1>21 DEF LateRequest, Served
  <2>3. /\ flight[t] = "hop" => pc["main"] = "hop"
        /\ ~signalled => flight[t] \in {"mint", "lookup", "hop", "session", "work"}
                         \/ pc["main"] \in Ending
        /\ ~signalled /\ pc["main"] \in CommandSteps => session' = session
        /\ ~signalled => pc["main"] \notin {"end", "report", "exit"}
    BY <2>1, <2>2
  <2>. QED  BY <1>21, <2>1, <2>3 DEF LateRequest
<1>22. CASE UNCHANGED vars
  BY <1>22 DEF vars
<1>. QED
  BY <1>1, <1>2, <1>3, <1>4, <1>5, <1>6, <1>7, <1>8, <1>9, <1>10, <1>11, <1>12, <1>13, <1>14, <1>15, <1>16, <1>17, <1>18, <1>19, <1>20, <1>21, <1>22 DEF Next, Main, Step

\* The staging file is renamed or removed on every way out.
LEMMA StepKeepsFiles == Inv /\ [Next]_vars => FileState'
<1>. SUFFICES ASSUME Inv, [Next]_vars PROVE FileState'
  OBVIOUS
<1>. USE ImpersonateAssumption DEF Inv, TypeOK, ThreadState, Before, Sends, Ending, hopState, files, At, Goto, Exit,
           Send, Finished, Return, Running, Thread, ServedEffect, Effects, Guarding, FileState, After, Unlocked, AlreadyEnded
<1>1. CASE Prepare
  BY <1>1 DEF Prepare
<1>2. CASE Mint
  BY <1>2 DEF Mint
<1>3. CASE Guard
  BY <1>3 DEF Guard
<1>4. CASE CheckCan
  BY <1>4 DEF CheckCan
<1>5. CASE Resolve
  BY <1>5 DEF Resolve
<1>6. CASE Arm
  BY <1>6 DEF Arm
<1>7. CASE PostHop
  BY <1>7 DEF PostHop
<1>8. CASE Work
  BY <1>8 DEF Work
<1>9. CASE Create
  BY <1>9 DEF Create
<1>10. CASE Install
  BY <1>10 DEF Install
<1>11. CASE Copy
  BY <1>11 DEF Copy
<1>12. CASE Rename
  BY <1>12 DEF Rename
<1>13. CASE Report
  BY <1>13 DEF Report
<1>14. CASE Interrupt
  BY <1>14 DEF Interrupt
<1>15. CASE Unlink
  BY <1>15 DEF Unlink
<1>16. CASE HandlerExits
  BY <1>16 DEF HandlerExits
<1>17. CASE Kill
  BY <1>17 DEF Kill
<1>18. ASSUME NEW t \in Thread, End(t) PROVE FileState'
  <2>1. CASE ended
    BY <1>18, <2>1 DEF End, AlreadyEnded
  <2>2. CASE ~ended
    BY <1>18, <2>2 DEF End
  <2>. QED  BY <2>1, <2>2
<1>19. ASSUME NEW t \in Thread, EndRequest(t) PROVE FileState'
  BY <1>19 DEF EndRequest
<1>20. ASSUME NEW t \in Thread, Answer(t) \/ NoAnswer(t) \/ Confirm(t) PROVE FileState'
  <2>0. Effects(t)
    BY <1>20, AnswerEffects
  <2>1. CASE Advances(t)
    BY <2>0, <2>1 DEF Advances
  <2>2. CASE GivesUp(t)
    BY <2>0, <2>2 DEF GivesUp
  <2>3. CASE Finishes(t)
    BY <2>0, <2>3 DEF Finishes
  <2>4. CASE EndsOn(t)
    BY <2>0, <2>4 DEF EndsOn
  <2>5. CASE Concludes(t)
    BY <2>0, <2>5 DEF Concludes
  <2>. QED  BY <1>20, <2>1, <2>2, <2>3, <2>4, <2>5, AnswerMoves
<1>21. ASSUME NEW t \in Thread, LateRequest(t) PROVE FileState'
  <2>1. ServedEffect(t)
    BY <1>21, Serving DEF LateRequest
  <2>. QED  BY <1>21, <2>1 DEF LateRequest
<1>22. CASE UNCHANGED vars
  BY <1>22 DEF vars
<1>. QED
  BY <1>1, <1>2, <1>3, <1>4, <1>5, <1>6, <1>7, <1>8, <1>9, <1>10, <1>11, <1>12, <1>13, <1>14, <1>15, <1>16, <1>17, <1>18, <1>19, <1>20, <1>21, <1>22 DEF Next, Main, Step

\* The command's requests are served as the target.
LEMMA StepKeepsActing == Inv /\ [Next]_vars => ActsAsTargetUnlessInterrupted'
<1>. SUFFICES ASSUME Inv, [Next]_vars PROVE ActsAsTargetUnlessInterrupted'
  OBVIOUS
<1>. USE ImpersonateAssumption DEF Inv, TypeOK, ThreadState, Before, Sends, Ending, hopState, files, At, Goto, Exit,
           Send, Finished, Return, Running, Thread, ServedEffect, Effects, Guarding, TargetState, CommandSteps,
           ActsAsTargetUnlessInterrupted, CommandActsAsTarget, ActingUser, Alive
<1>1. CASE Prepare
  BY <1>1 DEF Prepare
<1>2. CASE Mint
  BY <1>2 DEF Mint
<1>3. CASE Guard
  BY <1>3 DEF Guard
<1>4. CASE CheckCan
  BY <1>4 DEF CheckCan
<1>5. CASE Resolve
  BY <1>5 DEF Resolve
<1>6. CASE Arm
  BY <1>6 DEF Arm
<1>7. CASE PostHop
  BY <1>7 DEF PostHop
<1>8. CASE Work
  BY <1>8 DEF Work
<1>9. CASE Create
  BY <1>9 DEF Create
<1>10. CASE Install
  BY <1>10 DEF Install
<1>11. CASE Copy
  BY <1>11 DEF Copy
<1>12. CASE Rename
  BY <1>12 DEF Rename
<1>13. CASE Report
  BY <1>13 DEF Report
<1>14. CASE Interrupt
  BY <1>14 DEF Interrupt
<1>15. CASE Unlink
  BY <1>15 DEF Unlink
<1>16. CASE HandlerExits
  BY <1>16 DEF HandlerExits
<1>17. CASE Kill
  BY <1>17 DEF Kill
<1>18. ASSUME NEW t \in Thread, End(t) PROVE ActsAsTargetUnlessInterrupted'
  <2>1. CASE ended
    BY <1>18, <2>1 DEF End, AlreadyEnded
  <2>2. CASE ~ended
    BY <1>18, <2>2 DEF End
  <2>. QED  BY <2>1, <2>2
<1>19. ASSUME NEW t \in Thread, EndRequest(t) PROVE ActsAsTargetUnlessInterrupted'
  BY <1>19 DEF EndRequest
<1>20. ASSUME NEW t \in Thread, Answer(t) \/ NoAnswer(t) \/ Confirm(t) PROVE ActsAsTargetUnlessInterrupted'
  <2>0. Effects(t)
    BY <1>20, AnswerEffects
  <2>1. CASE Advances(t)
    BY <2>0, <2>1 DEF Advances
  <2>2. CASE GivesUp(t)
    BY <2>0, <2>2 DEF GivesUp
  <2>3. CASE Finishes(t)
    BY <2>0, <2>3 DEF Finishes
  <2>4. CASE EndsOn(t)
    BY <2>0, <2>4 DEF EndsOn
  <2>5. CASE Concludes(t)
    BY <2>0, <2>5 DEF Concludes
  <2>. QED  BY <1>20, <2>1, <2>2, <2>3, <2>4, <2>5, AnswerMoves
<1>21. ASSUME NEW t \in Thread, LateRequest(t) PROVE ActsAsTargetUnlessInterrupted'
  <2>1. ServedEffect(t)
    BY <1>21, Serving DEF LateRequest
  <2>2. <<pc[t], flight[t]>> \in Sends /\ (t = "main" \/ signalled)
    BY <1>21 DEF LateRequest, Served
  <2>3. ~signalled /\ flight[t] = "work" /\ cmd.hop => session = "target"
    BY <2>2
  <2>. QED  BY <1>21, <2>1, <2>3 DEF LateRequest
<1>22. CASE UNCHANGED vars
  BY <1>22 DEF vars
<1>. QED
  BY <1>1, <1>2, <1>3, <1>4, <1>5, <1>6, <1>7, <1>8, <1>9, <1>10, <1>11, <1>12, <1>13, <1>14, <1>15, <1>16, <1>17, <1>18, <1>19, <1>20, <1>21, <1>22 DEF Next, Main, Step
-----------------------------------------------------------------------------
\* Every step keeps the invariant.
LEMMA StepKeepsInv == Inv /\ [Next]_vars => Inv'
BY StepKeepsType, StepKeepsThreads, StepKeepsGuarding, StepKeepsEndState,
   StepKeepsTarget, StepKeepsFiles, StepKeepsActing DEF Inv

\* The inductive invariant holds of every behaviour of the two threads, the
\* instance and the signals.
THEOREM InvAlways == Spec => []Inv
<1>1. Init => Inv
  BY InitInv
<1>2. Inv /\ [Next]_vars => Inv'
  BY StepKeepsInv
<1>. QED  BY <1>1, <1>2, PTL DEF Spec

\* Every variable keeps its type, whatever the command line.
THEOREM TypeCorrect == Spec => []TypeOK
<1>1. Inv => TypeOK
  BY DEF Inv
<1>. QED  BY <1>1, InvAlways, PTL

\* Unless Ctrl-C is pressed, no request of the wrapped command runs as the
\* original user, however many requests it sends and even if the instance
\* answers 201 to a hop it did not make.
THEOREM CommandRunsAsTarget == Spec => []ActsAsTargetUnlessInterrupted
<1>1. Inv => ActsAsTargetUnlessInterrupted
  BY DEF Inv
<1>. QED  BY <1>1, InvAlways, PTL

\* Hop::end has run to its verdict, with the mutex free again, on every exit
\* path of a process that had a session to guard, and Ok(()) from it means that
\* the session is not the target's.
THEOREM SessionsEnd == Spec => []EndedOnEveryExit
<1>1. Inv => EndedOnEveryExit
  <2>. USE DEF Inv
  <2>1. Inv /\ guarded /\ exit \in {"ok", "error", "130"} => ended /\ lock = None
    BY DEF EndState
  <2>2. Inv /\ ~signalled /\ end_result["main"] = "ok" => session # "target"
    BY DEF TargetState
  <2>. QED  BY <2>1, <2>2 DEF EndedOnEveryExit
<1>. QED  BY <1>1, InvAlways, PTL

\* The download renames a whole file into place or nothing, and unless it is
\* killed or an impersonation owns the SIGINT handler its staging file is gone
\* when the process is.
THEOREM FilesAreWhole == Spec => []NoPartialFiles
<1>1. Inv => NoPartialFiles
  BY DEF Inv, EndState, FileState, NoPartialFiles
<1>. QED  BY <1>1, InvAlways, PTL
=============================================================================
