---------------------------- MODULE Impersonate ----------------------------
(***************************************************************************)
(* One sn process that runs a command as another user: `sn impersonate`    *)
(* mints a session, switches it to the target, runs the wrapped command on *)
(* its cookies and ends it.  Two threads share the session: the main one   *)
(* and the SIGINT handler, which ends the session under the command's      *)
(* feet.  The wrapped command is a few requests, or `sn attachment         *)
(* download`, which wants a SIGINT handler of its own for its staging      *)
(* file; a process has one handler, so both commands are modelled here,    *)
(* and the download also runs on its own.                                  *)
(*                                                                         *)
(* A request is sent by a thread and served later, so requests of the two  *)
(* threads can overtake each other; when the process has exited, what is   *)
(* in flight may still be served.                                          *)
(***************************************************************************)
EXTENDS Naturals

CONSTANTS
    Commands,    \* the command lines: [hop, argv, download] records
    Requests,    \* how many requests a wrapped command that is no download sends
    Ignored,     \* the requests the instance may answer with success and not do
    None

Thread == {"main", "handler"}
Request == {"mint", "lookup", "session", "hop", "work", "revert", "logout", "confirm"}

\* What argv decides before anything is sent (prepare_inner, refusal,
\* user_query): the command may run, is refused, or only prints its help.
Command == [hop : BOOLEAN, argv : {"fine", "refused", "help"}, download : BOOLEAN]

ASSUME ImpersonateAssumption ==
    /\ Commands \subseteq Command
    /\ Requests \in Nat \ {0}
    /\ Ignored \subseteq {"hop", "revert", "logout"}
    /\ None \notin Request \cup Thread

VARIABLES
    cmd,        \* the command line
    pc,         \* thread -> where it is
    flight,     \* thread -> its request on the wire
    session,    \* at the instance: the session and the user it acts as
    revert_to,  \* HopState: ending the session includes switching it back
    ended,      \* HopState: somebody ends or has ended the session
    lock,       \* the thread that holds the HopState mutex
    guarded,    \* EndOnDrop exists
    handler,    \* what SIGINT does: the default, Hop::end, or the unlink
    sent,       \* requests of the command so far
    outcome,    \* how the command ended
    end_result, \* thread -> what Hop::end returned to it
    staging,    \* the download's staging file
    dest,       \* the download's destination
    signalled,  \* the user has pressed Ctrl-C
    exit,       \* how the process ended
    actedAs     \* history: the users the command's requests ran as

vars == <<cmd, pc, flight, session, revert_to, ended, lock, guarded, handler,
          sent, outcome, end_result, staging, dest, signalled, exit, actedAs>>
hopState == <<revert_to, ended, lock, end_result>>
files == <<staging, dest>>

Steps == {"prepare", "mint", "guard", "can", "original", "target", "arm", "hop",
          "took", "command", "create", "install", "copy", "rename", "done",
          "end", "revert", "logout", "confirm", "report", "idle", "unlink",
          "exit"}

TypeOK ==
    /\ cmd \in Commands
    /\ pc \in [Thread -> Steps]
    /\ flight \in [Thread -> Request \cup {None}]
    /\ session \in {"none", "original", "target", "gone"}
    /\ revert_to \in BOOLEAN /\ ended \in BOOLEAN
    /\ lock \in Thread \cup {None}
    /\ guarded \in BOOLEAN
    /\ handler \in {"default", "end", "reap"}
    /\ sent \in 0..Requests
    /\ outcome \in {"none", "ok", "err", "early"}
    /\ end_result \in [Thread -> {"none", "ok", "err"}]
    /\ staging \in {"none", "partial", "whole"}
    /\ dest \in {"old", "partial", "whole"}
    /\ signalled \in BOOLEAN
    /\ exit \in {"running", "ok", "error", "130", "killed"}
    /\ actedAs \subseteq {"original", "target", "nobody", "credential"}

Init ==
    /\ cmd \in Commands
    /\ pc = [t \in Thread |-> IF t = "main" THEN "prepare" ELSE "idle"]
    /\ flight = [t \in Thread |-> None]
    /\ session = "none"
    /\ revert_to = FALSE /\ ended = FALSE /\ lock = None
    /\ guarded = FALSE /\ handler = "default"
    /\ sent = 0 /\ outcome = "none" /\ end_result = [t \in Thread |-> "none"]
    /\ staging = "none" /\ dest = "old"
    /\ signalled = FALSE /\ exit = "running"
    /\ actedAs = {}

Running == exit = "running"
At(t, step) == Running /\ pc[t] = step /\ flight[t] = None
Goto(t, step) == pc' = [pc EXCEPT ![t] = step]
Exit(code) == exit' = code

\* The command finished: what follows is the explicit end of the session, or,
\* for a command that was not wrapped, main's return.
Finished(how) ==
    /\ outcome' = how
    /\ Goto("main", IF cmd.hop THEN "end" ELSE "report")

-----------------------------------------------------------------------------
\* Requests and the instance that serves them.

Send(t, from, request) ==
    /\ At(t, from)
    /\ flight' = [flight EXCEPT ![t] = request]

Alive == session \in {"original", "target"}

\* What serving a request does to the session, if the instance does it.
Effect(request) ==
    CASE request = "mint" -> "original"
      [] request = "hop" /\ Alive -> "target"
      [] request = "revert" /\ Alive -> "original"
      [] request = "logout" -> "gone"
      [] OTHER -> session

\* A command outside of an impersonation sends the profile's own credential.
ActingUser ==
    IF ~cmd.hop THEN "credential" ELSE IF Alive THEN session ELSE "nobody"

\* The instance serves t's request: it does what it says, or, where it is
\* known to answer success without doing it, nothing.
Served(t) ==
    /\ flight[t] # None
    /\ \/ session' = Effect(flight[t])
       \/ flight[t] \in Ignored /\ session' = session
    /\ actedAs' = IF flight[t] = "work" THEN actedAs \cup {ActingUser} ELSE actedAs
    /\ flight' = [flight EXCEPT ![t] = None]

\* A session that is gone answers 401.
Unauthorized(t) == flight[t] # "mint" /\ cmd.hop /\ ~Alive

-----------------------------------------------------------------------------
\* The main thread up to the wrapped command.

\* prepare_inner and user_query: everything argv can get wrong comes first.
Prepare ==
    /\ At("main", "prepare")
    /\ \/ cmd.argv = "refused" /\ Exit("error") /\ Goto("main", "exit")
       \/ cmd.argv = "help" /\ Exit("ok") /\ Goto("main", "exit")
       \/ cmd.argv = "fine" /\ Goto("main", IF cmd.hop THEN "mint" ELSE "command")
                            /\ exit' = exit
    /\ UNCHANGED <<cmd, flight, session, hopState, guarded, handler, sent, outcome,
                   files, signalled, actedAs>>

Mint ==
    /\ Send("main", "mint", "mint")
    /\ UNCHANGED <<cmd, pc, session, hopState, guarded, handler, sent, outcome,
                   files, signalled, exit, actedAs>>

\* The guard and the handler, installed once a session exists.
Guard ==
    /\ At("main", "guard")
    /\ guarded' = TRUE
    /\ handler' = "end"
    /\ Goto("main", "can")
    /\ UNCHANGED <<cmd, flight, session, hopState, sent, outcome, files,
                   signalled, exit, actedAs>>

\* (mutant) an early return is not guarded
ReturnUnguarded == outcome' = "early" /\ Goto("main", "report")

\* An early return below the guard: EndOnDrop ends the session.
Return == outcome' = "early" /\ Goto("main", "end")

\* CanImpersonate: false is refused before the hop is posted.
CheckCan ==
    /\ At("main", "can")
    /\ \/ Goto("main", "original") /\ outcome' = outcome
       \/ Return
    /\ UNCHANGED <<cmd, flight, session, hopState, guarded, handler, sent, files,
                   signalled, exit, actedAs>>

Resolve ==
    /\ Send("main", "original", "lookup") \/ Send("main", "target", "lookup")
    /\ UNCHANGED <<cmd, pc, session, hopState, guarded, handler, sent, outcome,
                   files, signalled, exit, actedAs>>

\* Hop::arm takes the mutex, so it waits for a handler that is ending.
Arm ==
    /\ At("main", "arm")
    /\ lock = None
    /\ revert_to' = TRUE
    /\ Goto("main", "hop")
    /\ UNCHANGED <<cmd, flight, session, ended, lock, end_result, guarded, handler,
                   sent, outcome, files, signalled, exit, actedAs>>

PostHop ==
    /\ Send("main", "hop", "hop") \/ Send("main", "took", "session")
    /\ UNCHANGED <<cmd, pc, session, hopState, guarded, handler, sent, outcome,
                   files, signalled, exit, actedAs>>

\* The 201 proves nothing: the session itself has to name the target.
\* (mutant) the POST's 201 is taken for the hop
TrustThe201 == TRUE

Took == session = "target"

-----------------------------------------------------------------------------
\* The command.

Work ==
    /\ Send("main", "command", "work")
    /\ sent' = sent + 1
    /\ UNCHANGED <<cmd, pc, session, hopState, guarded, handler, outcome, files,
                   signalled, exit, actedAs>>

\* stream_to_file.  The staging file exists before its handler does.
Create ==
    /\ At("main", "create")
    /\ \/ staging' = "partial" /\ Goto("main", "install") /\ outcome' = outcome
       \/ staging' = staging /\ Finished("err")
    /\ UNCHANGED <<cmd, flight, session, hopState, guarded, handler, sent, dest,
                   signalled, exit, actedAs>>

\* set_handler fails when the process has one already.
Install ==
    /\ At("main", "install")
    /\ handler' = IF handler = "default" THEN "reap" ELSE handler
    /\ Goto("main", "copy")
    /\ UNCHANGED <<cmd, flight, session, hopState, guarded, sent, outcome, files,
                   signalled, exit, actedAs>>

\* (mutant) a failed copy leaves its staging file
CopyLeavesStaging ==
    /\ At("main", "copy")
    /\ \/ /\ staging' = IF staging = "partial" THEN "whole" ELSE staging
          /\ Goto("main", "rename") /\ outcome' = outcome
       \/ staging' = staging /\ Finished("err")
    /\ UNCHANGED <<cmd, flight, session, hopState, guarded, handler, sent, dest,
                   signalled, exit, actedAs>>

\* The body arrives, or the transfer dies and the partial file is removed.
Copy ==
    /\ At("main", "copy")
    /\ \/ /\ staging' = IF staging = "partial" THEN "whole" ELSE staging
          /\ Goto("main", "rename") /\ outcome' = outcome
       \/ staging' = "none" /\ Finished("err")
    /\ UNCHANGED <<cmd, flight, session, hopState, guarded, handler, sent, dest,
                   signalled, exit, actedAs>>

\* The rename fails when the handler has unlinked the file meanwhile.
Rename ==
    /\ At("main", "rename")
    /\ \/ staging = "whole" /\ dest' = "whole" /\ Finished("ok")
       \/ dest' = dest /\ Finished("err")
    /\ staging' = "none"
    /\ UNCHANGED <<cmd, flight, session, hopState, guarded, handler, sent,
                   signalled, exit, actedAs>>

-----------------------------------------------------------------------------
\* Hop::end, by either thread.

\* Where end() returns to: the handler exits; run() drops its guard, which
\* calls end() again, unless the guard was what called it.
After(t) ==
    IF t = "handler" THEN "exit"
    ELSE IF outcome = "early" \/ end_result["main"] # "none" THEN "report"
    ELSE "end"

\* Ok(()) for a session that is ended already, whoever did it.
AlreadyEnded(t) ==
    /\ ended
    /\ end_result' = [end_result EXCEPT ![t] = IF @ = "none" THEN "ok" ELSE @]
    /\ Goto(t, After(t))

\* The mutex is held throughout, so the thread that comes second waits and
\* then finds the session ended.
End(t) ==
    /\ At(t, "end")
    /\ lock = None
    /\ \/ AlreadyEnded(t) /\ UNCHANGED <<ended, lock>>
       \/ /\ ~ended
          /\ ended' = TRUE
          /\ lock' = t
          /\ Goto(t, IF revert_to THEN "revert" ELSE "logout")
          /\ end_result' = end_result
    /\ UNCHANGED <<cmd, flight, session, revert_to, guarded, handler,
                   sent, outcome, files, signalled, exit, actedAs>>

EndRequest(t) ==
    /\ \/ Send(t, "revert", "revert")
       \/ Send(t, "logout", "logout")
       \/ Send(t, "confirm", "confirm")
    /\ UNCHANGED <<cmd, pc, session, hopState, guarded, handler, sent, outcome,
                   files, signalled, exit, actedAs>>

\* The verdict on the session, from the read that confirms it: gone, or the
\* caller's own again, or still somebody else.
EndedWell == ~Alive \/ ~revert_to \/ session = "original"

\* (mutant) the mutex stays locked behind a thread that ended the session
GuardLeaked(t, how) ==
    /\ lock' = lock
    /\ end_result' = [end_result EXCEPT ![t] = how]
    /\ Goto(t, After(t))

Unlocked(t, how) ==
    /\ lock' = None
    /\ end_result' = [end_result EXCEPT ![t] = how]
    /\ Goto(t, After(t))

-----------------------------------------------------------------------------
\* The answers.  Where the thread goes when the request it sent was served.

Answer(t) ==
    /\ Running
    /\ pc[t] # "confirm"
    /\ Served(t)
    /\ CASE flight[t] \in {"mint", "lookup", "hop"} ->
              \* `?`: below the guard an error is a Return, the mint has none yet
              /\ \/ /\ ~Unauthorized(t)
                    /\ Goto(t, CASE pc[t] = "mint" -> "guard"
                                 [] pc[t] = "original" -> "target"
                                 [] pc[t] = "target" -> "arm"
                                 [] OTHER -> "took")
                    /\ UNCHANGED <<outcome, exit>>
                 \/ /\ flight[t] = "mint"   \* no session cookie, or no CurrentUser
                    /\ Exit("error") /\ Goto(t, "exit") /\ outcome' = outcome
                 \/ /\ flight[t] # "mint" /\ (Unauthorized(t) \/ flight[t] = "lookup")
                    /\ Return /\ exit' = exit
         [] flight[t] = "session" ->
              /\ IF ~Unauthorized(t) /\ Took
                 THEN Goto(t, "command") /\ outcome' = outcome
                 ELSE Return
              /\ exit' = exit
         [] flight[t] = "work" ->
              /\ \/ Unauthorized(t) /\ Finished("err")
                 \/ ~Unauthorized(t) /\ Finished("err")
                 \/ /\ ~Unauthorized(t)
                    /\ IF cmd.download THEN Goto(t, "create") /\ outcome' = outcome
                       ELSE IF sent < Requests THEN UNCHANGED <<pc, outcome>>
                       ELSE Finished("ok")
              /\ exit' = exit
         [] OTHER -> \* revert, logout: their results matter only to an error message
              /\ Goto(t, IF flight[t] = "revert" THEN "logout" ELSE "confirm")
              /\ UNCHANGED <<outcome, exit>>
    /\ UNCHANGED <<cmd, hopState, guarded, handler, sent, files, signalled>>

Confirm(t) ==
    /\ Running
    /\ pc[t] = "confirm"
    /\ Served(t)
    /\ Unlocked(t, IF EndedWell THEN "ok" ELSE "err")
    /\ UNCHANGED <<cmd, revert_to, ended, guarded, handler, sent, outcome, files,
                   signalled, exit>>

\* The connection breaks or --timeout passes, before or after the instance
\* served the request.
NoAnswer(t) ==
    /\ Running
    /\ flight[t] # None
    /\ \/ Served(t)
       \/ flight' = [flight EXCEPT ![t] = None] /\ UNCHANGED <<session, actedAs>>
    /\ CASE flight[t] = "mint" ->
              /\ Exit("error") /\ Goto(t, "exit")
              /\ UNCHANGED <<outcome, lock, end_result>>
         [] flight[t] \in {"lookup", "session", "hop"} ->
              Return /\ UNCHANGED <<exit, lock, end_result>>
         [] flight[t] = "work" ->
              Finished("err") /\ UNCHANGED <<exit, lock, end_result>>
         [] flight[t] \in {"revert", "logout"} ->
              /\ Goto(t, IF flight[t] = "revert" THEN "logout" ELSE "confirm")
              /\ UNCHANGED <<exit, outcome, lock, end_result>>
         [] flight[t] = "confirm" ->
              Unlocked(t, "err") /\ UNCHANGED <<exit, outcome>>
    /\ UNCHANGED <<cmd, revert_to, ended, guarded, handler, sent, files, signalled>>

\* The process is gone; the instance serves what it had sent.
LateRequest(t) ==
    /\ ~Running
    /\ Served(t)
    /\ UNCHANGED <<cmd, pc, hopState, guarded, handler, sent, outcome, files,
                   signalled, exit>>

-----------------------------------------------------------------------------
\* The ends of the process.

Report ==
    /\ At("main", "report")
    /\ Exit(IF outcome = "ok" /\ end_result["main"] # "err" THEN "ok" ELSE "error")
    /\ Goto("main", "exit")
    /\ UNCHANGED <<cmd, flight, session, hopState, guarded, handler, sent, outcome,
                   files, signalled, actedAs>>

\* Ctrl-C.  The default disposition kills; a handler runs on its own thread.
Interrupt ==
    /\ Running /\ ~signalled
    /\ signalled' = TRUE
    /\ IF handler = "default"
       THEN Exit("killed") /\ pc' = pc
       ELSE /\ Goto("handler", IF handler = "end" THEN "end" ELSE "unlink")
            /\ exit' = exit
    /\ UNCHANGED <<cmd, flight, session, hopState, guarded, handler, sent, outcome,
                   files, actedAs>>

Unlink ==
    /\ At("handler", "unlink")
    /\ staging' = "none"
    /\ Goto("handler", "exit")
    /\ UNCHANGED <<cmd, flight, session, hopState, guarded, handler, sent, outcome,
                   dest, signalled, exit, actedAs>>

\* std::process::exit(130)
HandlerExits ==
    /\ At("handler", "exit")
    /\ Exit("130")
    /\ UNCHANGED <<cmd, pc, flight, session, hopState, guarded, handler, sent,
                   outcome, files, signalled, actedAs>>

\* SIGKILL
Kill ==
    /\ Running
    /\ Exit("killed")
    /\ UNCHANGED <<cmd, pc, flight, session, hopState, guarded, handler, sent,
                   outcome, files, signalled, actedAs>>

Main ==
    \/ Prepare \/ Mint \/ Guard \/ CheckCan \/ Resolve \/ Arm \/ PostHop
    \/ Work \/ Create \/ Install \/ Copy \/ Rename \/ Report

Step(t) == End(t) \/ EndRequest(t) \/ Answer(t) \/ Confirm(t) \/ NoAnswer(t)

Next ==
    \/ Main
    \/ \E t \in Thread : Step(t) \/ LateRequest(t)
    \/ Interrupt \/ Unlink \/ HandlerExits \/ Kill

\* Both threads are scheduled and every request is answered or times out.
\* Nothing is assumed of signals.
Fairness ==
    /\ WF_vars(Main)
    /\ \A t \in Thread : SF_vars(End(t)) /\ WF_vars(Step(t))
    /\ WF_vars(Unlink) /\ WF_vars(HandlerExits)

Spec == Init /\ [][Next]_vars
FairSpec == Spec /\ Fairness

-----------------------------------------------------------------------------
\* Properties.

\* sn impersonate runs one command as another user.  It does not survive
\* Ctrl-C: the handler switches the session back before it logs it out, and a
\* request the command sends in between runs as the original user.
CommandActsAsTarget == "original" \notin actedAs

\* What the code does deliver: as long as nobody interrupts it, no request of
\* the command runs as anybody but the target, whatever the instance ignores
\* (the session is re-read after the POST whose 201 proves nothing).
ActsAsTargetUnlessInterrupted == ~signalled => CommandActsAsTarget

\* A session that sn guards is ended on every exit path the process gets to
\* run (success, failure, an early return, Ctrl-C), and when Hop::end reports
\* success, with nobody interrupting, nothing acts as the target any more,
\* although the instance may ignore the revert and the logout and serve a hop
\* whose answer never came.
EndedOnEveryExit ==
    /\ guarded /\ exit \in {"ok", "error", "130"} => ended /\ lock = None
    /\ ~signalled /\ end_result["main"] = "ok" => session # "target"

\* The destination is never a truncated file, and a download that was not
\* killed leaves no staging file behind, unless an impersonation owns the
\* handler.
NoPartialFiles ==
    /\ dest # "partial"
    /\ exit \in {"ok", "error"} \/ (exit = "130" /\ handler = "reap") => staging = "none"

\* Ctrl-C ends the process, even when both threads want to end the session.
InterruptExits == signalled ~> exit # "running"
=============================================================================
