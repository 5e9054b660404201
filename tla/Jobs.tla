-------------------------------- MODULE Jobs --------------------------------
(***************************************************************************)
(* sn cicd: app, updateset and atf start a job on the instance and, with   *)
(* --wait, poll its progress record until it is over; progress reads it    *)
(* once.                                                                   *)
(*                                                                         *)
(* inst: job, "none" until it is started and then its state; linked,       *)
(* whether the answer to the start carries a progress link; odd, whether   *)
(* the status in the progress record is no string.                         *)
(***************************************************************************)
EXTENDS Command

\* The verbs that ask first (their command lines have a `yes'), those that start a
\* job, and those of one request.
DestructiveJobs == {"app rollback", "updateset back-out"}
StartingJobs == {"app install", "app publish", "updateset retrieve", "updateset preview",
                 "updateset commit", "updateset commit-multiple", "atf run"} \cup DestructiveJobs
OneRequest == {"updateset create", "progress", "atf results"}
JobVerbs == StartingJobs \cup OneRequest

Over == {"2", "3", "4"}    \* Successful, Failed, Cancelled

\* The `target' group of clap and the check of rollback; confirm_destructive.
JobArguments ==
    /\ at = "argv" /\ cmd.verb \in JobVerbs
    /\ Reading
    /\ \/ ~cmd.valid /\ Rejects
       \/ cmd.valid /\ Declines
       \/ cmd.valid /\ Confirms /\ Goto("connect")

JobConnect == cmd.verb \in JobVerbs /\ Connect("post")

\* (mutant) the link is looked for at the top of the answer only
TopLevelLink == inst.linked /\ cmd.output # "raw"

\* finish_cicd looks into the envelope that --output raw leaves around the answer.
ProgressLink == inst.linked

\* The one POST (or GET) of the verb, and finish_cicd: without a link there is
\* nothing to wait for.
JobPost ==
    /\ at = "post"
    /\ \/ Reading /\ Fails
       \/ cmd.verb \in {"progress", "atf results"} /\ Reading /\ Goto("emit")
       \/ cmd.verb = "updateset create" /\ Written("job", inst) /\ (Goto("emit") \/ Fails)
       \/ /\ cmd.verb \in StartingJobs
          /\ \E status \in {"0", "3"} : Written("job", [inst EXCEPT !.job = status])
          /\ \/ Fails
             \/ Learns(IF cmd.wait /\ ProgressLink THEN "poll" ELSE "emit", [polls |-> 0])

\* What wait_for_completion reads: a status that is no string is taken for "1".
StatusRead == IF inst.odd THEN "1" ELSE inst.job

\* One poll.  Any failure of it ends the wait, whatever the job does; a deadline
\* is looked at after the poll, so a job that is over in time is never late.
Poll ==
    /\ at = "poll"
    /\ Reading
    /\ \/ Fails
       \/ StatusRead = "2" /\ Goto("emit")
       \/ StatusRead \in {"3", "4"} /\ Ends("Api")
       \/ StatusRead \notin Over /\ cmd.limited /\ know.polls = cmd.patience /\ Ends("Transport")
       \/ /\ StatusRead \notin Over /\ ~cmd.limited
          /\ Goto("sleep")
       \/ /\ StatusRead \notin Over /\ cmd.limited /\ know.polls < cmd.patience
          /\ Learns("sleep", [polls |-> know.polls + 1])

\* (mutant) the deadline is set anew for every poll
DeadlineMoves ==
    /\ at = "sleep"
    /\ Reading
    /\ Learns("poll", [polls |-> 0])

Sleep ==
    /\ at = "sleep"
    /\ Reading
    /\ Goto("poll")

JobEmit == cmd.verb \in JobVerbs /\ Emit("done")

JobStep == JobArguments \/ JobConnect \/ JobPost \/ Poll \/ Sleep \/ JobEmit

\* The job goes on by itself, and stays as it ended.
JobGoesOn ==
    /\ cmd.verb \in StartingJobs /\ at # "done"
    /\ inst.job \in {"0", "1"}
    /\ \E status \in {"1", "2", "3", "4"} : inst' = [inst EXCEPT !.job = status]
    /\ inst' # inst
    /\ UNCHANGED <<cmd, at, know, outcome, wrote, printed, still>>

\* A --wait without --wait-timeout, on a job that does not end or whose end it
\* cannot read.
WaitsForever ==
    /\ cmd.verb \in StartingJobs /\ at \in {"poll", "sleep"}
    /\ ~cmd.limited /\ StatusRead \notin Over

-----------------------------------------------------------------------------
\* Properties.

\* With --wait, exit code 0 says that the job ended well; only an answer with no
\* link to poll leaves that open.
JobVerdict ==
    /\ cmd.verb \in StartingJobs /\ ExitsZero
    /\ cmd.wait /\ inst.linked
    => inst.job = "2"
=============================================================================
