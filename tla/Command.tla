------------------------------ MODULE Command ------------------------------
(***************************************************************************)
(* One run of sn that sends requests: what every command shares.  A        *)
(* command checks its arguments, asks before it destroys, connects, sends  *)
(* its requests one by one while other users change the instance, writes   *)
(* its result and exits with a code.  The modules that EXTEND this one add *)
(* their commands' steps; each says what `inst' holds for its commands.    *)
(***************************************************************************)
EXTENDS Naturals, Sequences, FiniteSets

VARIABLES
    cmd,      \* the command line: a record with its `verb', and `out', where stdout
              \* goes: "open", "gone" (its reader has left) or "full"
    inst,     \* what of the instance the command is about
    at,       \* the step the command is at
    know,     \* what it has read so far: a record that grows
    outcome,  \* "running", "ok", "BrokenPipe", or the Error it ends with
    wrote,    \* history: its writes the instance carried out
    printed,  \* history: its result has reached stdout
    still     \* history: nobody else has changed the instance meanwhile

vars == <<cmd, inst, at, know, outcome, wrote, printed, still>>

\* Error, and the exit code of each of its variants; main() adds BrokenPipe.
ExitCode ==
    [ok |-> 0, BrokenPipe |-> 0, Usage |-> 1, Config |-> 1, Api |-> 2,
     Instance |-> 2, Transport |-> 3, Auth |-> 4]

\* Two outcomes are exit code 0: success, and a stdout whose reader has gone.
ExitsZero == outcome # "running" /\ ExitCode[outcome] = 0

Started(commands, instances) ==
    /\ cmd \in commands
    /\ inst \in instances[cmd.verb]
    /\ at = "argv" /\ know = [verb |-> cmd.verb]
    /\ outcome = "running"
    /\ wrote = {} /\ printed = FALSE /\ still = TRUE

\* A record with these fields, whatever others.
Has(r, fields) == r = [f \in DOMAIN r |-> r[f]] /\ fields \subseteq DOMAIN r

\* A sequence, whatever of.
Listed(s) == Len(s) \in Nat /\ DOMAIN s = 1..Len(s)

-----------------------------------------------------------------------------
\* Steps.  A step of a command goes on with something learnt, or ends it.

\* The later fact of a name is the one kept.
Added(facts, known) ==
    [f \in DOMAIN facts \cup DOMAIN known |-> IF f \in DOMAIN facts THEN facts[f] ELSE known[f]]

Learns(step, facts) ==
    /\ at' = step
    /\ know' = Added(facts, know)
    /\ UNCHANGED <<cmd, outcome>>

Goto(step) == at' = step /\ UNCHANGED <<cmd, know, outcome>>
Ends(how) == at' = "done" /\ outcome' = how /\ UNCHANGED <<cmd, know>>

\* A step of the command that changes nothing at the instance.
Reading == UNCHANGED <<inst, wrote, printed, still>>

\* What an answer to a request comes to: send, parse_response and from_http_text.
\* No answer at all, or a body that is no JSON, is Transport.
Verdict(answer) ==
    IF answer.status = 0 THEN "Transport"
    ELSE IF answer.status \in {401, 403} THEN "Auth"
    ELSE IF answer.status \notin 200..299 THEN "Api"
    ELSE IF answer.json THEN "ok" ELSE "Transport"

\* A request that does not succeed: one of each kind of answer stands for all.
Failure == {Verdict(answer) : answer \in [status : {0, 200, 302, 401, 404, 500}, json : BOOLEAN]}
           \ {"ok"}
Fails == \E how \in Failure : Ends(how)

\* A write that the instance carried out.  Its answer may still be lost.
Written(what, new) ==
    /\ inst' = new
    /\ wrote' = wrote \cup {what}
    /\ UNCHANGED <<printed, still>>

\* What is known wrong from the command line alone is refused before connecting.
Rejects == Ends("Usage")

\* confirm_destructive: --yes, or a terminal where the user agrees.  A command
\* line without the flag is one of a verb that does not ask.
Confirms == "yes" \in DOMAIN cmd => cmd.yes
Declines == ~Confirms /\ Ends("Usage")

\* connect: the profile is resolved and its credential found or refreshed.
Connect(next) ==
    /\ at = "connect"
    /\ Reading
    /\ \/ Goto(next)
       \/ \E how \in {"Config", "Auth", "Transport"} : Ends(how)

\* The rows a lookup comes back with: those asked for, or, where the instance
\* drops the term, whichever of the table's it sends first.
Answers(wanted, all, limit) ==
    IF inst.drops
    THEN {rows \in SUBSET all : Cardinality(rows) = IF Cardinality(all) < limit
                                                    THEN Cardinality(all) ELSE limit}
    ELSE {rows \in SUBSET wanted : Cardinality(rows) = IF Cardinality(wanted) < limit
                                                       THEN Cardinality(wanted) ELSE limit}

\* RecordRef::resolve: a sys_id is taken as it is; a number is one limit-2
\* lookup.  Where the instance drops the term, a second row gives it away; on a
\* table of a single row nothing does.
ResolveRef(step, next) ==
    /\ at = step
    /\ Reading
    /\ \/ cmd.ref \in inst.records /\ Learns(next, [record |-> cmd.ref])
       \/ /\ cmd.ref \notin inst.records
          /\ \/ Fails
             \/ \E rows \in Answers(inst.numbered, inst.records, 2) :
                   \/ rows = {} /\ Ends("Api")
                   \/ Cardinality(rows) > 1 /\ Ends("Instance")
                   \/ \E r \in rows : rows = {r} /\ Learns(next, [record |-> r])

-----------------------------------------------------------------------------
\* The result.

\* (mutant) every error of stdout is taken for a reader that has gone
AlwaysBrokenPipe(sink) == IF sink = "open" THEN "written" ELSE "BrokenPipe"

\* write_batched and map_stdout_err: written and flushed, or the reader has
\* gone, or stdout fails in another way.
WriteOf(sink) ==
    CASE sink = "open" -> "written"
      [] sink = "gone" -> "BrokenPipe"
      [] sink = "full" -> "Transport"

\* write_response, and then what the command does once its result is out.
Emit(next) ==
    /\ at = "emit"
    /\ UNCHANGED <<inst, wrote, still>>
    /\ IF WriteOf(cmd.out) = "written"
       THEN /\ printed' = (cmd.out = "open")
            /\ IF next = "done" THEN Ends("ok") ELSE Goto(next)
       ELSE Ends(WriteOf(cmd.out)) /\ UNCHANGED printed

\* Another user changes the instance (bound: once while a command runs).
Others(change) ==
    /\ at # "done" /\ still
    /\ inst' = change
    /\ inst' # inst
    /\ still' = FALSE
    /\ UNCHANGED <<cmd, at, know, outcome, wrote, printed>>

-----------------------------------------------------------------------------
\* What every command promises.

\* Exit code 1 says the command line or the configuration is wrong, and a
\* caller that corrects it may run it again: nothing has been written.
UsageMeansUntouched == outcome \in {"Usage", "Config"} => wrote = {}

\* Exit code 0 says the result was written, to a reader who stayed for it.
ZeroMeansDelivered == ExitsZero => printed \/ cmd.out = "gone"

\* What a script that branches on the exit code goes by.
ExitCodeTells == UsageMeansUntouched /\ ZeroMeansDelivered
=============================================================================
