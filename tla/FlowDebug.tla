----------------------------- MODULE FlowDebug -----------------------------
(***************************************************************************)
(* sn flow runs, debug, steps, logs, why-not and tail: read-only verbs that *)
(* put one answer together from several requests, while the flow engine    *)
(* goes on running and developers edit the flow.                           *)
(*                                                                         *)
(* inst: flows and the `named' among them that have the token asked for;   *)
(* the flow's own flags and its trigger; records and the `numbered' ones;  *)
(* where the triggering record is and which terms of a condition hold for  *)
(* it; and the run, as the engine's tables show it.                        *)
(***************************************************************************)
EXTENDS Command

FlowVerbs == {"why-not", "debug", "steps", "logs", "runs", "tail"}

-----------------------------------------------------------------------------
\* Trigger conditions.  A condition is a sequence of terms, each with what joins
\* it to the term before: "and", "or", or "nq", which opens an alternative.

\* Terms of the query syntax that are no condition: EQ and ORDERBY.
NoTerm == {"EQ"}
\* Change operators test the write, not what is stored.
ChangeTerms == {"changes"}
\* A term the instance finds true of every row, or drops.
AlwaysTerms == {"always"}

\* split_condition, some terms into a condition: the segments it has closed, and
\* the clauses of the one it has not.
Closed(split) ==
    IF split.clauses = <<>> THEN split.segments ELSE Append(split.segments, split.clauses)

\* An OR term binds to the clause before it.
Bind(clauses, token) ==
    IF token.join = "or" /\ clauses # <<>>
    THEN [clauses EXCEPT ![Len(clauses)] = @ \cup {token.term}]
    ELSE Append(clauses, {token.term})

Take(split, token) ==
    LET opened == IF token.join = "nq" THEN [segments |-> Closed(split), clauses |-> <<>>] ELSE split
    IN  IF token.term \in NoTerm THEN opened ELSE [opened EXCEPT !.clauses = Bind(@, token)]

SplitCondition(condition) ==
    LET split[n \in 0..Len(condition)] ==
            IF n = 0 THEN [segments |-> <<>>, clauses |-> <<>>]
            ELSE Take(split[n - 1], condition[n])
    IN  Closed(split[Len(condition)])

\* change_operator
IsChange(clause) == clause \cap ChangeTerms # {}

\* (mutant) a change operator is counted on the stored rows like any other
StoredOnly(verdict, clause) ==
    IF clause \cap (inst.holds \cup AlwaysTerms) # {} THEN verdict ELSE "no"

\* The verdict on a segment after one more clause: a count of the rows that
\* match the clause and have the record's sys_id.
AfterClause(verdict, clause) ==
    IF IsChange(clause) THEN (IF verdict = "yes" THEN "unknown" ELSE verdict)
    ELSE IF clause \cap (inst.holds \cup AlwaysTerms) # {} THEN verdict ELSE "no"

\* How the segments' verdicts add up.
Overall(verdicts) ==
    IF "yes" \in verdicts THEN "yes" ELSE IF "unknown" \in verdicts THEN "unknown" ELSE "no"

-----------------------------------------------------------------------------
\* Shared steps.

\* validate_flow_token, parse_ref, validate_sys_id, parse_since.
FlowArguments ==
    /\ at = "argv" /\ cmd.verb \in FlowVerbs
    /\ Reading
    /\ \/ ~cmd.valid /\ Rejects
       \/ cmd.valid /\ cmd.verb = "tail" /\ cmd.flow \in inst.flows
          /\ Learns("tail", [flow |-> cmd.flow])
       \/ /\ cmd.valid /\ ~(cmd.verb = "tail" /\ cmd.flow \in inst.flows)
          /\ Goto("connect")

FlowConnect ==
    /\ cmd.verb \in FlowVerbs
    /\ Connect(CASE cmd.verb \in {"debug", "steps"} -> "context"
                 [] cmd.verb = "logs" -> "logs"
                 [] OTHER -> "flow")

\* (mutant) the first row is the flow
FirstRow(rows) == TRUE

\* resolve_flow: every row must carry the token.
AllCarryToken(rows) == \A f \in rows : f = cmd.flow \/ f \in inst.named

ResolveFlow ==
    /\ at = "flow"
    /\ Reading
    /\ LET next == IF cmd.verb = "tail" THEN "tail" ELSE "ref"
           wanted == IF cmd.flow \in inst.flows THEN {cmd.flow} ELSE inst.named
       IN  \/ cmd.flow = "any" /\ Goto(next)
           \/ cmd.flow # "any" /\ Fails
           \/ \E rows \in Answers(wanted, inst.flows, 5) :
                 /\ cmd.flow # "any"
                 /\ \/ ~AllCarryToken(rows) /\ Ends("Instance")
                    \/ AllCarryToken(rows) /\ rows = {} /\ Ends("Api")
                    \/ AllCarryToken(rows) /\ Cardinality(rows) > 1 /\ Ends("Usage")
                    \/ \E f \in rows : /\ AllCarryToken(rows)
                                       /\ rows = {f}
                                       /\ Learns(next, [flow |-> f, flags |-> inst.flags,
                                                        trigger |-> inst.trigger])

FlowRecord ==
    /\ cmd.verb \in {"why-not", "runs"}
    /\ ResolveRef("ref", "runs")

\* The executions that match: the answer of runs, a note of why-not.
FlowRuns ==
    /\ at = "runs"
    /\ Reading
    /\ \/ Fails
       \/ Learns(IF cmd.verb = "runs" THEN "emit" ELSE "trigger", [blockers |-> {}])

\* tail hands over to watch, which the module Watch describes.
WatchFlow ==
    /\ at = "tail"
    /\ Reading
    /\ Goto("emit")

-----------------------------------------------------------------------------
\* why-not.

More(blockers) == know.blockers \cup blockers
Blockers(more) == [blockers |-> More(more)]

\* The flow's own flags, and which kind of trigger it has.
ReadTrigger ==
    /\ at = "trigger"
    /\ Reading
    /\ LET flow == (IF "active" \in know.flags THEN {} ELSE {"inactive"})
                   \cup (IF "published" \in know.flags THEN {} ELSE {"unpublished"})
           off == IF inst.on.active THEN {} ELSE {"trigger off"}
       IN  \/ "subflow" \in know.flags /\ Learns("emit", Blockers(flow))
           \/ /\ "subflow" \notin know.flags /\ know.trigger = "none"
              /\ Learns("emit", Blockers(flow \cup {"no trigger"}))
           \/ /\ "subflow" \notin know.flags /\ know.trigger # "none"
              /\ \/ Fails
                 \/ inst.trigger \in {"none", "gone"} /\ Ends("Api")
                 \/ inst.trigger = "other" /\ Learns("emit", Blockers(flow \cup off))
                 \/ inst.trigger = "record" /\ Learns("on", Blockers(flow))

\* The record trigger's own row; a row that has gone since leaves the base row,
\* whose table is empty, which validate_identifier refuses.
ReadRecordTrigger ==
    /\ at = "on"
    /\ Reading
    /\ \/ Fails
       \/ inst.trigger # "record" /\ Ends("Usage")
       \/ /\ inst.trigger = "record"
          /\ Learns("class", [on |-> inst.on,
                              blockers |-> More(IF inst.on.active THEN {} ELSE {"trigger off"})])

\* run_on_extended
ClassBlocks(class) ==
    IF class = "extends" /\ ~know.on.extended THEN {"class"} ELSE {}

\* Is the record in the trigger's table, or one that extends it?  A record the
\* caller may not read looks like one that is elsewhere.
ReadClass ==
    /\ at = "class"
    /\ Reading
    /\ \/ Fails
       \/ /\ inst.class = "elsewhere" \/ ~inst.readable
          /\ Learns("emit", Blockers({"elsewhere"}))
       \/ /\ inst.class # "elsewhere" /\ inst.readable
          /\ LET segments == SplitCondition(know.on.condition)
             IN  Learns(IF segments = <<>> THEN "emit" ELSE "clause",
                        [segments |-> segments, segment |-> 1, clause |-> 1,
                         verdict |-> "yes", verdicts |-> {},
                         blockers |-> More(ClassBlocks(inst.class))])

\* One clause of one segment.
EvaluateClause ==
    /\ at = "clause"
    /\ Reading
    /\ LET segment == know.segments[know.segment]
           verdict == AfterClause(know.verdict, segment[know.clause])
           verdicts == know.verdicts \cup {verdict}
       IN  \/ ~IsChange(segment[know.clause]) /\ (Fails \/ Ends("Instance"))
           \/ /\ know.clause < Len(segment)
              /\ Learns("clause", [clause |-> know.clause + 1, verdict |-> verdict])
           \/ /\ know.clause = Len(segment) /\ know.segment < Len(know.segments)
              /\ Learns("clause", [segment |-> know.segment + 1, clause |-> 1,
                                   verdict |-> "yes", verdicts |-> verdicts])
           \/ /\ know.clause = Len(segment) /\ know.segment = Len(know.segments)
              /\ Learns("emit",
                     Blockers(IF Overall(verdicts) = "no" THEN {"condition"} ELSE {}))

-----------------------------------------------------------------------------
\* debug, steps and logs.

\* fetch_context; a row with another sys_id shows that the term was dropped.
FetchContext ==
    /\ at = "context"
    /\ Reading
    /\ \/ Fails
       \/ inst.drops /\ Ends("Instance")
       \/ ~inst.drops /\ ~inst.readable /\ Ends("Api")
       \/ ~inst.drops /\ inst.readable /\ Learns("steps", [run |-> inst.run])

\* Steps are recorded only when the run's reporting level is not OFF.
StepsOf(run) == IF run.reporting THEN run.steps ELSE {}

\* fetch_steps; an empty timeline is an error, unless only failures were asked for.
FetchSteps ==
    /\ at = "steps"
    /\ Reading
    /\ LET rows == StepsOf(inst.run) IN
       \/ Fails
       \/ cmd.verb = "steps" /\ rows = {} /\ ~cmd.failed /\ Ends("Api")
       \/ cmd.verb = "steps" /\ (rows # {} \/ cmd.failed) /\ Goto("emit")
       \/ /\ cmd.verb = "debug"
          /\ Learns(IF "failed" \in rows THEN "failed" ELSE "logs", [steps |-> rows])

\* The failed step is read again, with its values.
FetchFailed ==
    /\ at = "failed"
    /\ Reading
    /\ Fails \/ Goto("logs")

FetchLogs ==
    /\ at = "logs"
    /\ Reading
    /\ Fails \/ Learns("emit", [errors |-> inst.run.errors])

\* debug_document's note that a step logged a failure without failing the run.
NotesCaught == know.verb = "debug" /\ know.errors /\ know.run.state # "ERROR"

FlowEmit == cmd.verb \in FlowVerbs /\ Emit("done")

FlowStep ==
    \/ FlowArguments \/ FlowConnect \/ ResolveFlow \/ FlowRecord \/ FlowRuns \/ WatchFlow
    \/ ReadTrigger \/ ReadRecordTrigger \/ ReadClass \/ EvaluateClause
    \/ FetchContext \/ FetchSteps \/ FetchFailed \/ FetchLogs
    \/ FlowEmit

\* The engine: a step fails and logs it, and the run fails with it or goes on;
\* a run that is over stays as it is.
EngineSteps(run) ==
    IF run.state # "IN_PROGRESS" THEN {}
    ELSE {[run EXCEPT !.state = "COMPLETE"]}
         \cup (IF "failed" \in run.steps THEN {[run EXCEPT !.state = "ERROR"]}
               ELSE {[run EXCEPT !.steps = @ \cup {"failed"}, !.errors = TRUE]})

\* Developers edit the flow, users the record, the engine goes on.
FlowOthers ==
    /\ cmd.verb \in FlowVerbs
    /\ \/ \E run \in EngineSteps(inst.run) : Others([inst EXCEPT !.run = run])
       \/ /\ cmd.verb = "why-not"
          /\ \/ Others([inst EXCEPT !.flags = @ \ {"active"}])
             \/ Others([inst EXCEPT !.trigger = IF @ = "record" THEN "gone" ELSE @])
             \/ \E terms \in SUBSET {"p", "q"} : Others([inst EXCEPT !.holds = terms])

-----------------------------------------------------------------------------
\* Properties.

\* What the engine makes of a condition, from the positions of its terms: an
\* alternative holds when each of its groups of OR terms has a true one.
Holds(condition, true) ==
    LET Positions == {i \in DOMAIN condition : condition[i].term \notin NoTerm}
        Alternative(i) == Cardinality({j \in 1..i : condition[j].join = "nq"})
        Group(i) == Cardinality({j \in 1..i : j \in Positions /\ condition[j].join # "or"})
        InAlternative(a) == {i \in Positions : Alternative(i) = a}
    IN  \/ Positions = {}
        \/ \E a \in {Alternative(i) : i \in Positions} :
              \A i \in InAlternative(a) :
                  \E j \in InAlternative(a) : Group(j) = Group(i) /\ condition[j].term \in true

\* Could a write to the record as it is stored start the flow?
CouldFire ==
    /\ {"active", "published"} \subseteq inst.flags
    /\ inst.trigger = "record" /\ inst.on.active
    /\ inst.class = "same" \/ (inst.class = "extends" /\ inst.on.extended)
    /\ \E changed \in SUBSET ChangeTerms :
          Holds(inst.on.condition, inst.holds \cup AlwaysTerms \cup changed)

\* why-not is right in both directions: when nothing changes while it asks, it
\* names a blocker if and only if no write to the record could start the flow.
\* (It promises this of a record trigger and a record the caller can read.)
WhyNotIsExact ==
    /\ cmd.verb = "why-not" /\ at = "emit" /\ still
    /\ inst.readable /\ inst.trigger = "record" /\ "subflow" \notin inst.flags
    => (know.blockers # {} <=> ~CouldFire)

\* (Refuted, see README.)  debug's note says that the run ended, and a step
\* failed without failing it.
CaughtMeansCaught == at = "emit" /\ NotesCaught => inst.run.state = "COMPLETE"
=============================================================================
