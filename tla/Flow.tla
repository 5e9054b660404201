------------------------------- MODULE Flow -------------------------------
(***************************************************************************)
(* sn flow list, get and versions.  list reads sys_hub_flow with the       *)
(* filters and the caller's query joined; get and versions resolve a name  *)
(* and read the designer's own API, which reports errors under HTTP 200    *)
(* and answers an unknown flow's versions with an empty list.              *)
(*                                                                         *)
(* cmd.filters: are filter flags set?  cmd.alternatives: the caller's      *)
(* query as the sets of flows its NQ alternatives match.  cmd.leads: does  *)
(* its text begin with an NQ (or, behind a single flag, an OR)?            *)
(* inst: the flows and the `named' ones, those that fit the filter flags,  *)
(* those with a history, and error, what processflow answers in band:      *)
(* "none", "message" or "no data".                                         *)
(***************************************************************************)
EXTENDS Command

FlowReads == {"flow list", "flow get", "flow versions"}

\* list_query: terms join the first alternative of the query they precede, so a
\* query that holds ^NQ, which is one of several, is refused beside filters.
RefusesQuery == cmd.filters /\ Len(cmd.alternatives) > 1

\* What sys_hub_flow answers to filters^query.  Behind the filters, an NQ at the
\* beginning of the text makes its first alternative one beside theirs.
Matched ==
    LET Joined(flows) == IF cmd.leads THEN inst.fits \cup flows ELSE inst.fits \cap flows
        Term(i) == IF i = 1 /\ cmd.filters THEN Joined(cmd.alternatives[1])
                   ELSE cmd.alternatives[i]
    IN  IF inst.drops THEN inst.flows
        ELSE inst.flows \cap UNION {Term(i) : i \in DOMAIN cmd.alternatives}

\* list_query, parse_flow_ref, and the check of --outline against --output raw.
FlowReadArguments ==
    /\ at = "argv" /\ cmd.verb \in FlowReads
    /\ Reading
    /\ IF cmd.valid /\ ~(cmd.verb = "flow list" /\ RefusesQuery)
       THEN Goto("connect") ELSE Rejects

FlowReadConnect ==
    /\ cmd.verb \in FlowReads
    /\ Connect(IF cmd.verb = "flow list" THEN "flows" ELSE "flow name")

FlowList ==
    /\ at = "flows"
    /\ Reading
    /\ Fails \/ Learns("emit", [listed |-> Matched])

\* resolve_flow and pick_flow: a sys_id is taken as it is.
PickFlow ==
    /\ at = "flow name"
    /\ Reading
    /\ \/ cmd.flow # "name" /\ Learns("model", [flow |-> cmd.flow])
       \/ cmd.flow = "name" /\ Fails
       \/ \E rows \in Answers(inst.named \cap inst.flows, inst.flows, 10) :
             /\ cmd.flow = "name"
             /\ \/ ~(rows \subseteq inst.named) /\ Ends("Instance")
                \/ rows = {} /\ Ends("Api")
                \/ rows \subseteq inst.named /\ Cardinality(rows) > 1 /\ Ends("Usage")
                \/ \E f \in rows : /\ rows = {f} /\ f \in inst.named
                                   /\ Learns("model", [flow |-> f])

\* A name was found to exist by its lookup; a bare sys_id was not.
MustExist == know.flow = cmd.flow

\* get and versions: the read, promote and checked_data.
ReadModel ==
    /\ at = "model"
    /\ Reading
    /\ \/ Fails
       \/ inst.error = "message" /\ Ends("Api")
       \/ inst.error = "no data" /\ Ends("Instance")
       \/ /\ inst.error = "none"
          /\ \/ cmd.verb = "flow get" /\ know.flow \in inst.flows /\ Goto("emit")
             \/ cmd.verb = "flow versions" /\ know.flow \in inst.history /\ Goto("emit")
             \/ /\ cmd.verb = "flow versions" /\ know.flow \notin inst.history
                /\ Goto(IF MustExist THEN "exists" ELSE "emit")

\* ensure_flow_exists
EnsureFlowExists ==
    /\ at = "exists"
    /\ Reading
    /\ IF know.flow \in inst.flows THEN Fails \/ Goto("emit") ELSE Fails

\* emit_data
FlowReadEmit == cmd.verb \in FlowReads /\ Emit("done")

FlowReadStep ==
    \/ FlowReadArguments \/ FlowReadConnect \/ FlowList \/ PickFlow \/ ReadModel
    \/ EnsureFlowExists \/ FlowReadEmit

\* A developer deletes a flow, or publishes one.
FlowReadOthers ==
    /\ cmd.verb \in FlowReads
    /\ \/ \E f \in inst.flows : Others([inst EXCEPT !.flows = @ \ {f}, !.history = @ \ {f}])
       \/ \E f \in inst.flows : Others([inst EXCEPT !.history = @ \cup {f}])

-----------------------------------------------------------------------------
\* Properties.

\* What is listed fits every filter flag, whatever the caller's query (but for
\* one whose text begins with NQ or OR, and an instance that drops terms), and an
\* answer about a flow is about one that exists, an empty history included.
FlowsAreAsAsked ==
    /\ at = "emit" /\ cmd.verb = "flow list" /\ cmd.filters /\ ~cmd.leads /\ still /\ ~inst.drops
          => know.listed \subseteq inst.fits
    /\ at = "emit" /\ cmd.verb = "flow versions" /\ still => know.flow \in inst.flows

\* (Refuted, see README.)  What is listed fits every filter flag, whatever the
\* text of the caller's query.
FiltersHold ==
    at = "emit" /\ cmd.verb = "flow list" /\ cmd.filters /\ still /\ ~inst.drops
    => know.listed \subseteq inst.fits
=============================================================================
