-------------------------------- MODULE Sn --------------------------------
(***************************************************************************)
(* sn as a whole: main() runs one command, whatever module it is from.     *)
(***************************************************************************)
EXTENDS FlowDebug, Flow, Decision, Doctor, GraphQl, ReadBack, Jobs, ClassicUi

CONSTANTS
    Commands,    \* the command lines
    Instances    \* verb -> what the instance may hold at first

Verbs ==
    FlowVerbs \cup FlowReads \cup DecisionVerbs \cup {"doctor"} \cup GraphVerbs
    \cup ContextVerbs \cup VariablesVerbs \cup JobVerbs \cup UiVerbs

\* What the header of each module says of its commands and of the instance.
Shaped(c, i) ==
    /\ c.verb \in FlowVerbs =>
          /\ Has(i, {"flows", "named", "drops", "records", "numbered", "flags", "trigger", "on",
                     "class", "readable", "holds", "run"})
          /\ IsFiniteSet(i.records)
          /\ c.verb = "why-not" =>
                /\ c.flow # "any"
                /\ Has(i.on, {"active", "extended", "condition"}) /\ Listed(i.on.condition)
                /\ i.class \in {"same", "extends", "elsewhere"}
    /\ c.verb \in FlowReads =>
          /\ Has(i, {"flows", "named", "fits", "history", "error", "drops"})
          /\ i.history \subseteq i.flows
          /\ c.verb = "flow list" => Listed(c.alternatives) /\ c.leads \in BOOLEAN
    /\ c.verb \in DecisionVerbs =>
          /\ Has(i, {"tables", "named", "drops", "access", "inputs", "rows", "matching",
                     "records", "numbered"})
          /\ IsFiniteSet(i.records) /\ i.numbered \subseteq i.records
          /\ \A n \in DOMAIN i.inputs :
                /\ Has(i.inputs[n], {"kind", "mandatory", "active", "choices", "reference"})
                /\ i.inputs[n].kind \in {"string", "boolean", "choice", "reference"}
    /\ c.verb = "doctor" =>
          /\ Has(i, {"missing", "broken", "admin", "holds", "elevated", "roles", "drops",
                     "denies", "plugins", "values", "secret"})
          /\ IsFiniteSet(i.roles)
          /\ i.drops => Cardinality(i.roles) # 1    \* no instance has a single role
          /\ \A p \in DOMAIN i.values : i.values[p] \notin {"null", "unset"}
          /\ \A need \in c.needs : need.kind \in {"role", "plugin", "property"}
    /\ c.verb \in GraphVerbs =>
          /\ Has(i, {"records", "numbered", "drops", "errors", "columns", "entries", "visible",
                     "readable", "typed", "held"})
          /\ IsFiniteSet(i.records)
          /\ i.columns \subseteq {"comments_and_work_notes", "comments", "work_notes"}
    /\ c.verb \in ContextVerbs =>
          Has(i, {"scopes", "named", "drops", "sets", "prefScope", "prefSet", "obeys", "selects"})
    /\ c.verb \in VariablesVerbs =>
          /\ Has(i, {"records", "numbered", "drops", "task", "owned", "pool", "readonly"})
          /\ IsFiniteSet(i.records)
    /\ c.verb \in JobVerbs => Has(i, {"job", "linked", "odd"})
    /\ c.verb = "script run" =>
          Has(i, {"admin", "scopes", "named", "drops", "store", "breaks"})
    /\ c.verb \in {"xml export", "xml import"} => Has(i, {"admin", "schema"})
    /\ c.verb = "xml export" =>
          /\ Listed(c.paths)
          /\ \A p \in DOMAIN c.paths : Listed(c.paths[p]) /\ c.paths[p] # <<>>

ASSUME CommandLines ==
    \A c \in Commands :
        /\ c.verb \in Verbs /\ c.out \in {"open", "gone", "full"}
        /\ \A i \in Instances[c.verb] : Shaped(c, i)

Init == Started(Commands, Instances)

Step ==
    \/ FlowStep \/ FlowReadStep \/ DecisionStep \/ DoctorStep \/ GraphStep \/ ReadBackStep
    \/ JobStep \/ UiStep
Environment ==
    \/ FlowOthers \/ FlowReadOthers \/ DecisionOthers \/ DoctorOthers \/ GraphOthers
    \/ ReadBackOthers \/ JobGoesOn \/ UiOthers

Next == Step \/ Environment

Spec == Init /\ [][Next]_vars
FairSpec == Spec /\ WF_vars(Step)

-----------------------------------------------------------------------------
\* Properties of every command.

\* What a command resolved a name or a number to has that name or number.  (Or it
\* is the only row of its table, where a term that was dropped cannot be told.)
Stranger(found, asked, named, all) == found # asked /\ found \notin named /\ all # {found}

NoStrangers ==
    /\ FlowsAreAsAsked
    /\ "flow" \in DOMAIN know => ~Stranger(know.flow, cmd.flow, inst.named, {})
    /\ "table" \in DOMAIN know => ~Stranger(know.table, cmd.table, inst.named, {})
    /\ "record" \in DOMAIN know =>
           ~Stranger(know.record, "", inst.numbered \cup {cmd.ref}, inst.records)

\* Exit code 0 says that what was asked for was done, where the instance tells
\* it in another way than by an HTTP status: jobs, GraphQL documents, playbooks
\* and journals.  BrokenPipe is exit code 0 too and is held to the same, but for
\* errors beside the data of a graphql query whose reader has gone
\* (ErrorsAreTold is refuted).
OkMeansDone == JobVerdict /\ QueriesAreAnswered

\* Every command comes to an end, but for a --wait without a limit.
CommandEnds == <>(at = "done") \/ <>[]WaitsForever
=============================================================================
