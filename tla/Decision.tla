------------------------------ MODULE Decision ------------------------------
(***************************************************************************)
(* sn decision list, show and run.  The evaluator takes whatever it is     *)
(* given: an input it does not know, a choice's label or a record's number *)
(* is passed over in silence and the answer is that of the default row, so *)
(* run checks its inputs against the table's definition before it asks.    *)
(*                                                                         *)
(* inst: tables, the `named' among them and the terms that drop; `access'  *)
(* to the definition; inputs, a function from names to what the definition *)
(* says of them; rows, the decisions in evaluation order, and `matching'   *)
(* among them; records and the `numbered' ones for references.             *)
(***************************************************************************)
EXTENDS Command, SequencesExt

CONSTANT MaxDecisions    \* MAX_DECISIONS, scaled down

ASSUME MaxDecisionsIsNat == MaxDecisions \in Nat

DecisionVerbs == {"decision list", "decision show", "decision run"}

\* The default row: it answers when no other row matches.
Fallback == "fallback"

\* What the evaluator understands of a value, by its input's kind.  A value it
\* does not understand it passes over.
Understands(input, value) ==
    \/ value = ""
    \/ input.kind = "string"
    \/ input.kind = "boolean" /\ value \in {"true", "false"}
    \/ input.kind = "choice" /\ (input.choices = {} \/ value \in input.choices)
    \/ input.kind = "reference" /\ value \in inst.records

-----------------------------------------------------------------------------
\* reject_raw, validate_table_arg, parse_inputs.
DecisionArguments ==
    /\ at = "argv" /\ cmd.verb \in DecisionVerbs
    /\ Reading
    /\ IF cmd.valid THEN Goto("connect") ELSE Rejects

DecisionConnect ==
    /\ cmd.verb \in DecisionVerbs
    /\ Connect(IF cmd.verb = "decision list" THEN "list" ELSE "table")

ListTables ==
    /\ at = "list"
    /\ Reading
    /\ Fails \/ Goto("emit")

\* resolve_table.  A name is compared with the names of the rows as well, for a
\* term that was dropped returns any tables.
ResolveTable ==
    /\ at = "table"
    /\ Reading
    /\ \/ Fails
       \/ /\ cmd.table \in inst.tables
          /\ Learns("definition", [table |-> cmd.table])
       \/ /\ cmd.table \notin inst.tables
          /\ \E rows \in Answers(inst.named, inst.tables, 20) :
                LET named == rows \cap inst.named IN
                \/ rows = {} /\ Ends("Api")
                \/ rows # {} /\ named = {} /\ Ends("Instance")
                \/ Cardinality(named) > 1 /\ Ends("Usage")
                \/ \E t \in named : named = {t} /\ Learns("definition", [table |-> t])

\* fetch_definition and parse_definition.  A caller without access reads nulls;
\* the window shows at most MAX_DECISIONS rows, and the default ones after them.
FetchDefinition ==
    /\ at = "definition"
    /\ Reading
    /\ \/ Fails
       \/ ~inst.access /\ Ends("Api")
       \/ /\ inst.access
          /\ Learns(IF cmd.verb = "decision show" THEN "emit" ELSE "check",
                 [inputs |-> inst.inputs,
                  rows |-> SubSeq(inst.rows, 1,
                               IF Len(inst.rows) > MaxDecisions THEN MaxDecisions
                               ELSE Len(inst.rows)) \o <<Fallback>>])

-----------------------------------------------------------------------------
\* run.

Unknown(given) == DOMAIN given \ DOMAIN know.inputs
Missing(given) ==
    {n \in DOMAIN know.inputs : know.inputs[n].mandatory /\ know.inputs[n].active} \ DOMAIN given

\* A sys_id that is given is one of a record.
IsSysId(value) == value \in inst.records

\* (mutant) a choice is left to the evaluator, which passes over one it does not know
ChoiceUnchecked(input, value) ==
    /\ value # ""
    /\ \/ input.kind = "boolean" /\ value \notin {"true", "false"}
       \/ input.kind = "reference" /\ ~IsSysId(value) /\ input.reference = ""

\* A value that check_inputs refuses; a reference's number is still to be
\* looked up, and cannot be without a table to look in.
Refused(input, value) ==
    /\ value # ""
    /\ \/ input.kind = "boolean" /\ value \notin {"true", "false"}
       \/ input.kind = "choice" /\ input.choices # {} /\ value \notin input.choices
       \/ input.kind = "reference" /\ ~IsSysId(value) /\ input.reference = ""

ToLookUp(given) ==
    {n \in DOMAIN given \cap DOMAIN know.inputs :
        know.inputs[n].kind = "reference" /\ given[n] # "" /\ ~IsSysId(given[n])}

CheckInputs ==
    /\ at = "check"
    /\ Reading
    /\ \/ Unknown(cmd.given) # {} /\ Rejects
       \/ Unknown(cmd.given) = {} /\ Missing(cmd.given) # {} /\ Rejects
       \/ /\ Unknown(cmd.given) = {} /\ Missing(cmd.given) = {}
          /\ \/ /\ \E n \in DOMAIN cmd.given : Refused(know.inputs[n], cmd.given[n])
                /\ Rejects
             \/ /\ \A n \in DOMAIN cmd.given : ~Refused(know.inputs[n], cmd.given[n])
                /\ Learns(IF ToLookUp(cmd.given) = {} THEN "evaluate" ELSE "ref",
                          [given |-> cmd.given])

\* RecordRef::resolve of an input's number.
LookUpInput ==
    /\ cmd.verb = "decision run"
    /\ ResolveRef("ref", "found")

TakeRecord ==
    /\ at = "found"
    /\ Reading
    /\ Learns("evaluate",
              [given |-> [n \in DOMAIN know.given |->
                             IF n \in ToLookUp(know.given) THEN know.record ELSE know.given[n]]])

\* What the evaluator answers: the rows that match, or the first of them, or the
\* default row.
Evaluated(matching, all) ==
    LET hits == SelectSeq(inst.rows, LAMBDA d : d \in matching)
    IN  IF hits = <<>> THEN {Fallback}
        ELSE IF all THEN Range(hits) ELSE {hits[1]}

\* matches: the answers by their place in the definition as it was read; one the
\* definition does not list comes last.
Place(rows, d) == IF d \in Range(rows) THEN CHOOSE i \in DOMAIN rows : rows[i] = d
                  ELSE Len(rows) + 1
InOrder(rows, answers) ==
    SetToSortSeq(answers, LAMBDA d, e : Place(rows, d) < Place(rows, e))

Evaluate ==
    /\ at = "evaluate"
    /\ Reading
    /\ \/ Fails
       \/ Ends("Instance")     \* no result map
       \/ Learns("emit", [answers |-> InOrder(know.rows, Evaluated(inst.matching, cmd.all))])

DecisionEmit == cmd.verb \in DecisionVerbs /\ Emit("done")

DecisionStep ==
    \/ DecisionArguments \/ DecisionConnect \/ ListTables \/ ResolveTable \/ FetchDefinition
    \/ CheckInputs \/ LookUpInput \/ TakeRecord \/ Evaluate \/ DecisionEmit

\* Someone edits the table in Decision Builder.
DecisionOthers ==
    /\ cmd.verb \in DecisionVerbs
    /\ \/ Others([inst EXCEPT !.rows = Tail(@)])
       \/ \E n \in DOMAIN inst.inputs : Others([inst EXCEPT !.inputs[n].mandatory = TRUE])

-----------------------------------------------------------------------------
\* Properties.

\* An answer of the evaluator is an answer to the question: unless somebody
\* edited the table meanwhile, it has every mandatory input, knows every input
\* it was given, and understands each value.
NothingIgnored ==
    /\ cmd.verb = "decision run" /\ at = "emit" /\ still
    => /\ {n \in DOMAIN inst.inputs : inst.inputs[n].mandatory /\ inst.inputs[n].active}
              \subseteq DOMAIN know.given
       /\ \A n \in DOMAIN know.given :
              /\ n \in DOMAIN inst.inputs
              /\ Understands(inst.inputs[n], know.given[n])
=============================================================================
