------------------------------ MODULE GraphQl ------------------------------
(***************************************************************************)
(* The commands on POST /api/now/graphql: graphql itself, journal, and     *)
(* playbook list, trigger and launch.  The endpoint answers 200 whatever   *)
(* comes of a query: errors arrive as `errors' beside the data or instead  *)
(* of it, as a typed member of the data, or as a null.                     *)
(*                                                                         *)
(* inst: records, numbered and drops, for the reference; errors, "none",   *)
(* "alone" or "beside data"; columns, the journal columns of the table;    *)
(* entries and the `visible' ones the caller may read; readable, whether   *)
(* the caller may read the record; typed, whether the playbook API answers *)
(* with its typed error; held, whether the record ever had a playbook.     *)
(***************************************************************************)
EXTENDS Command

PlaybookVerbs == {"playbook list", "playbook trigger", "playbook launch"}
GraphVerbs == {"graphql", "journal"} \cup PlaybookVerbs

-----------------------------------------------------------------------------
\* read_text_input, build_variables, parse_pair, validate_sys_id, encode_inputs.
GraphArguments ==
    /\ at = "argv" /\ cmd.verb \in GraphVerbs
    /\ Reading
    /\ IF cmd.valid THEN Goto("connect") ELSE Rejects

GraphConnect ==
    /\ cmd.verb \in GraphVerbs
    /\ Connect(CASE cmd.verb = "graphql" -> "query"
                 [] cmd.verb = "playbook launch" -> "start"
                 [] OTHER -> "ref")

GraphRecord ==
    \/ cmd.verb = "journal" /\ cmd.source = "table" /\ ResolveRef("ref", "rows")
    \/ cmd.verb = "journal" /\ cmd.source = "record" /\ ResolveRef("ref", "streams")
    \/ cmd.verb = "playbook list" /\ ResolveRef("ref", "playbooks")
    \/ cmd.verb = "playbook trigger" /\ ResolveRef("ref", "start")

\* The caller's own document.  Data beside errors is still printed.
Query ==
    /\ at = "query"
    /\ \/ Reading
       \/ cmd.mutates /\ Written("mutation", inst)
    /\ \/ Fails
       \/ inst.errors = "alone" /\ Ends("Api")
       \/ inst.errors # "alone" /\ Learns("emit", [errors |-> inst.errors # "none"])

-----------------------------------------------------------------------------
\* journal

\* What is asked for, in turn, when the table lacks a column of the one before.
Attempts == <<<<"comments_and_work_notes">>, <<"comments", "work_notes">>, <<"comments">>, <<"work_notes">>>>

Asked == IF cmd.only = "" THEN Attempts ELSE <<<<cmd.only>>>>

\* fetch_record_streams: one attempt.  The errors of a document name every column
\* it lacks; the first of the attempt's is remembered, and not asked for again.
ReadStreams ==
    /\ at = "streams"
    /\ Reading
    /\ LET attempt == IF "attempt" \in DOMAIN know THEN know.attempt ELSE 1
           columns == Asked[attempt]
           lacks == {i \in DOMAIN columns : columns[i] \notin inst.columns}
           Known(i) == "missing" \in DOMAIN know /\ columns[i] = know.missing
       IN  \/ attempt > Len(Asked) /\ Ends("Api")
           \/ /\ attempt <= Len(Asked) /\ \E i \in DOMAIN columns : Known(i)
              /\ Learns("streams", [attempt |-> attempt + 1])
           \/ /\ attempt <= Len(Asked) /\ \A i \in DOMAIN columns : ~Known(i)
              /\ \/ Fails
                 \/ inst.errors # "none" /\ Ends("Api")
                 \/ /\ inst.errors = "none"
                    /\ \E i \in lacks :
                          /\ \A j \in lacks : i <= j
                          /\ Learns("streams", [attempt |-> attempt + 1, missing |-> columns[i]])
                 \/ /\ inst.errors = "none" /\ lacks = {}
                    /\ IF inst.readable
                       THEN Learns("emit", [columns |-> {columns[i] : i \in DOMAIN columns}])
                       ELSE Ends("Api")

\* fetch_table_rows: the count is taken before row ACLs, the rows after.
ReadRows ==
    /\ at = "rows"
    /\ Reading
    /\ \/ Fails
       \/ inst.errors # "none" /\ Ends("Api")
       \/ /\ inst.errors = "none"
          /\ IF inst.entries # {} /\ inst.visible = {} THEN Ends("Api")
             ELSE Learns("emit", [rows |-> inst.visible])

-----------------------------------------------------------------------------
\* playbook

\* check_errors, then the null of a record that is not there or not readable.
ListPlaybooks ==
    /\ at = "playbooks"
    /\ Reading
    /\ \/ Fails
       \/ inst.errors # "none" /\ Ends("Api")
       \/ /\ inst.errors = "none"
          /\ IF inst.readable \/ cmd.output = "raw" THEN Goto("emit") ELSE Ends("Api")

\* triggerPlaybook starts nothing on a record that ever had a playbook, if told so.
Skips == cmd.verb = "playbook trigger" /\ cmd.once /\ inst.held

\* trigger and launch: errors, the typed member, a context with or without an id.
StartPlaybook ==
    /\ at = "start"
    /\ \/ Reading /\ Fails
       \/ Reading /\ inst.errors # "none" /\ Ends("Api")
       \/ /\ Reading /\ inst.errors = "none" /\ inst.typed
          /\ IF cmd.output = "raw" THEN Goto("emit") ELSE Ends("Api")
       \/ Reading /\ inst.errors = "none" /\ ~inst.typed /\ Skips /\ Goto("emit")
       \/ /\ inst.errors = "none" /\ ~inst.typed /\ ~Skips
          /\ Written("playbook", [inst EXCEPT !.held = TRUE])
          /\ \/ Goto("emit") \/ Fails
             \/ cmd.output # "raw" /\ Ends("Instance")

-----------------------------------------------------------------------------
GraphEmit ==
    \/ cmd.verb = "graphql" /\ Emit("errors")
    \/ cmd.verb \in GraphVerbs \ {"graphql"} /\ Emit("done")

\* Errors beside printed data still are the exit code.
TellErrors ==
    /\ at = "errors"
    /\ Reading
    /\ IF know.errors THEN Ends("Api") ELSE Ends("ok")

GraphStep ==
    \/ GraphArguments \/ GraphConnect \/ GraphRecord \/ Query \/ ReadStreams \/ ReadRows
    \/ ListPlaybooks \/ StartPlaybook \/ GraphEmit \/ TellErrors

\* Another user starts a playbook on the record; an ACL hides it.
GraphOthers ==
    /\ cmd.verb \in GraphVerbs
    /\ \/ Others([inst EXCEPT !.held = TRUE])
       \/ Others([inst EXCEPT !.readable = FALSE, !.visible = {}])

-----------------------------------------------------------------------------
\* Properties.

\* An answer under HTTP 200 is taken for what it says.  Errors instead of data
\* are never exit 0; errors beside data are exit 0 in one case, when the reader
\* of stdout leaves before the exit code is decided (a finding: the data is
\* written first, and what comes of the write is the command's end).  Exit 0 of
\* trigger is a playbook started, or one the record had before, and exit 0 of
\* launch a playbook started; a journal has every journal column of its table,
\* and is not empty because of ACLs.  (Playbooks with --output raw are left
\* out: see the README.)
QueriesAreAnswered ==
    /\ ExitsZero /\ cmd.verb = "graphql"
          => inst.errors # "alone" /\ (inst.errors = "none" \/ cmd.out = "gone")
    /\ ExitsZero /\ cmd.verb = "playbook trigger" /\ cmd.output # "raw"
          => "playbook" \in wrote \/ (cmd.once /\ inst.held)
    /\ ExitsZero /\ cmd.verb = "playbook launch" /\ cmd.output # "raw"
          => "playbook" \in wrote
    /\ at = "emit" /\ cmd.verb = "playbook list" /\ cmd.output # "raw" /\ still => inst.readable
    /\ at = "emit" /\ cmd.verb = "journal" /\ "columns" \in DOMAIN know /\ cmd.only = ""
          => know.columns \in {{"comments_and_work_notes"},
                               inst.columns \ {"comments_and_work_notes"}}
    /\ at = "emit" /\ cmd.verb = "journal" /\ "rows" \in DOMAIN know /\ still
          => know.rows # {} \/ inst.entries = {}

\* (Refuted, see README.)  Exit code 0 of graphql says the query had no errors:
\* an "in-band failure must not masquerade as success".
ErrorsAreTold == ExitsZero /\ cmd.verb = "graphql" => inst.errors = "none"
=============================================================================
