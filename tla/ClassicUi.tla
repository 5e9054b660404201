----------------------------- MODULE ClassicUi -----------------------------
(***************************************************************************)
(* The commands that drive processors of the classic UI: sn script run, sn *)
(* xml export and import.  Those answer pages, 200 whatever happened, and  *)
(* take whatever they are given: a scope they do not know is global, a     *)
(* query term they do not know is dropped.                                 *)
(*                                                                         *)
(* inst: admin, whether the user may; scopes, `named' and store (those     *)
(* that refuse scripts); breaks, whether the script ends in an error;      *)
(* schema, a function from tables to their columns, each with the table it *)
(* refers to or ""; terms that drop.                                       *)
(***************************************************************************)
EXTENDS Command

UiVerbs == {"script run", "xml export", "xml import"}

\* --scope, the script, --output, the query and the table name are looked at
\* before connecting; run and import ask first, and read a file then.
UiArguments ==
    /\ at = "argv" /\ cmd.verb \in UiVerbs
    /\ Reading
    /\ \/ ~cmd.valid /\ Rejects
       \/ cmd.valid /\ Declines
       \/ cmd.valid /\ Confirms /\ Goto("connect")

UiConnect ==
    /\ cmd.verb \in UiVerbs
    /\ Connect(CASE cmd.verb = "xml export" -> "columns"
                 [] cmd.verb = "xml import" -> "session"
                 [] cmd.verb = "script run" /\ cmd.scope = "global" -> "session"
                 [] OTHER -> "in scope")

\* ui_session: the cookie and the token of one session.
UiSession ==
    /\ at = "session"
    /\ Reading
    /\ \/ Fails
       \/ Ends("Instance")
       \/ Goto(IF cmd.verb = "script run" THEN "script" ELSE "upload")

-----------------------------------------------------------------------------
\* script run.

\* resolve_scope; global needs no lookup.
ScriptScope ==
    /\ at = "in scope"
    /\ Reading
    /\ \/ Fails
       \/ \E rows \in Answers(inst.named, inst.scopes, 3) :
             \/ Cardinality(rows) # 1 /\ Ends("Usage")
             \/ \E s \in rows : rows = {s} /\ Learns("session", [scope |-> s])

AskedScope == IF cmd.scope = "global" THEN "global" ELSE know.scope

\* Where the instance runs it: a scope that has gone is global.
RunsIn == IF AskedScope \in inst.scopes THEN AskedScope ELSE "global"

\* judge: the answer says that the script did not run, or may have, or it is a
\* result page.  An answer lost on the way leaves the script running.
PostScript ==
    /\ at = "script"
    /\ \/ Reading /\ Ends("Transport")
       \/ ~inst.admin /\ Reading /\ Ends("Auth")
       \/ RunsIn \in inst.store /\ Reading /\ Ends("Api")
       \/ Reading /\ (Ends("Api") \/ Ends("Instance"))     \* no session, or no token
       \/ /\ inst.admin /\ RunsIn \notin inst.store
          /\ Written("script", inst)
          /\ \/ Ends("Transport") \/ Ends("Api") \/ Ends("Instance")
             \/ Learns(IF cmd.rollback THEN "rollback" ELSE "emit",
                       [ran |-> RunsIn, broke |-> inst.breaks])

\* rollback_context is read before the output is written.
RollbackContext ==
    /\ at = "rollback"
    /\ Reading
    /\ Fails \/ Goto("emit")

\* (mutant) the scope the page names is not compared
ScopeUnchecked(ran) == TRUE
RightScope(ran) == ran = AskedScope

\* The output is out; now the verdict.
ScriptVerdict ==
    /\ at = "verdict"
    /\ Reading
    /\ \/ know.broke /\ Ends("Api")
       \/ ~know.broke /\ ~RightScope(know.ran) /\ Ends("Instance")
       \/ ~know.broke /\ RightScope(know.ran) /\ Ends("ok")

-----------------------------------------------------------------------------
\* xml import.

\* judge_upload: a 200 says that the file was taken, and nothing of its load; that
\* of a user who may not is 200 like any other, or a refusal.
UploadXml ==
    /\ at = "upload"
    /\ \/ Reading /\ Ends("Transport")
       \/ ~inst.admin /\ Reading /\ (Ends("Auth") \/ Goto("emit"))
       \/ Reading /\ Ends("Api")
       \/ inst.admin /\ Written("file", inst) /\ (Goto("emit") \/ Ends("Transport"))

-----------------------------------------------------------------------------
\* xml export.  A term of the query is the path of the column it names; a query
\* with a related-list term is not checked at all.

\* (mutant) a dot-walk is left to the instance
DotWalksUnchecked ==
    IF cmd.related THEN <<>> ELSE SelectSeq(cmd.paths, LAMBDA path : Len(path) = 1)

Checkable == IF cmd.related THEN <<>> ELSE cmd.paths

\* What a column that is no reference leads to.
Nowhere == ""

\* How far a path leads through the tables read so far: `on', the table its next
\* column is in, and what stops it.
Along(schemas, walk, column) ==
    IF walk.stop # "none" THEN walk
    ELSE IF walk.on = Nowhere THEN [walk EXCEPT !.stop = "no reference"]
    ELSE IF walk.on \notin DOMAIN schemas THEN [walk EXCEPT !.stop = "unread"]
    ELSE IF column \notin DOMAIN schemas[walk.on] THEN [walk EXCEPT !.stop = "no such column"]
    ELSE [walk EXCEPT !.on = schemas[walk.on][column]]

Follow(schemas, path) ==
    LET walk[n \in 0..Len(path)] ==
            IF n = 0 THEN [on |-> cmd.table, stop |-> "none"]
            ELSE Along(schemas, walk[n - 1], path[n])
    IN  walk[Len(path)]

NoColumns == [c \in {} |-> Nowhere]

\* check_columns: the table itself, then path by path; a table is read once.
CheckColumns ==
    /\ at = "columns"
    /\ Reading
    /\ LET schemas == IF "schemas" \in DOMAIN know THEN know.schemas ELSE NoColumns
           walks == [i \in DOMAIN Checkable |-> Follow(schemas, Checkable[i])]
           stopped == {i \in DOMAIN walks : walks[i].stop # "none"}
           first == {i \in stopped : \A j \in stopped : i <= j}
           unread == IF cmd.table \notin DOMAIN schemas THEN {cmd.table}
                     ELSE {walks[i].on : i \in {j \in first : walks[j].stop = "unread"}}
       IN  \/ \E t \in unread :
                 \/ Fails \/ Ends("Instance")
                 \/ Learns("columns",
                        [schemas |-> Added(
                            [u \in {t} |-> IF t \in DOMAIN inst.schema THEN inst.schema[t] ELSE NoColumns],
                            schemas)])
           \/ /\ unread = {}
              /\ IF schemas[cmd.table] = NoColumns \/ stopped # {} THEN Rejects
                 ELSE Goto("unload")

\* unload_client: the processor takes basic auth; a token is exchanged for a
\* session of its own, and a session has to have loaded a page.
UnloadClient ==
    /\ at = "unload"
    /\ Reading
    /\ \/ cmd.auth = "basic" /\ Goto("home read")
       \/ cmd.auth = "session" /\ Goto("home")
       \/ cmd.auth = "token" /\ (Fails \/ Ends("Config") \/ Goto("home"))

LoadHome ==
    /\ at = "home"
    /\ Reading
    /\ Ends("Transport") \/ Ends("Instance") \/ Goto("home read")

\* The rows are streamed to stdout: those of the query, all of the table's where a
\* term was dropped.  A stream cut off half way is an error.
Download ==
    /\ at = "home read"
    /\ Reading
    /\ Fails \/ Goto("emit")

CutOff ==
    /\ at = "emit" /\ cmd.verb = "xml export"
    /\ Reading
    /\ Ends("Transport")

UiEmit ==
    /\ cmd.verb \in UiVerbs
    /\ Emit(IF cmd.verb = "script run" THEN "verdict" ELSE "done")

UiStep ==
    \/ UiArguments \/ UiConnect \/ UiSession \/ ScriptScope \/ PostScript \/ RollbackContext
    \/ ScriptVerdict \/ UploadXml \/ CheckColumns \/ UnloadClient \/ LoadHome \/ Download
    \/ CutOff \/ UiEmit

\* An application is removed; a column is.
UiOthers ==
    \/ cmd.verb = "script run" /\ \E s \in inst.scopes : Others([inst EXCEPT !.scopes = @ \ {s}])
    \/ /\ cmd.verb = "xml export"
       /\ \E t \in DOMAIN inst.schema : Others([inst EXCEPT !.schema[t] = NoColumns])

-----------------------------------------------------------------------------
\* Properties.

\* A path names a column: there are tables that lead along it.
Names(path) ==
    \E on \in [DOMAIN path -> DOMAIN inst.schema] :
        /\ on[1] = cmd.table
        /\ \A i \in DOMAIN path :
              /\ path[i] \in DOMAIN inst.schema[on[i]]
              /\ i < Len(path) => inst.schema[on[i]][path[i]] = on[i + 1]

\* No export leaves out a term of its query: unless the schema was edited
\* meanwhile, every column that the instance could drop is one it has.
ExportIsFiltered ==
    /\ cmd.verb = "xml export" /\ at = "emit" /\ still /\ ~cmd.related
    => \A i \in DOMAIN cmd.paths : Names(cmd.paths[i])

\* A script that exits with success ran, to its end, in the scope it was to run in.
ScriptRanAsAsked ==
    cmd.verb = "script run" /\ outcome = "ok"
    => "script" \in wrote /\ ~inst.breaks /\ know.ran = AskedScope

\* (Refuted, see README.)  The output of a script that ran is printed,
\* whatever comes after: "output printed before an error is still output".
OutputSurvives ==
    /\ cmd.verb = "script run" /\ at = "done" /\ cmd.out = "open" /\ "ran" \in DOMAIN know
    => printed

\* (Refuted, see README.)  A script that failed is told so by the exit code.
FailureIsTold ==
    cmd.verb = "script run" /\ ExitsZero /\ "ran" \in DOMAIN know
    => ~know.broke
=============================================================================
