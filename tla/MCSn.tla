------------------------------- MODULE MCSn -------------------------------
(***************************************************************************)
(* Command lines and instances for TLC.                                    *)
(***************************************************************************)
EXTENDS Sn

Token(join, term) == [join |-> join, term |-> term]

Conditions ==
    {<<>>, <<Token("nq", "EQ")>>,
     <<Token("nq", "p"), Token("or", "q"), Token("and", "always"), Token("and", "EQ")>>,
     <<Token("nq", "p"), Token("and", "q")>>,
     <<Token("nq", "p"), Token("and", "changes"), Token("nq", "q"), Token("or", "changes")>>,
     <<Token("nq", "changes"), Token("and", "p"), Token("and", "EQ"), Token("nq", "q")>>,
     <<Token("nq", "p"), Token("and", "q"), Token("or", "changes")>>}

\* One flow, published, on one table; a run under way.
Plain ==
    [flows |-> {"f1", "f2"}, named |-> {"f1"}, drops |-> FALSE,
     records |-> {"r1", "r2"}, numbered |-> {"r1"},
     flags |-> {"active", "published"}, trigger |-> "record",
     on |-> [active |-> TRUE, extended |-> FALSE, condition |-> <<>>],
     class |-> "same", readable |-> TRUE, holds |-> {"p"},
     run |-> [state |-> "IN_PROGRESS", steps |-> {"started"}, errors |-> FALSE, reporting |-> TRUE]]

FlowInstances ==
    {[Plain EXCEPT !.flows = {"f2"}, !.named = {}, !.drops = TRUE]}
    \cup {[Plain EXCEPT !.named = n, !.drops = d, !.records = r, !.numbered = m] :
        n \in {{}, {"f1"}, {"f1", "f2"}}, d \in BOOLEAN,
        r \in {{"r1", "r2"}}, m \in {{}, {"r1"}}}
    \cup {[Plain EXCEPT !.flags = f, !.trigger = t, !.on.active = a] :
        f \in SUBSET {"active", "published", "subflow"},
        t \in {"none", "gone", "other", "record"}, a \in BOOLEAN}
    \cup {[Plain EXCEPT !.on.extended = e, !.on.condition = c, !.class = k, !.readable = r, !.holds = h] :
        e \in BOOLEAN, c \in Conditions, k \in {"same", "extends", "elsewhere"},
        r \in BOOLEAN, h \in SUBSET {"p", "q"}}

RunInstances == {[Plain EXCEPT !.run.reporting = r, !.readable = d, !.drops = p] :
                    r \in BOOLEAN, d \in BOOLEAN, p \in BOOLEAN}

FlowCommands ==
    {[verb |-> "why-not", out |-> "open", valid |-> v, flow |-> f, ref |-> r] :
        v \in BOOLEAN, f \in {"f1", "name"}, r \in {"r1", "number"}}
    \cup {[verb |-> "runs", out |-> "open", valid |-> TRUE, flow |-> f, ref |-> r] :
        f \in {"any", "name"}, r \in {"r1", "number"}}
    \cup {[verb |-> "tail", out |-> "open", valid |-> TRUE, flow |-> f] : f \in {"f1", "name"}}
    \cup {[verb |-> v, out |-> o, valid |-> TRUE, failed |-> f] :
        v \in {"debug", "steps", "logs"}, o \in {"open", "gone", "full"}, f \in BOOLEAN}

FlowReadInstances ==
    [flows : {{"f1", "f2"}}, named : SUBSET {"f1", "f2"}, fits : {{"f1"}, {}}, history : {{}, {"f1"}},
     error : {"none", "message", "no data"}, drops : BOOLEAN]

FlowReadCommands ==
    {[verb |-> "flow list", out |-> "open", valid |-> v, filters |-> f, alternatives |-> a,
      leads |-> l] :
        v \in BOOLEAN, f \in BOOLEAN, l \in BOOLEAN, a \in {<<{"f1", "f2"}>>, <<{"f2"}>>, <<{"f1"}, {"f2"}>>}}
    \cup {[verb |-> v, out |-> "open", valid |-> TRUE, flow |-> f] :
        v \in {"flow get", "flow versions"}, f \in {"f1", "gone", "name"}}

-----------------------------------------------------------------------------
Input(kind, mandatory, active) ==
    [kind |-> kind, mandatory |-> mandatory, active |-> active,
     choices |-> IF kind = "choice" THEN {"v1"} ELSE {},
     reference |-> IF kind = "reference" THEN "sys_user" ELSE ""]

PlainTable ==
    [tables |-> {"t1", "t2"}, named |-> {"t1"}, drops |-> FALSE, access |-> TRUE,
     inputs |-> [a |-> Input("choice", TRUE, TRUE), b |-> Input("reference", FALSE, TRUE)],
     rows |-> <<"d1", "d2", "d3">>, matching |-> {"d3", "d2"},
     records |-> {"r1", "r2"}, numbered |-> {"r1"}]

TableInstances ==
    {[PlainTable EXCEPT !.named = n, !.drops = d, !.access = a] :
        n \in {{}, {"t1"}, {"t1", "t2"}}, d \in BOOLEAN, a \in BOOLEAN}
    \cup {[PlainTable EXCEPT !.records = r, !.numbered = r \cap m, !.drops = d, !.matching = {}] :
        r \in {{"r1"}, {"r1", "r2"}}, m \in {{}, {"r1"}, {"r1", "r2"}}, d \in BOOLEAN}
    \cup {[PlainTable EXCEPT !.inputs = [a |-> Input("boolean", m, k), b |-> Input("string", TRUE, TRUE)]] :
        m \in BOOLEAN, k \in BOOLEAN}
    \cup {[PlainTable EXCEPT !.inputs.b.reference = ""],
          [PlainTable EXCEPT !.inputs.a.choices = {}]}

DecisionCommands ==
    {[verb |-> v, out |-> "open", valid |-> k, table |-> t] :
        v \in {"decision list", "decision show"}, k \in BOOLEAN, t \in {"t1", "name"}}
    \cup {[verb |-> "decision run", out |-> "open", valid |-> TRUE, table |-> t, all |-> g, ref |-> "number",
           given |-> i] :
        t \in {"t1", "name"}, g \in BOOLEAN,
        i \in [a : {"", "v1", "true"}, b : {"", "number", "r2"}]
              \cup {<<>>, [a |-> "v1"], [a |-> "v1", c |-> "v1"]}}

-----------------------------------------------------------------------------
DoctorInstances ==
    [missing : {{}, {"Session"}, {"Records"}, {"Plugins", "Properties"}, Roots}, broken : {FALSE},
     admin : BOOLEAN, holds : {{}, {"itil"}}, elevated : {{}, {"security_admin"}},
     roles : {{"itil", "security_admin"}}, drops : BOOLEAN, denies : BOOLEAN,
     plugins : {{"com.glide.graphql"}, {"com.glide.graphql", "com.snc.pa"}},
     values : {[p |-> "on"], <<>>}, secret : {{}, {"p"}}]
    \cup {[i EXCEPT !.broken = TRUE] : i \in {[missing |-> {"Plugins"}, broken |-> FALSE, admin |-> TRUE,
              holds |-> {}, elevated |-> {}, roles |-> {"itil"}, drops |-> FALSE, denies |-> FALSE,
              plugins |-> {"com.glide.graphql"}, values |-> <<>>, secret |-> {}]}}

Need(kind, name, value) == [kind |-> kind, name |-> name, value |-> value]

DoctorCommands ==
    {[verb |-> "doctor", out |-> "open", valid |-> FALSE, needs |-> {}]}
    \cup {[verb |-> "doctor", out |-> "open", valid |-> TRUE, needs |-> n] :
        n \in {{},
               {Need("role", "itil", ""), Need("role", "no_role", ""), Need("role", "security_admin", "")},
               {Need("plugin", "com.snc.pa", ""), Need("property", "p", ""), Need("property", "p", "off")}}}

-----------------------------------------------------------------------------
Graph ==
    [records |-> {"r1", "r2"}, numbered |-> {"r1"}, drops |-> FALSE, errors |-> "none",
     columns |-> {"comments_and_work_notes", "comments", "work_notes"}, entries |-> {"e1", "e2"},
     visible |-> {"e1"}, readable |-> TRUE, typed |-> FALSE, held |-> FALSE]

GraphInstances ==
    {[Graph EXCEPT !.errors = e, !.readable = r, !.typed = t, !.held = h] :
        e \in {"none", "alone", "beside data"}, r \in BOOLEAN, t \in BOOLEAN, h \in BOOLEAN}
    \cup {[Graph EXCEPT !.columns = c, !.entries = e, !.visible = v \cap e, !.drops = d] :
        c \in SUBSET Graph.columns, e \in {{}, {"e1", "e2"}}, v \in {{}, {"e1"}}, d \in BOOLEAN}

GraphCommands ==
    {[verb |-> "graphql", out |-> o, valid |-> v, mutates |-> m] :
        o \in {"open", "gone"}, v \in BOOLEAN, m \in BOOLEAN}
    \cup {[verb |-> "journal", out |-> "open", valid |-> TRUE, ref |-> "number", source |-> s, only |-> c] :
        s \in {"record", "table"}, c \in {"", "comments"}}
    \cup {[verb |-> v, out |-> "open", valid |-> TRUE, ref |-> "number", output |-> o, once |-> b] :
        v \in PlaybookVerbs, o \in {"raw", "default"}, b \in BOOLEAN}

-----------------------------------------------------------------------------
ContextInstances ==
    [scopes : {{"s1", "s2"}}, named : {{}, {"s2"}, {"u2"}, {"u1", "u3"}}, drops : BOOLEAN,
     sets : {[u1 |-> [scope |-> "s1", open |-> TRUE], u2 |-> [scope |-> "s1", open |-> o],
              u3 |-> [scope |-> "s2", open |-> TRUE]] : o \in BOOLEAN},
     prefScope : {"s1"}, prefSet : {"u1", "u2", "u3"}, obeys : BOOLEAN, selects : {TRUE}]
    \cup [scopes : {{"s1"}}, named : {{}}, drops : {FALSE}, sets : {<<>>}, prefScope : {"s1"},
          prefSet : {""}, obeys : {TRUE}, selects : {FALSE}]

ContextCommands ==
    {[verb |-> v, out |-> "open", valid |-> k] : v \in ContextVerbs, k \in BOOLEAN}

VariablesInstances ==
    [records : {{"r1", "r2"}}, numbered : {{}, {"r1"}}, drops : BOOLEAN, task : BOOLEAN, owned : BOOLEAN,
     pool : {[x |-> "old", y |-> "old"], [x |-> "old"]}, readonly : {{}, {"x"}}]

VariablesCommands ==
    {[verb |-> "variables get", out |-> "open", valid |-> TRUE, ref |-> "r1"]}
    \cup {[verb |-> "variables set", out |-> "open", valid |-> k, ref |-> r, values |-> w] :
        k \in BOOLEAN, r \in {"r1", "number"},
        w \in {[x |-> "new"], [x |-> "old"], [x |-> "new", y |-> ""], [x |-> "new", z |-> ""]}}

-----------------------------------------------------------------------------
JobInstances == [job : {"none"}, linked : BOOLEAN, odd : BOOLEAN]

JobCommands ==
    {[verb |-> "app install", out |-> o, valid |-> TRUE, wait |-> w, output |-> m, limited |-> l, patience |-> 1] :
        o \in {"open", "gone", "full"}, w \in BOOLEAN, m \in {"raw", "default"}, l \in BOOLEAN}
    \cup {[verb |-> "updateset back-out", out |-> "open", valid |-> TRUE, yes |-> y, wait |-> TRUE,
           output |-> "default", limited |-> TRUE, patience |-> 0] : y \in BOOLEAN}
    \cup {[verb |-> v, out |-> "open", valid |-> k] : v \in OneRequest, k \in BOOLEAN}

-----------------------------------------------------------------------------
Columns(reference) == [name |-> "", parent |-> reference]

ScriptInstances ==
    [admin : BOOLEAN, scopes : {{"s1", "s2"}}, named : {{}, {"s1"}, {"s1", "s2"}}, drops : BOOLEAN,
     store : {{}, {"s1"}}, breaks : BOOLEAN]
XmlInstances ==
    [admin : BOOLEAN,
     schema : {[t |-> Columns("u"), u |-> Columns("v"), v |-> Columns("")], [t |-> Columns("")],
               [u |-> Columns("u")], [t |-> Columns("t")]}]

UiCommands ==
    {[verb |-> "script run", out |-> o, valid |-> k, yes |-> y, scope |-> s, rollback |-> r] :
        o \in {"open", "gone", "full"}, k \in BOOLEAN, y \in BOOLEAN, s \in {"global", "name"}, r \in BOOLEAN}
    \cup {[verb |-> "xml import", out |-> "open", valid |-> TRUE, yes |-> y] : y \in BOOLEAN}
    \cup {[verb |-> "xml export", out |-> o, valid |-> TRUE, auth |-> a, table |-> "t", related |-> r, paths |-> p] :
        o \in {"open", "gone"}, a \in {"basic", "token", "session"}, r \in BOOLEAN,
        p \in {<<>>, <<<<"name">>, <<"parent", "name">>>>, <<<<"parent", "parent", "name">>, <<"none">>>>,
               <<<<"parent", "none">>>>, <<<<"name", "name">>>>}}

-----------------------------------------------------------------------------
AllCommands ==
    FlowCommands \cup FlowReadCommands \cup GraphCommands \cup DoctorCommands
    \cup DecisionCommands \cup ContextCommands \cup VariablesCommands \cup JobCommands \cup UiCommands

AllInstances ==
    [v \in {c.verb : c \in AllCommands} |->
        CASE v \in {"debug", "steps", "logs"} -> RunInstances
          [] v \in {"why-not", "runs", "tail"} -> FlowInstances
          [] v \in FlowReads -> FlowReadInstances
          [] v \in GraphVerbs -> GraphInstances
          [] v = "doctor" -> DoctorInstances
          [] v \in DecisionVerbs -> TableInstances
          [] v \in ContextVerbs -> ContextInstances
          [] v \in VariablesVerbs -> VariablesInstances
          [] v \in JobVerbs -> JobInstances
          [] v = "script run" -> ScriptInstances
          [] OTHER -> XmlInstances]
=============================================================================
