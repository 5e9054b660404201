------------------------------ MODULE ReadBack ------------------------------
(***************************************************************************)
(* Commands that write and then read back what they wrote, because the     *)
(* endpoint they write through answers success whatever it did: sn context *)
(* scope and updateset, sn variables set (and get, its reading half).      *)
(*                                                                         *)
(* inst, for the context: scopes and the `named' ones; sets, a function    *)
(* from update sets to [scope, open]; the caller's preferences prefScope   *)
(* and prefSet, which the platform resolves; obeys, whether a write of     *)
(* the preference row is what the platform then goes by; selects, whether  *)
(* the account can select sets.                                            *)
(* inst, for the variables: pool, the stored values of a record; readonly, *)
(* the variables a write leaves alone; task, whether the record given is a *)
(* task; owned, whether the task has a request item.                       *)
(***************************************************************************)
EXTENDS Command

ContextVerbs == {"context", "context scope", "context updateset"}
VariablesVerbs == {"variables get", "variables set"}

-----------------------------------------------------------------------------
\* The platform's side of the session context.

DefaultSet(scope) == "default of " \o scope

\* The set a tracked write would use: the preferred one while it is open and in
\* the scope, else the scope's default.
Effective(state) ==
    IF state.prefSet \in DOMAIN state.sets
       /\ state.sets[state.prefSet] = [scope |-> state.prefScope, open |-> TRUE]
    THEN state.prefSet ELSE DefaultSet(state.prefScope)

\* GET .../current also stores what it resolved.  That never changes where writes
\* land, and is no write of the command's.
Resolved == [inst EXCEPT !.prefSet = Effective(inst)]

-----------------------------------------------------------------------------
\* validate_target.
ContextArguments ==
    /\ at = "argv" /\ cmd.verb \in ContextVerbs
    /\ Reading
    /\ IF cmd.valid THEN Goto("connect") ELSE Rejects

ContextConnect ==
    /\ cmd.verb \in ContextVerbs
    /\ Connect("previous")

\* read_context: the context before, and after.  An account that cannot select
\* sets gets no answer that is a context.
ReadContext(step, fact, next) ==
    /\ at = step
    /\ \/ Reading /\ Fails
       \/ Reading /\ ~inst.selects /\ Ends("Instance")
       \/ /\ inst.selects
          /\ inst' = Resolved /\ UNCHANGED <<wrote, printed, still>>
          /\ Learns(next, [f \in {fact} |-> [scope |-> inst.prefScope, set |-> Effective(inst)]])

ReadPrevious ==
    ReadContext("previous", "previous",
        CASE cmd.verb = "context" -> "emit"
          [] cmd.verb = "context scope" -> "scope"
          [] cmd.verb = "context updateset" -> "set")

\* resolve_scope: the OR of three exact terms, limit 3.
ResolveScope ==
    /\ at = "scope"
    /\ Reading
    /\ \/ Fails
       \/ \E rows \in Answers(inst.named, inst.scopes, 3) :
             \/ Cardinality(rows) # 1 /\ Ends("Usage")
             \/ \E s \in rows : rows = {s} /\ Learns("picker", [target |-> s])

\* The picker's application PUT moves the scope of this request's own session,
\* which nothing else is in: all it leaves is the staged set.
StageScope ==
    /\ at = "picker"
    /\ \/ Reading /\ Fails
       \/ Written("picker", inst) /\ (Goto("identify") \/ Fails)

Identify ==
    /\ at = "identify"
    /\ Reading
    /\ Fails \/ Ends("Instance") \/ Goto("preference")

\* upsert_current_app_pref: the row is found, then patched or created.
WritePreference ==
    /\ at = "preference"
    /\ \/ Reading /\ Fails
       \/ /\ Written("preference",
                     IF inst.obeys THEN [inst EXCEPT !.prefScope = know.target] ELSE inst)
          /\ (Goto("after") \/ Fails)

\* resolve_update_set: open sets of the current scope.  A miss is looked up once
\* more without the restriction, to word the error.
ResolveSet ==
    /\ at = "set"
    /\ Reading
    /\ LET offered == {s \in DOMAIN inst.sets :
                          inst.sets[s] = [scope |-> know.previous.scope, open |-> TRUE]}
       IN  \/ Fails
           \/ \E rows \in Answers(inst.named \cap offered, DOMAIN inst.sets, 3) :
                 \/ Cardinality(rows) # 1 /\ Ends("Usage")
                 \/ \E s \in rows :
                       /\ rows = {s}
                       /\ Learns(IF s = know.previous.set THEN "emit" ELSE "pick", [target |-> s])

\* The picker selects an open set of the current scope; it refuses what is
\* current already, and may answer without having acknowledged.
PickSet ==
    /\ at = "pick"
    /\ \/ Reading /\ (Fails \/ Ends("Instance"))
       \/ /\ Written("set", IF inst.obeys THEN [inst EXCEPT !.prefSet = know.target] ELSE inst)
          /\ (Goto("after") \/ Fails)

ReadAfter == ReadContext("after", "now", "verify")

\* (mutant) the write's success is taken for the switch
TakenAtItsWord(state) == TRUE

\* Is the context the one that was asked for?
Persisted(state) ==
    IF cmd.verb = "context scope" THEN state.scope = know.target ELSE state.set = know.target

VerifyContext ==
    /\ at = "verify"
    /\ Reading
    /\ IF Persisted(know.now) THEN Goto("emit") ELSE Ends("Api")

ContextEmit == cmd.verb \in ContextVerbs /\ Emit("done")

-----------------------------------------------------------------------------
\* parse_pair, body::from_flags: a reference, and a body that is not empty.
VariablesArguments ==
    /\ at = "argv" /\ cmd.verb \in VariablesVerbs
    /\ Reading
    /\ IF cmd.valid THEN Goto("connect") ELSE Rejects

VariablesConnect ==
    /\ cmd.verb \in VariablesVerbs
    /\ Connect("ref")

VariablesRecord ==
    /\ cmd.verb \in VariablesVerbs
    /\ ResolveRef("ref", "owner")

\* resolve_target: a task's variables are its request item's.
ResolveOwner ==
    /\ at = "owner"
    /\ Reading
    /\ \/ ~inst.task /\ Goto("pool")
       \/ inst.task /\ (Fails \/ (IF inst.owned THEN Goto("pool") ELSE Ends("Api")))

\* fetch_vars; an empty pool is followed by a read of the record itself.
FetchVars(step, fact, next) ==
    /\ at = step
    /\ Reading
    /\ \/ Fails
       \/ Learns(next, [f \in {fact} |-> inst.pool])

FetchBefore == FetchVars("pool", "before", IF cmd.verb = "variables get" THEN "emit" ELSE "names")

\* A name the pool does not have would be skipped in silence.
CheckNames ==
    /\ at = "names"
    /\ Reading
    /\ IF DOMAIN cmd.values \subseteq DOMAIN know.before THEN Goto("put") ELSE Rejects

\* The endpoint writes what it knows and may, and answers 200 with no body.
PutVariables ==
    /\ at = "put"
    /\ \/ Reading /\ Fails
       \/ /\ Written("variables",
                 [inst EXCEPT !.pool =
                     [n \in DOMAIN @ |-> IF n \in DOMAIN cmd.values \ inst.readonly
                                         THEN cmd.values[n] ELSE @[n]]])
          /\ (Goto("reread") \/ Fails)

FetchAfter == FetchVars("reread", "after", "diff")

\* A variable gone meanwhile reads as the empty string.
Stored(n) == (IF n \in DOMAIN know.after THEN know.after[n] ELSE "") = cmd.values[n]

CompareVariables ==
    /\ at = "diff"
    /\ Reading
    /\ IF \A n \in DOMAIN cmd.values : Stored(n) THEN Goto("emit") ELSE Ends("Api")

VariablesEmit == cmd.verb \in VariablesVerbs /\ Emit("done")

ReadBackStep ==
    \/ ContextArguments \/ ContextConnect \/ ReadPrevious \/ ResolveScope \/ StageScope
    \/ Identify \/ WritePreference \/ ResolveSet \/ PickSet \/ ReadAfter \/ VerifyContext
    \/ ContextEmit
    \/ VariablesArguments \/ VariablesConnect \/ VariablesRecord \/ ResolveOwner \/ FetchBefore
    \/ CheckNames \/ PutVariables \/ FetchAfter \/ CompareVariables \/ VariablesEmit

\* The same user switches in the browser, a set is completed, a value is edited.
ReadBackOthers ==
    \/ /\ cmd.verb \in ContextVerbs
       /\ \/ \E s \in inst.scopes : Others([inst EXCEPT !.prefScope = s])
          \/ \E s \in DOMAIN inst.sets : Others([inst EXCEPT !.prefSet = s])
          \/ \E s \in DOMAIN inst.sets : Others([inst EXCEPT !.sets[s].open = FALSE])
    \/ /\ cmd.verb \in VariablesVerbs
       /\ \E n \in DOMAIN inst.pool : Others([inst EXCEPT !.pool[n] = "edited"])

-----------------------------------------------------------------------------
\* Properties.

\* A result that says the switch, or the values, are in place is a result read
\* after the write: unless somebody changed it meanwhile, it is how things are.
ResultHolds ==
    /\ at = "emit" /\ still
    => /\ cmd.verb = "context scope" => inst.prefScope = know.target
       /\ cmd.verb = "context updateset" => Effective(inst) = know.target
       /\ cmd.verb = "variables set" =>
             \A n \in DOMAIN cmd.values :
                 cmd.values[n] = IF n \in DOMAIN inst.pool THEN inst.pool[n] ELSE ""
=============================================================================
