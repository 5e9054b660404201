------------------------------ MODULE Doctor ------------------------------
(***************************************************************************)
(* sn doctor: one GraphQL document asks what the session holds and what    *)
(* the instance has, through getters that each lie in a way of their own.  *)
(* A namespace the schema lacks fails the whole document, which is then    *)
(* sent again without it.                                                  *)
(*                                                                         *)
(* cmd.needs: the needs of the command line, each [kind, name, value],     *)
(* with value "" where a property only has to be set.                      *)
(* inst: missing, the roots the schema lacks or that fail; broken, whether *)
(* it answers with an error of no root; admin; holds, the session's roles; *)
(* elevated, roles admin does not imply; roles, the names there are;       *)
(* drops, whether it drops the name term; plugins, those active; denies,   *)
(* whether the plugin getter denies everything; values, what properties    *)
(* are set to; secret, the password properties.                            *)
(***************************************************************************)
EXTENDS Command

Roots == {"Session", "Records", "Plugins", "Properties"}

-----------------------------------------------------------------------------
\* The getters, as the instance answers them.  "null" is no answer.

\* getMatchingRoles: gs.hasRole is true of any name for an admin.
Held(role) == role \in inst.holds \/ (inst.admin /\ role \notin inst.elevated)

\* _rowCount of sys_user_role for name=<role>, before row ACLs.
RoleCount(role) ==
    IF inst.drops THEN Cardinality(inst.roles) ELSE IF role \in inst.roles THEN 1 ELSE 0

\* isPluginInstalled
Installed(plugin) ==
    CASE ~inst.admin -> "null"
      [] inst.admin /\ (inst.denies \/ plugin \notin inst.plugins) -> "no"
      [] OTHER -> "yes"

\* getSysPropertyValue, whose default stands for unset and for empty.
PropertyValue(name) ==
    CASE ~inst.admin \/ name \in inst.secret -> "null"
      [] inst.admin /\ name \notin inst.secret /\ name \notin DOMAIN inst.values -> "unset"
      [] OTHER -> inst.values[name]

-----------------------------------------------------------------------------
\* evaluate: the three kinds of check.

\* (mutant) the session's answer is the verdict
HeldIsEnough(role) ==
    IF {"Session", "Records"} \cap know.disabled # {} THEN "unavailable"
    ELSE IF Held(role) THEN "pass" ELSE "fail"

\* A role passes when it is held and exists; a second row shows a dropped term.
RoleStatus(role) ==
    IF {"Session", "Records"} \cap know.disabled # {} \/ RoleCount(role) > 1 THEN "unavailable"
    ELSE IF Held(role) /\ RoleCount(role) = 1 THEN "pass" ELSE "fail"

\* The getter is believed when it knows the plugin the request runs on.
PluginStatus(plugin) ==
    IF "Plugins" \in know.disabled \/ Installed("com.glide.graphql") # "yes" THEN "unavailable"
    ELSE IF Installed(plugin) = "yes" THEN "pass" ELSE "fail"

\* A null is "cannot read", never "unset".
PropertyStatus(name, value) ==
    IF "Properties" \in know.disabled \/ PropertyValue("glide.buildtag") = "null"
       \/ PropertyValue(name) = "null"
    THEN "unavailable"
    ELSE IF PropertyValue(name) # "unset" /\ value \in {"", PropertyValue(name)}
    THEN "pass" ELSE "fail"

Status(need) ==
    CASE need.kind = "role" -> RoleStatus(need.name)
      [] need.kind = "plugin" -> PluginStatus(need.name)
      [] need.kind = "property" -> PropertyStatus(need.name, need.value)

-----------------------------------------------------------------------------
\* build_plan
DoctorArguments ==
    /\ at = "argv" /\ cmd.verb = "doctor"
    /\ Reading
    /\ IF cmd.valid THEN Learns("connect", [disabled |-> {}]) ELSE Rejects

DoctorConnect ==
    /\ cmd.verb = "doctor"
    /\ Connect("ask")

\* build_document, execute and attribute_errors: every error must belong to a
\* root that is still in the document, and those roots leave it.
Ask ==
    /\ at = "ask"
    /\ Reading
    /\ LET document == Roots \ know.disabled
           report == [checks |-> [need \in cmd.needs |-> Status(need)]]
       IN  \/ document = {} /\ Learns("emit", report)
           \/ document # {} /\ (Fails \/ (inst.broken /\ Ends("Api")))
           \/ /\ document # {} /\ ~inst.broken
              /\ \E errors \in SUBSET (inst.missing \cap document) :
                    /\ errors # {}
                    /\ Learns("ask", [disabled |-> know.disabled \cup errors])
           \/ /\ document # {} /\ ~inst.broken /\ inst.missing \cap document = {}
              /\ Learns("emit", report)

DoctorEmit == cmd.verb = "doctor" /\ Emit("summary")

\* failure_summary
DoctorSummary ==
    /\ at = "summary"
    /\ Reading
    /\ IF \A need \in cmd.needs : know.checks[need] = "pass" THEN Ends("ok") ELSE Ends("Api")

DoctorStep == DoctorArguments \/ DoctorConnect \/ Ask \/ DoctorEmit \/ DoctorSummary

\* An administrator takes a role away, switches a plugin on, or clears a property.
DoctorOthers ==
    /\ cmd.verb = "doctor"
    /\ \/ Others([inst EXCEPT !.holds = {}])
       \/ \E plugin \in {"com.snc.pa"} : Others([inst EXCEPT !.plugins = @ \cup {plugin}])
       \/ Others([inst EXCEPT !.values = <<>>])

-----------------------------------------------------------------------------
\* Properties.

\* Is the need met, by what the instance has and whatever its getters say?
Met(need) ==
    CASE need.kind = "role" -> need.name \in inst.roles /\ Held(need.name)
      [] need.kind = "plugin" -> need.name \in inst.plugins
      [] need.kind = "property" ->
            need.name \in DOMAIN inst.values /\ need.value \in {"", inst.values[need.name]}

\* While nothing changes, a check that passes is met and a check that fails is
\* not: an admin's yes to everything, a dropped term, a plugin getter that
\* denies, a null for what cannot be read become "unavailable" and nothing else.
ChecksAreTrue ==
    cmd.verb = "doctor" /\ at \in {"emit", "summary"} /\ still
    => \A need \in cmd.needs :
          /\ know.checks[need] = "pass" => Met(need)
          /\ know.checks[need] = "fail" => ~Met(need)
=============================================================================
