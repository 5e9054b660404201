------------------------------ MODULE SnProofs ------------------------------
(***************************************************************************)
(* Proofs about sn's commands for any command lines, any instances and     *)
(* anything others do to them meanwhile.                                   *)
(***************************************************************************)
EXTENDS Sn, TLAPS, FiniteSetTheorems, NaturalsInduction, WellFoundedInduction

Sinks == {"open", "gone", "full"}

\* ReadBackStep, by its two families of commands.
ContextStep ==
    \/ ContextArguments \/ ContextConnect \/ ReadPrevious \/ ResolveScope \/ StageScope
    \/ Identify \/ WritePreference \/ ResolveSet \/ PickSet \/ ReadAfter \/ VerifyContext
    \/ ContextEmit
VariablesStep ==
    \/ VariablesArguments \/ VariablesConnect \/ VariablesRecord \/ ResolveOwner \/ FetchBefore
    \/ CheckNames \/ PutVariables \/ FetchAfter \/ CompareVariables \/ VariablesEmit

\* The steps of each module's commands, beside those every command has.
FlowSteps == {"flow", "ref", "runs", "tail", "trigger", "on", "class", "clause", "context",
    "steps", "failed", "logs"}
FlowReadSteps == {"flows", "flow name", "model", "exists"}
DecisionSteps == {"list", "table", "definition", "check", "ref", "found", "evaluate"}
DoctorSteps == {"ask", "summary"}
GraphSteps == {"query", "start", "ref", "rows", "streams", "playbooks", "errors"}
ContextSteps == {"previous", "scope", "picker", "identify", "preference", "set", "pick",
    "after", "verify"}
VariablesSteps == {"ref", "owner", "pool", "names", "put", "reread", "diff"}
JobSteps == {"post", "poll", "sleep"}
UiSteps == {"columns", "session", "in scope", "script", "upload", "rollback", "verdict",
    "unload", "home", "home read"}
Common == {"argv", "connect", "emit", "done"}

\* The steps a command may be at once it has written, and those at which only the
\* exit code is still to be told.
Late == {"identify", "preference", "after", "verify", "reread", "diff", "emit", "poll", "sleep",
    "errors", "summary", "verdict", "rollback", "done"}
Told == {"errors", "summary", "verdict"}

-----------------------------------------------------------------------------
\* What a step does to the control of its command: it stays in its module, what
\* has been written is not forgotten, and it ends with a code it may end with.
Moves(steps) ==
    /\ at # "done" /\ cmd' = cmd /\ at' \in steps \cup Common
    /\ wrote' = wrote \/ at' \in Late
    /\ at \in Late => at' \in Late
    /\ \/ /\ outcome' = outcome /\ at' # "done"
          /\ IF at' \in Told THEN printed' ELSE printed' = printed
       \/ /\ at' = "done" /\ printed' = printed
          /\ \/ outcome' \in {"Usage", "Config"} /\ at \notin Late /\ wrote' = wrote
             \/ outcome' \in {"Transport", "Auth", "Api", "Instance"}
             \/ outcome' = "BrokenPipe" /\ cmd.out = "gone"
             \/ outcome' = "ok" /\ at \in Told
       \/ at' = "done" /\ outcome' = "ok" /\ printed'

\* The errors of a request are none of the caller's.
LEMMA FailureKinds == Failure \subseteq {"Transport", "Auth", "Api"}
BY DEF Failure, Verdict

LEMMA FlowMoves ==
    ASSUME cmd.out \in Sinks, cmd.verb \in FlowVerbs, FlowStep
    PROVE  Moves(FlowSteps)
<1>. USE FailureKinds DEF Moves, FlowSteps, Late, Told, Common, Sinks, Reading, Goto, Learns,
     Ends, Fails, Rejects
<1>1. CASE FlowArguments
  BY <1>1 DEF FlowArguments
<1>2. CASE FlowConnect
  BY <1>2 DEF FlowConnect, Connect
<1>3. CASE ResolveFlow
  BY <1>3 DEF ResolveFlow
<1>4. CASE FlowRecord
  BY <1>4 DEF FlowRecord, ResolveRef
<1>5. CASE FlowRuns
  BY <1>5 DEF FlowRuns
<1>6. CASE WatchFlow
  BY <1>6 DEF WatchFlow
<1>7. CASE ReadTrigger
  BY <1>7 DEF ReadTrigger
<1>8. CASE ReadRecordTrigger
  BY <1>8 DEF ReadRecordTrigger
<1>9. CASE ReadClass
  BY <1>9 DEF ReadClass
<1>10. CASE EvaluateClause
  BY <1>10 DEF EvaluateClause
<1>11. CASE FetchContext
  BY <1>11 DEF FetchContext
<1>12. CASE FetchSteps
  BY <1>12 DEF FetchSteps
<1>13. CASE FetchFailed
  BY <1>13 DEF FetchFailed
<1>14. CASE FetchLogs
  BY <1>14 DEF FetchLogs
<1>15. CASE FlowEmit
  BY <1>15 DEF FlowEmit, Emit, WriteOf
<1>. QED
  BY <1>1, <1>2, <1>3, <1>4, <1>5, <1>6, <1>7, <1>8, <1>9, <1>10, <1>11, <1>12, <1>13, <1>14,
       <1>15 DEF FlowStep

LEMMA FlowReadMoves ==
    ASSUME cmd.out \in Sinks, cmd.verb \in FlowReads, FlowReadStep
    PROVE  Moves(FlowReadSteps)
<1>. USE FailureKinds DEF Moves, FlowReadSteps, Late, Told, Common, Sinks, Reading, Goto, Learns,
     Ends, Fails, Rejects
<1>1. CASE FlowReadArguments
  BY <1>1 DEF FlowReadArguments
<1>2. CASE FlowReadConnect
  BY <1>2 DEF FlowReadConnect, Connect
<1>3. CASE FlowList
  BY <1>3 DEF FlowList
<1>4. CASE PickFlow
  BY <1>4 DEF PickFlow
<1>5. CASE ReadModel
  BY <1>5 DEF ReadModel
<1>6. CASE EnsureFlowExists
  BY <1>6 DEF EnsureFlowExists
<1>7. CASE FlowReadEmit
  BY <1>7 DEF FlowReadEmit, Emit, WriteOf
<1>. QED
  BY <1>1, <1>2, <1>3, <1>4, <1>5, <1>6, <1>7 DEF FlowReadStep

LEMMA DecisionMoves ==
    ASSUME cmd.out \in Sinks, cmd.verb \in DecisionVerbs, DecisionStep
    PROVE  Moves(DecisionSteps)
<1>. USE FailureKinds DEF Moves, DecisionSteps, Late, Told, Common, Sinks, Reading, Goto, Learns,
     Ends, Fails, Rejects
<1>1. CASE DecisionArguments
  BY <1>1 DEF DecisionArguments
<1>2. CASE DecisionConnect
  BY <1>2 DEF DecisionConnect, Connect
<1>3. CASE ListTables
  BY <1>3 DEF ListTables
<1>4. CASE ResolveTable
  BY <1>4 DEF ResolveTable
<1>5. CASE FetchDefinition
  BY <1>5 DEF FetchDefinition
<1>6. CASE CheckInputs
  BY <1>6 DEF CheckInputs
<1>7. CASE LookUpInput
  BY <1>7 DEF LookUpInput, ResolveRef
<1>8. CASE TakeRecord
  BY <1>8 DEF TakeRecord
<1>9. CASE Evaluate
  BY <1>9 DEF Evaluate
<1>10. CASE DecisionEmit
  BY <1>10 DEF DecisionEmit, Emit, WriteOf
<1>. QED
  BY <1>1, <1>2, <1>3, <1>4, <1>5, <1>6, <1>7, <1>8, <1>9, <1>10 DEF DecisionStep

LEMMA DoctorMoves ==
    ASSUME cmd.out \in Sinks, cmd.verb \in {"doctor"}, DoctorStep
    PROVE  Moves(DoctorSteps)
<1>. USE FailureKinds DEF Moves, DoctorSteps, Late, Told, Common, Sinks, Reading, Goto, Learns,
     Ends, Fails, Rejects
<1>1. CASE DoctorArguments
  BY <1>1 DEF DoctorArguments
<1>2. CASE DoctorConnect
  BY <1>2 DEF DoctorConnect, Connect
<1>3. CASE Ask
  BY <1>3 DEF Ask
<1>4. CASE DoctorEmit
  BY <1>4 DEF DoctorEmit, Emit, WriteOf
<1>5. CASE DoctorSummary
  BY <1>5 DEF DoctorSummary
<1>. QED
  BY <1>1, <1>2, <1>3, <1>4, <1>5 DEF DoctorStep

LEMMA GraphMoves ==
    ASSUME cmd.out \in Sinks, cmd.verb \in GraphVerbs, GraphStep
    PROVE  Moves(GraphSteps)
<1>. USE FailureKinds DEF Moves, GraphSteps, Late, Told, Common, Sinks, Reading, Goto, Learns,
     Ends, Fails, Rejects
<1>1. CASE GraphArguments
  BY <1>1 DEF GraphArguments
<1>2. CASE GraphConnect
  BY <1>2 DEF GraphConnect, Connect
<1>3. CASE GraphRecord
  BY <1>3 DEF GraphRecord, ResolveRef
<1>4. CASE Query
  BY <1>4 DEF Query, Written
<1>5. CASE ReadStreams
  BY <1>5 DEF ReadStreams
<1>6. CASE ReadRows
  BY <1>6 DEF ReadRows
<1>7. CASE ListPlaybooks
  BY <1>7 DEF ListPlaybooks
<1>8. CASE StartPlaybook
  BY <1>8 DEF StartPlaybook, Written
<1>9. CASE GraphEmit
  BY <1>9 DEF GraphEmit, Emit, WriteOf
<1>10. CASE TellErrors
  BY <1>10 DEF TellErrors
<1>. QED
  BY <1>1, <1>2, <1>3, <1>4, <1>5, <1>6, <1>7, <1>8, <1>9, <1>10 DEF GraphStep

LEMMA ContextMoves ==
    ASSUME cmd.out \in Sinks, cmd.verb \in ContextVerbs, ContextStep
    PROVE  Moves(ContextSteps)
<1>. USE FailureKinds DEF Moves, ContextSteps, Late, Told, Common, Sinks, Reading, Goto, Learns,
     Ends, Fails, Rejects
<1>1. CASE ContextArguments
  BY <1>1 DEF ContextArguments
<1>2. CASE ContextConnect
  BY <1>2 DEF ContextConnect, Connect
<1>3. CASE ReadPrevious
  BY <1>3 DEF ReadPrevious, ReadContext, ContextVerbs
<1>4. CASE ResolveScope
  BY <1>4 DEF ResolveScope
<1>5. CASE StageScope
  BY <1>5 DEF StageScope, Written
<1>6. CASE Identify
  BY <1>6 DEF Identify
<1>7. CASE WritePreference
  BY <1>7 DEF WritePreference, Written
<1>8. CASE ResolveSet
  BY <1>8 DEF ResolveSet
<1>9. CASE PickSet
  BY <1>9 DEF PickSet, Written
<1>10. CASE ReadAfter
  BY <1>10 DEF ReadAfter, ReadContext
<1>11. CASE VerifyContext
  BY <1>11 DEF VerifyContext
<1>12. CASE ContextEmit
  BY <1>12 DEF ContextEmit, Emit, WriteOf
<1>. QED
  BY <1>1, <1>2, <1>3, <1>4, <1>5, <1>6, <1>7, <1>8, <1>9, <1>10, <1>11, <1>12 DEF ContextStep

LEMMA VariablesMoves ==
    ASSUME cmd.out \in Sinks, cmd.verb \in VariablesVerbs, VariablesStep
    PROVE  Moves(VariablesSteps)
<1>. USE FailureKinds DEF Moves, VariablesSteps, Late, Told, Common, Sinks, Reading, Goto, Learns,
     Ends, Fails, Rejects
<1>1. CASE VariablesArguments
  BY <1>1 DEF VariablesArguments
<1>2. CASE VariablesConnect
  BY <1>2 DEF VariablesConnect, Connect
<1>3. CASE VariablesRecord
  BY <1>3 DEF VariablesRecord, ResolveRef
<1>4. CASE ResolveOwner
  BY <1>4 DEF ResolveOwner
<1>5. CASE FetchBefore
  BY <1>5 DEF FetchBefore, FetchVars
<1>6. CASE CheckNames
  BY <1>6 DEF CheckNames
<1>7. CASE PutVariables
  BY <1>7 DEF PutVariables, Written
<1>8. CASE FetchAfter
  BY <1>8 DEF FetchAfter, FetchVars
<1>9. CASE CompareVariables
  BY <1>9 DEF CompareVariables
<1>10. CASE VariablesEmit
  BY <1>10 DEF VariablesEmit, Emit, WriteOf
<1>. QED
  BY <1>1, <1>2, <1>3, <1>4, <1>5, <1>6, <1>7, <1>8, <1>9, <1>10 DEF VariablesStep

LEMMA JobMoves ==
    ASSUME cmd.out \in Sinks, cmd.verb \in JobVerbs, JobStep
    PROVE  Moves(JobSteps)
<1>. USE FailureKinds DEF Moves, JobSteps, Late, Told, Common, Sinks, Reading, Goto, Learns,
     Ends, Fails, Rejects
<1>1. CASE JobArguments
  BY <1>1 DEF JobArguments, Declines
<1>2. CASE JobConnect
  BY <1>2 DEF JobConnect, Connect
<1>3. CASE JobPost
  BY <1>3 DEF JobPost, Written
<1>4. CASE Poll
  BY <1>4 DEF Poll
<1>5. CASE Sleep
  BY <1>5 DEF Sleep
<1>6. CASE JobEmit
  BY <1>6 DEF JobEmit, Emit, WriteOf
<1>. QED
  BY <1>1, <1>2, <1>3, <1>4, <1>5, <1>6 DEF JobStep

LEMMA UiMoves ==
    ASSUME cmd.out \in Sinks, cmd.verb \in UiVerbs, UiStep
    PROVE  Moves(UiSteps)
<1>. USE FailureKinds DEF Moves, UiSteps, Late, Told, Common, Sinks, Reading, Goto, Learns,
     Ends, Fails, Rejects
<1>1. CASE UiArguments
  BY <1>1 DEF UiArguments, Declines
<1>2. CASE UiConnect
  BY <1>2 DEF UiConnect, Connect
<1>3. CASE UiSession
  BY <1>3 DEF UiSession
<1>4. CASE ScriptScope
  BY <1>4 DEF ScriptScope
<1>5. CASE PostScript
  BY <1>5 DEF PostScript, Written
<1>6. CASE RollbackContext
  BY <1>6 DEF RollbackContext
<1>7. CASE ScriptVerdict
  BY <1>7 DEF ScriptVerdict
<1>8. CASE UploadXml
  BY <1>8 DEF UploadXml, Written
<1>9. CASE CheckColumns
  BY <1>9 DEF CheckColumns
<1>10. CASE UnloadClient
  BY <1>10 DEF UnloadClient
<1>11. CASE LoadHome
  BY <1>11 DEF LoadHome
<1>12. CASE Download
  BY <1>12 DEF Download
<1>13. CASE CutOff
  BY <1>13 DEF CutOff
<1>14. CASE UiEmit
  BY <1>14 DEF UiEmit, Emit, WriteOf
<1>. QED
  BY <1>1, <1>2, <1>3, <1>4, <1>5, <1>6, <1>7, <1>8, <1>9, <1>10, <1>11, <1>12, <1>13, <1>14
       DEF UiStep

-----------------------------------------------------------------------------
\* Each command goes its own module's way.
InPlace ==
    /\ cmd.verb \in Verbs /\ cmd.out \in Sinks
    /\ cmd.verb \in FlowVerbs => at \in FlowSteps \cup Common
    /\ cmd.verb \in FlowReads => at \in FlowReadSteps \cup Common
    /\ cmd.verb \in DecisionVerbs => at \in DecisionSteps \cup Common
    /\ cmd.verb \in {"doctor"} => at \in DoctorSteps \cup Common
    /\ cmd.verb \in GraphVerbs => at \in GraphSteps \cup Common
    /\ cmd.verb \in ContextVerbs => at \in ContextSteps \cup Common
    /\ cmd.verb \in VariablesVerbs => at \in VariablesSteps \cup Common
    /\ cmd.verb \in JobVerbs => at \in JobSteps \cup Common
    /\ cmd.verb \in UiVerbs => at \in UiSteps \cup Common

LEMMA FlowOwn ==
    ASSUME FlowStep \/ FlowOthers
    PROVE  cmd.verb \in FlowVerbs \/ at \in FlowSteps \ {"ref"}
<1>. USE DEF FlowSteps
<1>1. CASE FlowArguments
  BY <1>1 DEF FlowArguments
<1>2. CASE FlowConnect
  BY <1>2 DEF FlowConnect
<1>3. CASE ResolveFlow
  BY <1>3 DEF ResolveFlow
<1>4. CASE FlowRecord
  BY <1>4 DEF FlowRecord, FlowVerbs
<1>5. CASE FlowRuns
  BY <1>5 DEF FlowRuns
<1>6. CASE WatchFlow
  BY <1>6 DEF WatchFlow
<1>7. CASE ReadTrigger
  BY <1>7 DEF ReadTrigger
<1>8. CASE ReadRecordTrigger
  BY <1>8 DEF ReadRecordTrigger
<1>9. CASE ReadClass
  BY <1>9 DEF ReadClass
<1>10. CASE EvaluateClause
  BY <1>10 DEF EvaluateClause
<1>11. CASE FetchContext
  BY <1>11 DEF FetchContext
<1>12. CASE FetchSteps
  BY <1>12 DEF FetchSteps
<1>13. CASE FetchFailed
  BY <1>13 DEF FetchFailed
<1>14. CASE FetchLogs
  BY <1>14 DEF FetchLogs
<1>15. CASE FlowEmit
  BY <1>15 DEF FlowEmit
<1>16. CASE FlowOthers
  BY <1>16 DEF FlowOthers
<1>. QED
  BY <1>1, <1>2, <1>3, <1>4, <1>5, <1>6, <1>7, <1>8, <1>9, <1>10, <1>11, <1>12, <1>13, <1>14,
       <1>15, <1>16 DEF FlowStep

LEMMA FlowReadOwn ==
    ASSUME FlowReadStep \/ FlowReadOthers
    PROVE  cmd.verb \in FlowReads \/ at \in FlowReadSteps \ {"ref"}
<1>. USE DEF FlowReadSteps
<1>1. CASE FlowReadArguments
  BY <1>1 DEF FlowReadArguments
<1>2. CASE FlowReadConnect
  BY <1>2 DEF FlowReadConnect
<1>3. CASE FlowList
  BY <1>3 DEF FlowList
<1>4. CASE PickFlow
  BY <1>4 DEF PickFlow
<1>5. CASE ReadModel
  BY <1>5 DEF ReadModel
<1>6. CASE EnsureFlowExists
  BY <1>6 DEF EnsureFlowExists
<1>7. CASE FlowReadEmit
  BY <1>7 DEF FlowReadEmit
<1>8. CASE FlowReadOthers
  BY <1>8 DEF FlowReadOthers
<1>. QED
  BY <1>1, <1>2, <1>3, <1>4, <1>5, <1>6, <1>7, <1>8 DEF FlowReadStep

LEMMA DecisionOwn ==
    ASSUME DecisionStep \/ DecisionOthers
    PROVE  cmd.verb \in DecisionVerbs \/ at \in DecisionSteps \ {"ref"}
<1>. USE DEF DecisionSteps
<1>1. CASE DecisionArguments
  BY <1>1 DEF DecisionArguments
<1>2. CASE DecisionConnect
  BY <1>2 DEF DecisionConnect
<1>3. CASE ListTables
  BY <1>3 DEF ListTables
<1>4. CASE ResolveTable
  BY <1>4 DEF ResolveTable
<1>5. CASE FetchDefinition
  BY <1>5 DEF FetchDefinition
<1>6. CASE CheckInputs
  BY <1>6 DEF CheckInputs
<1>7. CASE LookUpInput
  BY <1>7 DEF LookUpInput, DecisionVerbs
<1>8. CASE TakeRecord
  BY <1>8 DEF TakeRecord
<1>9. CASE Evaluate
  BY <1>9 DEF Evaluate
<1>10. CASE DecisionEmit
  BY <1>10 DEF DecisionEmit
<1>11. CASE DecisionOthers
  BY <1>11 DEF DecisionOthers
<1>. QED
  BY <1>1, <1>2, <1>3, <1>4, <1>5, <1>6, <1>7, <1>8, <1>9, <1>10, <1>11 DEF DecisionStep

LEMMA DoctorOwn ==
    ASSUME DoctorStep \/ DoctorOthers
    PROVE  cmd.verb \in {"doctor"} \/ at \in DoctorSteps \ {"ref"}
<1>. USE DEF DoctorSteps
<1>1. CASE DoctorArguments
  BY <1>1 DEF DoctorArguments
<1>2. CASE DoctorConnect
  BY <1>2 DEF DoctorConnect
<1>3. CASE Ask
  BY <1>3 DEF Ask
<1>4. CASE DoctorEmit
  BY <1>4 DEF DoctorEmit
<1>5. CASE DoctorSummary
  BY <1>5 DEF DoctorSummary
<1>6. CASE DoctorOthers
  BY <1>6 DEF DoctorOthers
<1>. QED
  BY <1>1, <1>2, <1>3, <1>4, <1>5, <1>6 DEF DoctorStep

LEMMA GraphOwn ==
    ASSUME GraphStep \/ GraphOthers
    PROVE  cmd.verb \in GraphVerbs \/ at \in GraphSteps \ {"ref"}
<1>. USE DEF GraphSteps
<1>1. CASE GraphArguments
  BY <1>1 DEF GraphArguments
<1>2. CASE GraphConnect
  BY <1>2 DEF GraphConnect
<1>3. CASE GraphRecord
  BY <1>3 DEF GraphRecord, GraphVerbs, PlaybookVerbs
<1>4. CASE Query
  BY <1>4 DEF Query
<1>5. CASE ReadStreams
  BY <1>5 DEF ReadStreams
<1>6. CASE ReadRows
  BY <1>6 DEF ReadRows
<1>7. CASE ListPlaybooks
  BY <1>7 DEF ListPlaybooks
<1>8. CASE StartPlaybook
  BY <1>8 DEF StartPlaybook
<1>9. CASE GraphEmit
  BY <1>9 DEF GraphEmit, GraphVerbs
<1>10. CASE TellErrors
  BY <1>10 DEF TellErrors
<1>11. CASE GraphOthers
  BY <1>11 DEF GraphOthers
<1>. QED
  BY <1>1, <1>2, <1>3, <1>4, <1>5, <1>6, <1>7, <1>8, <1>9, <1>10, <1>11 DEF GraphStep

LEMMA ContextOwn ==
    ASSUME ContextStep
    PROVE  cmd.verb \in ContextVerbs \/ at \in ContextSteps \ {"ref"}
<1>. USE DEF ContextSteps
<1>1. CASE ContextArguments
  BY <1>1 DEF ContextArguments
<1>2. CASE ContextConnect
  BY <1>2 DEF ContextConnect
<1>3. CASE ReadPrevious
  BY <1>3 DEF ReadPrevious, ReadContext
<1>4. CASE ResolveScope
  BY <1>4 DEF ResolveScope
<1>5. CASE StageScope
  BY <1>5 DEF StageScope
<1>6. CASE Identify
  BY <1>6 DEF Identify
<1>7. CASE WritePreference
  BY <1>7 DEF WritePreference
<1>8. CASE ResolveSet
  BY <1>8 DEF ResolveSet
<1>9. CASE PickSet
  BY <1>9 DEF PickSet
<1>10. CASE ReadAfter
  BY <1>10 DEF ReadAfter, ReadContext
<1>11. CASE VerifyContext
  BY <1>11 DEF VerifyContext
<1>12. CASE ContextEmit
  BY <1>12 DEF ContextEmit
<1>. QED
  BY <1>1, <1>2, <1>3, <1>4, <1>5, <1>6, <1>7, <1>8, <1>9, <1>10, <1>11, <1>12 DEF ContextStep

LEMMA VariablesOwn ==
    ASSUME VariablesStep
    PROVE  cmd.verb \in VariablesVerbs \/ at \in VariablesSteps \ {"ref"}
<1>. USE DEF VariablesSteps
<1>1. CASE VariablesArguments
  BY <1>1 DEF VariablesArguments
<1>2. CASE VariablesConnect
  BY <1>2 DEF VariablesConnect
<1>3. CASE VariablesRecord
  BY <1>3 DEF VariablesRecord
<1>4. CASE ResolveOwner
  BY <1>4 DEF ResolveOwner
<1>5. CASE FetchBefore
  BY <1>5 DEF FetchBefore, FetchVars
<1>6. CASE CheckNames
  BY <1>6 DEF CheckNames
<1>7. CASE PutVariables
  BY <1>7 DEF PutVariables
<1>8. CASE FetchAfter
  BY <1>8 DEF FetchAfter, FetchVars
<1>9. CASE CompareVariables
  BY <1>9 DEF CompareVariables
<1>10. CASE VariablesEmit
  BY <1>10 DEF VariablesEmit
<1>. QED
  BY <1>1, <1>2, <1>3, <1>4, <1>5, <1>6, <1>7, <1>8, <1>9, <1>10 DEF VariablesStep

LEMMA JobOwn ==
    ASSUME JobStep \/ JobGoesOn
    PROVE  cmd.verb \in JobVerbs \/ at \in JobSteps \ {"ref"}
<1>. USE DEF JobSteps
<1>1. CASE JobArguments
  BY <1>1 DEF JobArguments
<1>2. CASE JobConnect
  BY <1>2 DEF JobConnect
<1>3. CASE JobPost
  BY <1>3 DEF JobPost
<1>4. CASE Poll
  BY <1>4 DEF Poll
<1>5. CASE Sleep
  BY <1>5 DEF Sleep
<1>6. CASE JobEmit
  BY <1>6 DEF JobEmit
<1>7. CASE JobGoesOn
  BY <1>7 DEF JobGoesOn, JobVerbs
<1>. QED
  BY <1>1, <1>2, <1>3, <1>4, <1>5, <1>6, <1>7 DEF JobStep

LEMMA UiOwn ==
    ASSUME UiStep \/ UiOthers
    PROVE  cmd.verb \in UiVerbs \/ at \in UiSteps \ {"ref"}
<1>. USE DEF UiSteps
<1>1. CASE UiArguments
  BY <1>1 DEF UiArguments
<1>2. CASE UiConnect
  BY <1>2 DEF UiConnect
<1>3. CASE UiSession
  BY <1>3 DEF UiSession
<1>4. CASE ScriptScope
  BY <1>4 DEF ScriptScope
<1>5. CASE PostScript
  BY <1>5 DEF PostScript
<1>6. CASE RollbackContext
  BY <1>6 DEF RollbackContext
<1>7. CASE ScriptVerdict
  BY <1>7 DEF ScriptVerdict
<1>8. CASE UploadXml
  BY <1>8 DEF UploadXml
<1>9. CASE CheckColumns
  BY <1>9 DEF CheckColumns
<1>10. CASE UnloadClient
  BY <1>10 DEF UnloadClient
<1>11. CASE LoadHome
  BY <1>11 DEF LoadHome
<1>12. CASE Download
  BY <1>12 DEF Download
<1>13. CASE CutOff
  BY <1>13 DEF CutOff, UiVerbs
<1>14. CASE UiEmit
  BY <1>14 DEF UiEmit
<1>15. CASE UiOthers
  BY <1>15 DEF UiOthers, UiVerbs
<1>. QED
  BY <1>1, <1>2, <1>3, <1>4, <1>5, <1>6, <1>7, <1>8, <1>9, <1>10, <1>11, <1>12, <1>13, <1>14,
       <1>15 DEF UiStep

\* A command's steps, and what others may do meanwhile, are of its own module.
Mine ==
    \/ cmd.verb \in FlowVerbs /\ (FlowStep \/ FlowOthers)
    \/ cmd.verb \in FlowReads /\ (FlowReadStep \/ FlowReadOthers)
    \/ cmd.verb \in DecisionVerbs /\ (DecisionStep \/ DecisionOthers)
    \/ cmd.verb \in {"doctor"} /\ (DoctorStep \/ DoctorOthers)
    \/ cmd.verb \in GraphVerbs /\ (GraphStep \/ GraphOthers)
    \/ cmd.verb \in ContextVerbs /\ (ContextStep \/ ReadBackOthers)
    \/ cmd.verb \in VariablesVerbs /\ (VariablesStep \/ ReadBackOthers)
    \/ cmd.verb \in JobVerbs /\ (JobStep \/ JobGoesOn)
    \/ cmd.verb \in UiVerbs /\ (UiStep \/ UiOthers)

LEMMA Apart ==
    ASSUME InPlace, Next
    PROVE  Mine
<1>. USE DEF InPlace, Verbs, Common, FlowSteps, FlowReadSteps, DecisionSteps, DoctorSteps,
     GraphSteps, ContextSteps, VariablesSteps, JobSteps, UiSteps
<1>1. ASSUME FlowStep \/ FlowOthers PROVE cmd.verb \in FlowVerbs
  BY <1>1, FlowOwn
<1>2. ASSUME FlowReadStep \/ FlowReadOthers PROVE cmd.verb \in FlowReads
  BY <1>2, FlowReadOwn
<1>3. ASSUME DecisionStep \/ DecisionOthers PROVE cmd.verb \in DecisionVerbs
  BY <1>3, DecisionOwn
<1>4. ASSUME DoctorStep \/ DoctorOthers PROVE cmd.verb \in {"doctor"}
  BY <1>4, DoctorOwn
<1>5. ASSUME GraphStep \/ GraphOthers PROVE cmd.verb \in GraphVerbs
  BY <1>5, GraphOwn
<1>6. ASSUME ContextStep PROVE cmd.verb \in ContextVerbs
  BY <1>6, ContextOwn
<1>7. ASSUME VariablesStep PROVE cmd.verb \in VariablesVerbs
  BY <1>7, VariablesOwn
<1>8. ASSUME JobStep \/ JobGoesOn PROVE cmd.verb \in JobVerbs
  BY <1>8, JobOwn
<1>9. ASSUME UiStep \/ UiOthers PROVE cmd.verb \in UiVerbs
  BY <1>9, UiOwn
<1>10. ReadBackStep => ContextStep \/ VariablesStep
  BY DEF ReadBackStep, ContextStep, VariablesStep
<1>11. ReadBackOthers => cmd.verb \in ContextVerbs \/ cmd.verb \in VariablesVerbs
  BY DEF ReadBackOthers
<1>. HIDE DEF InPlace, Verbs, Common, FlowSteps, FlowReadSteps, DecisionSteps, DoctorSteps,
     GraphSteps, ContextSteps, VariablesSteps, JobSteps, UiSteps
<1>. QED
  BY <1>1, <1>2, <1>3, <1>4, <1>5, <1>6, <1>7, <1>8, <1>9, <1>10, <1>11
  DEF Mine, Next, Step, Environment

-----------------------------------------------------------------------------
\* The control of a command.

\* It is running until it is done, it writes late, it tells its verdict only once its
\* result is out, and a refusal of the command line comes before any write.
Orderly ==
    /\ InPlace
    /\ at # "done" => outcome = "running"
    /\ outcome \in {"running"} \cup DOMAIN ExitCode
    /\ at \notin Late => wrote = {}
    /\ outcome \in {"Usage", "Config"} => wrote = {}
    /\ at \in Told => printed
    /\ outcome \in {"ok", "BrokenPipe"} => printed \/ cmd.out = "gone"

\* A step of the command, or one that it does not notice.
Goes ==
    \/ \E steps : Moves(steps) /\ (InPlace => InPlace')
    \/ UNCHANGED <<cmd, at, know, outcome, wrote, printed>>

LEMMA Onwards ==
    ASSUME InPlace, Next
    PROVE  Goes
<1>. DEFINE Unnoticed == UNCHANGED <<cmd, at, know, outcome, wrote, printed>>
<1>. USE DEF InPlace, Verbs, Moves, FlowVerbs, FlowReads, DecisionVerbs, GraphVerbs, PlaybookVerbs,
     ContextVerbs, VariablesVerbs, JobVerbs, StartingJobs, DestructiveJobs, OneRequest, UiVerbs
<1>1. ASSUME cmd.verb \in FlowVerbs, FlowStep PROVE Goes
  <2>1. Moves(FlowSteps)
    BY <1>1, FlowMoves
  <2>2. InPlace'
    BY <2>1, <1>1
  <2>. QED
    BY <2>1, <2>2 DEF Goes
<1>2. ASSUME cmd.verb \in FlowReads, FlowReadStep PROVE Goes
  <2>1. Moves(FlowReadSteps)
    BY <1>2, FlowReadMoves
  <2>2. InPlace'
    BY <2>1, <1>2
  <2>. QED
    BY <2>1, <2>2 DEF Goes
<1>3. ASSUME cmd.verb \in DecisionVerbs, DecisionStep PROVE Goes
  <2>1. Moves(DecisionSteps)
    BY <1>3, DecisionMoves
  <2>2. InPlace'
    BY <2>1, <1>3
  <2>. QED
    BY <2>1, <2>2 DEF Goes
<1>4. ASSUME cmd.verb \in {"doctor"}, DoctorStep PROVE Goes
  <2>1. Moves(DoctorSteps)
    BY <1>4, DoctorMoves
  <2>2. InPlace'
    BY <2>1, <1>4
  <2>. QED
    BY <2>1, <2>2 DEF Goes
<1>5. ASSUME cmd.verb \in GraphVerbs, GraphStep PROVE Goes
  <2>1. Moves(GraphSteps)
    BY <1>5, GraphMoves
  <2>2. InPlace'
    BY <2>1, <1>5
  <2>. QED
    BY <2>1, <2>2 DEF Goes
<1>6. ASSUME cmd.verb \in ContextVerbs, ContextStep PROVE Goes
  <2>1. Moves(ContextSteps)
    BY <1>6, ContextMoves
  <2>2. InPlace'
    BY <2>1, <1>6
  <2>. QED
    BY <2>1, <2>2 DEF Goes
<1>7. ASSUME cmd.verb \in VariablesVerbs, VariablesStep PROVE Goes
  <2>1. Moves(VariablesSteps)
    BY <1>7, VariablesMoves
  <2>2. InPlace'
    BY <2>1, <1>7
  <2>. QED
    BY <2>1, <2>2 DEF Goes
<1>8. ASSUME cmd.verb \in JobVerbs, JobStep PROVE Goes
  <2>1. Moves(JobSteps)
    BY <1>8, JobMoves
  <2>2. InPlace'
    BY <2>1, <1>8
  <2>. QED
    BY <2>1, <2>2 DEF Goes
<1>9. ASSUME cmd.verb \in UiVerbs, UiStep PROVE Goes
  <2>1. Moves(UiSteps)
    BY <1>9, UiMoves
  <2>2. InPlace'
    BY <2>1, <1>9
  <2>. QED
    BY <2>1, <2>2 DEF Goes
<1>10. ASSUME Environment PROVE Unnoticed
  BY <1>10 DEF Environment, FlowOthers, FlowReadOthers, DecisionOthers, DoctorOthers, GraphOthers,
     ReadBackOthers, JobGoesOn, UiOthers, Others
<1>11. Mine
  BY Apart
<1>. HIDE DEF InPlace, Verbs, Moves, FlowVerbs, FlowReads, DecisionVerbs, GraphVerbs, PlaybookVerbs,
     ContextVerbs, VariablesVerbs, JobVerbs, StartingJobs, DestructiveJobs, OneRequest, UiVerbs
<1>. QED
  BY <1>1, <1>2, <1>3, <1>4, <1>5, <1>6, <1>7, <1>8, <1>9, <1>10, <1>11
  DEF Mine, Environment, Goes

LEMMA OrderlyAtFirst ==
    ASSUME Init
    PROVE  Orderly
<1>1. cmd \in Commands /\ at = "argv" /\ outcome = "running" /\ wrote = {}
  BY DEF Init, Started
<1>2. cmd.verb \in Verbs /\ cmd.out \in Sinks
  BY <1>1, CommandLines DEF Sinks
<1>. QED
  BY <1>1, <1>2 DEF Orderly, InPlace, Common, Late, Told

LEMMA StaysOrderly ==
    ASSUME Orderly, [Next]_vars
    PROVE  Orderly'
<1>1. CASE Next
  <2>1. Goes /\ InPlace
    BY <1>1, Onwards DEF Orderly
  <2>2. CASE UNCHANGED <<cmd, at, know, outcome, wrote, printed>>
    BY <2>2 DEF Orderly, InPlace
  <2>3. ASSUME NEW steps, Moves(steps), InPlace' PROVE Orderly'
    BY <2>3 DEF Orderly, Moves, Late, Told, ExitCode
  <2>. QED
    BY <2>1, <2>2, <2>3 DEF Goes
<1>2. CASE UNCHANGED vars
  BY <1>2 DEF vars, Orderly, InPlace
<1>. QED
  BY <1>1, <1>2

\* Of every command line, instance and interference: exit code 1 says that nothing was
\* written, and exit code 0 that the result reached a reader who stayed.
THEOREM ExitCodes == Spec => []ExitCodeTells
<1>1. Orderly => ExitCodeTells
  BY DEF Orderly, ExitCodeTells, UsageMeansUntouched, ZeroMeansDelivered, ExitsZero, ExitCode
<1>. QED
  BY <1>1, OrderlyAtFirst, StaysOrderly, PTL DEF Spec

-----------------------------------------------------------------------------
\* What changes at an instance, by the command itself and by others, is in these
\* fields at most.
Alters(fields) ==
    /\ inst' = [f \in DOMAIN inst |-> inst'[f]]
    /\ \A f \in DOMAIN inst \ fields : inst'[f] = inst[f]

LEMMA FlowAlters ==
    ASSUME inst = [f \in DOMAIN inst |-> inst[f]], cmd.verb \in FlowVerbs, FlowStep \/
           FlowOthers
    PROVE  Alters({"run", "flags", "trigger", "holds"})
<1>. USE DEF Alters, Reading
<1>1. CASE FlowArguments
  BY <1>1 DEF FlowArguments
<1>2. CASE FlowConnect
  BY <1>2 DEF FlowConnect, Connect
<1>3. CASE ResolveFlow
  BY <1>3 DEF ResolveFlow
<1>4. CASE FlowRecord
  BY <1>4 DEF FlowRecord, ResolveRef
<1>5. CASE FlowRuns
  BY <1>5 DEF FlowRuns
<1>6. CASE WatchFlow
  BY <1>6 DEF WatchFlow
<1>7. CASE ReadTrigger
  BY <1>7 DEF ReadTrigger
<1>8. CASE ReadRecordTrigger
  BY <1>8 DEF ReadRecordTrigger
<1>9. CASE ReadClass
  BY <1>9 DEF ReadClass
<1>10. CASE EvaluateClause
  BY <1>10 DEF EvaluateClause
<1>11. CASE FetchContext
  BY <1>11 DEF FetchContext
<1>12. CASE FetchSteps
  BY <1>12 DEF FetchSteps
<1>13. CASE FetchFailed
  BY <1>13 DEF FetchFailed
<1>14. CASE FetchLogs
  BY <1>14 DEF FetchLogs
<1>15. CASE FlowEmit
  BY <1>15 DEF FlowEmit, Emit
<1>16. CASE FlowOthers
  BY <1>16 DEF FlowOthers, Others
<1>. QED
  BY <1>1, <1>2, <1>3, <1>4, <1>5, <1>6, <1>7, <1>8, <1>9, <1>10, <1>11, <1>12, <1>13, <1>14,
       <1>15, <1>16 DEF FlowStep

LEMMA FlowReadAlters ==
    ASSUME inst = [f \in DOMAIN inst |-> inst[f]], cmd.verb \in FlowReads, FlowReadStep \/
           FlowReadOthers
    PROVE  Alters({"flows", "history"})
<1>. USE DEF Alters, Reading
<1>1. CASE FlowReadArguments
  BY <1>1 DEF FlowReadArguments
<1>2. CASE FlowReadConnect
  BY <1>2 DEF FlowReadConnect, Connect
<1>3. CASE FlowList
  BY <1>3 DEF FlowList
<1>4. CASE PickFlow
  BY <1>4 DEF PickFlow
<1>5. CASE ReadModel
  BY <1>5 DEF ReadModel
<1>6. CASE EnsureFlowExists
  BY <1>6 DEF EnsureFlowExists
<1>7. CASE FlowReadEmit
  BY <1>7 DEF FlowReadEmit, Emit
<1>8. CASE FlowReadOthers
  BY <1>8 DEF FlowReadOthers, Others
<1>. QED
  BY <1>1, <1>2, <1>3, <1>4, <1>5, <1>6, <1>7, <1>8 DEF FlowReadStep

LEMMA DecisionAlters ==
    ASSUME inst = [f \in DOMAIN inst |-> inst[f]], cmd.verb \in DecisionVerbs, DecisionStep \/
           DecisionOthers
    PROVE  Alters({"rows", "inputs"})
<1>. USE DEF Alters, Reading
<1>1. CASE DecisionArguments
  BY <1>1 DEF DecisionArguments
<1>2. CASE DecisionConnect
  BY <1>2 DEF DecisionConnect, Connect
<1>3. CASE ListTables
  BY <1>3 DEF ListTables
<1>4. CASE ResolveTable
  BY <1>4 DEF ResolveTable
<1>5. CASE FetchDefinition
  BY <1>5 DEF FetchDefinition
<1>6. CASE CheckInputs
  BY <1>6 DEF CheckInputs
<1>7. CASE LookUpInput
  BY <1>7 DEF LookUpInput, ResolveRef
<1>8. CASE TakeRecord
  BY <1>8 DEF TakeRecord
<1>9. CASE Evaluate
  BY <1>9 DEF Evaluate
<1>10. CASE DecisionEmit
  BY <1>10 DEF DecisionEmit, Emit
<1>11. CASE DecisionOthers
  BY <1>11 DEF DecisionOthers, Others
<1>. QED
  BY <1>1, <1>2, <1>3, <1>4, <1>5, <1>6, <1>7, <1>8, <1>9, <1>10, <1>11 DEF DecisionStep

LEMMA DoctorAlters ==
    ASSUME inst = [f \in DOMAIN inst |-> inst[f]], cmd.verb \in {"doctor"}, DoctorStep \/
           DoctorOthers
    PROVE  Alters({"holds", "plugins", "values"})
<1>. USE DEF Alters, Reading
<1>1. CASE DoctorArguments
  BY <1>1 DEF DoctorArguments
<1>2. CASE DoctorConnect
  BY <1>2 DEF DoctorConnect, Connect
<1>3. CASE Ask
  BY <1>3 DEF Ask
<1>4. CASE DoctorEmit
  BY <1>4 DEF DoctorEmit, Emit
<1>5. CASE DoctorSummary
  BY <1>5 DEF DoctorSummary
<1>6. CASE DoctorOthers
  BY <1>6 DEF DoctorOthers, Others
<1>. QED
  BY <1>1, <1>2, <1>3, <1>4, <1>5, <1>6 DEF DoctorStep

LEMMA GraphAlters ==
    ASSUME inst = [f \in DOMAIN inst |-> inst[f]], cmd.verb \in GraphVerbs, GraphStep \/
           GraphOthers
    PROVE  Alters({"held", "readable", "visible"})
<1>. USE DEF Alters, Reading
<1>1. CASE GraphArguments
  BY <1>1 DEF GraphArguments
<1>2. CASE GraphConnect
  BY <1>2 DEF GraphConnect, Connect
<1>3. CASE GraphRecord
  BY <1>3 DEF GraphRecord, ResolveRef
<1>4. CASE Query
  BY <1>4 DEF Query, Written
<1>5. CASE ReadStreams
  BY <1>5 DEF ReadStreams
<1>6. CASE ReadRows
  BY <1>6 DEF ReadRows
<1>7. CASE ListPlaybooks
  BY <1>7 DEF ListPlaybooks
<1>8. CASE StartPlaybook
  BY <1>8 DEF StartPlaybook, Written
<1>9. CASE GraphEmit
  BY <1>9 DEF GraphEmit, Emit
<1>10. CASE TellErrors
  BY <1>10 DEF TellErrors
<1>11. CASE GraphOthers
  BY <1>11 DEF GraphOthers, Others
<1>. QED
  BY <1>1, <1>2, <1>3, <1>4, <1>5, <1>6, <1>7, <1>8, <1>9, <1>10, <1>11 DEF GraphStep

LEMMA ContextAlters ==
    ASSUME inst = [f \in DOMAIN inst |-> inst[f]], cmd.verb \in ContextVerbs, ContextStep \/
           ReadBackOthers
    PROVE  Alters({"prefScope", "prefSet", "sets"})
<1>. USE DEF Alters, Reading
<1>1. CASE ContextArguments
  BY <1>1 DEF ContextArguments
<1>2. CASE ContextConnect
  BY <1>2 DEF ContextConnect, Connect
<1>3. CASE ReadPrevious
  BY <1>3 DEF ReadPrevious, ReadContext, Resolved
<1>4. CASE ResolveScope
  BY <1>4 DEF ResolveScope
<1>5. CASE StageScope
  BY <1>5 DEF StageScope, Written
<1>6. CASE Identify
  BY <1>6 DEF Identify
<1>7. CASE WritePreference
  BY <1>7 DEF WritePreference, Written
<1>8. CASE ResolveSet
  BY <1>8 DEF ResolveSet
<1>9. CASE PickSet
  BY <1>9 DEF PickSet, Written
<1>10. CASE ReadAfter
  BY <1>10 DEF ReadAfter, ReadContext, Resolved
<1>11. CASE VerifyContext
  BY <1>11 DEF VerifyContext
<1>12. CASE ContextEmit
  BY <1>12 DEF ContextEmit, Emit
<1>13. CASE ReadBackOthers
  BY <1>13 DEF ReadBackOthers, Others, ContextVerbs, VariablesVerbs
<1>. QED
  BY <1>1, <1>2, <1>3, <1>4, <1>5, <1>6, <1>7, <1>8, <1>9, <1>10, <1>11, <1>12, <1>13 DEF
       ContextStep

LEMMA VariablesAlters ==
    ASSUME inst = [f \in DOMAIN inst |-> inst[f]], cmd.verb \in VariablesVerbs, VariablesStep
           \/ ReadBackOthers
    PROVE  Alters({"pool"})
<1>. USE DEF Alters, Reading
<1>1. CASE VariablesArguments
  BY <1>1 DEF VariablesArguments
<1>2. CASE VariablesConnect
  BY <1>2 DEF VariablesConnect, Connect
<1>3. CASE VariablesRecord
  BY <1>3 DEF VariablesRecord, ResolveRef
<1>4. CASE ResolveOwner
  BY <1>4 DEF ResolveOwner
<1>5. CASE FetchBefore
  BY <1>5 DEF FetchBefore, FetchVars
<1>6. CASE CheckNames
  BY <1>6 DEF CheckNames
<1>7. CASE PutVariables
  BY <1>7 DEF PutVariables, Written
<1>8. CASE FetchAfter
  BY <1>8 DEF FetchAfter, FetchVars
<1>9. CASE CompareVariables
  BY <1>9 DEF CompareVariables
<1>10. CASE VariablesEmit
  BY <1>10 DEF VariablesEmit, Emit
<1>11. CASE ReadBackOthers
  BY <1>11 DEF ReadBackOthers, Others, ContextVerbs, VariablesVerbs
<1>. QED
  BY <1>1, <1>2, <1>3, <1>4, <1>5, <1>6, <1>7, <1>8, <1>9, <1>10, <1>11 DEF VariablesStep

LEMMA JobAlters ==
    ASSUME inst = [f \in DOMAIN inst |-> inst[f]], cmd.verb \in JobVerbs, JobStep \/ JobGoesOn
    PROVE  Alters({"job"})
<1>. USE DEF Alters, Reading
<1>1. CASE JobArguments
  BY <1>1 DEF JobArguments, Declines
<1>2. CASE JobConnect
  BY <1>2 DEF JobConnect, Connect
<1>3. CASE JobPost
  BY <1>3 DEF JobPost, Written
<1>4. CASE Poll
  BY <1>4 DEF Poll
<1>5. CASE Sleep
  BY <1>5 DEF Sleep
<1>6. CASE JobEmit
  BY <1>6 DEF JobEmit, Emit
<1>7. CASE JobGoesOn
  BY <1>7 DEF JobGoesOn
<1>. QED
  BY <1>1, <1>2, <1>3, <1>4, <1>5, <1>6, <1>7 DEF JobStep

LEMMA UiAlters ==
    ASSUME inst = [f \in DOMAIN inst |-> inst[f]], cmd.verb \in UiVerbs, UiStep \/ UiOthers
    PROVE  Alters({"scopes", "schema"})
<1>. USE DEF Alters, Reading
<1>1. CASE UiArguments
  BY <1>1 DEF UiArguments, Declines
<1>2. CASE UiConnect
  BY <1>2 DEF UiConnect, Connect
<1>3. CASE UiSession
  BY <1>3 DEF UiSession
<1>4. CASE ScriptScope
  BY <1>4 DEF ScriptScope
<1>5. CASE PostScript
  BY <1>5 DEF PostScript, Written
<1>6. CASE RollbackContext
  BY <1>6 DEF RollbackContext
<1>7. CASE ScriptVerdict
  BY <1>7 DEF ScriptVerdict
<1>8. CASE UploadXml
  BY <1>8 DEF UploadXml, Written
<1>9. CASE CheckColumns
  BY <1>9 DEF CheckColumns
<1>10. CASE UnloadClient
  BY <1>10 DEF UnloadClient
<1>11. CASE LoadHome
  BY <1>11 DEF LoadHome
<1>12. CASE Download
  BY <1>12 DEF Download
<1>13. CASE CutOff
  BY <1>13 DEF CutOff
<1>14. CASE UiEmit
  BY <1>14 DEF UiEmit, Emit
<1>15. CASE UiOthers
  BY <1>15 DEF UiOthers, Others
<1>. QED
  BY <1>1, <1>2, <1>3, <1>4, <1>5, <1>6, <1>7, <1>8, <1>9, <1>10, <1>11, <1>12, <1>13, <1>14,
       <1>15 DEF UiStep

-----------------------------------------------------------------------------
\* The instance keeps its shape, whoever changes it.
LEMMA Fields ==
    ASSUME cmd.verb \in Verbs, Shaped(cmd, inst)
    PROVE  inst = [f \in DOMAIN inst |-> inst[f]]
BY DEF Verbs, Shaped, Has, FlowVerbs, FlowReads, DecisionVerbs, GraphVerbs, PlaybookVerbs,
   ContextVerbs, VariablesVerbs, JobVerbs, StartingJobs, DestructiveJobs, OneRequest, UiVerbs

LEMMA FlowShape ==
    ASSUME cmd.verb \in FlowVerbs, Shaped(cmd, inst), Alters({"run", "flags", "trigger", "holds"})
    PROVE  Shaped(cmd, inst')
BY DEF Alters, Shaped, Has, FlowVerbs, FlowReads, DecisionVerbs, GraphVerbs, PlaybookVerbs,
   ContextVerbs, VariablesVerbs, JobVerbs, StartingJobs, DestructiveJobs, OneRequest, UiVerbs

LEMMA GraphShape ==
    ASSUME cmd.verb \in GraphVerbs, Shaped(cmd, inst), Alters({"held", "readable", "visible"})
    PROVE  Shaped(cmd, inst')
BY DEF Alters, Shaped, Has, FlowVerbs, FlowReads, DecisionVerbs, GraphVerbs, PlaybookVerbs,
   ContextVerbs, VariablesVerbs, JobVerbs, StartingJobs, DestructiveJobs, OneRequest, UiVerbs

LEMMA ContextShape ==
    ASSUME cmd.verb \in ContextVerbs, Shaped(cmd, inst), Alters({"prefScope", "prefSet", "sets"})
    PROVE  Shaped(cmd, inst')
BY DEF Alters, Shaped, Has, FlowVerbs, FlowReads, DecisionVerbs, GraphVerbs, PlaybookVerbs,
   ContextVerbs, VariablesVerbs, JobVerbs, StartingJobs, DestructiveJobs, OneRequest, UiVerbs

LEMMA VariablesShape ==
    ASSUME cmd.verb \in VariablesVerbs, Shaped(cmd, inst), Alters({"pool"})
    PROVE  Shaped(cmd, inst')
BY DEF Alters, Shaped, Has, FlowVerbs, FlowReads, DecisionVerbs, GraphVerbs, PlaybookVerbs,
   ContextVerbs, VariablesVerbs, JobVerbs, StartingJobs, DestructiveJobs, OneRequest, UiVerbs

LEMMA JobShape ==
    ASSUME cmd.verb \in JobVerbs, Shaped(cmd, inst), Alters({"job"})
    PROVE  Shaped(cmd, inst')
BY DEF Alters, Shaped, Has, FlowVerbs, FlowReads, DecisionVerbs, GraphVerbs, PlaybookVerbs,
   ContextVerbs, VariablesVerbs, JobVerbs, StartingJobs, DestructiveJobs, OneRequest, UiVerbs

LEMMA UiShape ==
    ASSUME cmd.verb \in UiVerbs, Shaped(cmd, inst), Alters({"scopes", "schema"})
    PROVE  Shaped(cmd, inst')
BY DEF Alters, Shaped, Has, FlowVerbs, FlowReads, DecisionVerbs, GraphVerbs, PlaybookVerbs,
   ContextVerbs, VariablesVerbs, JobVerbs, StartingJobs, DestructiveJobs, OneRequest, UiVerbs

LEMMA FlowReadShape ==
    ASSUME cmd.verb \in FlowReads, Shaped(cmd, inst), FlowReadStep \/ FlowReadOthers
    PROVE  Shaped(cmd, inst')
<1>1. inst = [f \in DOMAIN inst |-> inst[f]] /\ {"flows", "history"} \subseteq DOMAIN inst
      /\ inst.history \subseteq inst.flows
  <2>1. Has(inst, {"flows", "named", "fits", "history", "error", "drops"})
        /\ inst.history \subseteq inst.flows
    BY DEF Shaped
  <2>. QED
    BY <2>1 DEF Has
<1>2. Alters({"flows", "history"})
  BY <1>1, FlowReadAlters
<1>3. inst' = inst \/ FlowReadOthers
  BY DEF FlowReadStep, FlowReadArguments, FlowReadConnect, Connect, FlowList, PickFlow, ReadModel,
     EnsureFlowExists, FlowReadEmit, Emit, Reading
<1>4. inst'.history \subseteq inst'.flows
  <2>1. ASSUME NEW f \in inst.flows,
               inst' = [inst EXCEPT !.flows = @ \ {f}, !.history = @ \ {f}]
        PROVE  inst'.history \subseteq inst'.flows
    <3>1. inst'.flows = inst.flows \ {f} /\ inst'.history = inst.history \ {f}
      BY <1>1, <2>1
    <3>. QED
      BY <1>1, <3>1
  <2>2. ASSUME NEW f \in inst.flows, inst' = [inst EXCEPT !.history = @ \cup {f}]
        PROVE  inst'.history \subseteq inst'.flows
    <3>1. inst'.flows = inst.flows /\ inst'.history = inst.history \cup {f}
      BY <1>1, <2>2
    <3>. QED
      BY <1>1, <3>1
  <2>. QED
    BY <1>1, <1>3, <2>1, <2>2 DEF FlowReadOthers, Others
<1>. QED
  BY <1>2, <1>4 DEF Alters, Shaped, Has, FlowVerbs, FlowReads, DecisionVerbs, GraphVerbs,
     PlaybookVerbs, ContextVerbs, VariablesVerbs, JobVerbs, StartingJobs, DestructiveJobs,
     OneRequest, UiVerbs

LEMMA DecisionShape ==
    ASSUME cmd.verb \in DecisionVerbs, Shaped(cmd, inst), DecisionStep \/ DecisionOthers
    PROVE  Shaped(cmd, inst')
<1>. DEFINE Sound(inputs) ==
        \A n \in DOMAIN inputs :
           /\ Has(inputs[n], {"kind", "mandatory", "active", "choices", "reference"})
           /\ inputs[n].kind \in {"string", "boolean", "choice", "reference"}
<1>1. inst = [f \in DOMAIN inst |-> inst[f]] /\ {"rows", "inputs"} \subseteq DOMAIN inst
      /\ Sound(inst.inputs)
  <2>1. Has(inst, {"tables", "named", "drops", "access", "inputs", "rows", "matching",
                   "records", "numbered"})
        /\ Sound(inst.inputs)
    BY DEF Shaped
  <2>. HIDE DEF Sound
  <2>. QED
    BY <2>1 DEF Has
<1>2. Alters({"rows", "inputs"})
  BY <1>1, DecisionAlters
<1>3. inst' = inst \/ DecisionOthers
  BY DEF DecisionStep, DecisionArguments, DecisionConnect, Connect, ListTables, ResolveTable,
     FetchDefinition, CheckInputs, LookUpInput, ResolveRef, TakeRecord, Evaluate, DecisionEmit,
     Emit, Reading
<1>4. Sound(inst'.inputs)
  <2>1. CASE inst'.inputs = inst.inputs
    BY <1>1, <2>1
  <2>2. ASSUME NEW n \in DOMAIN inst.inputs,
               inst' = [inst EXCEPT !.inputs[n].mandatory = TRUE]
        PROVE  Sound(inst'.inputs)
    <3>1. inst'.inputs = [inst.inputs EXCEPT ![n] = [@ EXCEPT !.mandatory = TRUE]]
      BY <2>2, <1>1
    <3>. DEFINE new == [inst.inputs[n] EXCEPT !.mandatory = TRUE]
    <3>2. /\ Has(new, {"kind", "mandatory", "active", "choices", "reference"})
          /\ new.kind \in {"string", "boolean", "choice", "reference"}
      BY <1>1 DEF Has
    <3>3. inst'.inputs = [inst.inputs EXCEPT ![n] = new]
      BY <3>1
    <3>. HIDE DEF new
    <3>4. DOMAIN inst'.inputs = DOMAIN inst.inputs
      BY <3>3
    <3>5. \A m \in DOMAIN inst.inputs : inst'.inputs[m] = IF m = n THEN new ELSE inst.inputs[m]
      BY <3>3
    <3>. QED
      BY <3>2, <3>4, <3>5, <1>1
  <2>. QED
    BY <2>1, <2>2, <1>1, <1>3 DEF DecisionOthers, Others
<1>. QED
  BY <1>2, <1>4 DEF Alters, Shaped, Has, FlowVerbs, FlowReads, DecisionVerbs, GraphVerbs,
     PlaybookVerbs, ContextVerbs, VariablesVerbs, JobVerbs, StartingJobs, DestructiveJobs,
     OneRequest, UiVerbs

LEMMA DoctorShape ==
    ASSUME cmd.verb \in {"doctor"}, Shaped(cmd, inst), DoctorStep \/ DoctorOthers
    PROVE  Shaped(cmd, inst')
<1>1. inst = [f \in DOMAIN inst |-> inst[f]] /\ {"holds", "plugins", "values"} \subseteq DOMAIN inst
      /\ \A p \in DOMAIN inst.values : inst.values[p] \notin {"null", "unset"}
  <2>1. /\ Has(inst, {"missing", "broken", "admin", "holds", "elevated", "roles", "drops",
                      "denies", "plugins", "values", "secret"})
        /\ \A p \in DOMAIN inst.values : inst.values[p] \notin {"null", "unset"}
    BY DEF Shaped
  <2>. QED
    BY <2>1 DEF Has
<1>2. Alters({"holds", "plugins", "values"})
  BY <1>1, DoctorAlters
<1>3. inst' = inst \/ DoctorOthers
  BY DEF DoctorStep, DoctorArguments, DoctorConnect, Connect, Ask, DoctorEmit, Emit, DoctorSummary,
     Reading
<1>4. \A p \in DOMAIN inst'.values : inst'.values[p] \notin {"null", "unset"}
  BY <1>1, <1>3 DEF DoctorOthers, Others
<1>. QED
  BY <1>2, <1>4 DEF Alters, Shaped, Has, FlowVerbs, FlowReads, DecisionVerbs, GraphVerbs,
     PlaybookVerbs, ContextVerbs, VariablesVerbs, JobVerbs, StartingJobs, DestructiveJobs,
     OneRequest, UiVerbs

\* What the proofs below take for granted of a command and its instance.
Proper == Orderly /\ Shaped(cmd, inst)

LEMMA ProperAtFirst ==
    ASSUME Init
    PROVE  Proper
BY OrderlyAtFirst, CommandLines DEF Proper, Init, Started

LEMMA SameCommand ==
    ASSUME InPlace, Next
    PROVE  cmd' = cmd
BY Onwards DEF Goes, Moves

LEMMA StaysProper ==
    ASSUME Proper, [Next]_vars
    PROVE  Proper'
<1>1. Orderly'
  BY StaysOrderly DEF Proper
<1>2. CASE Next
  <2>1. cmd' = cmd /\ Mine /\ cmd.verb \in Verbs
    BY <1>2, SameCommand, Apart DEF Proper, Orderly, InPlace
  <2>2. Shaped(cmd, inst) /\ inst = [f \in DOMAIN inst |-> inst[f]]
    BY <2>1, Fields DEF Proper
  <2>3. Shaped(cmd, inst')
    BY <2>1, <2>2, FlowAlters, FlowShape, FlowReadShape, DecisionShape, DoctorShape, GraphAlters,
       GraphShape, ContextAlters, ContextShape, VariablesAlters, VariablesShape, JobAlters,
       JobShape, UiAlters, UiShape DEF Mine
  <2>. QED
    BY <1>1, <2>1, <2>3 DEF Proper
<1>3. CASE UNCHANGED vars
  BY <1>1, <1>3 DEF vars, Proper
<1>. QED
  BY <1>2, <1>3

-----------------------------------------------------------------------------
\* The jobs: at the end of a --wait, the job has ended well.
JobIsOver ==
    /\ cmd.verb \in StartingJobs /\ (at = "emit" \/ outcome \in {"ok", "BrokenPipe"})
    /\ cmd.wait /\ inst.linked
    => inst.job = "2"

LEMMA JobStaysOver ==
    ASSUME Proper, cmd.verb \in JobVerbs, JobIsOver, JobStep \/ JobGoesOn
    PROVE  JobIsOver'
<1>. at # "done" => outcome = "running"
  BY DEF Proper, Orderly
<1>. inst = [f \in DOMAIN inst |-> inst[f]] /\ {"job", "linked", "odd"} \subseteq DOMAIN inst
  BY DEF Proper, Shaped, Has
<1>. cmd.out \in Sinks
  BY DEF Proper, Orderly, InPlace
<1>. Failure \subseteq {"Transport", "Auth", "Api"}
  BY FailureKinds
<1>. USE DEF JobIsOver, Reading, Goto, Learns, Ends, Fails, Rejects
<1>1. CASE JobArguments
  BY <1>1 DEF JobArguments, Declines
<1>2. CASE JobConnect
  BY <1>2 DEF JobConnect, Connect
<1>3. CASE JobPost
  BY <1>3 DEF JobPost, Written, ProgressLink, StartingJobs, DestructiveJobs
<1>4. CASE Poll
  BY <1>4 DEF Poll, StatusRead
<1>5. CASE Sleep
  BY <1>5 DEF Sleep
<1>6. CASE JobEmit
  BY <1>6 DEF JobEmit, Emit, WriteOf
<1>7. CASE JobGoesOn
  BY <1>7 DEF JobGoesOn
<1>. QED
  BY <1>1, <1>2, <1>3, <1>4, <1>5, <1>6, <1>7 DEF JobStep

\* The endpoint of graphql, journal and playbook.

\* The way of each verb.
GraphWays ==
    /\ at \in {"query", "errors"} => cmd.verb = "graphql"
    /\ at \in {"streams", "rows"} => cmd.verb = "journal"
    /\ at = "playbooks" => cmd.verb = "playbook list"
    /\ at = "start" => cmd.verb \in {"playbook trigger", "playbook launch"}

\* What success says of a query and of a playbook.
GraphTold ==
    /\ cmd.verb = "graphql" /\ at \in {"emit", "errors"}
          => inst.errors # "alone" /\ know.errors = (inst.errors # "none")
    /\ cmd.verb = "graphql" /\ outcome \in {"ok", "BrokenPipe"}
          => inst.errors # "alone" /\ (inst.errors = "none" \/ cmd.out = "gone")
    /\ cmd.verb = "playbook trigger" /\ (at = "emit" \/ outcome \in {"ok", "BrokenPipe"}) /\ cmd.output # "raw"
          => "playbook" \in wrote \/ (cmd.once /\ inst.held)
    /\ cmd.verb = "playbook launch" /\ (at = "emit" \/ outcome \in {"ok", "BrokenPipe"}) /\ cmd.output # "raw"
          => "playbook" \in wrote
    /\ at = "emit" /\ cmd.verb = "playbook list" /\ cmd.output # "raw" /\ still => inst.readable

\* Is the journal asked for with no column in particular?
AnyColumn == cmd.only = ""

\* How far the attempts at a journal's columns have come, by what the table lacks.
Attempt == IF "attempt" \in DOMAIN know THEN know.attempt ELSE 1
Tried(attempt) ==
    \/ attempt = 1 /\ "missing" \notin DOMAIN know
    \/ /\ "missing" \in DOMAIN know /\ know.missing \notin inst.columns
       /\ \/ attempt = 2 /\ know.missing = "comments_and_work_notes"
          \/ /\ attempt = 3 /\ "comments_and_work_notes" \notin inst.columns
             /\ \/ know.missing = "comments"
                \/ know.missing = "work_notes" /\ "comments" \in inst.columns
          \/ /\ attempt = 4 /\ know.missing = "comments"
             /\ inst.columns \subseteq {"work_notes"}
          \/ attempt = 5

GraphRead ==
    /\ cmd.verb = "journal" /\ at \in {"argv", "connect", "ref"}
          => {"attempt", "missing"} \cap DOMAIN know = {}
    /\ cmd.verb = "journal" /\ at = "streams" /\ AnyColumn => Tried(Attempt)
    /\ cmd.verb = "journal" /\ "columns" \in DOMAIN know /\ AnyColumn
          => know.columns \in {{"comments_and_work_notes"},
                               inst.columns \ {"comments_and_work_notes"}}
    /\ cmd.verb = "journal" /\ "rows" \in DOMAIN know => know.rows # {} \/ inst.entries = {}

LEMMA GraphStaysOnWay ==
    ASSUME cmd.verb \in GraphVerbs, GraphWays, GraphStep \/ GraphOthers
    PROVE  GraphWays'
<1>. USE DEF GraphWays, GraphVerbs, PlaybookVerbs, Reading, Goto, Learns, Ends, Fails, Rejects
<1>1. CASE GraphArguments
  BY <1>1 DEF GraphArguments
<1>2. CASE GraphConnect
  BY <1>2 DEF GraphConnect, Connect
<1>3. CASE GraphRecord
  BY <1>3 DEF GraphRecord, ResolveRef
<1>4. CASE Query
  BY <1>4 DEF Query, Written
<1>5. CASE ReadStreams
  BY <1>5 DEF ReadStreams
<1>6. CASE ReadRows
  BY <1>6 DEF ReadRows
<1>7. CASE ListPlaybooks
  BY <1>7 DEF ListPlaybooks
<1>8. CASE StartPlaybook
  BY <1>8 DEF StartPlaybook, Written
<1>9. CASE GraphEmit
  BY <1>9 DEF GraphEmit, Emit
<1>10. CASE TellErrors
  BY <1>10 DEF TellErrors
<1>11. CASE GraphOthers
  BY <1>11 DEF GraphOthers, Others
<1>. QED
  BY <1>1, <1>2, <1>3, <1>4, <1>5, <1>6, <1>7, <1>8, <1>9, <1>10, <1>11 DEF GraphStep

LEMMA GraphFields ==
    ASSUME Proper, cmd.verb \in GraphVerbs
    PROVE  /\ inst = [f \in DOMAIN inst |-> inst[f]]
           /\ {"held", "readable", "visible", "entries", "columns", "errors", "typed"}
                 \subseteq DOMAIN inst
<1>1. Has(inst, {"records", "numbered", "drops", "errors", "columns", "entries", "visible",
                 "readable", "typed", "held"})
  BY DEF Proper, Shaped
<1>. QED
  BY <1>1 DEF Has

LEMMA GraphStaysTold ==
    ASSUME Proper, cmd.verb \in GraphVerbs, GraphWays, GraphTold, GraphStep \/ GraphOthers
    PROVE  GraphTold'
<1>. /\ at # "done" => outcome = "running"
     /\ cmd.out \in {"open", "gone", "full"}
  BY DEF Proper, Orderly, InPlace, Sinks
<1>. /\ inst = [f \in DOMAIN inst |-> inst[f]]
     /\ {"held", "readable", "visible", "entries", "columns", "errors", "typed"} \subseteq DOMAIN inst
  BY GraphFields
<1>. Failure \subseteq {"Transport", "Auth", "Api"}
  BY FailureKinds
<1>. USE DEF GraphTold, GraphWays, GraphVerbs, PlaybookVerbs, Reading, Goto, Learns, Ends,
     Fails, Rejects
<1>1. CASE GraphArguments
  BY <1>1 DEF GraphArguments
<1>2. CASE GraphConnect
  BY <1>2 DEF GraphConnect, Connect
<1>3. CASE GraphRecord
  BY <1>3 DEF GraphRecord, ResolveRef
<1>4. CASE Query
  BY <1>4 DEF Query, Written, Added
<1>5. CASE ReadStreams
  BY <1>5 DEF ReadStreams
<1>6. CASE ReadRows
  BY <1>6 DEF ReadRows
<1>7. CASE ListPlaybooks
  BY <1>7 DEF ListPlaybooks
<1>8. CASE StartPlaybook
  BY <1>8 DEF StartPlaybook, Written, Skips
<1>9. CASE GraphEmit
  BY <1>9 DEF GraphEmit, Emit, WriteOf
<1>10. CASE TellErrors
  BY <1>10 DEF TellErrors
<1>11. CASE GraphOthers
  BY <1>11 DEF GraphOthers, Others
<1>. QED
  BY <1>1, <1>2, <1>3, <1>4, <1>5, <1>6, <1>7, <1>8, <1>9, <1>10, <1>11 DEF GraphStep

LEMMA StreamsAreRead ==
    ASSUME Proper, GraphWays, GraphRead, ReadStreams
    PROVE  GraphRead'
<1>. DEFINE all == "comments_and_work_notes"
            columns == Asked[Attempt]
            Known(i) == "missing" \in DOMAIN know /\ columns[i] = know.missing
            Next1(facts) == at' = "streams" /\ know' = Added(facts, know)
<1>1. /\ inst' = inst /\ cmd' = cmd /\ at = "streams" /\ cmd.verb = "journal"
      /\ AnyColumn' = AnyColumn
      /\ inst.columns \subseteq {all, "comments", "work_notes"}
  BY DEF ReadStreams, Reading, Fails, Ends, Learns, GraphWays, Proper, Shaped, GraphVerbs,
     AnyColumn
<1>2. \/ at' = "done" /\ know' = know
      \/ /\ Attempt <= Len(Asked) /\ \E i \in DOMAIN columns : Known(i)
         /\ Next1([attempt |-> Attempt + 1])
      \/ /\ \A i \in DOMAIN columns : ~Known(i)
         /\ Attempt <= Len(Asked)
         /\ \E i \in DOMAIN columns :
               /\ columns[i] \notin inst.columns
               /\ \A j \in DOMAIN columns : columns[j] \notin inst.columns => i <= j
               /\ Next1([attempt |-> Attempt + 1, missing |-> columns[i]])
      \/ /\ Attempt <= Len(Asked) /\ \A i \in DOMAIN columns : ~Known(i)
         /\ \A i \in DOMAIN columns : columns[i] \in inst.columns
         /\ at' = "emit" /\ know' = Added([columns |-> {columns[i] : i \in DOMAIN columns}], know)
  BY DEF ReadStreams, Attempt, Fails, Ends, Learns
<1>3. CASE at' = "done" /\ know' = know
  BY <1>1, <1>3 DEF GraphRead
<1>4. ASSUME AnyColumn, Attempt <= Len(Asked)
      PROVE  \/ Attempt = 1 /\ DOMAIN columns = {1} /\ columns[1] = all
             \/ /\ Attempt = 2 /\ DOMAIN columns = {1, 2}
                /\ columns[1] = "comments" /\ columns[2] = "work_notes"
             \/ Attempt = 3 /\ DOMAIN columns = {1} /\ columns[1] = "comments"
             \/ Attempt = 4 /\ DOMAIN columns = {1} /\ columns[1] = "work_notes"
  <2>1. Asked = Attempts
    BY <1>4 DEF Asked, AnyColumn
  <2>2. /\ Attempts[1] = <<all>> /\ Attempts[2] = <<"comments", "work_notes">>
        /\ Attempts[3] = <<"comments">> /\ Attempts[4] = <<"work_notes">> /\ Len(Attempts) = 4
    BY DEF Attempts
  <2>3. Attempt \in {1, 2, 3, 4, 5}
    BY <1>1, <1>4 DEF GraphRead, Tried
  <2>9. Len(Asked) = 4
    BY <2>1, <2>2
  <2>4. Attempt \in {1, 2, 3, 4}
    BY <1>4, <2>3, <2>9
  <2>5. CASE Attempt = 1
    <3>1. columns = <<all>>
      BY <2>1, <2>2, <2>5
    <3>. QED
      BY <2>5, <3>1
  <2>6. CASE Attempt = 2
    <3>1. columns = <<"comments", "work_notes">>
      BY <2>1, <2>2, <2>6
    <3>. QED
      BY <2>6, <3>1
  <2>7. CASE Attempt = 3
    <3>1. columns = <<"comments">>
      BY <2>1, <2>2, <2>7
    <3>. QED
      BY <2>7, <3>1
  <2>8. CASE Attempt = 4
    <3>1. columns = <<"work_notes">>
      BY <2>1, <2>2, <2>8
    <3>. QED
      BY <2>8, <3>1
  <2>. QED
    BY <2>4, <2>5, <2>6, <2>7, <2>8
<1>5. AnyColumn => Tried(Attempt)
  BY <1>1 DEF GraphRead
<1>6. /\ "columns" \in DOMAIN know /\ AnyColumn => know.columns \in {{all}, inst.columns \ {all}}
      /\ "rows" \in DOMAIN know => know.rows # {} \/ inst.entries = {}
  BY <1>1 DEF GraphRead
<1>. HIDE DEF columns
<1>7. CASE /\ Attempt <= Len(Asked) /\ \E i \in DOMAIN columns : Known(i)
           /\ Next1([attempt |-> Attempt + 1])
  <2>1. /\ DOMAIN know' = DOMAIN know \cup {"attempt"} /\ know'.attempt = Attempt + 1
        /\ \A f \in DOMAIN know \ {"attempt"} : know'[f] = know[f]
    BY <1>7 DEF Added
  <2>2. ASSUME AnyColumn PROVE Tried(Attempt)'
    BY <1>1, <1>4, <1>5, <1>7, <2>1, <2>2 DEF Tried, Attempt
  <2>. QED
    BY <1>1, <1>6, <1>7, <2>1, <2>2 DEF GraphRead
<1>8. ASSUME Attempt <= Len(Asked), NEW i \in DOMAIN columns,
             \A j \in DOMAIN columns : ~Known(j),
             columns[i] \notin inst.columns,
             \A j \in DOMAIN columns : columns[j] \notin inst.columns => i <= j,
             Next1([attempt |-> Attempt + 1, missing |-> columns[i]])
      PROVE  GraphRead'
  <2>1. /\ DOMAIN know' = DOMAIN know \cup {"attempt", "missing"}
        /\ know'.attempt = Attempt + 1 /\ know'.missing = columns[i]
        /\ \A f \in DOMAIN know \ {"attempt", "missing"} : know'[f] = know[f]
    BY <1>8 DEF Added
  <2>2. ASSUME AnyColumn PROVE Tried(Attempt)'
    BY <1>1, <1>4, <1>5, <1>8, <2>1, <2>2 DEF Tried, Attempt
  <2>. QED
    BY <1>1, <1>6, <1>8, <2>1, <2>2 DEF GraphRead
<1>9. CASE /\ Attempt <= Len(Asked) /\ \A i \in DOMAIN columns : ~Known(i)
           /\ \A i \in DOMAIN columns : columns[i] \in inst.columns
           /\ at' = "emit" /\ know' = Added([columns |-> {columns[i] : i \in DOMAIN columns}], know)
  <2>1. /\ DOMAIN know' = DOMAIN know \cup {"columns"}
        /\ know'.columns = {columns[i] : i \in DOMAIN columns}
        /\ \A f \in DOMAIN know \ {"columns"} : know'[f] = know[f]
    BY <1>9 DEF Added
  <2>2. ASSUME AnyColumn
        PROVE  {columns[i] : i \in DOMAIN columns} \in {{all}, inst.columns \ {all}}
    <3>. DEFINE set == {columns[i] : i \in DOMAIN columns}
    <3>1. CASE Attempt = 1 /\ DOMAIN columns = {1} /\ columns[1] = all
      BY <3>1
    <3>2. CASE Attempt = 2 /\ DOMAIN columns = {1, 2}
               /\ columns[1] = "comments" /\ columns[2] = "work_notes"
      <4>1. all \notin inst.columns /\ "comments" \in inst.columns /\ "work_notes" \in inst.columns
        BY <3>2, <1>5, <1>9, <2>2 DEF Tried
      <4>2. set = {"comments", "work_notes"}
        BY <3>2
      <4>. QED
        BY <1>1, <4>1, <4>2
    <3>3. CASE Attempt = 3 /\ DOMAIN columns = {1} /\ columns[1] = "comments"
      <4>1. all \notin inst.columns /\ "comments" \in inst.columns /\ "work_notes" \notin inst.columns
        BY <3>3, <1>5, <1>9, <2>2 DEF Tried
      <4>2. set = {"comments"}
        BY <3>3
      <4>. QED
        BY <1>1, <4>1, <4>2
    <3>4. CASE Attempt = 4 /\ DOMAIN columns = {1} /\ columns[1] = "work_notes"
      <4>1. inst.columns = {"work_notes"}
        BY <3>4, <1>5, <1>9, <2>2 DEF Tried
      <4>2. set = {"work_notes"}
        BY <3>4
      <4>. QED
        BY <1>1, <4>1, <4>2
    <3>. QED
      BY <1>4, <1>9, <2>2, <3>1, <3>2, <3>3, <3>4
  <2>. QED
    BY <1>1, <1>6, <1>9, <2>1, <2>2 DEF GraphRead
<1>. QED
  BY <1>2, <1>3, <1>7, <1>8, <1>9

LEMMA GraphStaysRead ==
    ASSUME Proper, cmd' = cmd, cmd.verb \in GraphVerbs, GraphWays, GraphRead, GraphStep \/
           GraphOthers
    PROVE  GraphRead'
<1>. /\ at # "done" => outcome = "running"
     /\ cmd.out \in {"open", "gone", "full"}
  BY DEF Proper, Orderly, InPlace, Sinks
<1>. /\ inst = [f \in DOMAIN inst |-> inst[f]]
     /\ {"held", "readable", "visible", "entries", "columns", "errors", "typed"} \subseteq DOMAIN inst
  BY GraphFields
<1>. Failure \subseteq {"Transport", "Auth", "Api"}
  BY FailureKinds
<1>. inst.columns \subseteq {"comments_and_work_notes", "comments", "work_notes"}
  BY DEF Proper, Shaped
<1>. AnyColumn' = AnyColumn
  BY DEF AnyColumn
<1>. USE DEF GraphRead, Attempt, Tried, GraphWays, Added, Reading, Goto, Learns, Ends, Fails,
     Rejects
<1>1. CASE GraphArguments
  BY <1>1 DEF GraphArguments
<1>2. CASE GraphConnect
  BY <1>2 DEF GraphConnect, Connect
<1>3. CASE GraphRecord
  <2>1. /\ UNCHANGED <<inst, cmd>> /\ at = "ref"
        /\ \/ know' = know /\ at' = "done"
           \/ \E r : know' = Added([record |-> r], know)
    <3>1. PICK step : ResolveRef("ref", step)
      BY <1>3 DEF GraphRecord
    <3>. QED
      BY <3>1 DEF ResolveRef
  <2>2. CASE know' = know /\ at' = "done"
    BY <2>1, <2>2
  <2>3. ASSUME NEW r, know' = Added([record |-> r], know) PROVE GraphRead'
    <3>1. DOMAIN know' = DOMAIN know \cup {"record"}
      BY <2>3
    <3>2. \A f \in DOMAIN know \ {"record"} : know'[f] = know[f]
      BY <2>3
    <3>. QED
      BY <2>1, <3>1, <3>2
  <2>. QED
    BY <2>1, <2>2, <2>3
<1>4. CASE Query
  BY <1>4 DEF Query, Written
<1>5. CASE ReadStreams
  BY <1>5, StreamsAreRead
<1>6. CASE ReadRows
  BY <1>6 DEF ReadRows
<1>7. CASE ListPlaybooks
  BY <1>7 DEF ListPlaybooks
<1>8. CASE StartPlaybook
  BY <1>8 DEF StartPlaybook, Written
<1>9. CASE GraphEmit
  BY <1>9 DEF GraphEmit, Emit
<1>10. CASE TellErrors
  BY <1>10 DEF TellErrors
<1>11. CASE GraphOthers
  BY <1>11 DEF GraphOthers, Others
<1>. QED
  BY <1>1, <1>2, <1>3, <1>4, <1>5, <1>6, <1>7, <1>8, <1>9, <1>10, <1>11 DEF GraphStep

-----------------------------------------------------------------------------
\* Each command's steps, by its verb.
LEMMA OwnSteps ==
    ASSUME Proper, Next
    PROVE  /\ cmd' = cmd
           /\ cmd.verb \in FlowVerbs => FlowStep \/ FlowOthers
           /\ cmd.verb \in FlowReads => FlowReadStep \/ FlowReadOthers
           /\ cmd.verb \in DecisionVerbs => DecisionStep \/ DecisionOthers
           /\ cmd.verb = "doctor" => DoctorStep \/ DoctorOthers
           /\ cmd.verb \in GraphVerbs => GraphStep \/ GraphOthers
           /\ cmd.verb \in ContextVerbs => ContextStep \/ ReadBackOthers
           /\ cmd.verb \in VariablesVerbs => VariablesStep \/ ReadBackOthers
           /\ cmd.verb \in JobVerbs => JobStep \/ JobGoesOn
           /\ cmd.verb \in UiVerbs => UiStep \/ UiOthers
<1>1. Mine /\ cmd' = cmd
  BY Apart, SameCommand DEF Proper, Orderly
<1>. QED
  BY <1>1 DEF Mine, FlowVerbs, FlowReads, DecisionVerbs, GraphVerbs, PlaybookVerbs, ContextVerbs,
     VariablesVerbs, JobVerbs, StartingJobs, DestructiveJobs, OneRequest, UiVerbs

Done ==
    /\ cmd.verb \in JobVerbs => JobIsOver
    /\ cmd.verb \in GraphVerbs => GraphWays /\ GraphTold /\ GraphRead

\* The two outcomes of exit code 0.
LEMMA ZeroOutcomes ==
    ASSUME Proper, ExitsZero
    PROVE  outcome \in {"ok", "BrokenPipe"}
BY DEF Proper, Orderly, ExitsZero, ExitCode

LEMMA DoneAtFirst ==
    ASSUME Init
    PROVE  Done
<1>1. at = "argv" /\ outcome = "running" /\ know = [verb |-> cmd.verb]
  BY DEF Init, Started
<1>. QED
  BY <1>1 DEF Done, JobIsOver, GraphWays, GraphTold, GraphRead

LEMMA StaysDone ==
    ASSUME Proper, Done, [Next]_vars
    PROVE  Done'
<1>1. CASE Next
  <2>1. /\ cmd' = cmd
        /\ cmd.verb \in JobVerbs => JobStep \/ JobGoesOn
        /\ cmd.verb \in GraphVerbs => GraphStep \/ GraphOthers
    BY <1>1, OwnSteps
  <2>2. ASSUME cmd.verb \in JobVerbs PROVE JobIsOver'
    BY <2>1, <2>2, JobStaysOver DEF Done
  <2>3. ASSUME cmd.verb \in GraphVerbs PROVE GraphWays' /\ GraphTold' /\ GraphRead'
    BY <2>1, <2>3, GraphStaysOnWay, GraphStaysTold, GraphStaysRead DEF Done
  <2>. QED
    BY <2>1, <2>2, <2>3 DEF Done
<1>2. CASE UNCHANGED vars
  <2>1. AnyColumn' = AnyColumn
    BY <1>2 DEF vars, AnyColumn
  <2>2. JobIsOver' = JobIsOver
    BY <1>2 DEF vars, JobIsOver
  <2>3. GraphWays' = GraphWays /\ GraphTold' = GraphTold
    BY <1>2 DEF vars, GraphWays, GraphTold
  <2>4. GraphRead => GraphRead'
    BY <1>2, <2>1 DEF vars, GraphRead, Tried, Attempt
  <2>. QED
    BY <1>2, <2>2, <2>3, <2>4 DEF vars, Done
<1>. QED
  BY <1>1, <1>2

\* Exit code 0 says what was asked for was done, however the instance words its answers
\* and whatever its jobs do meanwhile; a GraphQL query whose reader has gone may exit 0
\* with errors beside its data, and nothing else may exit 0 with errors.
THEOREM OkIsDone == Spec => []OkMeansDone
<1>1. Proper /\ Done => OkMeansDone
  <2>1. ASSUME Proper, Done PROVE JobVerdict
    BY <2>1, ZeroOutcomes DEF Done, JobIsOver, JobVerdict, JobVerbs
  <2>2. ASSUME Proper, Done PROVE QueriesAreAnswered
    BY <2>2, ZeroOutcomes DEF Done, GraphTold, GraphRead, AnyColumn, QueriesAreAnswered, GraphVerbs, PlaybookVerbs
  <2>. QED
    BY <2>1, <2>2 DEF OkMeansDone
<1>. QED
  BY <1>1, ProperAtFirst, StaysProper, DoneAtFirst, StaysDone, PTL DEF Spec

-----------------------------------------------------------------------------
\* The classic UI.

UiWays ==
    /\ at \in {"in scope", "script", "rollback", "verdict"} => cmd.verb = "script run"
    /\ at = "upload" => cmd.verb = "xml import"
    /\ at \in {"columns", "unload", "home", "home read"} => cmd.verb = "xml export"
    /\ at = "session" => cmd.verb # "xml export"

\* Once a script's output is to be printed, it ran, and how it ended is known.
ScriptRan ==
    /\ cmd.verb = "script run" /\ at \in {"rollback", "emit", "verdict"}
          => "script" \in wrote /\ know.broke = inst.breaks
    /\ ScriptRanAsAsked

LEMMA UiStaysOnWay ==
    ASSUME cmd.verb \in UiVerbs, UiWays, UiStep \/ UiOthers
    PROVE  UiWays'
<1>. USE DEF UiWays, UiVerbs, Reading, Goto, Learns, Ends, Fails, Rejects
<1>1. CASE UiArguments
  BY <1>1 DEF UiArguments, Declines
<1>2. CASE UiConnect
  BY <1>2 DEF UiConnect, Connect
<1>3. CASE UiSession
  BY <1>3 DEF UiSession
<1>4. CASE ScriptScope
  BY <1>4 DEF ScriptScope
<1>5. CASE PostScript
  BY <1>5 DEF PostScript, Written
<1>6. CASE RollbackContext
  BY <1>6 DEF RollbackContext
<1>7. CASE ScriptVerdict
  BY <1>7 DEF ScriptVerdict
<1>8. CASE UploadXml
  BY <1>8 DEF UploadXml, Written
<1>9. CASE CheckColumns
  BY <1>9 DEF CheckColumns
<1>10. CASE UnloadClient
  BY <1>10 DEF UnloadClient
<1>11. CASE LoadHome
  BY <1>11 DEF LoadHome
<1>12. CASE Download
  BY <1>12 DEF Download
<1>13. CASE CutOff
  BY <1>13 DEF CutOff
<1>14. CASE UiEmit
  BY <1>14 DEF UiEmit, Emit
<1>15. CASE UiOthers
  <2>1. UNCHANGED <<cmd, at>>
    BY <1>15 DEF UiOthers, Others
  <2>. QED
    BY <2>1
<1>. QED
  BY <1>1, <1>2, <1>3, <1>4, <1>5, <1>6, <1>7, <1>8, <1>9, <1>10, <1>11, <1>12, <1>13, <1>14,
       <1>15 DEF UiStep

LEMMA UiStaysTrue ==
    ASSUME Proper, cmd' = cmd, cmd.verb \in UiVerbs, UiWays, ScriptRan, UiStep \/ UiOthers
    PROVE  ScriptRan'
<1>. at # "done" => outcome = "running"
  BY DEF Proper, Orderly
<1>. cmd.out \in {"open", "gone", "full"}
  BY DEF Proper, Orderly, InPlace, Sinks
<1>. cmd.verb = "script run" =>
        inst = [f \in DOMAIN inst |-> inst[f]] /\ {"scopes", "breaks"} \subseteq DOMAIN inst
  BY DEF Proper, Shaped, Has
<1>. Failure \subseteq {"Transport", "Auth", "Api"}
  BY FailureKinds
<1>. USE DEF ScriptRan, ScriptRanAsAsked, UiWays, Reading, Goto, Learns, Ends, Fails, Rejects
<1>1. CASE UiArguments
  BY <1>1 DEF UiArguments, Declines
<1>2. CASE UiConnect
  BY <1>2 DEF UiConnect, Connect
<1>3. CASE UiSession
  BY <1>3 DEF UiSession
<1>4. CASE ScriptScope
  BY <1>4 DEF ScriptScope
<1>5. CASE PostScript
  BY <1>5 DEF PostScript, Written, Added, AskedScope
<1>6. CASE RollbackContext
  BY <1>6 DEF RollbackContext
<1>7. CASE ScriptVerdict
  BY <1>7 DEF ScriptVerdict, RightScope, AskedScope
<1>8. CASE UploadXml
  BY <1>8 DEF UploadXml, Written
<1>9. CASE CheckColumns
  BY <1>9 DEF CheckColumns
<1>10. CASE UnloadClient
  BY <1>10 DEF UnloadClient
<1>11. CASE LoadHome
  BY <1>11 DEF LoadHome
<1>12. CASE Download
  BY <1>12 DEF Download
<1>13. CASE CutOff
  BY <1>13 DEF CutOff
<1>14. CASE UiEmit
  BY <1>14 DEF UiEmit, Emit, WriteOf
<1>15. CASE UiOthers
  <2>1. cmd.verb = "script run" => inst'.breaks = inst.breaks
    BY <1>15 DEF UiOthers, Others, UiVerbs
  <2>2. UNCHANGED <<cmd, at, know, outcome, wrote>> /\ at # "done"
    BY <1>15 DEF UiOthers, Others
  <2>. QED
    BY <2>1, <2>2
<1>. QED
  BY <1>1, <1>2, <1>3, <1>4, <1>5, <1>6, <1>7, <1>8, <1>9, <1>10, <1>11, <1>12, <1>13, <1>14,
       <1>15 DEF UiStep

\* A script that is told to have succeeded ran to its end in the scope asked for, on any
\* instance and whatever others do to it.
THEOREM ScriptIsRunAsAsked == Spec => []ScriptRanAsAsked
<1>. DEFINE Inv == cmd.verb \in UiVerbs => UiWays /\ ScriptRan
<1>1. Init => Inv
  <2>1. Init => at = "argv" /\ outcome = "running"
    BY DEF Init, Started
  <2>. QED
    BY <2>1 DEF UiWays, ScriptRan, ScriptRanAsAsked
<1>2. ASSUME Proper, Inv, [Next]_vars PROVE Inv'
  <2>1. CASE Next
    BY <1>2, <2>1, OwnSteps, UiStaysOnWay, UiStaysTrue
  <2>2. CASE UNCHANGED vars
    BY <1>2, <2>2 DEF vars, UiWays, ScriptRan, ScriptRanAsAsked, AskedScope
  <2>. QED
    BY <1>2, <2>1, <2>2
<1>3. Inv => ScriptRanAsAsked
  BY DEF ScriptRan, ScriptRanAsAsked, UiVerbs
<1>. QED
  BY <1>1, <1>2, <1>3, ProperAtFirst, StaysProper, PTL DEF Spec

-----------------------------------------------------------------------------
\* doctor.

\* A status is true of the instance that the getters answered for.
LEMMA RoleIsTrue ==
    ASSUME NEW role, IsFiniteSet(inst.roles), inst.drops => Cardinality(inst.roles) # 1
    PROVE  /\ RoleStatus(role) = "pass" => role \in inst.roles /\ Held(role)
           /\ RoleStatus(role) = "fail" => ~(role \in inst.roles /\ Held(role))
<1>1. Cardinality(inst.roles) \in Nat
  BY FS_CardinalityType
<1>2. Cardinality(inst.roles) = 0 => inst.roles = {}
  BY FS_EmptySet
<1>. DEFINE n == Cardinality(inst.roles)
<1>. HIDE DEF n
<1>3. RoleCount(role) = IF inst.drops THEN n ELSE IF role \in inst.roles THEN 1 ELSE 0
  BY DEF RoleCount, n
<1>4. n \in Nat /\ (n = 0 => role \notin inst.roles) /\ (inst.drops => n # 1)
  BY <1>1, <1>2 DEF n
<1>. QED
  BY <1>3, <1>4 DEF RoleStatus

LEMMA PluginIsTrue ==
    ASSUME NEW plugin
    PROVE  /\ PluginStatus(plugin) = "pass" => plugin \in inst.plugins
           /\ PluginStatus(plugin) = "fail" => plugin \notin inst.plugins
BY DEF PluginStatus, Installed

LEMMA PropertyIsTrue ==
    ASSUME NEW name, NEW value,
           \A p \in DOMAIN inst.values : inst.values[p] \notin {"null", "unset"}
    PROVE  /\ PropertyStatus(name, value) = "pass"
                 => name \in DOMAIN inst.values /\ value \in {"", inst.values[name]}
           /\ PropertyStatus(name, value) = "fail"
                 => ~(name \in DOMAIN inst.values /\ value \in {"", inst.values[name]})
<1>. DEFINE Suits(x) == value \in {"", x}
<1>. HIDE DEF Suits
<1>1. PropertyStatus(name, value) =
        IF "Properties" \in know.disabled \/ PropertyValue("glide.buildtag") = "null"
           \/ PropertyValue(name) = "null"
        THEN "unavailable"
        ELSE IF PropertyValue(name) # "unset" /\ Suits(PropertyValue(name)) THEN "pass" ELSE "fail"
  BY DEF PropertyStatus, Suits
<1>2. name \in DOMAIN inst.values =>
        PropertyValue(name) = "null" \/ PropertyValue(name) = inst.values[name]
  BY DEF PropertyValue
<1>3. name \notin DOMAIN inst.values => PropertyValue(name) \in {"null", "unset"}
  BY DEF PropertyValue
<1>4. /\ PropertyStatus(name, value) = "pass"
            => name \in DOMAIN inst.values /\ Suits(inst.values[name])
      /\ PropertyStatus(name, value) = "fail"
            => ~(name \in DOMAIN inst.values /\ Suits(inst.values[name]))
  BY <1>1, <1>2, <1>3
<1>. QED
  BY <1>4 DEF Suits

LEMMA StatusIsTrue ==
    ASSUME Proper, cmd.verb = "doctor", NEW need \in cmd.needs
    PROVE  /\ Status(need) = "pass" => Met(need)
           /\ Status(need) = "fail" => ~Met(need)
<1>1. /\ need.kind \in {"role", "plugin", "property"}
      /\ IsFiniteSet(inst.roles) /\ (inst.drops => Cardinality(inst.roles) # 1)
      /\ \A p \in DOMAIN inst.values : inst.values[p] \notin {"null", "unset"}
  BY DEF Proper, Shaped
<1>2. CASE need.kind = "role"
  BY <1>1, <1>2, RoleIsTrue DEF Status, Met
<1>3. CASE need.kind = "plugin"
  BY <1>3, PluginIsTrue DEF Status, Met
<1>4. CASE need.kind = "property"
  BY <1>1, <1>4, PropertyIsTrue DEF Status, Met
<1>. QED
  BY <1>1, <1>2, <1>3, <1>4

LEMMA DoctorStaysTrue ==
    ASSUME Proper, cmd' = cmd, cmd.verb = "doctor", ChecksAreTrue, DoctorStep \/ DoctorOthers
    PROVE  ChecksAreTrue'
<1>. USE DEF Reading, Goto, Learns, Ends, Fails, Rejects
<1>1. CASE DoctorArguments
  BY <1>1 DEF DoctorArguments, ChecksAreTrue
<1>2. CASE DoctorConnect
  BY <1>2 DEF DoctorConnect, Connect, ChecksAreTrue
<1>3. CASE Ask
  <2>1. /\ at = "ask" /\ UNCHANGED inst
        /\ at' \in {"emit", "summary"} => know'.checks = [need \in cmd.needs |-> Status(need)]
    BY <1>3, FailureKinds DEF Ask, Added
  <2>2. \A need \in cmd.needs : Met(need)' <=> Met(need)
    BY <2>1 DEF Met, Held
  <2>. QED
    BY <2>1, <2>2, StatusIsTrue DEF ChecksAreTrue
<1>4. CASE DoctorEmit
  <2>1. UNCHANGED <<cmd, inst, know, still>> /\ (at' \in {"emit", "summary"} => at = "emit")
    BY <1>4 DEF DoctorEmit, Emit
  <2>. QED
    BY <2>1 DEF ChecksAreTrue, Met, Held
<1>5. CASE DoctorSummary
  BY <1>5 DEF DoctorSummary, ChecksAreTrue
<1>6. CASE DoctorOthers
  BY <1>6 DEF DoctorOthers, Others, ChecksAreTrue
<1>. QED
  BY <1>1, <1>2, <1>3, <1>4, <1>5, <1>6 DEF DoctorStep

\* What doctor reports of a need is so, of any command line and any instance, while nobody
\* changes it.
THEOREM DoctorIsTruthful == Spec => []ChecksAreTrue
<1>1. Init => ChecksAreTrue
  BY DEF Init, Started, ChecksAreTrue
<1>2. ASSUME Proper, ChecksAreTrue, [Next]_vars PROVE ChecksAreTrue'
  <2>1. CASE Next /\ cmd.verb = "doctor"
    BY <1>2, <2>1, OwnSteps, DoctorStaysTrue
  <2>2. CASE Next /\ cmd.verb # "doctor"
    BY <1>2, <2>2, OwnSteps DEF ChecksAreTrue
  <2>3. CASE UNCHANGED vars
    BY <1>2, <2>3 DEF vars, ChecksAreTrue, Met, Held
  <2>. QED
    BY <1>2, <2>1, <2>2, <2>3
<1>. QED
  BY <1>1, <1>2, ProperAtFirst, StaysProper, PTL DEF Spec

-----------------------------------------------------------------------------
\* context and variables: what is read back after the write.

ContextWays ==
    /\ at \in {"scope", "picker", "identify", "preference"} => cmd.verb = "context scope"
    /\ at \in {"set", "pick"} => cmd.verb = "context updateset"
    /\ at \in {"after", "verify"} => cmd.verb # "context"

\* While nobody else changes it, what was read of the context is what it is.
Reflects(reading) == reading.scope = inst.prefScope /\ reading.set = Effective(inst)

ContextRead ==
    /\ at = "set" /\ still => Reflects(know.previous)
    /\ at = "verify" /\ still => Reflects(know.now)
    /\ at = "emit" /\ still =>
          /\ cmd.verb = "context scope" => inst.prefScope = know.target
          /\ cmd.verb = "context updateset" => Effective(inst) = know.target

\* A read of the context stores what it resolved, and resolves to the same thereafter.
LEMMA ResolvingChangesNothing ==
    ASSUME inst = [f \in DOMAIN inst |-> inst[f]],
           {"prefScope", "prefSet", "sets"} \subseteq DOMAIN inst
    PROVE  /\ Resolved.prefScope = inst.prefScope
           /\ Effective(Resolved) = Effective(inst)
<1>1. /\ Resolved.prefScope = inst.prefScope /\ Resolved.sets = inst.sets
      /\ Resolved.prefSet = Effective(inst)
  BY DEF Resolved
<1>2. CASE /\ inst.prefSet \in DOMAIN inst.sets
           /\ inst.sets[inst.prefSet] = [scope |-> inst.prefScope, open |-> TRUE]
  BY <1>1, <1>2 DEF Effective
<1>3. CASE ~(/\ inst.prefSet \in DOMAIN inst.sets
             /\ inst.sets[inst.prefSet] = [scope |-> inst.prefScope, open |-> TRUE])
  BY <1>1, <1>3 DEF Effective
<1>. QED
  BY <1>2, <1>3

LEMMA ContextIsRead ==
    ASSUME Proper, cmd.verb \in ContextVerbs, NEW step, NEW fact, NEW next,
           ReadContext(step, fact, next), at' # "done", still'
    PROVE  /\ at = step /\ at' = next /\ fact \in DOMAIN know' /\ cmd' = cmd
           /\ Reflects(know[fact])'
<1>1. inst = [f \in DOMAIN inst |-> inst[f]] /\ {"prefScope", "prefSet", "sets"} \subseteq DOMAIN inst
  BY DEF Proper, Shaped, Has
<1>2. /\ at = step /\ at' = next /\ cmd' = cmd /\ inst' = Resolved
      /\ know' = Added([f \in {fact} |-> [scope |-> inst.prefScope, set |-> Effective(inst)]], know)
  BY DEF ReadContext, Fails, Ends, Learns
<1>3. fact \in DOMAIN know' /\ know'[fact] = [scope |-> inst.prefScope, set |-> Effective(inst)]
  BY <1>2 DEF Added
<1>4. inst'.prefScope = inst.prefScope /\ Effective(inst') = Effective(inst)
  BY <1>1, <1>2, ResolvingChangesNothing
<1>. QED
  BY <1>2, <1>3, <1>4 DEF Reflects

LEMMA ContextStaysOnWay ==
    ASSUME cmd.verb \in ContextVerbs, ContextWays, ContextStep \/ ReadBackOthers
    PROVE  ContextWays'
<1>. USE DEF ContextWays, ContextVerbs, Reading, Goto, Learns, Ends, Fails, Rejects
<1>1. CASE ContextArguments
  BY <1>1 DEF ContextArguments
<1>2. CASE ContextConnect
  BY <1>2 DEF ContextConnect, Connect
<1>3. CASE ReadPrevious
  BY <1>3 DEF ReadPrevious, ReadContext
<1>4. CASE ResolveScope
  BY <1>4 DEF ResolveScope
<1>5. CASE StageScope
  BY <1>5 DEF StageScope, Written
<1>6. CASE Identify
  BY <1>6 DEF Identify
<1>7. CASE WritePreference
  BY <1>7 DEF WritePreference, Written
<1>8. CASE ResolveSet
  BY <1>8 DEF ResolveSet
<1>9. CASE PickSet
  BY <1>9 DEF PickSet, Written
<1>10. CASE ReadAfter
  BY <1>10 DEF ReadAfter, ReadContext
<1>11. CASE VerifyContext
  BY <1>11 DEF VerifyContext
<1>12. CASE ContextEmit
  BY <1>12 DEF ContextEmit, Emit
<1>13. CASE ReadBackOthers
  BY <1>13 DEF ReadBackOthers, Others, ContextVerbs, VariablesVerbs
<1>. QED
  BY <1>1, <1>2, <1>3, <1>4, <1>5, <1>6, <1>7, <1>8, <1>9, <1>10, <1>11, <1>12, <1>13 DEF
       ContextStep

LEMMA ContextStaysRead ==
    ASSUME Proper, cmd.verb \in ContextVerbs, ContextWays, ContextRead, ContextStep \/
           ReadBackOthers
    PROVE  ContextRead'
<1>. USE FailureKinds DEF Reading, Goto, Learns, Ends, Fails, Rejects
<1>1. CASE ContextArguments
  BY <1>1 DEF ContextArguments, ContextRead
<1>2. CASE ContextConnect
  BY <1>2 DEF ContextConnect, Connect, ContextRead
<1>3. CASE ReadPrevious
  <2>1. at' \in {"set", "scope", "done"} \/ (at' = "emit" /\ cmd.verb = "context" /\ cmd' = cmd)
    BY <1>3 DEF ReadPrevious, ReadContext, ContextVerbs
  <2>2. at' = "set" /\ still' => Reflects(know.previous)'
    BY <1>3, ContextIsRead DEF ReadPrevious
  <2>. QED
    BY <2>1, <2>2 DEF ContextRead
<1>4. CASE ResolveScope
  BY <1>4 DEF ResolveScope, ContextRead
<1>5. CASE StageScope
  BY <1>5 DEF StageScope, Written, ContextRead
<1>6. CASE Identify
  BY <1>6 DEF Identify, ContextRead
<1>7. CASE WritePreference
  BY <1>7 DEF WritePreference, Written, ContextRead
<1>8. CASE ResolveSet
  <2>1. UNCHANGED <<cmd, inst, still>> /\ at = "set" /\ cmd.verb = "context updateset"
    BY <1>8 DEF ResolveSet, ContextWays
  <2>2. at' \in {"pick", "done"} \/ (at' = "emit" /\ know'.target = know.previous.set)
    BY <1>8 DEF ResolveSet, Added
  <2>. QED
    BY <2>1, <2>2 DEF ContextRead, Reflects
<1>9. CASE PickSet
  BY <1>9 DEF PickSet, Written, ContextRead
<1>10. CASE ReadAfter
  <2>1. at' \in {"verify", "done"}
    BY <1>10 DEF ReadAfter, ReadContext
  <2>2. at' = "verify" /\ still' => Reflects(know.now)'
    BY <1>10, ContextIsRead DEF ReadAfter
  <2>. QED
    BY <2>1, <2>2 DEF ContextRead
<1>11. CASE VerifyContext
  <2>1. /\ UNCHANGED <<cmd, inst, know, still>> /\ at = "verify"
        /\ (at' = "emit" /\ Persisted(know.now)) \/ at' = "done"
    BY <1>11 DEF VerifyContext
  <2>2. cmd.verb # "context"
    BY <2>1 DEF ContextWays
  <2>. QED
    BY <2>1, <2>2 DEF ContextRead, Reflects, Persisted
<1>12. CASE ContextEmit
  <2>1. UNCHANGED <<cmd, inst, know, still>> /\ at' = "done"
    BY <1>12 DEF ContextEmit, Emit
  <2>. QED
    BY <2>1 DEF ContextRead
<1>13. CASE ReadBackOthers
  <2>1. still' = FALSE
    BY <1>13 DEF ReadBackOthers, Others
  <2>. QED
    BY <2>1 DEF ContextRead
<1>. QED
  BY <1>1, <1>2, <1>3, <1>4, <1>5, <1>6, <1>7, <1>8, <1>9, <1>10, <1>11, <1>12, <1>13 DEF
       ContextStep

VariablesWays ==
    at \in {"names", "put", "reread", "diff"} => cmd.verb = "variables set"

VariablesRead ==
    /\ at = "diff" /\ still => know.after = inst.pool
    /\ cmd.verb = "variables set" /\ at = "emit" /\ still =>
           \A n \in DOMAIN cmd.values :
               cmd.values[n] = IF n \in DOMAIN inst.pool THEN inst.pool[n] ELSE ""

LEMMA VariablesStayOnWay ==
    ASSUME cmd.verb \in VariablesVerbs, VariablesWays, VariablesStep \/ ReadBackOthers
    PROVE  VariablesWays'
<1>. USE DEF VariablesWays, VariablesVerbs, Reading, Goto, Learns, Ends, Fails, Rejects
<1>1. CASE VariablesArguments
  BY <1>1 DEF VariablesArguments
<1>2. CASE VariablesConnect
  BY <1>2 DEF VariablesConnect, Connect
<1>3. CASE VariablesRecord
  BY <1>3 DEF VariablesRecord, ResolveRef
<1>4. CASE ResolveOwner
  BY <1>4 DEF ResolveOwner
<1>5. CASE FetchBefore
  BY <1>5 DEF FetchBefore, FetchVars
<1>6. CASE CheckNames
  BY <1>6 DEF CheckNames
<1>7. CASE PutVariables
  BY <1>7 DEF PutVariables, Written
<1>8. CASE FetchAfter
  BY <1>8 DEF FetchAfter, FetchVars
<1>9. CASE CompareVariables
  BY <1>9 DEF CompareVariables
<1>10. CASE VariablesEmit
  BY <1>10 DEF VariablesEmit, Emit
<1>11. CASE ReadBackOthers
  BY <1>11 DEF ReadBackOthers, Others, ContextVerbs, VariablesVerbs
<1>. QED
  BY <1>1, <1>2, <1>3, <1>4, <1>5, <1>6, <1>7, <1>8, <1>9, <1>10, <1>11 DEF VariablesStep

LEMMA VariablesStayRead ==
    ASSUME Proper, cmd.verb \in VariablesVerbs, VariablesWays, VariablesRead, VariablesStep \/
           ReadBackOthers
    PROVE  VariablesRead'
<1>. USE FailureKinds DEF VariablesWays, Reading, Goto, Learns, Ends, Fails, Rejects
<1>1. CASE VariablesArguments
  BY <1>1 DEF VariablesArguments, VariablesRead
<1>2. CASE VariablesConnect
  BY <1>2 DEF VariablesConnect, Connect, VariablesRead
<1>3. CASE VariablesRecord
  BY <1>3 DEF VariablesRecord, ResolveRef, VariablesRead
<1>4. CASE ResolveOwner
  BY <1>4 DEF ResolveOwner, VariablesRead
<1>5. CASE FetchBefore
  BY <1>5 DEF FetchBefore, FetchVars, VariablesRead
<1>6. CASE CheckNames
  BY <1>6 DEF CheckNames, VariablesRead
<1>7. CASE PutVariables
  BY <1>7 DEF PutVariables, Written, VariablesRead
<1>8. CASE FetchAfter
  <2>1. at' \in {"diff", "done"} /\ inst' = inst /\ (at' = "diff" => know'.after = inst.pool)
    BY <1>8 DEF FetchAfter, FetchVars, Added
  <2>. QED
    BY <2>1 DEF VariablesRead
<1>9. CASE CompareVariables
  <2>1. /\ UNCHANGED <<cmd, inst, know, still>> /\ at = "diff"
        /\ (at' = "emit" /\ \A n \in DOMAIN cmd.values : Stored(n)) \/ at' = "done"
    BY <1>9 DEF CompareVariables
  <2>. QED
    BY <2>1 DEF VariablesRead, Stored
<1>10. CASE VariablesEmit
  <2>1. UNCHANGED <<cmd, inst, know, still>> /\ at' = "done"
    BY <1>10 DEF VariablesEmit, Emit
  <2>. QED
    BY <2>1 DEF VariablesRead
<1>11. CASE ReadBackOthers
  <2>1. still' = FALSE
    BY <1>11 DEF ReadBackOthers, Others
  <2>. QED
    BY <2>1 DEF VariablesRead
<1>. QED
  BY <1>1, <1>2, <1>3, <1>4, <1>5, <1>6, <1>7, <1>8, <1>9, <1>10, <1>11 DEF VariablesStep

\* What context and variables report as done is so at the instance, while nobody else
\* changes it, of any session context, record and values.
THEOREM ReadBackIsTrue == Spec => []ResultHolds
<1>. DEFINE Inv == /\ cmd.verb \in ContextVerbs => ContextWays /\ ContextRead
                   /\ cmd.verb \in VariablesVerbs => VariablesWays /\ VariablesRead
<1>1. Init => Inv
  BY DEF Init, Started, ContextWays, ContextRead, VariablesWays, VariablesRead
<1>2. ASSUME Proper, Inv, [Next]_vars PROVE Inv'
  <2>1. CASE Next
    BY <1>2, <2>1, OwnSteps, ContextStaysOnWay, ContextStaysRead, VariablesStayOnWay,
       VariablesStayRead
  <2>2. CASE UNCHANGED vars
    BY <1>2, <2>2
    DEF vars, ContextWays, ContextRead, Reflects, Effective, VariablesWays, VariablesRead
  <2>. QED
    BY <1>2, <2>1, <2>2
<1>3. Inv => ResultHolds
  BY DEF ContextRead, VariablesRead, ResultHolds, ContextVerbs, VariablesVerbs
<1>. QED
  BY <1>1, <1>2, <1>3, ProperAtFirst, StaysProper, PTL DEF Spec

-----------------------------------------------------------------------------
\* Names and numbers.

\* What the rows of a lookup are, and when one row of two asked for is the right one.
LEMMA AnswersAreRows ==
    ASSUME NEW wanted, NEW all, NEW limit, NEW rows \in Answers(wanted, all, limit)
    PROVE  rows \subseteq all \/ rows \subseteq wanted
BY DEF Answers

LEMMA OneAnswer ==
    ASSUME NEW wanted, NEW all, IsFiniteSet(all), NEW row, {row} \in Answers(wanted, all, 2)
    PROVE  row \in wanted \/ all = {row}
<1>1. CASE ~inst.drops
  BY <1>1 DEF Answers
<1>2. CASE inst.drops
  <2>. DEFINE n == Cardinality(all)
  <2>1. n \in Nat /\ row \in all
    BY <1>2, FS_CardinalityType DEF Answers
  <2>2. Cardinality({row}) = 1
    BY FS_Singleton
  <2>3. 1 = IF n < 2 THEN n ELSE 2
    BY <1>2, <2>2 DEF Answers
  <2>. HIDE DEF n
  <2>4. n = 1
    BY <2>1, <2>3
  <2>. USE DEF n
  <2>5. PICK x : all = {x}
    BY <2>4, FS_Singleton
  <2>. QED
    BY <2>1, <2>5
<1>. QED
  BY <1>1, <1>2

\* The commands that resolve a record, and what may be known of a name.
RecordVerbs == FlowVerbs \cup DecisionVerbs \cup GraphVerbs \cup VariablesVerbs
Sought(n, found) ==
    \/ n = "flow" /\ cmd.verb \in FlowVerbs \cup FlowReads /\ found \in inst.named \cup {cmd.flow}
    \/ n = "table" /\ cmd.verb \in DecisionVerbs /\ found \in inst.named \cup {cmd.table}
    \/ /\ n = "record" /\ cmd.verb \in RecordVerbs
       /\ found \in inst.numbered \cup {cmd.ref} \/ inst.records = {found}

Resolved3 == {"flow", "table", "record"}

\* A step learns of these only what was sought.
Finds ==
    \A n \in Resolved3 \cap DOMAIN know' :
        \/ n \in DOMAIN know /\ know'[n] = know[n]
        \/ Sought(n, know'[n])

LEMMA RecordIsFound ==
    ASSUME Proper, cmd.verb \in RecordVerbs, NEW step, NEW next, ResolveRef(step, next)
    PROVE  Finds
<1>1. know' = know \/ \E r : know' = Added([record |-> r], know) /\ Sought("record", r)
  <2>1. CASE know' = know
    BY <2>1
  <2>2. CASE know' = Added([record |-> cmd.ref], know)
    BY <2>2 DEF Sought
  <2>3. ASSUME NEW r, {r} \in Answers(inst.numbered, inst.records, 2),
               know' = Added([record |-> r], know)
        PROVE  Sought("record", r)
    <3>1. IsFiniteSet(inst.records)
      BY DEF Proper, Shaped, RecordVerbs
    <3>. QED
      BY <2>3, <3>1, OneAnswer DEF Sought
  <2>. QED
    BY <2>1, <2>2, <2>3 DEF ResolveRef, Fails, Ends, Learns
<1>. QED
  BY <1>1 DEF Finds, Resolved3, Added

LEMMA NothingFound ==
    ASSUME \/ know' = know
           \/ \E facts : know' = Added(facts, know) /\ DOMAIN facts \cap Resolved3 = {}
    PROVE  Finds
BY DEF Finds, Added

LEMMA FlowFinds ==
    ASSUME Proper, cmd.verb \in FlowVerbs, FlowStep \/ FlowOthers
    PROVE  Finds
<1>. USE DEF Finds, Resolved3, Added, Reading, Goto, Learns, Ends, Fails, Rejects
<1>1. CASE FlowArguments
  BY <1>1 DEF FlowArguments, Sought
<1>2. CASE FlowConnect
  BY <1>2 DEF FlowConnect, Connect
<1>3. CASE ResolveFlow
  <2>1. \/ know' = know
        \/ \E f : /\ know' = Added([flow |-> f, flags |-> inst.flags, trigger |-> inst.trigger], know)
                 /\ (f = cmd.flow \/ f \in inst.named)
    BY <1>3 DEF ResolveFlow, AllCarryToken
  <2>2. ASSUME NEW f, f = cmd.flow \/ f \in inst.named,
               know' = Added([flow |-> f, flags |-> inst.flags, trigger |-> inst.trigger], know)
        PROVE  Finds
    BY <2>2 DEF Sought
  <2>. QED
    BY <2>1, <2>2
<1>4. CASE FlowRecord
  BY <1>4, RecordIsFound DEF FlowRecord, RecordVerbs, FlowVerbs
<1>5. CASE FlowRuns
  BY <1>5 DEF FlowRuns
<1>6. CASE WatchFlow
  BY <1>6 DEF WatchFlow
<1>7. CASE ReadTrigger
  BY <1>7 DEF ReadTrigger, Blockers
<1>8. CASE ReadRecordTrigger
  BY <1>8 DEF ReadRecordTrigger
<1>9. CASE ReadClass
  <2>. HIDE DEF Added, Finds, Resolved3
  <2>1. \/ know' = know
        \/ \E b : know' = Added([blockers |-> b], know)
        \/ \E s, v, b : know' = Added([segments |-> s, segment |-> 1, clause |-> 1,
                                      verdict |-> "yes", verdicts |-> v, blockers |-> b], know)
    BY <1>9 DEF ReadClass, Blockers
  <2>. QED
    BY <2>1 DEF Added, Finds, Resolved3
<1>10. CASE EvaluateClause
  <2>. HIDE DEF Added, Finds, Resolved3
  <2>1. \/ know' = know
        \/ \E c, v : know' = Added([clause |-> c, verdict |-> v], know)
        \/ \E s, v : know' = Added([segment |-> s, clause |-> 1, verdict |-> "yes",
                                   verdicts |-> v], know)
        \/ \E b : know' = Added([blockers |-> b], know)
    BY <1>10 DEF EvaluateClause, Blockers
  <2>. QED
    BY <2>1 DEF Added, Finds, Resolved3
<1>11. CASE FetchContext
  BY <1>11 DEF FetchContext
<1>12. CASE FetchSteps
  BY <1>12 DEF FetchSteps
<1>13. CASE FetchFailed
  BY <1>13 DEF FetchFailed
<1>14. CASE FetchLogs
  BY <1>14 DEF FetchLogs
<1>15. CASE FlowEmit
  BY <1>15 DEF FlowEmit, Emit
<1>16. CASE FlowOthers
  BY <1>16 DEF FlowOthers, Others
<1>. QED
  BY <1>1, <1>2, <1>3, <1>4, <1>5, <1>6, <1>7, <1>8, <1>9, <1>10, <1>11, <1>12, <1>13, <1>14,
       <1>15, <1>16 DEF FlowStep

LEMMA FlowReadFinds ==
    ASSUME Proper, cmd.verb \in FlowReads, FlowReadStep \/ FlowReadOthers
    PROVE  Finds
<1>. USE DEF Finds, Resolved3, Added, Reading, Goto, Learns, Ends, Fails, Rejects
<1>1. CASE FlowReadArguments
  BY <1>1 DEF FlowReadArguments
<1>2. CASE FlowReadConnect
  BY <1>2 DEF FlowReadConnect, Connect
<1>3. CASE FlowList
  BY <1>3 DEF FlowList
<1>4. CASE PickFlow
  <2>1. \/ know' = know
        \/ \E f : know' = Added([flow |-> f], know) /\ (f = cmd.flow \/ f \in inst.named)
    BY <1>4 DEF PickFlow
  <2>2. ASSUME NEW f, f = cmd.flow \/ f \in inst.named, know' = Added([flow |-> f], know)
        PROVE  Finds
    BY <2>2 DEF Sought
  <2>. QED
    BY <2>1, <2>2
<1>5. CASE ReadModel
  BY <1>5 DEF ReadModel
<1>6. CASE EnsureFlowExists
  BY <1>6 DEF EnsureFlowExists
<1>7. CASE FlowReadEmit
  BY <1>7 DEF FlowReadEmit, Emit
<1>8. CASE FlowReadOthers
  BY <1>8 DEF FlowReadOthers, Others
<1>. QED
  BY <1>1, <1>2, <1>3, <1>4, <1>5, <1>6, <1>7, <1>8 DEF FlowReadStep

LEMMA DecisionFinds ==
    ASSUME Proper, cmd.verb \in DecisionVerbs, DecisionStep \/ DecisionOthers
    PROVE  Finds
<1>. USE DEF Finds, Resolved3, Added, Reading, Goto, Learns, Ends, Fails, Rejects
<1>1. CASE DecisionArguments
  BY <1>1 DEF DecisionArguments
<1>2. CASE DecisionConnect
  BY <1>2 DEF DecisionConnect, Connect
<1>3. CASE ListTables
  BY <1>3 DEF ListTables
<1>4. CASE ResolveTable
  <2>1. \/ know' = know
        \/ \E t : know' = Added([table |-> t], know) /\ (t = cmd.table \/ t \in inst.named)
    BY <1>4 DEF ResolveTable
  <2>2. ASSUME NEW t, t = cmd.table \/ t \in inst.named, know' = Added([table |-> t], know)
        PROVE  Finds
    BY <2>2 DEF Sought
  <2>. QED
    BY <2>1, <2>2
<1>5. CASE FetchDefinition
  BY <1>5 DEF FetchDefinition
<1>6. CASE CheckInputs
  BY <1>6 DEF CheckInputs
<1>7. CASE LookUpInput
  BY <1>7, RecordIsFound DEF LookUpInput, RecordVerbs, DecisionVerbs
<1>8. CASE TakeRecord
  BY <1>8 DEF TakeRecord
<1>9. CASE Evaluate
  BY <1>9 DEF Evaluate
<1>10. CASE DecisionEmit
  BY <1>10 DEF DecisionEmit, Emit
<1>11. CASE DecisionOthers
  BY <1>11 DEF DecisionOthers, Others
<1>. QED
  BY <1>1, <1>2, <1>3, <1>4, <1>5, <1>6, <1>7, <1>8, <1>9, <1>10, <1>11 DEF DecisionStep

LEMMA DoctorFinds ==
    ASSUME Proper, cmd.verb \in {"doctor"}, DoctorStep \/ DoctorOthers
    PROVE  Finds
<1>. USE DEF Finds, Resolved3, Added, Reading, Goto, Learns, Ends, Fails, Rejects
<1>1. CASE DoctorArguments
  BY <1>1 DEF DoctorArguments
<1>2. CASE DoctorConnect
  BY <1>2 DEF DoctorConnect, Connect
<1>3. CASE Ask
  BY <1>3 DEF Ask
<1>4. CASE DoctorEmit
  BY <1>4 DEF DoctorEmit, Emit
<1>5. CASE DoctorSummary
  BY <1>5 DEF DoctorSummary
<1>6. CASE DoctorOthers
  BY <1>6 DEF DoctorOthers, Others
<1>. QED
  BY <1>1, <1>2, <1>3, <1>4, <1>5, <1>6 DEF DoctorStep

LEMMA GraphFinds ==
    ASSUME Proper, cmd.verb \in GraphVerbs, GraphStep \/ GraphOthers
    PROVE  Finds
<1>. USE DEF Finds, Resolved3, Added, Reading, Goto, Learns, Ends, Fails, Rejects
<1>1. CASE GraphArguments
  BY <1>1 DEF GraphArguments
<1>2. CASE GraphConnect
  BY <1>2 DEF GraphConnect, Connect
<1>3. CASE GraphRecord
  BY <1>3, RecordIsFound DEF GraphRecord, RecordVerbs, GraphVerbs, PlaybookVerbs
<1>4. CASE Query
  BY <1>4 DEF Query, Written
<1>5. CASE ReadStreams
  <2>. HIDE DEF Added, Finds, Resolved3
  <2>1. \/ know' = know
        \/ \E a : know' = Added([attempt |-> a], know)
        \/ \E a, m : know' = Added([attempt |-> a, missing |-> m], know)
        \/ \E c : know' = Added([columns |-> c], know)
    BY <1>5 DEF ReadStreams
  <2>. QED
    BY <2>1 DEF Added, Finds, Resolved3
<1>6. CASE ReadRows
  BY <1>6 DEF ReadRows
<1>7. CASE ListPlaybooks
  BY <1>7 DEF ListPlaybooks
<1>8. CASE StartPlaybook
  BY <1>8 DEF StartPlaybook, Written
<1>9. CASE GraphEmit
  BY <1>9 DEF GraphEmit, Emit
<1>10. CASE TellErrors
  BY <1>10 DEF TellErrors
<1>11. CASE GraphOthers
  BY <1>11 DEF GraphOthers, Others
<1>. QED
  BY <1>1, <1>2, <1>3, <1>4, <1>5, <1>6, <1>7, <1>8, <1>9, <1>10, <1>11 DEF GraphStep

LEMMA ContextFinds ==
    ASSUME Proper, cmd.verb \in ContextVerbs, ContextStep \/ ReadBackOthers
    PROVE  Finds
<1>. USE DEF Finds, Resolved3, Added, Reading, Goto, Learns, Ends, Fails, Rejects
<1>1. CASE ContextArguments
  BY <1>1 DEF ContextArguments
<1>2. CASE ContextConnect
  BY <1>2 DEF ContextConnect, Connect
<1>3. CASE ReadPrevious
  BY <1>3 DEF ReadPrevious, ReadContext
<1>4. CASE ResolveScope
  BY <1>4 DEF ResolveScope
<1>5. CASE StageScope
  BY <1>5 DEF StageScope, Written
<1>6. CASE Identify
  BY <1>6 DEF Identify
<1>7. CASE WritePreference
  BY <1>7 DEF WritePreference, Written
<1>8. CASE ResolveSet
  BY <1>8 DEF ResolveSet
<1>9. CASE PickSet
  BY <1>9 DEF PickSet, Written
<1>10. CASE ReadAfter
  BY <1>10 DEF ReadAfter, ReadContext
<1>11. CASE VerifyContext
  BY <1>11 DEF VerifyContext
<1>12. CASE ContextEmit
  BY <1>12 DEF ContextEmit, Emit
<1>13. CASE ReadBackOthers
  BY <1>13 DEF ReadBackOthers, Others, ContextVerbs, VariablesVerbs
<1>. QED
  BY <1>1, <1>2, <1>3, <1>4, <1>5, <1>6, <1>7, <1>8, <1>9, <1>10, <1>11, <1>12, <1>13 DEF
       ContextStep

LEMMA VariablesFinds ==
    ASSUME Proper, cmd.verb \in VariablesVerbs, VariablesStep \/ ReadBackOthers
    PROVE  Finds
<1>. USE DEF Finds, Resolved3, Added, Reading, Goto, Learns, Ends, Fails, Rejects
<1>1. CASE VariablesArguments
  BY <1>1 DEF VariablesArguments
<1>2. CASE VariablesConnect
  BY <1>2 DEF VariablesConnect, Connect
<1>3. CASE VariablesRecord
  BY <1>3, RecordIsFound DEF VariablesRecord, RecordVerbs
<1>4. CASE ResolveOwner
  BY <1>4 DEF ResolveOwner
<1>5. CASE FetchBefore
  BY <1>5 DEF FetchBefore, FetchVars
<1>6. CASE CheckNames
  BY <1>6 DEF CheckNames
<1>7. CASE PutVariables
  BY <1>7 DEF PutVariables, Written
<1>8. CASE FetchAfter
  BY <1>8 DEF FetchAfter, FetchVars
<1>9. CASE CompareVariables
  BY <1>9 DEF CompareVariables
<1>10. CASE VariablesEmit
  BY <1>10 DEF VariablesEmit, Emit
<1>11. CASE ReadBackOthers
  BY <1>11 DEF ReadBackOthers, Others, ContextVerbs, VariablesVerbs
<1>. QED
  BY <1>1, <1>2, <1>3, <1>4, <1>5, <1>6, <1>7, <1>8, <1>9, <1>10, <1>11 DEF VariablesStep

LEMMA JobFinds ==
    ASSUME Proper, cmd.verb \in JobVerbs, JobStep \/ JobGoesOn
    PROVE  Finds
<1>. USE DEF Finds, Resolved3, Added, Reading, Goto, Learns, Ends, Fails, Rejects
<1>1. CASE JobArguments
  BY <1>1 DEF JobArguments, Declines
<1>2. CASE JobConnect
  BY <1>2 DEF JobConnect, Connect
<1>3. CASE JobPost
  <2>1. know' = know \/ know' = Added([polls |-> 0], know)
    BY <1>3 DEF JobPost
  <2>. QED
    BY <2>1
<1>4. CASE Poll
  BY <1>4 DEF Poll
<1>5. CASE Sleep
  BY <1>5 DEF Sleep
<1>6. CASE JobEmit
  BY <1>6 DEF JobEmit, Emit
<1>7. CASE JobGoesOn
  BY <1>7 DEF JobGoesOn
<1>. QED
  BY <1>1, <1>2, <1>3, <1>4, <1>5, <1>6, <1>7 DEF JobStep

LEMMA UiFinds ==
    ASSUME Proper, cmd.verb \in UiVerbs, UiStep \/ UiOthers
    PROVE  Finds
<1>. USE DEF Finds, Resolved3, Added, Reading, Goto, Learns, Ends, Fails, Rejects
<1>1. CASE UiArguments
  BY <1>1 DEF UiArguments, Declines
<1>2. CASE UiConnect
  BY <1>2 DEF UiConnect, Connect
<1>3. CASE UiSession
  BY <1>3 DEF UiSession
<1>4. CASE ScriptScope
  BY <1>4 DEF ScriptScope
<1>5. CASE PostScript
  BY <1>5 DEF PostScript, Written
<1>6. CASE RollbackContext
  BY <1>6 DEF RollbackContext
<1>7. CASE ScriptVerdict
  BY <1>7 DEF ScriptVerdict
<1>8. CASE UploadXml
  BY <1>8 DEF UploadXml, Written
<1>9. CASE CheckColumns
  <2>. HIDE DEF Added, Finds, Resolved3
  <2>1. know' = know \/ \E s : know' = Added([schemas |-> s], know)
    BY <1>9 DEF CheckColumns
  <2>. QED
    BY <2>1 DEF Added, Finds, Resolved3
<1>10. CASE UnloadClient
  BY <1>10 DEF UnloadClient
<1>11. CASE LoadHome
  BY <1>11 DEF LoadHome
<1>12. CASE Download
  BY <1>12 DEF Download
<1>13. CASE CutOff
  BY <1>13 DEF CutOff
<1>14. CASE UiEmit
  BY <1>14 DEF UiEmit, Emit
<1>15. CASE UiOthers
  BY <1>15 DEF UiOthers, Others
<1>. QED
  BY <1>1, <1>2, <1>3, <1>4, <1>5, <1>6, <1>7, <1>8, <1>9, <1>10, <1>11, <1>12, <1>13, <1>14,
       <1>15 DEF UiStep

\* What others do leaves names and numbers alone.
LEMMA SameNames ==
    ASSUME Proper, Next
    PROVE  /\ cmd.verb \in FlowVerbs \cup FlowReads \cup DecisionVerbs => inst'.named = inst.named
           /\ cmd.verb \in RecordVerbs =>
                 inst'.numbered = inst.numbered /\ inst'.records = inst.records
<1>1. inst = [f \in DOMAIN inst |-> inst[f]]
  BY Fields DEF Proper, Orderly, InPlace
<1>2. /\ cmd.verb \in FlowVerbs => Alters({"run", "flags", "trigger", "holds"})
      /\ cmd.verb \in FlowReads => Alters({"flows", "history"})
      /\ cmd.verb \in DecisionVerbs => Alters({"rows", "inputs"})
      /\ cmd.verb \in GraphVerbs => Alters({"held", "readable", "visible"})
      /\ cmd.verb \in VariablesVerbs => Alters({"pool"})
  BY <1>1, OwnSteps, FlowAlters, FlowReadAlters, DecisionAlters, GraphAlters, VariablesAlters
<1>3. /\ cmd.verb \in FlowVerbs \cup FlowReads \cup DecisionVerbs => "named" \in DOMAIN inst
      /\ cmd.verb \in RecordVerbs => {"records", "numbered"} \subseteq DOMAIN inst
  BY DEF Proper, Shaped, Has, RecordVerbs
<1>. QED
  BY <1>2, <1>3 DEF Alters, RecordVerbs

KnownSought == \A n \in Resolved3 \cap DOMAIN know : Sought(n, know[n])

LEMMA StaysSought ==
    ASSUME Proper, KnownSought, [Next]_vars
    PROVE  KnownSought'
<1>1. CASE Next
  <2>1. Finds \/ UNCHANGED know
    BY <1>1, OwnSteps, FlowFinds, FlowReadFinds, DecisionFinds, DoctorFinds, GraphFinds,
       ContextFinds, VariablesFinds, JobFinds, UiFinds
    DEF Proper, Orderly, InPlace, Verbs
  <2>2. \A n, found : Sought(n, found) => Sought(n, found)'
    BY <1>1, OwnSteps, SameNames DEF Sought
  <2>. QED
    BY <2>1, <2>2 DEF KnownSought, Finds, Resolved3
<1>2. CASE UNCHANGED vars
  BY <1>2 DEF vars, KnownSought, Sought
<1>. QED
  BY <1>1, <1>2

\* flow list, get and versions.
FlowReadWays ==
    /\ at = "flows" => cmd.verb = "flow list"
    /\ at \in {"flow name", "model", "exists"} => cmd.verb \in {"flow get", "flow versions"}
    /\ cmd.verb = "flow list" /\ at \notin {"argv", "done"} => ~RefusesQuery

FlowsRead ==
    /\ at = "model" /\ still => know.flow = cmd.flow \/ know.flow \in inst.flows
    /\ FlowsAreAsAsked

LEMMA OnlyOne ==
    ASSUME NEW n \in Nat, ~(n > 1), NEW i \in 1..n
    PROVE  i = 1
OBVIOUS

LEMMA MatchedFit ==
    ASSUME Proper, cmd.verb = "flow list", ~RefusesQuery, cmd.filters, ~inst.drops
    PROVE  ~cmd.leads => Matched \subseteq inst.fits
<1>1. /\ DOMAIN cmd.alternatives = 1..Len(cmd.alternatives)
      /\ Len(cmd.alternatives) \in Nat /\ ~(Len(cmd.alternatives) > 1)
  BY DEF Proper, Shaped, Listed, FlowReads, RefusesQuery
<1>2. \A i \in DOMAIN cmd.alternatives : i = 1
  BY <1>1, OnlyOne
<1>. QED
  BY <1>2 DEF Matched

LEMMA FlowReadStaysOnWay ==
    ASSUME cmd' = cmd, cmd.verb \in FlowReads, FlowReadWays, FlowReadStep \/ FlowReadOthers
    PROVE  FlowReadWays'
<1>. USE DEF FlowReadWays, FlowReads, RefusesQuery, Reading, Goto, Learns, Ends, Fails,
     Rejects
<1>1. CASE FlowReadArguments
  BY <1>1 DEF FlowReadArguments
<1>2. CASE FlowReadConnect
  BY <1>2 DEF FlowReadConnect, Connect
<1>3. CASE FlowList
  BY <1>3 DEF FlowList
<1>4. CASE PickFlow
  BY <1>4 DEF PickFlow
<1>5. CASE ReadModel
  BY <1>5 DEF ReadModel
<1>6. CASE EnsureFlowExists
  BY <1>6 DEF EnsureFlowExists
<1>7. CASE FlowReadEmit
  BY <1>7 DEF FlowReadEmit, Emit
<1>8. CASE FlowReadOthers
  BY <1>8 DEF FlowReadOthers, Others
<1>. QED
  BY <1>1, <1>2, <1>3, <1>4, <1>5, <1>6, <1>7, <1>8 DEF FlowReadStep

LEMMA FlowReadStaysTrue ==
    ASSUME Proper, cmd' = cmd, cmd.verb \in FlowReads, FlowReadWays, FlowsRead, FlowReadStep
           \/ FlowReadOthers
    PROVE  FlowsRead'
<1>. inst.history \subseteq inst.flows
  BY DEF Proper, Shaped
<1>. USE DEF FlowsRead, FlowsAreAsAsked, Reading, Goto, Learns, Ends, Fails, Rejects
<1>1. CASE FlowReadArguments
  BY <1>1 DEF FlowReadArguments
<1>2. CASE FlowReadConnect
  BY <1>2 DEF FlowReadConnect, Connect
<1>3. CASE FlowList
  <2>1. /\ at = "flows" /\ inst' = inst /\ cmd.verb = "flow list" /\ ~RefusesQuery
        /\ at' = "done" \/ (at' = "emit" /\ know'.listed = Matched)
    BY <1>3 DEF FlowList, FlowReadWays, Added
  <2>. QED
    BY <2>1, MatchedFit
<1>4. CASE PickFlow
  <2>1. /\ UNCHANGED <<inst, still, cmd>> /\ at = "flow name"
        /\ \/ at' = "done"
           \/ at' = "model" /\ \E f : /\ know' = Added([flow |-> f], know)
                                     /\ (f = cmd.flow \/ f \in inst.flows)
    BY <1>4, AnswersAreRows DEF PickFlow
  <2>2. ASSUME NEW f, know' = Added([flow |-> f], know) PROVE know'.flow = f
    BY <2>2 DEF Added
  <2>. QED
    BY <2>1, <2>2
<1>5. CASE ReadModel
  BY <1>5 DEF ReadModel, MustExist, FlowReadWays
<1>6. CASE EnsureFlowExists
  BY <1>6 DEF EnsureFlowExists, FlowReadWays
<1>7. CASE FlowReadEmit
  BY <1>7 DEF FlowReadEmit, Emit
<1>8. CASE FlowReadOthers
  BY <1>8 DEF FlowReadOthers, Others
<1>. QED
  BY <1>1, <1>2, <1>3, <1>4, <1>5, <1>6, <1>7, <1>8 DEF FlowReadStep

\* What a command resolved a name or a number to has it, in any instance: one that drops
\* terms, answers with other rows, or is edited while the command runs.
THEOREM NothingStrange == Spec => []NoStrangers
<1>. DEFINE Inv == KnownSought /\ (cmd.verb \in FlowReads => FlowReadWays /\ FlowsRead)
<1>1. Init => Inv
  BY DEF Init, Started, KnownSought, Resolved3, FlowReadWays, FlowsRead, FlowsAreAsAsked
<1>2. ASSUME Proper, Inv, [Next]_vars PROVE Inv'
  <2>1. CASE Next
    BY <1>2, <2>1, StaysSought, OwnSteps, FlowReadStaysOnWay, FlowReadStaysTrue
  <2>2. CASE UNCHANGED vars
    BY <1>2, <2>2, StaysSought
    DEF vars, FlowReadWays, FlowsRead, FlowsAreAsAsked, RefusesQuery
  <2>. QED
    BY <1>2, <2>1, <2>2
<1>3. Inv => NoStrangers
  <2>1. ASSUME Inv PROVE FlowsAreAsAsked
    BY <2>1 DEF FlowsRead, FlowsAreAsAsked, FlowReads
  <2>2. ASSUME Inv, "flow" \in DOMAIN know PROVE ~Stranger(know.flow, cmd.flow, inst.named, {})
    <3>1. know.flow \in inst.named \cup {cmd.flow}
      BY <2>2 DEF KnownSought, Resolved3, Sought
    <3>. QED
      BY <3>1 DEF Stranger
  <2>3. ASSUME Inv, "table" \in DOMAIN know PROVE ~Stranger(know.table, cmd.table, inst.named, {})
    <3>1. know.table \in inst.named \cup {cmd.table}
      BY <2>3 DEF KnownSought, Resolved3, Sought
    <3>. QED
      BY <3>1 DEF Stranger
  <2>4. ASSUME Inv, "record" \in DOMAIN know
        PROVE  ~Stranger(know.record, "", inst.numbered \cup {cmd.ref}, inst.records)
    <3>1. know.record \in inst.numbered \cup {cmd.ref} \/ inst.records = {know.record}
      BY <2>4 DEF KnownSought, Resolved3, Sought
    <3>. QED
      BY <3>1 DEF Stranger
  <2>. QED
    BY <2>1, <2>2, <2>3, <2>4 DEF NoStrangers
<1>. QED
  BY <1>1, <1>2, <1>3, ProperAtFirst, StaysProper, PTL DEF Spec

-----------------------------------------------------------------------------
\* decision run: no input is passed over.

DecisionWays ==
    /\ at = "list" => cmd.verb = "decision list"
    /\ at \in {"table", "definition"} => cmd.verb # "decision list"
    /\ at \in {"check", "ref", "found", "evaluate"} => cmd.verb = "decision run"

\* A table's mandatory inputs are given, and every input given is one of the table's.
Complete(given) ==
    /\ {n \in DOMAIN inst.inputs : inst.inputs[n].mandatory /\ inst.inputs[n].active}
          \subseteq DOMAIN given
    /\ DOMAIN given \subseteq DOMAIN inst.inputs

\* All that is given is understood, but for the numbers still to be looked up.
Understood(given) == \A n \in DOMAIN given : Understands(inst.inputs[n], given[n])
Acceptable(given) ==
    \A n \in DOMAIN given :
        Understands(inst.inputs[n], given[n]) \/ n \in ToLookUp(given)

InputsRead ==
    /\ at \in {"check", "ref", "found"} => {"inputs", "rows"} \subseteq DOMAIN know
    /\ at \in {"check", "ref", "found"} /\ still => know.inputs = inst.inputs
    /\ at \in {"ref", "found", "evaluate"} => "given" \in DOMAIN know
    /\ at \in {"ref", "found"} /\ still => Complete(know.given) /\ Acceptable(know.given)
    /\ at = "found" => know.record \in inst.records
    /\ cmd.verb = "decision run" /\ at \in {"evaluate", "emit"} /\ still
          => Complete(know.given) /\ Understood(know.given)

IsNumber(input, value) == input.kind = "reference" /\ value # "" /\ ~IsSysId(value)

\* A value that is not refused is understood, or a number to look up.
LEMMA NotRefused ==
    ASSUME NEW input, NEW value,
           input.kind \in {"string", "boolean", "choice", "reference"}, ~Refused(input, value)
    PROVE  \/ Understands(input, value)
           \/ IsNumber(input, value)
BY DEF Refused, Understands, IsSysId, IsNumber

LEMMA RecordIsThere ==
    ASSUME Proper, cmd.verb \in DecisionVerbs, ResolveRef("ref", "found")
    PROVE  /\ at = "ref" /\ UNCHANGED <<inst, still>>
           /\ \/ at' = "done"
              \/ \E r \in inst.records : at' = "found" /\ know' = Added([record |-> r], know)
<1>1. inst.numbered \subseteq inst.records
  BY DEF Proper, Shaped
<1>2. \A r : {r} \in Answers(inst.numbered, inst.records, 2) => r \in inst.records
  BY <1>1, AnswersAreRows
<1>3. at = "ref" /\ UNCHANGED <<inst, still>>
  BY DEF ResolveRef, Reading
<1>4. \/ at' = "done"
      \/ at' = "found" /\ cmd.ref \in inst.records /\ know' = Added([record |-> cmd.ref], know)
      \/ \E r : /\ {r} \in Answers(inst.numbered, inst.records, 2)
               /\ at' = "found" /\ know' = Added([record |-> r], know)
  BY DEF ResolveRef, Fails, Ends, Learns
<1>. QED
  BY <1>2, <1>3, <1>4

\* The checks are of the table and of what was read of it, and of nothing else.
LEMMA SameCheck ==
    ASSUME UNCHANGED <<inst, cmd>>, know'.inputs = know.inputs, NEW given
    PROVE  /\ Complete(given) => Complete(given)'
           /\ Understood(given) => Understood(given)'
           /\ Acceptable(given) => Acceptable(given)'
BY DEF Complete, Understood, Acceptable, ToLookUp, Understands, IsSysId

LEMMA InputsAreChecked ==
    ASSUME Proper, cmd.verb \in DecisionVerbs, InputsRead, CheckInputs
    PROVE  InputsRead'
<1>1. /\ UNCHANGED <<inst, still, cmd>> /\ at = "check"
      /\ \/ at' = "done"
         \/ /\ Unknown(cmd.given) = {} /\ Missing(cmd.given) = {}
            /\ \A n \in DOMAIN cmd.given : ~Refused(know.inputs[n], cmd.given[n])
            /\ know' = Added([given |-> cmd.given], know)
            /\ at' = IF ToLookUp(cmd.given) = {} THEN "evaluate" ELSE "ref"
  BY DEF CheckInputs, Reading, Rejects, Ends, Learns
<1>2. CASE at' = "done"
  BY <1>1, <1>2 DEF InputsRead
<1>3. CASE at' # "done"
  <2>1. /\ {"inputs", "rows", "given"} \subseteq DOMAIN know'
        /\ know'.inputs = know.inputs /\ know'.given = cmd.given
    <3>1. {"inputs", "rows"} \subseteq DOMAIN know
      BY <1>1 DEF InputsRead
    <3>. QED
      BY <1>1, <1>3, <3>1 DEF Added
  <2>2. CASE ~still
    BY <1>1, <1>3, <2>1, <2>2 DEF InputsRead
  <2>3. CASE still
    <3>1. know.inputs = inst.inputs
      BY <1>1, <2>3 DEF InputsRead
    <3>2. Complete(cmd.given)
      BY <1>1, <1>3, <3>1 DEF Unknown, Missing, Complete
    <3>3. Acceptable(cmd.given)
      <4>1. SUFFICES ASSUME NEW n \in DOMAIN cmd.given
                     PROVE  Understands(inst.inputs[n], cmd.given[n]) \/ n \in ToLookUp(cmd.given)
        BY DEF Acceptable
      <4>2. n \in DOMAIN inst.inputs
        BY <3>2 DEF Complete
      <4>3. inst.inputs[n].kind \in {"string", "boolean", "choice", "reference"}
        BY <4>2 DEF Proper, Shaped
      <4>4. ~Refused(inst.inputs[n], cmd.given[n])
        BY <1>1, <1>3, <3>1
      <4>5. Understands(inst.inputs[n], cmd.given[n]) \/ IsNumber(inst.inputs[n], cmd.given[n])
        BY <4>3, <4>4, NotRefused
      <4>. QED
        BY <3>1, <4>2, <4>5 DEF ToLookUp, IsNumber
    <3>4. ToLookUp(cmd.given) = {} => Understood(cmd.given)
      BY <3>3 DEF Acceptable, Understood
    <3>5. Complete(cmd.given)' /\ Acceptable(cmd.given)'
          /\ (ToLookUp(cmd.given) = {} => Understood(cmd.given)')
      BY <1>1, <2>1, <3>2, <3>3, <3>4, SameCheck
    <3>. QED
      BY <1>1, <1>3, <2>1, <3>1, <3>5 DEF InputsRead
  <2>. QED
    BY <2>2, <2>3
<1>. QED
  BY <1>2, <1>3

LEMMA RecordIsTaken ==
    ASSUME cmd' = cmd, InputsRead, TakeRecord
    PROVE  InputsRead'
<1>. DEFINE full == [n \in DOMAIN know.given |->
                        IF n \in ToLookUp(know.given) THEN know.record ELSE know.given[n]]
<1>1. /\ UNCHANGED <<inst, still>> /\ at = "found" /\ at' = "evaluate"
      /\ know' = Added([given |-> full], know)
  BY DEF TakeRecord, Reading, Learns
<1>. HIDE DEF full
<1>2. "inputs" \in DOMAIN know
  BY <1>1 DEF InputsRead
<1>3. "given" \in DOMAIN know' /\ know'.given = full /\ know'.inputs = know.inputs
  BY <1>1, <1>2 DEF Added
<1>4. ASSUME still PROVE Complete(full) /\ Understood(full)
  <2>1. /\ know.inputs = inst.inputs /\ know.record \in inst.records
        /\ Complete(know.given) /\ Acceptable(know.given)
    BY <1>1, <1>4 DEF InputsRead
  <2>2. DOMAIN full = DOMAIN know.given
    BY DEF full
  <2>3. Complete(full)
    BY <2>1, <2>2 DEF Complete
  <2>4. ASSUME NEW n \in DOMAIN know.given PROVE Understands(inst.inputs[n], full[n])
    <3>1. CASE n \in ToLookUp(know.given)
      BY <2>1, <2>4, <3>1 DEF full, Understands, ToLookUp
    <3>2. CASE n \notin ToLookUp(know.given)
      <4>1. full[n] = know.given[n]
        BY <2>4, <3>2 DEF full
      <4>2. Understands(inst.inputs[n], know.given[n])
        BY <2>1, <2>4, <3>2 DEF Acceptable
      <4>. QED
        BY <4>1, <4>2
    <3>. QED
      BY <3>1, <3>2
  <2>. QED
    BY <2>2, <2>3, <2>4 DEF Understood
<1>5. still => Complete(know.given)' /\ Understood(know.given)'
  BY <1>1, <1>3, <1>4 DEF Complete, Understood, Understands
<1>. QED
  BY <1>1, <1>3, <1>5 DEF InputsRead

LEMMA DecisionStaysOnWay ==
    ASSUME cmd' = cmd, cmd.verb \in DecisionVerbs, DecisionWays, DecisionStep \/
           DecisionOthers
    PROVE  DecisionWays'
<1>. USE DEF DecisionWays, DecisionVerbs, Reading, Goto, Learns, Ends, Fails, Rejects
<1>1. CASE DecisionArguments
  BY <1>1 DEF DecisionArguments
<1>2. CASE DecisionConnect
  BY <1>2 DEF DecisionConnect, Connect
<1>3. CASE ListTables
  BY <1>3 DEF ListTables
<1>4. CASE ResolveTable
  BY <1>4 DEF ResolveTable
<1>5. CASE FetchDefinition
  BY <1>5 DEF FetchDefinition
<1>6. CASE CheckInputs
  BY <1>6 DEF CheckInputs
<1>7. CASE LookUpInput
  BY <1>7 DEF LookUpInput, ResolveRef
<1>8. CASE TakeRecord
  BY <1>8 DEF TakeRecord
<1>9. CASE Evaluate
  BY <1>9 DEF Evaluate
<1>10. CASE DecisionEmit
  BY <1>10 DEF DecisionEmit, Emit
<1>11. CASE DecisionOthers
  BY <1>11 DEF DecisionOthers, Others
<1>. QED
  BY <1>1, <1>2, <1>3, <1>4, <1>5, <1>6, <1>7, <1>8, <1>9, <1>10, <1>11 DEF DecisionStep

LEMMA DecisionStaysTrue ==
    ASSUME Proper, cmd' = cmd, cmd.verb \in DecisionVerbs, DecisionWays, InputsRead,
           DecisionStep \/ DecisionOthers
    PROVE  InputsRead'
<1>. USE FailureKinds DEF Reading, Goto, Learns, Ends, Fails, Rejects
<1>1. CASE DecisionArguments
  BY <1>1 DEF DecisionArguments, InputsRead
<1>2. CASE DecisionConnect
  BY <1>2 DEF DecisionConnect, Connect, InputsRead
<1>3. CASE ListTables
  <2>1. at = "list" /\ at' \in {"emit", "done"}
    BY <1>3 DEF ListTables
  <2>. QED
    BY <2>1 DEF InputsRead, DecisionWays
<1>4. CASE ResolveTable
  <2>1. at' \in {"definition", "done"}
    BY <1>4 DEF ResolveTable
  <2>. QED
    BY <2>1 DEF InputsRead
<1>5. CASE FetchDefinition
  <2>1. /\ UNCHANGED <<inst, still>> /\ at = "definition"
        /\ \/ at' = "done"
           \/ at' = "emit" /\ cmd.verb = "decision show"
           \/ /\ at' = "check"
              /\ \E r : know' = Added([inputs |-> inst.inputs, rows |-> r], know)
    BY <1>5 DEF FetchDefinition
  <2>2. CASE at' = "done" \/ (at' = "emit" /\ cmd.verb = "decision show")
    BY <2>2 DEF InputsRead
  <2>3. CASE at' = "check"
    <3>1. {"inputs", "rows"} \subseteq DOMAIN know' /\ know'.inputs = inst.inputs
      BY <2>1, <2>3 DEF Added
    <3>. QED
      BY <2>1, <2>3, <3>1 DEF InputsRead
  <2>. QED
    BY <2>1, <2>2, <2>3
<1>6. CASE CheckInputs
  BY <1>6, InputsAreChecked
<1>7. CASE LookUpInput
  <2>1. /\ at = "ref" /\ UNCHANGED <<inst, still>>
        /\ \/ at' = "done"
           \/ \E r \in inst.records : at' = "found" /\ know' = Added([record |-> r], know)
    <3>1. ResolveRef("ref", "found")
      BY <1>7 DEF LookUpInput
    <3>. QED
      BY <3>1, RecordIsThere
  <2>2. CASE at' = "done"
    BY <2>2 DEF InputsRead
  <2>3. ASSUME NEW r \in inst.records, at' = "found", know' = Added([record |-> r], know)
        PROVE  InputsRead'
    <3>1. {"inputs", "rows", "given"} \subseteq DOMAIN know
      BY <2>1 DEF InputsRead
    <3>2. /\ {"inputs", "rows", "given"} \subseteq DOMAIN know' /\ know'.inputs = know.inputs
          /\ know'.given = know.given /\ know'.record = r
      BY <2>3, <3>1 DEF Added
    <3>3. still => know.inputs = inst.inputs /\ Complete(know.given) /\ Acceptable(know.given)
      BY <2>1 DEF InputsRead
    <3>4. still => Complete(know.given)' /\ Acceptable(know.given)'
      BY <2>1, <3>2, <3>3 DEF Complete, Acceptable, ToLookUp, Understands, IsSysId
    <3>. QED
      BY <2>1, <2>3, <3>2, <3>3, <3>4 DEF InputsRead
  <2>. QED
    BY <2>1, <2>2, <2>3
<1>8. CASE TakeRecord
  BY <1>8, RecordIsTaken
<1>9. CASE Evaluate
  <2>1. /\ UNCHANGED <<inst, still>> /\ at = "evaluate"
        /\ at' = "done" \/ (at' = "emit" /\ \E a : know' = Added([answers |-> a], know))
    BY <1>9 DEF Evaluate
  <2>2. CASE at' = "done"
    BY <2>2 DEF InputsRead
  <2>3. ASSUME NEW a, at' = "emit", know' = Added([answers |-> a], know) PROVE InputsRead'
    <3>1. "given" \in DOMAIN know
      BY <2>1 DEF InputsRead
    <3>2. know'.given = know.given
      BY <2>3, <3>1 DEF Added
    <3>3. cmd.verb = "decision run" /\ still => Complete(know.given) /\ Understood(know.given)
      BY <2>1 DEF InputsRead
    <3>4. cmd.verb = "decision run" /\ still => Complete(know.given)' /\ Understood(know.given)'
      BY <2>1, <3>2, <3>3 DEF Complete, Understood, Understands
    <3>. QED
      BY <2>1, <2>3, <3>2, <3>4 DEF InputsRead
  <2>. QED
    BY <2>1, <2>2, <2>3
<1>10. CASE DecisionEmit
  <2>1. at' = "done"
    BY <1>10 DEF DecisionEmit, Emit
  <2>. QED
    BY <2>1 DEF InputsRead
<1>11. CASE DecisionOthers
  <2>1. still' = FALSE /\ UNCHANGED <<cmd, at, know>>
    BY <1>11 DEF DecisionOthers, Others
  <2>2. inst'.records = inst.records
    <3>1. inst = [f \in DOMAIN inst |-> inst[f]] /\ "records" \in DOMAIN inst
      BY DEF Proper, Shaped, Has
    <3>. QED
      BY <1>11, <3>1, DecisionAlters DEF Alters
  <2>. QED
    BY <2>1, <2>2 DEF InputsRead
<1>. QED
  BY <1>1, <1>2, <1>3, <1>4, <1>5, <1>6, <1>7, <1>8, <1>9, <1>10, <1>11 DEF DecisionStep

\* An answer of the evaluator is an answer to the question asked, of any table and any
\* inputs, while nobody edits the table.
THEOREM NoInputIsIgnored == Spec => []NothingIgnored
<1>. DEFINE Inv == cmd.verb \in DecisionVerbs => DecisionWays /\ InputsRead
<1>1. Init => Inv
  BY DEF Init, Started, DecisionWays, InputsRead
<1>2. ASSUME Proper, Inv, [Next]_vars PROVE Inv'
  <2>1. CASE Next
    BY <1>2, <2>1, OwnSteps, DecisionStaysOnWay, DecisionStaysTrue
  <2>2. CASE UNCHANGED vars
    <3>1. DecisionWays' = DecisionWays
      BY <2>2 DEF vars, DecisionWays
    <3>2. InputsRead => InputsRead'
      BY <2>2 DEF vars, InputsRead, Complete, Acceptable, Understood, ToLookUp, Understands, IsSysId
    <3>. QED
      BY <1>2, <2>2, <3>1, <3>2 DEF vars
  <2>. QED
    BY <1>2, <2>1, <2>2
<1>3. Inv => NothingIgnored
  BY DEF InputsRead, NothingIgnored, Complete, Understood, DecisionVerbs
<1>. QED
  BY <1>1, <1>2, <1>3, ProperAtFirst, StaysProper, PTL DEF Spec

-----------------------------------------------------------------------------
\* Loops over a sequence.  The numbers are well ordered; stated of sets, that is an
\* induction that needs no operator.
Less == {p \in Nat \X Nat : p[1] < p[2]}

LEMMA LeastNumber ==
    ASSUME NEW S \in SUBSET Nat, S # {}
    PROVE  \E n \in S : \A m \in S : n <= m
<1>1. IsWellFoundedOn(Less, Nat)
  BY NatLessThanWellFounded, Zenon DEF OpToRel, Less
<1>2. PICK n \in S : \A m \in S : ~(<<m, n>> \in Less)
  BY <1>1, WFMin
<1>3. \A m \in S : <<m, n>> \in Less <=> m < n
  BY DEF Less
<1>4. \A m \in S : ~(m < n)
  BY <1>2, <1>3
<1>. QED
  BY <1>4

LEMMA StepByStep ==
    ASSUME NEW N \in Nat, NEW S, 0 \in S, \A n \in 0..N : n < N /\ n \in S => n + 1 \in S
    PROVE  \A n \in 0..N : n \in S
<1>. DEFINE Bad == {n \in 0..N : n \notin S}
<1>1. SUFFICES ASSUME Bad # {} PROVE FALSE
  OBVIOUS
<1>2. PICK n \in Bad : \A m \in Bad : n <= m
  <2>1. Bad \in SUBSET Nat
    OBVIOUS
  <2>. QED
    BY <1>1, <2>1, LeastNumber
<1>3. n # 0 /\ n \in 0..N /\ n \notin S
  BY <1>2
<1>4. n - 1 \in 0..N /\ ~(n <= n - 1) /\ n - 1 < N /\ (n - 1) + 1 = n
  BY <1>3
<1>5. n - 1 \in S
  BY <1>2, <1>4
<1>. QED
  BY <1>3, <1>4, <1>5

\* A run of a loop over N things: what it holds after each of them.
RunOf(g, A, N, a, F) ==
    g \in [0..N -> A] /\ g[0] = a /\ \A i \in 1..N : g[i] = F[<<g[i - 1], i>>]

\* A loop that stays in a set has a run.
LEMMA LoopRuns ==
    ASSUME NEW A, NEW N \in Nat, NEW a \in A, NEW F \in [A \X (1..N) -> A]
    PROVE  \E g : RunOf(g, A, N, a, F)
<1>. DEFINE Runs(n) == {g \in [0..n -> A] : g[0] = a /\ \A i \in 1..n : g[i] = F[<<g[i - 1], i>>]}
            S == {n \in 0..N : Runs(n) # {}}
<1>1. 0 \in S
  <2>1. [i \in 0..0 |-> a] \in Runs(0)
    OBVIOUS
  <2>. QED
    BY <2>1
<1>2. ASSUME NEW n \in 0..N, n < N, n \in S
      PROVE  n + 1 \in S
  <2>1. PICK g \in Runs(n) : TRUE
    BY <1>2
  <2>2. n \in Nat /\ n + 1 \in 1..N /\ n \in 0..n /\ n + 1 \in 0..N
    BY <1>2
  <2>3. F[<<g[n], n + 1>>] \in A
    BY <2>1, <2>2
  <2>. DEFINE h == [i \in 0..(n + 1) |-> IF i = n + 1 THEN F[<<g[n], n + 1>>] ELSE g[i]]
  <2>4. h \in [0..(n + 1) -> A]
    BY <2>1, <2>2, <2>3
  <2>5. h[0] = a
    BY <2>1, <2>2
  <2>6. ASSUME NEW i \in 1..(n + 1) PROVE h[i] = F[<<h[i - 1], i>>]
    <3>1. CASE i = n + 1
      <4>1. i - 1 = n /\ n \in 0..(n + 1) /\ n # n + 1
        BY <2>2, <3>1
      <4>2. h[n] = g[n] /\ h[n + 1] = F[<<g[n], n + 1>>]
        BY <2>2, <4>1
      <4>. HIDE DEF h
      <4>. QED
        BY <3>1, <4>1, <4>2
    <3>2. CASE i # n + 1
      <4>1. /\ i \in 1..n /\ i \in 0..(n + 1) /\ i - 1 \in 0..(n + 1) /\ i - 1 # n + 1
        BY <2>2, <3>2
      <4>2. g[i] = F[<<g[i - 1], i>>]
        BY <2>1, <4>1
      <4>. QED
        BY <3>2, <4>1, <4>2
    <3>. QED
      BY <3>1, <3>2
  <2>7. h \in Runs(n + 1)
    BY <2>4, <2>5, <2>6
  <2>. QED
    BY <2>2, <2>7
<1>. HIDE DEF S
<1>3. N \in S
  BY <1>1, <1>2, StepByStep
<1>. QED
  BY <1>3 DEF S, RunOf

-----------------------------------------------------------------------------
\* xml export: the terms of its query name columns there are.

StopReasons == {"none", "no reference", "unread", "no such column"}

\* Following a path is a loop over its columns.
LEMMA FollowIsALoop ==
    ASSUME NEW schemas, NEW path, Listed(path)
    PROVE  \E walk, tables :
              /\ walk \in [0..Len(path) -> [on : tables, stop : StopReasons]]
              /\ walk[0] = [on |-> cmd.table, stop |-> "none"]
              /\ \A i \in 1..Len(path) : walk[i] = Along(schemas, walk[i - 1], path[i])
              /\ Follow(schemas, path) = walk[Len(path)]
<1>. DEFINE N == Len(path)
            tables == {cmd.table} \cup UNION {{schemas[t][c] : c \in DOMAIN schemas[t]} :
                                                t \in DOMAIN schemas}
            A == [on : tables, stop : StopReasons]
            a == [on |-> cmd.table, stop |-> "none"]
            F == [p \in A \X (1..N) |-> Along(schemas, p[1], path[p[2]])]
            Walks(w) == w = [n \in 0..N |-> IF n = 0 THEN a ELSE Along(schemas, w[n - 1], path[n])]
            walk == CHOOSE w : Walks(w)
<1>1. N \in Nat /\ a \in A
  BY DEF Listed, StopReasons
<1>2. ASSUME NEW w \in A, NEW column PROVE Along(schemas, w, column) \in A
  <2>1. w.on \in tables /\ w.stop \in StopReasons /\ w = [on |-> w.on, stop |-> w.stop]
    OBVIOUS
  <2>2. ASSUME w.on \in DOMAIN schemas, column \in DOMAIN schemas[w.on]
        PROVE  schemas[w.on][column] \in tables
    BY <2>2
  <2>. HIDE DEF tables
  <2>3. \A r \in StopReasons : [w EXCEPT !.stop = r] \in A
    BY <2>1
  <2>4. \A t \in tables : [w EXCEPT !.on = t] \in A
    BY <2>1
  <2>5. {"no reference", "unread", "no such column"} \subseteq StopReasons
    BY DEF StopReasons
  <2>. HIDE DEF A
  <2>. QED
    BY <2>2, <2>3, <2>4, <2>5 DEF Along
<1>3. F \in [A \X (1..N) -> A]
  BY <1>2
<1>. HIDE DEF A
<1>4. PICK g \in [0..N -> A] : g[0] = a /\ \A i \in 1..N : g[i] = F[<<g[i - 1], i>>]
  <2>. HIDE DEF N, a, F
  <2>1. N \in Nat /\ a \in A /\ F \in [A \X (1..N) -> A]
    BY <1>1, <1>3
  <2>2. \E g : RunOf(g, A, N, a, F)
    BY <2>1, LoopRuns, Zenon
  <2>. QED
    BY <2>2 DEF RunOf
<1>5. ASSUME NEW i \in 1..N PROVE g[i] = Along(schemas, g[i - 1], path[i])
  <2>1. i - 1 \in 0..N /\ i \in 0..N
    BY <1>1
  <2>2. <<g[i - 1], i>> \in A \X (1..N)
    BY <1>4, <2>1
  <2>. QED
    BY <1>4, <2>2
<1>6. Walks(g)
  <2>1. ASSUME NEW n \in 0..N PROVE g[n] = IF n = 0 THEN a ELSE Along(schemas, g[n - 1], path[n])
    <3>1. n # 0 => n \in 1..N
      BY <1>1
    <3>. QED
      BY <1>4, <1>5, <3>1
  <2>. QED
    BY <1>4, <2>1
<1>7. Follow(schemas, path) = walk[N]
  BY DEF Follow
<1>. HIDE DEF Walks
<1>8. Walks(walk)
  BY <1>6
<1>. HIDE DEF walk
<1>9. walk = [n \in 0..N |-> IF n = 0 THEN a ELSE Along(schemas, walk[n - 1], path[n])]
  BY <1>8 DEF Walks
<1>. DEFINE S == {n \in 0..N : walk[n] \in A}
<1>10. \A n \in 0..N : n \in S
  <2>1. 0 \in S
    BY <1>1, <1>9
  <2>2. ASSUME NEW n \in 0..N, n < N, n \in S PROVE n + 1 \in S
    <3>1. n + 1 \in 0..N /\ n + 1 # 0 /\ (n + 1) - 1 = n
      BY <1>1, <2>2
    <3>2. walk[n + 1] = Along(schemas, walk[n], path[n + 1])
      BY <1>9, <3>1
    <3>. QED
      BY <1>2, <2>2, <3>1, <3>2
  <2>. HIDE DEF S
  <2>. QED
    BY <1>1, <2>1, <2>2, StepByStep
<1>11. walk \in [0..N -> A]
  BY <1>9, <1>10
<1>12. walk[0] = a /\ \A i \in 1..N : walk[i] = Along(schemas, walk[i - 1], path[i])
  <2>1. 0 \in 0..N /\ \A i \in 1..N : i \in 0..N /\ i # 0
    BY <1>1
  <2>. QED
    BY <1>9, <2>1
<1>13. \E w, s : /\ w \in [0..N -> [on : s, stop : StopReasons]] /\ w[0] = a
                 /\ \A i \in 1..N : w[i] = Along(schemas, w[i - 1], path[i])
                 /\ Follow(schemas, path) = w[N]
  <2>1. walk \in [0..N -> [on : tables, stop : StopReasons]]
    BY <1>11 DEF A
  <2>. HIDE DEF tables
  <2>. QED
    BY <1>7, <1>12, <2>1
<1>. QED
  BY <1>13

\* What has been read of the schema is what there is.
Faithful(schemas) ==
    \A t \in DOMAIN schemas :
        schemas[t] = IF t \in DOMAIN inst.schema THEN inst.schema[t] ELSE NoColumns

\* A path that nothing stops names a column.
LEMMA UnstoppedNames ==
    ASSUME NEW schemas, Faithful(schemas), NEW path, Listed(path), path # <<>>,
           Follow(schemas, path).stop = "none"
    PROVE  Names(path)
<1>. DEFINE N == Len(path)
<1>1. PICK walk, tables :
              /\ walk \in [0..N -> [on : tables, stop : StopReasons]]
              /\ walk[0] = [on |-> cmd.table, stop |-> "none"]
              /\ \A i \in 1..N : walk[i] = Along(schemas, walk[i - 1], path[i])
              /\ Follow(schemas, path) = walk[N]
  BY FollowIsALoop
<1>2. N \in Nat /\ DOMAIN path = 1..N
  BY DEF Listed
<1>3. ASSUME NEW i \in 1..N
      PROVE  /\ i - 1 \in 0..N /\ i \in 0..N
             /\ walk[i].stop = "none" => /\ walk[i - 1].stop = "none"
                                         /\ walk[i - 1].on \in DOMAIN schemas
                                         /\ path[i] \in DOMAIN schemas[walk[i - 1].on]
                                         /\ walk[i].on = schemas[walk[i - 1].on][path[i]]
  <2>1. i - 1 \in 0..N /\ i \in 0..N
    BY <1>2
  <2>2. walk[i - 1] \in [on : tables, stop : StopReasons] /\ walk[i] = Along(schemas, walk[i - 1], path[i])
    BY <1>1, <2>1
  <2>3. \A w \in [on : tables, stop : StopReasons], r \in StopReasons : \A t :
           [w EXCEPT !.stop = r].stop = r /\ [w EXCEPT !.on = t].stop = w.stop /\ [w EXCEPT !.on = t].on = t
    OBVIOUS
  <2>4. {"no reference", "unread", "no such column"} \subseteq StopReasons
        /\ "none" \notin {"no reference", "unread", "no such column"}
    BY DEF StopReasons
  <2>5. ASSUME NEW w \in [on : tables, stop : StopReasons], NEW column,
               Along(schemas, w, column).stop = "none"
        PROVE  /\ w.stop = "none" /\ w.on \in DOMAIN schemas /\ column \in DOMAIN schemas[w.on]
               /\ Along(schemas, w, column).on = schemas[w.on][column]
    <3>1. w.stop = "none"
      BY <2>5 DEF Along
    <3>2. w.on # Nowhere
      BY <2>3, <2>4, <2>5, <3>1 DEF Along
    <3>3. w.on \in DOMAIN schemas
      BY <2>3, <2>4, <2>5, <3>1, <3>2 DEF Along
    <3>4. column \in DOMAIN schemas[w.on]
      BY <2>3, <2>4, <2>5, <3>1, <3>2, <3>3 DEF Along
    <3>5. Along(schemas, w, column) = [w EXCEPT !.on = schemas[w.on][column]]
      BY <3>1, <3>2, <3>3, <3>4 DEF Along
    <3>. QED
      BY <2>3, <2>4, <3>1, <3>3, <3>4, <3>5
  <2>. QED
    BY <2>1, <2>2, <2>5
<1>. DEFINE S == {n \in 0..N : walk[N - n].stop = "none"}
<1>4. \A n \in 0..N : n \in S
  <2>1. 0 \in S
    BY <1>1, <1>2
  <2>2. ASSUME NEW n \in 0..N, n < N, n \in S PROVE n + 1 \in S
    <3>1. N - n \in 1..N /\ n + 1 \in 0..N /\ N - (n + 1) = (N - n) - 1
      BY <1>2, <2>2
    <3>. QED
      BY <1>3, <2>2, <3>1
  <2>. HIDE DEF S
  <2>. QED
    BY <1>2, <2>1, <2>2, StepByStep
<1>5. \A i \in 0..N : walk[i].stop = "none"
  <2>1. \A i \in 0..N : N - i \in 0..N /\ N - (N - i) = i
    BY <1>2
  <2>. QED
    BY <1>4, <2>1
<1>6. ASSUME NEW i \in 1..N
      PROVE  /\ walk[i - 1].on \in DOMAIN inst.schema
             /\ path[i] \in DOMAIN inst.schema[walk[i - 1].on]
             /\ walk[i].on = inst.schema[walk[i - 1].on][path[i]]
  <2>1. /\ walk[i - 1].on \in DOMAIN schemas /\ path[i] \in DOMAIN schemas[walk[i - 1].on]
        /\ walk[i].on = schemas[walk[i - 1].on][path[i]]
    BY <1>3, <1>5
  <2>2. DOMAIN NoColumns = {}
    BY Zenon DEF NoColumns
  <2>. QED
    BY <2>1, <2>2 DEF Faithful
<1>. DEFINE on == [i \in DOMAIN path |-> walk[i - 1].on]
<1>7. on \in [DOMAIN path -> DOMAIN inst.schema]
  BY <1>2, <1>6
<1>8. on[1] = cmd.table
  <2>1. 1 \in 1..N
    BY <1>2
  <2>. QED
    BY <1>1, <1>2, <2>1
<1>9. ASSUME NEW i \in DOMAIN path
      PROVE  /\ path[i] \in DOMAIN inst.schema[on[i]]
             /\ i < Len(path) => inst.schema[on[i]][path[i]] = on[i + 1]
  <2>1. i \in 1..N /\ (i < N => i + 1 \in 1..N /\ (i + 1) - 1 = i)
    BY <1>2
  <2>. QED
    BY <1>2, <1>6, <2>1
<1>. HIDE DEF on
<1>. QED
  BY <1>7, <1>8, <1>9 DEF Names

\* The schema is read as it is, and past the check every term names a column.
ExportChecked ==
    /\ cmd.verb = "xml export" /\ still /\ "schemas" \in DOMAIN know => Faithful(know.schemas)
    /\ cmd.verb = "xml export" /\ at \in {"unload", "home", "home read", "emit"} /\ still /\ ~cmd.related
          => \A i \in DOMAIN cmd.paths : Names(cmd.paths[i])

LEMMA OneMoreIsFaithful ==
    ASSUME NEW schemas, Faithful(schemas), NEW t
    PROVE  Faithful(Added([u \in {t} |-> IF t \in DOMAIN inst.schema THEN inst.schema[t] ELSE NoColumns],
                          schemas))
BY DEF Faithful, Added

LEMMA ColumnsAreChecked ==
    ASSUME Proper, cmd' = cmd, cmd.verb = "xml export", ExportChecked, CheckColumns
    PROVE  ExportChecked'
<1>. DEFINE schemas == IF "schemas" \in DOMAIN know THEN know.schemas ELSE NoColumns
            Entry(t) == IF t \in DOMAIN inst.schema THEN inst.schema[t] ELSE NoColumns
            Unstopped == \A i \in DOMAIN Checkable : Follow(schemas, Checkable[i]).stop = "none"
<1>1. /\ inst' = inst /\ still' = still /\ at = "columns"
      /\ \/ at' \in {"done", "columns"} /\ know' = know
         \/ at' = "columns" /\ \E t : know' = Added([schemas |-> Added([u \in {t} |-> Entry(t)], schemas)], know)
         \/ at' = "unload" /\ know' = know /\ Unstopped
  <2>. HIDE DEF Added, Follow, NoColumns
  <2>. QED
    BY DEF CheckColumns, Reading, Fails, Ends, Learns, Rejects, Goto
<1>2. still => Faithful(schemas)
  <2>1. DOMAIN NoColumns = {}
    BY Zenon DEF NoColumns
  <2>. QED
    BY <2>1 DEF ExportChecked, Faithful
<1>. HIDE DEF schemas
<1>3. CASE at' \in {"done", "columns"} /\ know' = know
  BY <1>1, <1>3 DEF ExportChecked, Faithful
<1>4. ASSUME NEW t, at' = "columns",
             know' = Added([schemas |-> Added([u \in {t} |-> Entry(t)], schemas)], know)
      PROVE  ExportChecked'
  <2>1. know'.schemas = Added([u \in {t} |-> Entry(t)], schemas)
    <3>. DEFINE s == Added([u \in {t} |-> Entry(t)], schemas)
    <3>1. know' = Added([schemas |-> s], know)
      BY <1>4
    <3>. HIDE DEF s
    <3>2. know'.schemas = s
      BY <3>1 DEF Added
    <3>. QED
      BY <3>2 DEF s
  <2>2. still => Faithful(know'.schemas)
    BY <1>2, <2>1, OneMoreIsFaithful
  <2>3. still' => Faithful(know.schemas)'
    BY <1>1, <2>2 DEF Faithful
  <2>. QED
    BY <1>4, <2>3 DEF ExportChecked
<1>5. CASE at' = "unload" /\ know' = know /\ Unstopped
  <2>1. still' /\ "schemas" \in DOMAIN know' => Faithful(know.schemas)'
    BY <1>1, <1>5 DEF ExportChecked, Faithful
  <2>2. ASSUME still, ~cmd.related, NEW i \in DOMAIN cmd.paths
        PROVE  Names(cmd.paths[i])
    <3>1. Listed(cmd.paths[i]) /\ cmd.paths[i] # <<>>
      BY DEF Proper, Shaped
    <3>2. Follow(schemas, cmd.paths[i]).stop = "none"
      BY <1>5, <2>2 DEF Checkable
    <3>. QED
      BY <1>2, <2>2, <3>1, <3>2, UnstoppedNames
  <2>3. still' /\ ~cmd'.related => \A i \in DOMAIN cmd'.paths : Names(cmd.paths[i])'
    BY <1>1, <2>2 DEF Names
  <2>. QED
    BY <1>5, <2>1, <2>3 DEF ExportChecked
<1>. QED
  BY <1>1, <1>3, <1>4, <1>5

LEMMA ExportStaysChecked ==
    ASSUME Proper, cmd' = cmd, cmd.verb \in UiVerbs, UiWays, ExportChecked, UiStep \/ UiOthers
    PROVE  ExportChecked'
<1>. DEFINE Read == cmd.verb = "xml export" /\ still /\ "schemas" \in DOMAIN know => Faithful(know.schemas)
            Checked == cmd.verb = "xml export" /\ still /\ ~cmd.related
                          => \A i \in DOMAIN cmd.paths : Names(cmd.paths[i])
            Past == {"unload", "home", "home read", "emit"}
<1>1. CASE cmd.verb # "xml export"
  BY <1>1 DEF ExportChecked
<1>2. CASE cmd.verb = "xml export" /\ UNCHANGED <<inst, know, still>> /\ (at' \in Past => at \in Past)
  <2>1. Read' = Read
    BY <1>2 DEF Faithful
  <2>2. \A i \in DOMAIN cmd.paths : Names(cmd.paths[i])' <=> Names(cmd.paths[i])
    BY <1>2 DEF Names
  <2>3. Checked' <=> Checked
    BY <1>2, <2>2
  <2>. QED
    BY <1>2, <2>1, <2>3 DEF ExportChecked
<1>3. CASE cmd.verb = "xml export" /\ ~still'
  BY <1>3 DEF ExportChecked
<1>4. CASE cmd.verb = "xml export" /\ CheckColumns
  BY <1>4, ColumnsAreChecked
<1>5. \/ cmd.verb # "xml export" \/ CheckColumns \/ ~still'
      \/ UNCHANGED <<inst, know, still>> /\ (at' \in Past => at \in Past)
  <2>. USE DEF UiWays, Reading, Goto, Ends, Fails, Rejects
  <2>1. CASE UiArguments
    BY <2>1 DEF UiArguments, Declines
  <2>2. CASE UiConnect
    BY <2>2 DEF UiConnect, Connect, UiVerbs
  <2>3. CASE UiSession
    BY <2>3 DEF UiSession
  <2>4. CASE ScriptScope \/ PostScript \/ RollbackContext \/ ScriptVerdict \/ UploadXml
    BY <2>4 DEF ScriptScope, PostScript, RollbackContext, ScriptVerdict, UploadXml
  <2>5. CASE UnloadClient \/ LoadHome \/ Download \/ CutOff
    BY <2>5 DEF UnloadClient, LoadHome, Download, CutOff
  <2>6. CASE UiEmit
    BY <2>6 DEF UiEmit, Emit
  <2>7. CASE UiOthers
    BY <2>7 DEF UiOthers, Others
  <2>. QED
    BY <2>1, <2>2, <2>3, <2>4, <2>5, <2>6, <2>7 DEF UiStep
<1>. QED
  BY <1>1, <1>2, <1>3, <1>4, <1>5

\* An export that is written has no term the instance could have dropped: check_columns
\* follows every path of the query to a column, for paths of any length and any schema,
\* references in a circle included.
THEOREM ExportsAreFiltered == Spec => []ExportIsFiltered
<1>. DEFINE Inv == cmd.verb \in UiVerbs => UiWays /\ ExportChecked
<1>1. Init => Inv
  BY DEF Init, Started, UiWays, ExportChecked
<1>2. ASSUME Proper, Inv, [Next]_vars PROVE Inv'
  <2>1. CASE Next
    BY <1>2, <2>1, OwnSteps, UiStaysOnWay, ExportStaysChecked
  <2>2. CASE UNCHANGED vars
    <3>1. UiWays' <=> UiWays
      BY <2>2 DEF vars, UiWays
    <3>2. cmd.verb = "xml export" => (Faithful(know.schemas)' <=> Faithful(know.schemas))
      BY <2>2 DEF vars, Faithful
    <3>3. \A i \in DOMAIN cmd.paths : Names(cmd.paths[i])' <=> Names(cmd.paths[i])
      BY <2>2 DEF vars, Names
    <3>4. ExportChecked => ExportChecked'
      BY <2>2, <3>2, <3>3 DEF vars, ExportChecked
    <3>. QED
      BY <1>2, <2>2, <3>1, <3>4 DEF vars
  <2>. QED
    BY <1>2, <2>1, <2>2
<1>3. Inv => ExportIsFiltered
  BY DEF ExportChecked, ExportIsFiltered, UiVerbs
<1>. QED
  BY <1>1, <1>2, <1>3, ProperAtFirst, StaysProper, PTL DEF Spec

-----------------------------------------------------------------------------
\* why-not: a condition that is split into segments of clauses says what the engine
\* makes of the positions of its terms.

\* How many of 1..i are in a set, and how that grows.
Count(Q, i) == Cardinality({j \in 1..i : j \in Q})

LEMMA Counts ==
    ASSUME NEW Q, NEW n \in Nat
    PROVE  /\ Count(Q, n) \in Nat
           /\ Count(Q, 0) = 0
           /\ Count(Q, n + 1) = IF n + 1 \in Q THEN Count(Q, n) + 1 ELSE Count(Q, n)
           /\ \A i \in 0..n : Count(Q, i) \in Nat /\ Count(Q, i) <= Count(Q, n)
<1>. DEFINE C(i) == {j \in 1..i : j \in Q}
<1>1. ASSUME NEW i \in Nat PROVE IsFiniteSet(C(i)) /\ Cardinality(C(i)) \in Nat
  <2>1. IsFiniteSet(1..i)
    BY FS_Interval
  <2>2. C(i) \subseteq 1..i
    OBVIOUS
  <2>. QED
    BY <2>1, <2>2, FS_Subset, FS_CardinalityType
<1>2. Cardinality(C(0)) = 0
  <2>1. C(0) = {}
    OBVIOUS
  <2>. QED
    BY <2>1, FS_EmptySet
<1>3. Cardinality(C(n + 1)) = IF n + 1 \in Q THEN Cardinality(C(n)) + 1 ELSE Cardinality(C(n))
  <2>1. CASE n + 1 \in Q
    <3>1. C(n + 1) = C(n) \cup {n + 1} /\ n + 1 \notin C(n)
      BY <2>1
    <3>. QED
      BY <1>1, <2>1, <3>1, FS_AddElement
  <2>2. CASE n + 1 \notin Q
    <3>1. C(n + 1) = C(n)
      BY <2>2
    <3>. QED
      BY <2>2, <3>1
  <2>. QED
    BY <2>1, <2>2
<1>4. ASSUME NEW i \in 0..n
      PROVE  Cardinality(C(i)) \in Nat /\ Cardinality(C(i)) <= Cardinality(C(n))
  <2>1. C(i) \subseteq C(n) /\ i \in Nat
    OBVIOUS
  <2>. QED
    BY <1>1, <2>1, FS_Subset
<1>. QED
  BY <1>1, <1>2, <1>3, <1>4 DEF Count

\* A reading of a condition: the alternative and the group each of its terms is in, and
\* which terms are true.
Members(r, D, a) == {i \in D : r.alt[i] = a}
GroupMet(r, S, i) == \E j \in S : r.group[j] = r.group[i] /\ r.term[j] \in r.true
AllMet(r, S) == \A i \in S : GroupMet(r, S, i)
ClausesMet(clauses, true) == \A k \in DOMAIN clauses : clauses[k] \cap true # {}

\* What the clauses of the open segment have to do with the terms S of an alternative, of
\* which the last is in group g.
Open(r, clauses, S, g) ==
    /\ clauses = <<>> <=> S = {}
    /\ clauses # <<>> =>
          /\ clauses[Len(clauses)] \cap r.true # {}
                <=> \E j \in S : r.group[j] = g /\ r.term[j] \in r.true
          /\ \E j \in S : r.group[j] = g
          /\ (\A k \in 1..(Len(clauses) - 1) : clauses[k] \cap r.true # {})
                <=> \A i \in S : r.group[i] # g => GroupMet(r, S, i)

\* What a split that has seen the terms D, in alternatives up to a, says of them.
Describes(r, w, D, a, g) ==
    /\ w \in [segments : Seq(Seq(SUBSET r.terms)), clauses : Seq(SUBSET r.terms)]
    /\ a \in Nat /\ g \in Nat
    /\ \A i \in D : r.alt[i] \in Nat /\ r.alt[i] <= a /\ r.group[i] \in Nat /\ r.group[i] <= g
    /\ Open(r, w.clauses, Members(r, D, a), g)
    /\ \A s \in DOMAIN w.segments : w.segments[s] # <<>>
    /\ w.segments = <<>> <=> \A i \in D : r.alt[i] = a
    /\ (\E s \in DOMAIN w.segments : ClausesMet(w.segments[s], r.true))
          <=> \E i \in D : r.alt[i] # a /\ AllMet(r, Members(r, D, r.alt[i]))

LEMMA ClausesTell ==
    ASSUME NEW r, NEW clauses \in Seq(SUBSET r.terms), NEW S, NEW g, Open(r, clauses, S, g)
    PROVE  ClausesMet(clauses, r.true) <=> AllMet(r, S)
<1>1. CASE clauses = <<>>
  BY <1>1 DEF ClausesMet, AllMet, Open
<1>2. CASE clauses # <<>>
  <2>1. Len(clauses) \in Nat \ {0} /\ DOMAIN clauses = 1..Len(clauses)
    BY <1>2
  <2>2. \A k \in DOMAIN clauses : k = Len(clauses) \/ k \in 1..(Len(clauses) - 1)
    BY <2>1
  <2>3. \A k \in 1..(Len(clauses) - 1) : k \in DOMAIN clauses
    BY <2>1
  <2>4. Len(clauses) \in DOMAIN clauses
    BY <2>1
  <2>5. ClausesMet(clauses, r.true)
           <=> /\ clauses[Len(clauses)] \cap r.true # {}
               /\ \A k \in 1..(Len(clauses) - 1) : clauses[k] \cap r.true # {}
    BY <2>2, <2>3, <2>4 DEF ClausesMet
  <2>6. AllMet(r, S)
           <=> /\ \E j \in S : r.group[j] = g /\ r.term[j] \in r.true
               /\ \A i \in S : r.group[i] # g => GroupMet(r, S, i)
    BY <1>2 DEF Open, AllMet, GroupMet
  <2>. QED
    BY <1>2, <2>5, <2>6 DEF Open
<1>. QED
  BY <1>1, <1>2

\* Where an alternative ends, its segment is closed.
LEMMA OpensNext ==
    ASSUME NEW r, NEW w, NEW D, NEW a, NEW g, Describes(r, w, D, a, g), NEW b \in Nat, a < b
    PROVE  Describes(r, [segments |-> Closed(w), clauses |-> <<>>], D, b, g)
<1>. DEFINE v == [segments |-> Closed(w), clauses |-> <<>>]
            M == Members(r, D, a)
<1>1. /\ w.segments \in Seq(Seq(SUBSET r.terms)) /\ w.clauses \in Seq(SUBSET r.terms)
      /\ a \in Nat /\ g \in Nat
      /\ \A i \in D : r.alt[i] \in Nat /\ r.alt[i] <= a /\ r.group[i] \in Nat /\ r.group[i] <= g
  BY DEF Describes
<1>2. \A i \in D : r.alt[i] <= b /\ r.alt[i] # b
  BY <1>1
<1>3. Closed(w) \in Seq(Seq(SUBSET r.terms))
  <2>. DEFINE E == Seq(SUBSET r.terms)
  <2>1. w.segments \in Seq(E) /\ w.clauses \in E
    BY <1>1
  <2>. HIDE DEF E
  <2>2. Append(w.segments, w.clauses) \in Seq(E)
    BY <2>1
  <2>. QED
    BY <2>1, <2>2 DEF Closed, E
<1>4. Open(r, <<>>, Members(r, D, b), g)
  BY <1>2 DEF Open, Members
<1>5. ClausesMet(w.clauses, r.true) <=> AllMet(r, M)
  BY <1>1, ClausesTell DEF Describes
<1>6. /\ \A s \in DOMAIN Closed(w) : Closed(w)[s] # <<>>
      /\ Closed(w) = <<>> <=> D = {}
      /\ (\E s \in DOMAIN Closed(w) : ClausesMet(Closed(w)[s], r.true))
            <=> \E i \in D : AllMet(r, Members(r, D, r.alt[i]))
  <2>1. CASE w.clauses = <<>>
    <3>1. Closed(w) = w.segments /\ M = {}
      BY <2>1 DEF Closed, Describes, Open
    <3>2. \A i \in D : r.alt[i] # a
      BY <3>1 DEF Members
    <3>. QED
      BY <3>1, <3>2 DEF Describes
  <2>2. CASE w.clauses # <<>>
    <3>1. Closed(w) = Append(w.segments, w.clauses) /\ M # {}
      BY <2>2 DEF Closed, Describes, Open
    <3>. DEFINE n == Len(w.segments)
    <3>2. n \in Nat /\ DOMAIN w.segments = 1..n /\ DOMAIN Closed(w) = 1..(n + 1)
          /\ Closed(w)[n + 1] = w.clauses /\ \A s \in 1..n : Closed(w)[s] = w.segments[s]
      BY <1>1, <3>1
    <3>3. \A s \in 1..(n + 1) : s \in 1..n \/ s = n + 1
      BY <3>2
    <3>4. n + 1 \in 1..(n + 1) /\ \A s \in 1..n : s \in 1..(n + 1)
      BY <3>2
    <3>5. (\E s \in DOMAIN Closed(w) : ClausesMet(Closed(w)[s], r.true))
             <=> \/ \E s \in DOMAIN w.segments : ClausesMet(w.segments[s], r.true)
                 \/ AllMet(r, M)
      BY <1>5, <3>2, <3>3, <3>4
    <3>6. PICK m \in D : r.alt[m] = a
      BY <3>1 DEF Members
    <3>7. (\E i \in D : AllMet(r, Members(r, D, r.alt[i])))
             <=> \/ \E i \in D : r.alt[i] # a /\ AllMet(r, Members(r, D, r.alt[i]))
                 \/ AllMet(r, M)
      BY <3>6
    <3>8. \A s \in DOMAIN Closed(w) : Closed(w)[s] # <<>>
      BY <2>2, <3>2, <3>3 DEF Describes
    <3>9. Closed(w) # <<>>
      BY <3>2, <3>4
    <3>. QED
      BY <3>5, <3>6, <3>7, <3>8, <3>9 DEF Describes
  <2>. QED
    BY <2>1, <2>2
<1>7. v.segments = Closed(w) /\ v.clauses = <<>>
      /\ v \in [segments : Seq(Seq(SUBSET r.terms)), clauses : Seq(SUBSET r.terms)]
  BY <1>3
<1>. HIDE DEF v
<1>. QED
  BY <1>1, <1>2, <1>4, <1>6, <1>7 DEF Describes

\* A term that is read joins the clause before it, or is one of its own.
LEMMA BindsTerm ==
    ASSUME NEW r, NEW clauses \in Seq(SUBSET r.terms), NEW S, NEW g \in Nat, Open(r, clauses, S, g),
           \A j \in S : r.group[j] \in Nat /\ r.group[j] <= g,
           NEW i, i \notin S, NEW token, token.term = r.term[i], r.term[i] \in r.terms,
           r.group[i] = IF token.join = "or" THEN g ELSE g + 1
    PROVE  /\ Bind(clauses, token) \in Seq(SUBSET r.terms)
           /\ Open(r, Bind(clauses, token), S \cup {i}, r.group[i])
<1>. DEFINE t == r.term[i]
            T == S \cup {i}
            n == Len(clauses)
<1>0. n \in Nat /\ DOMAIN clauses = 1..n /\ {t} \in SUBSET r.terms
  OBVIOUS
<1>1. CASE token.join = "or" /\ clauses # <<>>
  <2>. DEFINE c == [clauses EXCEPT ![n] = @ \cup {t}]
  <2>1. n \in 1..n
    BY <1>0, <1>1
  <2>2. Bind(clauses, token) = c
    BY <1>1 DEF Bind
  <2>3. c \in Seq(SUBSET r.terms) /\ Len(c) = n
    <3>. DEFINE E == SUBSET r.terms
                e == clauses[n] \cup {t}
    <3>1. clauses \in Seq(E) /\ c = [clauses EXCEPT ![n] = e]
      OBVIOUS
    <3>2. e \in E
      BY <1>0, <2>1
    <3>. HIDE DEF E, e, c
    <3>3. c \in Seq(E) /\ Len(c) = n
      BY <1>0, <2>1, <3>1, <3>2
    <3>. QED
      BY <3>3 DEF E
  <2>4. c[n] = clauses[n] \cup {t} /\ \A k \in 1..(n - 1) : c[k] = clauses[k]
    BY <1>0, <2>1
  <2>5. c # <<>>
    BY <2>1, <2>3
  <2>. HIDE DEF c
  <2>6. r.group[i] = g
    BY <1>1
  <2>7. c[n] \cap r.true # {} <=> \E j \in T : r.group[j] = g /\ r.term[j] \in r.true
    <3>1. c[n] \cap r.true # {} <=> clauses[n] \cap r.true # {} \/ t \in r.true
      BY <2>4
    <3>. QED
      BY <1>1, <2>6, <3>1 DEF Open
  <2>8. \A k \in S : r.group[k] # g => (GroupMet(r, T, k) <=> GroupMet(r, S, k))
    BY <2>6 DEF GroupMet
  <2>9. (\A k \in 1..(n - 1) : c[k] \cap r.true # {})
           <=> \A k \in T : r.group[k] # g => GroupMet(r, T, k)
    <3>1. (\A k \in 1..(n - 1) : c[k] \cap r.true # {})
             <=> \A k \in 1..(n - 1) : clauses[k] \cap r.true # {}
      BY <2>4
    <3>2. (\A k \in T : r.group[k] # g => GroupMet(r, T, k))
             <=> \A k \in S : r.group[k] # g => GroupMet(r, S, k)
      BY <2>6, <2>8
    <3>. QED
      BY <1>1, <3>1, <3>2 DEF Open
  <2>. QED
    BY <2>2, <2>3, <2>5, <2>6, <2>7, <2>9 DEF Open
<1>2. CASE ~(token.join = "or" /\ clauses # <<>>)
  <2>. DEFINE c == Append(clauses, {t})
  <2>1. Bind(clauses, token) = c
    BY <1>2 DEF Bind
  <2>2. c \in Seq(SUBSET r.terms) /\ Len(c) = n + 1 /\ Len(c) - 1 = n
    BY <1>0
  <2>3. c[n + 1] = {t} /\ \A k \in 1..n : c[k] = clauses[k]
    BY <1>0
  <2>4. c # <<>>
    BY <1>0, <2>2
  <2>. HIDE DEF c
  <2>5. \A j \in S : r.group[j] # r.group[i]
    BY <1>2 DEF Open
  <2>6. c[n + 1] \cap r.true # {} <=> \E j \in T : r.group[j] = r.group[i] /\ r.term[j] \in r.true
    BY <2>3, <2>5
  <2>7. (\A k \in 1..n : c[k] \cap r.true # {}) <=> AllMet(r, S)
    <3>1. (\A k \in 1..n : c[k] \cap r.true # {}) <=> ClausesMet(clauses, r.true)
      BY <1>0, <2>3 DEF ClausesMet
    <3>. QED
      BY <3>1, ClausesTell
  <2>8. AllMet(r, S) <=> \A k \in T : r.group[k] # r.group[i] => GroupMet(r, T, k)
    BY <2>5 DEF AllMet, GroupMet
  <2>. QED
    BY <2>1, <2>2, <2>4, <2>6, <2>7, <2>8 DEF Open
<1>. QED
  BY <1>1, <1>2

LEMMA TakesTerm ==
    ASSUME NEW r, NEW w, NEW D, NEW a, NEW g, Describes(r, w, D, a, g),
           NEW i, i \notin D, r.alt[i] = a, NEW token, token.term = r.term[i], r.term[i] \in r.terms,
           r.group[i] = IF token.join = "or" THEN g ELSE g + 1
    PROVE  Describes(r, [w EXCEPT !.clauses = Bind(@, token)], D \cup {i}, a, r.group[i])
<1>. DEFINE v == [w EXCEPT !.clauses = Bind(@, token)]
            M == Members(r, D, a)
            E == D \cup {i}
<1>1. /\ w.clauses \in Seq(SUBSET r.terms) /\ w.segments \in Seq(Seq(SUBSET r.terms))
      /\ a \in Nat /\ g \in Nat /\ Open(r, w.clauses, M, g)
      /\ \A j \in D : r.alt[j] \in Nat /\ r.alt[j] <= a /\ r.group[j] \in Nat /\ r.group[j] <= g
  BY DEF Describes
<1>2. \A j \in M : r.group[j] \in Nat /\ r.group[j] <= g
  BY <1>1 DEF Members
<1>3. Members(r, E, a) = M \cup {i} /\ i \notin M
  BY DEF Members
<1>4. /\ Bind(w.clauses, token) \in Seq(SUBSET r.terms)
      /\ Open(r, Bind(w.clauses, token), M \cup {i}, r.group[i])
  BY <1>1, <1>2, <1>3, BindsTerm
<1>5. /\ v.clauses = Bind(w.clauses, token) /\ v.segments = w.segments
      /\ v \in [segments : Seq(Seq(SUBSET r.terms)), clauses : Seq(SUBSET r.terms)]
  BY <1>4 DEF Describes
<1>6. \A j \in E : /\ r.alt[j] \in Nat /\ r.alt[j] <= a
                   /\ r.group[j] \in Nat /\ r.group[j] <= r.group[i]
  BY <1>1
<1>7. r.group[i] \in Nat
  BY <1>1
<1>8. (\A j \in E : r.alt[j] = a) <=> \A j \in D : r.alt[j] = a
  OBVIOUS
<1>9. \A b : b # a => Members(r, E, b) = Members(r, D, b)
  BY DEF Members
<1>10. (\E j \in E : r.alt[j] # a /\ AllMet(r, Members(r, E, r.alt[j])))
          <=> \E j \in D : r.alt[j] # a /\ AllMet(r, Members(r, D, r.alt[j]))
  BY <1>9
<1>. HIDE DEF v, E
<1>. QED
  BY <1>1, <1>3, <1>4, <1>5, <1>6, <1>7, <1>8, <1>10 DEF Describes, E

\* Nothing read yet.
NoSplit == [segments |-> <<>>, clauses |-> <<>>]

\* Splitting is a loop over the terms.
LEMMA BindStays ==
    ASSUME NEW terms, NEW clauses \in Seq(SUBSET terms), NEW token, token.term \in terms
    PROVE  Bind(clauses, token) \in Seq(SUBSET terms)
<1>. DEFINE E == SUBSET terms
            n == Len(clauses)
            e == clauses[n] \cup {token.term}
<1>1. clauses \in Seq(E) /\ n \in Nat /\ DOMAIN clauses = 1..n /\ {token.term} \in E
  OBVIOUS
<1>2. CASE token.join = "or" /\ clauses # <<>>
  <2>1. n \in 1..n /\ Bind(clauses, token) = [clauses EXCEPT ![n] = e]
    BY <1>1, <1>2 DEF Bind
  <2>2. e \in E
    BY <1>1, <2>1
  <2>. HIDE DEF E, e
  <2>3. Bind(clauses, token) \in Seq(E)
    BY <1>1, <2>1, <2>2
  <2>. QED
    BY <2>3 DEF E
<1>3. CASE ~(token.join = "or" /\ clauses # <<>>)
  BY <1>1, <1>3 DEF Bind
<1>. QED
  BY <1>2, <1>3

LEMMA TakeStays ==
    ASSUME NEW terms, NEW split \in [segments : Seq(Seq(SUBSET terms)), clauses : Seq(SUBSET terms)],
           NEW token, token.term \in terms
    PROVE  Take(split, token) \in [segments : Seq(Seq(SUBSET terms)), clauses : Seq(SUBSET terms)]
<1>. DEFINE C == Seq(SUBSET terms)
            A == [segments : Seq(C), clauses : C]
            opened == IF token.join = "nq" THEN [segments |-> Closed(split), clauses |-> <<>>] ELSE split
<1>1. <<>> \in C /\ \A clauses \in C : Bind(clauses, token) \in C
  <2>1. <<>> \in C
    OBVIOUS
  <2>2. ASSUME NEW clauses \in C PROVE Bind(clauses, token) \in C
    BY BindStays
  <2>. QED
    BY <2>1, <2>2
<1>2. split \in A
  OBVIOUS
<1>3. Take(split, token) =
          IF token.term \in NoTerm THEN opened ELSE [opened EXCEPT !.clauses = Bind(@, token)]
  BY DEF Take
<1>. HIDE DEF C
<1>4. Closed(split) \in Seq(C)
  BY <1>2 DEF Closed
<1>5. opened \in A
  BY <1>1, <1>2, <1>4
<1>. HIDE DEF opened
<1>6. Take(split, token) \in A
  BY <1>1, <1>3, <1>5
<1>. QED
  BY <1>6 DEF C

LEMMA SplitIsALoop ==
    ASSUME NEW condition, Listed(condition)
    PROVE  \E split : /\ split[0] = NoSplit
                      /\ \A i \in 1..Len(condition) : split[i] = Take(split[i - 1], condition[i])
                      /\ SplitCondition(condition) = Closed(split[Len(condition)])
<1>. DEFINE N == Len(condition)
            terms == {condition[i].term : i \in 1..N}
            A == [segments : Seq(Seq(SUBSET terms)), clauses : Seq(SUBSET terms)]
            F == [p \in A \X (1..N) |-> Take(p[1], condition[p[2]])]
            Splits(s) == s = [n \in 0..N |-> IF n = 0 THEN NoSplit ELSE Take(s[n - 1], condition[n])]
            split == CHOOSE s : Splits(s)
<1>1. N \in Nat /\ NoSplit \in A
  BY DEF Listed, NoSplit
<1>2. ASSUME NEW s \in A, NEW i \in 1..N PROVE Take(s, condition[i]) \in A
  <2>1. condition[i].term \in terms
    OBVIOUS
  <2>. HIDE DEF terms
  <2>. QED
    BY <2>1, TakeStays
<1>3. F \in [A \X (1..N) -> A]
  BY <1>2
<1>. HIDE DEF A
<1>4. PICK g \in [0..N -> A] : g[0] = NoSplit /\ \A i \in 1..N : g[i] = F[<<g[i - 1], i>>]
  <2>. HIDE DEF N, F
  <2>1. N \in Nat /\ NoSplit \in A /\ F \in [A \X (1..N) -> A]
    BY <1>1, <1>3
  <2>2. \E g : RunOf(g, A, N, NoSplit, F)
    BY <2>1, LoopRuns, Zenon
  <2>. QED
    BY <2>2 DEF RunOf
<1>5. ASSUME NEW i \in 1..N PROVE g[i] = Take(g[i - 1], condition[i])
  <2>1. i - 1 \in 0..N /\ i \in 0..N
    BY <1>1
  <2>2. <<g[i - 1], i>> \in A \X (1..N)
    BY <1>4, <2>1
  <2>. QED
    BY <1>4, <2>2
<1>6. Splits(g)
  <2>1. ASSUME NEW n \in 0..N
        PROVE  g[n] = IF n = 0 THEN NoSplit ELSE Take(g[n - 1], condition[n])
    <3>1. n # 0 => n \in 1..N
      BY <1>1
    <3>. QED
      BY <1>4, <1>5, <3>1
  <2>. QED
    BY <1>4, <2>1
<1>7. SplitCondition(condition) = Closed(split[N])
  BY DEF SplitCondition, NoSplit
<1>. HIDE DEF Splits
<1>8. Splits(split)
  BY <1>6
<1>. HIDE DEF split
<1>9. split = [n \in 0..N |-> IF n = 0 THEN NoSplit ELSE Take(split[n - 1], condition[n])]
  BY <1>8 DEF Splits
<1>10. split[0] = NoSplit /\ \A i \in 1..N : split[i] = Take(split[i - 1], condition[i])
  <2>1. 0 \in 0..N /\ \A i \in 1..N : i \in 0..N /\ i # 0
    BY <1>1
  <2>. QED
    BY <1>9, <2>1
<1>. QED
  BY <1>7, <1>10

\* Whether a record of which these terms are true meets the condition can be told from
\* the segments: in one of them every clause has a true term.
LEMMA SplitTells ==
    ASSUME NEW condition, Listed(condition), NEW true
    PROVE  LET segments == SplitCondition(condition)
               Terms == {condition[i].term : i \in 1..Len(condition)}
           IN  /\ segments \in Seq(Seq(SUBSET Terms))
               /\ \A s \in DOMAIN segments : segments[s] # <<>>
               /\ Holds(condition, true)
                     <=> segments = <<>> \/ \E s \in DOMAIN segments : ClausesMet(segments[s], true)
<1>. DEFINE N == Len(condition)
            Terms == {condition[i].term : i \in 1..N}
            NQ == {j \in 1..N : condition[j].join = "nq"}
            Opens == {j \in 1..N : condition[j].term \notin NoTerm /\ condition[j].join # "or"}
            Read(n) == {j \in 1..n : condition[j].term \notin NoTerm}
            r == [alt |-> [i \in 1..N |-> Count(NQ, i)], group |-> [i \in 1..N |-> Count(Opens, i)],
                  term |-> [i \in 1..N |-> condition[i].term], terms |-> Terms, true |-> true]
<1>1. N \in Nat /\ DOMAIN condition = 1..N
  BY DEF Listed
<1>2. /\ \A i \in 1..N : /\ r.alt[i] = Count(NQ, i) /\ r.group[i] = Count(Opens, i)
                         /\ r.term[i] = condition[i].term
      /\ r.terms = Terms /\ r.true = true
  OBVIOUS
<1>. HIDE DEF r
<1>3. PICK split : /\ split[0] = NoSplit
                   /\ \A i \in 1..N : split[i] = Take(split[i - 1], condition[i])
                   /\ SplitCondition(condition) = Closed(split[N])
  BY SplitIsALoop
<1>. DEFINE S == {n \in 0..N : Describes(r, split[n], Read(n), Count(NQ, n), Count(Opens, n))}
<1>4. 0 \in S
  <2>1. Read(0) = {} /\ Count(NQ, 0) = 0 /\ Count(Opens, 0) = 0
    BY Counts
  <2>2. NoSplit \in [segments : Seq(Seq(SUBSET r.terms)), clauses : Seq(SUBSET r.terms)]
        /\ NoSplit.segments = <<>> /\ NoSplit.clauses = <<>>
    BY DEF NoSplit
  <2>3. Members(r, {}, 0) = {}
    BY DEF Members
  <2>4. Describes(r, NoSplit, {}, 0, 0)
    BY <2>2, <2>3 DEF Describes, Open
  <2>. QED
    BY <1>1, <1>3, <2>1, <2>4
<1>5. ASSUME NEW n \in 0..N, n < N, n \in S PROVE n + 1 \in S
  <2>. DEFINE i == n + 1
              token == condition[i]
              a == Count(NQ, n)
              g == Count(Opens, n)
              opened == IF token.join = "nq" THEN [segments |-> Closed(split[n]), clauses |-> <<>>]
                        ELSE split[n]
  <2>1. n \in Nat /\ i \in 1..N /\ i \in 0..N /\ i - 1 = n
    BY <1>1, <1>5
  <2>2. split[i] = Take(split[n], token)
    BY <1>3, <2>1
  <2>3. a \in Nat /\ g \in Nat /\ a < a + 1
    <3>. HIDE DEF NQ, Opens
    <3>1. a \in Nat /\ g \in Nat
      BY <2>1, Counts
    <3>. QED
      BY <3>1
  <2>4. Count(NQ, i) = IF token.join = "nq" THEN a + 1 ELSE a
    <3>1. i \in NQ <=> token.join = "nq"
      BY <2>1
    <3>. HIDE DEF NQ
    <3>. QED
      BY <2>1, <3>1, Counts
  <2>5. Count(Opens, i) = IF token.term \notin NoTerm /\ token.join # "or" THEN g + 1 ELSE g
    <3>1. i \in Opens <=> token.term \notin NoTerm /\ token.join # "or"
      BY <2>1
    <3>. HIDE DEF Opens
    <3>. QED
      BY <2>1, <3>1, Counts
  <2>6. Read(i) = IF token.term \notin NoTerm THEN Read(n) \cup {i} ELSE Read(n)
    BY <2>1
  <2>7. i \notin Read(n)
    BY <2>1
  <2>8. r.alt[i] = Count(NQ, i) /\ r.group[i] = Count(Opens, i) /\ r.term[i] = token.term
        /\ token.term \in r.terms
    BY <1>2, <2>1
  <2>9. Describes(r, split[n], Read(n), a, g)
    BY <1>5
  <2>. HIDE DEF i, token, a, g, Read, NQ, Opens
  <2>10. Describes(r, opened, Read(n), Count(NQ, i), g)
    <3>1. CASE token.join = "nq"
      BY <2>3, <2>4, <2>9, <3>1, OpensNext
    <3>2. CASE token.join # "nq"
      BY <2>4, <2>9, <3>2
    <3>. QED
      BY <3>1, <3>2
  <2>11. split[i] = IF token.term \in NoTerm THEN opened
                    ELSE [opened EXCEPT !.clauses = Bind(@, token)]
    BY <2>2 DEF Take
  <2>. HIDE DEF opened
  <2>12. CASE token.term \in NoTerm
    <3>1. Describes(r, split[i], Read(i), Count(NQ, i), Count(Opens, i))
      BY <2>5, <2>6, <2>10, <2>11, <2>12
    <3>. QED
      BY <2>1, <3>1 DEF i
  <2>13. CASE token.term \notin NoTerm
    <3>1. r.group[i] = IF token.join = "or" THEN g ELSE g + 1
      BY <2>5, <2>8, <2>13
    <3>2. Describes(r, [opened EXCEPT !.clauses = Bind(@, token)], Read(n) \cup {i}, Count(NQ, i),
                    r.group[i])
      BY <2>7, <2>8, <2>10, <3>1, TakesTerm
    <3>3. Describes(r, split[i], Read(i), Count(NQ, i), Count(Opens, i))
      BY <2>6, <2>8, <2>11, <2>13, <3>2
    <3>. QED
      BY <2>1, <3>3 DEF i
  <2>. QED
    BY <2>12, <2>13
<1>. DEFINE segments == SplitCondition(condition)
            a == Count(NQ, N)
            g == Count(Opens, N)
            D == Read(N)
            w == [segments |-> segments, clauses |-> <<>>]
<1>6. Describes(r, split[N], D, a, g)
  <2>. HIDE DEF S
  <2>1. \A n \in 0..N : n \in S
    <3>. HIDE DEF N
    <3>. QED
      BY <1>1, <1>4, <1>5, StepByStep
  <2>2. N \in S
    BY <1>1, <2>1
  <2>. QED
    BY <2>2 DEF S
<1>7. a \in Nat /\ a < a + 1 /\ a + 1 \in Nat
  <2>. HIDE DEF NQ, N
  <2>1. a \in Nat
    BY <1>1, Counts
  <2>. QED
    BY <2>1
<1>8. Describes(r, w, D, a + 1, g)
  <2>. HIDE DEF a, g, D
  <2>1. Describes(r, [segments |-> Closed(split[N]), clauses |-> <<>>], D, a + 1, g)
    BY <1>6, <1>7, OpensNext
  <2>. QED
    BY <1>3, <2>1
<1>9. \A i \in D : r.alt[i] # a + 1
  <2>. HIDE DEF a, g, D
  <2>1. \A i \in D : r.alt[i] \in Nat /\ r.alt[i] <= a
    BY <1>6 DEF Describes
  <2>. QED
    BY <1>7, <2>1
<1>10. w.segments = segments
  OBVIOUS
<1>11. /\ segments \in Seq(Seq(SUBSET Terms))
       /\ \A s \in DOMAIN segments : segments[s] # <<>>
       /\ segments = <<>> <=> D = {}
       /\ (\E s \in DOMAIN segments : ClausesMet(segments[s], true))
             <=> \E i \in D : AllMet(r, Members(r, D, r.alt[i]))
  <2>. HIDE DEF w, segments, D, a, g, Terms
  <2>1. w.segments \in Seq(Seq(SUBSET Terms))
    BY <1>2, <1>8 DEF Describes
  <2>. QED
    BY <1>2, <1>8, <1>9, <1>10, <2>1 DEF Describes
<1>12. Holds(condition, true) <=> D = {} \/ \E i \in D : AllMet(r, Members(r, D, r.alt[i]))
  <2>. DEFINE Alternative(i) == Cardinality({j \in 1..i : condition[j].join = "nq"})
              P == {i \in DOMAIN condition : condition[i].term \notin NoTerm}
              Group(i) == Cardinality({j \in 1..i : j \in P /\ condition[j].join # "or"})
              InAlternative(b) == {i \in P : Alternative(i) = b}
  <2>2. D = P
    BY <1>1
  <2>1. ASSUME NEW i \in D
        PROVE  Alternative(i) = r.alt[i] /\ Group(i) = r.group[i] /\ r.term[i] = condition[i].term
    <3>1. i \in 1..N /\ \A j \in 1..i : j \in 1..N
      BY <1>1
    <3>2. {j \in 1..i : condition[j].join = "nq"} = {j \in 1..i : j \in NQ}
      BY <3>1
    <3>3. {j \in 1..i : j \in P /\ condition[j].join # "or"} = {j \in 1..i : j \in Opens}
      BY <1>1, <3>1
    <3>. QED
      BY <1>2, <3>1, <3>2, <3>3 DEF Count
  <2>3. Holds(condition, true)
           <=> \/ P = {}
               \/ \E b \in {Alternative(i) : i \in P} :
                     \A i \in InAlternative(b) :
                         \E j \in InAlternative(b) : Group(j) = Group(i) /\ condition[j].term \in true
    BY DEF Holds
  <2>. HIDE DEF D, P, Alternative, Group
  <2>4. \A i \in D : InAlternative(Alternative(i)) = Members(r, D, r.alt[i])
    BY <2>1, <2>2 DEF Members
  <2>5. ASSUME NEW i \in D
        PROVE  (\A k \in Members(r, D, r.alt[i]) :
                   \E j \in Members(r, D, r.alt[i]) : Group(j) = Group(k) /\ condition[j].term \in true)
                  <=> AllMet(r, Members(r, D, r.alt[i]))
    <3>1. Members(r, D, r.alt[i]) \subseteq D
      BY DEF Members
    <3>. QED
      BY <1>2, <2>1, <3>1 DEF AllMet, GroupMet
  <2>. HIDE DEF InAlternative
  <2>6. Holds(condition, true)
           <=> \/ D = {}
               \/ \E i \in D : \A k \in InAlternative(Alternative(i)) :
                      \E j \in InAlternative(Alternative(i)) :
                          Group(j) = Group(k) /\ condition[j].term \in true
    BY <2>2, <2>3
  <2>. QED
    BY <2>4, <2>5, <2>6
<1>. QED
  BY <1>11, <1>12

\* why-not, of what the property is about: nothing changed while it asks, a record
\* trigger, a record it can read.
Promised ==
    /\ cmd.verb = "why-not" /\ still
    /\ inst.readable /\ inst.trigger = "record" /\ "subflow" \notin inst.flags

WhyNotWays ==
    cmd.verb = "why-not" =>
        at \in {"argv", "connect", "flow", "ref", "runs", "trigger", "on", "class", "clause", "emit", "done"}

FlowBlocks ==
    (IF "active" \in inst.flags THEN {} ELSE {"inactive"})
    \cup (IF "published" \in inst.flags THEN {} ELSE {"unpublished"})
OffBlocks == IF inst.on.active THEN {} ELSE {"trigger off"}
OtherClassBlocks == IF inst.class = "extends" /\ ~inst.on.extended THEN {"class"} ELSE {}

HasTrue(clause, holds) == clause \cap (holds \cup AlwaysTerms) # {}

\* What the first n clauses of a segment come to.
Tested(clauses, n, holds) ==
    IF \E k \in 1..n : ~IsChange(clauses[k]) /\ ~HasTrue(clauses[k], holds) THEN "no"
    ELSE IF \E k \in 1..n : IsChange(clauses[k]) THEN "unknown" ELSE "yes"

ClauseFields == {"blockers", "segments", "segment", "clause", "verdict", "verdicts"}

\* What why-not knows at each of its steps.
WhyNotRead ==
    Promised =>
        /\ at \in {"ref", "runs", "trigger"} =>
              /\ {"flags", "trigger"} \subseteq DOMAIN know
              /\ know.flags = inst.flags /\ know.trigger = inst.trigger
        /\ at = "trigger" => know.blockers = {}
        /\ at = "on" => know.blockers = FlowBlocks
        /\ at = "class" => know.on = inst.on /\ know.blockers = FlowBlocks \cup OffBlocks
        /\ at = "clause" =>
              /\ ClauseFields \subseteq DOMAIN know
              /\ inst.class # "elsewhere"
              /\ know.blockers = FlowBlocks \cup OffBlocks \cup OtherClassBlocks
              /\ know.segments = SplitCondition(inst.on.condition)
              /\ know.segment \in DOMAIN know.segments
              /\ know.clause \in DOMAIN know.segments[know.segment]
              /\ know.verdict = Tested(know.segments[know.segment], know.clause - 1, inst.holds)
              /\ know.verdicts = 
                     {Tested(know.segments[s], Len(know.segments[s]), inst.holds) :
                         s \in 1..(know.segment - 1)}
        /\ at = "emit" => (know.blockers # {} <=> ~CouldFire)

LEMMA WhyNotStaysOnWay ==
    ASSUME cmd' = cmd, cmd.verb \in FlowVerbs, WhyNotWays, FlowStep \/ FlowOthers
    PROVE  WhyNotWays'
<1>. USE DEF WhyNotWays, Reading, Goto, Learns, Ends, Fails, Rejects
<1>1. CASE FlowArguments
  BY <1>1 DEF FlowArguments
<1>2. CASE FlowConnect
  BY <1>2 DEF FlowConnect, Connect
<1>3. CASE ResolveFlow
  BY <1>3 DEF ResolveFlow
<1>4. CASE FlowRecord
  BY <1>4 DEF FlowRecord, ResolveRef
<1>5. CASE FlowRuns
  BY <1>5 DEF FlowRuns
<1>6. CASE WatchFlow \/ FetchContext \/ FetchSteps \/ FetchFailed \/ FetchLogs
  BY <1>6 DEF WatchFlow, FetchContext, FetchSteps, FetchFailed, FetchLogs
<1>7. CASE ReadTrigger
  BY <1>7 DEF ReadTrigger
<1>8. CASE ReadRecordTrigger
  BY <1>8 DEF ReadRecordTrigger
<1>9. CASE ReadClass
  BY <1>9 DEF ReadClass
<1>10. CASE EvaluateClause
  BY <1>10 DEF EvaluateClause
<1>11. CASE FlowEmit
  BY <1>11 DEF FlowEmit, Emit
<1>12. CASE FlowOthers
  <2>1. UNCHANGED <<cmd, at>>
    BY <1>12 DEF FlowOthers, Others
  <2>. QED
    BY <2>1
<1>. QED
  BY <1>1, <1>2, <1>3, <1>4, <1>5, <1>6, <1>7, <1>8, <1>9, <1>10, <1>11, <1>12 DEF FlowStep

-----------------------------------------------------------------------------
\* A segment could hold of the record as a write leaves it: each of its clauses is
\* true of what is stored, or tests the change.
Possible(segment, holds) == \A k \in DOMAIN segment : IsChange(segment[k]) \/ HasTrue(segment[k], holds)

LEMMA TestedOnce ==
    ASSUME NEW segment, NEW n \in Nat, NEW verdict, verdict = Tested(segment, n, inst.holds)
    PROVE  AfterClause(verdict, segment[n + 1]) = Tested(segment, n + 1, inst.holds)
<1>1. \A k \in 1..(n + 1) : k \in 1..n \/ k = n + 1
  OBVIOUS
<1>2. n + 1 \in 1..(n + 1) /\ \A k \in 1..n : k \in 1..(n + 1)
  OBVIOUS
<1>. DEFINE Fails0 == \E k \in 1..n : ~IsChange(segment[k]) /\ ~HasTrue(segment[k], inst.holds)
            Changes0 == \E k \in 1..n : IsChange(segment[k])
            Fails1 == \E k \in 1..(n + 1) : ~IsChange(segment[k]) /\ ~HasTrue(segment[k], inst.holds)
            Changes1 == \E k \in 1..(n + 1) : IsChange(segment[k])
<1>3. Fails1 <=> Fails0 \/ (~IsChange(segment[n + 1]) /\ ~HasTrue(segment[n + 1], inst.holds))
  BY <1>1, <1>2
<1>4. Changes1 <=> Changes0 \/ IsChange(segment[n + 1])
  BY <1>1, <1>2
<1>5. /\ Tested(segment, n, inst.holds) = IF Fails0 THEN "no" ELSE IF Changes0 THEN "unknown" ELSE "yes"
      /\ Tested(segment, n + 1, inst.holds)
            = IF Fails1 THEN "no" ELSE IF Changes1 THEN "unknown" ELSE "yes"
  BY DEF Tested
<1>6. AfterClause(verdict, segment[n + 1]) =
          IF IsChange(segment[n + 1]) THEN (IF verdict = "yes" THEN "unknown" ELSE verdict)
          ELSE IF HasTrue(segment[n + 1], inst.holds) THEN verdict ELSE "no"
  BY DEF AfterClause, HasTrue
<1>. HIDE DEF Fails0, Changes0, Fails1, Changes1
<1>. QED
  BY <1>3, <1>4, <1>5, <1>6

LEMMA NoneTested ==
    ASSUME NEW segment, NEW holds
    PROVE  Tested(segment, 0, holds) = "yes"
BY DEF Tested

LEMMA VerdictTells ==
    ASSUME NEW segment, DOMAIN segment = 1..Len(segment), NEW holds
    PROVE  Tested(segment, Len(segment), holds) # "no" <=> Possible(segment, holds)
BY DEF Tested, Possible

\* A write could meet the condition if and only if one of its segments could hold.
LEMMA SegmentsTell ==
    ASSUME NEW condition, Listed(condition), NEW holds
    PROVE  LET segments == SplitCondition(condition)
           IN  /\ Len(segments) \in Nat /\ DOMAIN segments = 1..Len(segments)
               /\ segments = <<>> <=> Len(segments) = 0
               /\ \A s \in DOMAIN segments :
                     /\ Len(segments[s]) \in Nat \ {0}
                     /\ DOMAIN segments[s] = 1..Len(segments[s])
               /\ (\E changed \in SUBSET ChangeTerms :
                      Holds(condition, holds \cup AlwaysTerms \cup changed))
                     <=> segments = <<>> \/ \E s \in DOMAIN segments : Possible(segments[s], holds)
<1>. DEFINE segments == SplitCondition(condition)
            Terms == {condition[i].term : i \in 1..Len(condition)}
            True(changed) == holds \cup AlwaysTerms \cup changed
<1>1. /\ segments \in Seq(Seq(SUBSET Terms))
      /\ \A s \in DOMAIN segments : segments[s] # <<>>
      /\ \A true : Holds(condition, true)
                      <=> segments = <<>> \/ \E s \in DOMAIN segments : ClausesMet(segments[s], true)
  BY SplitTells
<1>. HIDE DEF segments, Terms
<1>2. /\ Len(segments) \in Nat /\ DOMAIN segments = 1..Len(segments)
      /\ segments = <<>> <=> Len(segments) = 0
  BY <1>1
<1>3. ASSUME NEW s \in DOMAIN segments
      PROVE  Len(segments[s]) \in Nat \ {0} /\ DOMAIN segments[s] = 1..Len(segments[s])
  <2>1. segments[s] \in Seq(SUBSET Terms) /\ segments[s] # <<>>
    BY <1>1
  <2>. QED
    BY <2>1
<1>4. ASSUME NEW segment
      PROVE  /\ \A changed \in SUBSET ChangeTerms :
                   ClausesMet(segment, True(changed)) => Possible(segment, holds)
             /\ Possible(segment, holds) => ClausesMet(segment, True(ChangeTerms))
  BY DEF ClausesMet, Possible, IsChange, HasTrue
<1>5. (\E changed \in SUBSET ChangeTerms : Holds(condition, True(changed)))
         <=> segments = <<>> \/ \E s \in DOMAIN segments : Possible(segments[s], holds)
  <2>. HIDE DEF True
  <2>1. ChangeTerms \in SUBSET ChangeTerms
    OBVIOUS
  <2>. QED
    BY <1>1, <1>4, <2>1
<1>. QED
  BY <1>2, <1>3, <1>5 DEF segments

\* What can start the flow, once the flow, its trigger and the record's class are known.
LEMMA FireTells ==
    ASSUME Promised, Shaped(cmd, inst), inst.class # "elsewhere"
    PROVE  LET segments == SplitCondition(inst.on.condition)
               blockers == FlowBlocks \cup OffBlocks \cup OtherClassBlocks
           IN  CouldFire
                   <=> /\ blockers = {}
                       /\ segments = <<>> \/ \E s \in DOMAIN segments : Possible(segments[s], inst.holds)
<1>. DEFINE segments == SplitCondition(inst.on.condition)
            Fires == \E changed \in SUBSET ChangeTerms :
                        Holds(inst.on.condition, inst.holds \cup AlwaysTerms \cup changed)
<1>1. inst.class \in {"same", "extends"} /\ inst.trigger = "record" /\ Listed(inst.on.condition)
  BY DEF Promised, Shaped, FlowVerbs
<1>2. Fires <=> segments = <<>> \/ \E s \in DOMAIN segments : Possible(segments[s], inst.holds)
  BY <1>1, SegmentsTell
<1>3. FlowBlocks = {} <=> {"active", "published"} \subseteq inst.flags
  BY DEF FlowBlocks
<1>4. OffBlocks = {} <=> inst.on.active
  BY DEF OffBlocks
<1>5. OtherClassBlocks = {} <=> inst.class = "same" \/ (inst.class = "extends" /\ inst.on.extended)
  BY <1>1 DEF OtherClassBlocks
<1>6. CouldFire <=> /\ {"active", "published"} \subseteq inst.flags
                    /\ inst.trigger = "record" /\ inst.on.active
                    /\ inst.class = "same" \/ (inst.class = "extends" /\ inst.on.extended)
                    /\ Fires
  BY DEF CouldFire
<1>. HIDE DEF Fires, segments
<1>7. CouldFire <=> /\ FlowBlocks \cup OffBlocks \cup OtherClassBlocks = {}
                    /\ segments = <<>> \/ \E s \in DOMAIN segments : Possible(segments[s], inst.holds)
  BY <1>1, <1>2, <1>3, <1>4, <1>5, <1>6
<1>. QED
  BY <1>7 DEF segments

\* A step of the command leaves the instance alone.
LEMMA SameQuestion ==
    ASSUME UNCHANGED <<cmd, inst, still>>
    PROVE  /\ Promised' <=> Promised
           /\ CouldFire' <=> CouldFire
           /\ FlowBlocks' = FlowBlocks /\ OffBlocks' = OffBlocks /\ OtherClassBlocks' = OtherClassBlocks
BY DEF Promised, CouldFire, FlowBlocks, OffBlocks, OtherClassBlocks

LEMMA TriggerIsRead ==
    ASSUME UNCHANGED <<cmd, inst, still>>, WhyNotRead, ReadTrigger
    PROVE  WhyNotRead'
<1>1. CASE ~Promised
  BY <1>1, SameQuestion DEF WhyNotRead
<1>2. CASE Promised
  <2>1. at = "trigger" /\ know.flags = inst.flags /\ know.trigger = inst.trigger /\ know.blockers = {}
    BY <1>2 DEF WhyNotRead, ReadTrigger
  <2>2. inst.trigger = "record" /\ "subflow" \notin inst.flags
    BY <1>2 DEF Promised
  <2>3. \/ at' = "done"
        \/ at' = "on" /\ know' = Added(Blockers(FlowBlocks), know)
    <3>. HIDE DEF Added
    <3>. QED
      BY <2>1, <2>2 DEF ReadTrigger, Fails, Ends, Learns, FlowBlocks
  <2>4. Added(Blockers(FlowBlocks), know).blockers = FlowBlocks
    <3>1. Blockers(FlowBlocks) = [blockers |-> FlowBlocks]
      BY <2>1 DEF Blockers, More
    <3>. QED
      BY <3>1 DEF Added
  <2>5. at' = "on" => know'.blockers = FlowBlocks'
    BY <2>3, <2>4, SameQuestion
  <2>. QED
    BY <2>3, <2>5 DEF WhyNotRead
<1>. QED
  BY <1>1, <1>2

LEMMA RecordTriggerIsRead ==
    ASSUME UNCHANGED <<cmd, inst, still>>, WhyNotRead, ReadRecordTrigger
    PROVE  WhyNotRead'
<1>1. CASE ~Promised
  BY <1>1, SameQuestion DEF WhyNotRead
<1>2. CASE Promised
  <2>1. at = "on" /\ know.blockers = FlowBlocks
    BY <1>2 DEF WhyNotRead, ReadRecordTrigger
  <2>. DEFINE facts == [on |-> inst.on, blockers |-> FlowBlocks \cup OffBlocks]
  <2>2. \/ at' = "done"
        \/ at' = "class" /\ know' = Added(facts, know)
    <3>1. More(IF inst.on.active THEN {} ELSE {"trigger off"}) = FlowBlocks \cup OffBlocks
      BY <2>1 DEF More, OffBlocks
    <3>. HIDE DEF Added, More
    <3>. QED
      BY <3>1 DEF ReadRecordTrigger, Fails, Ends, Learns
  <2>3. Added(facts, know).on = inst.on /\ Added(facts, know).blockers = FlowBlocks \cup OffBlocks
    BY DEF Added
  <2>4. at' = "class" => know'.on = inst'.on /\ know'.blockers = (FlowBlocks \cup OffBlocks)'
    BY <2>2, <2>3, SameQuestion
  <2>. QED
    BY <2>2, <2>4 DEF WhyNotRead
<1>. QED
  BY <1>1, <1>2

LEMMA ClassIsRead ==
    ASSUME UNCHANGED <<cmd, inst, still>>, Shaped(cmd, inst), WhyNotRead, ReadClass
    PROVE  WhyNotRead'
<1>1. CASE ~Promised
  BY <1>1, SameQuestion DEF WhyNotRead
<1>2. CASE Promised
  <2>. DEFINE segments == SplitCondition(inst.on.condition)
              blockers == FlowBlocks \cup OffBlocks \cup OtherClassBlocks
              facts == [segments |-> segments, segment |-> 1, clause |-> 1,
                        verdict |-> "yes", verdicts |-> {}, blockers |-> blockers]
  <2>1. at = "class" /\ know.on = inst.on /\ know.blockers = FlowBlocks \cup OffBlocks
    BY <1>2 DEF WhyNotRead, ReadClass
  <2>2. inst.readable /\ Listed(inst.on.condition)
    BY <1>2 DEF Promised, Shaped, FlowVerbs
  <2>3. More(ClassBlocks(inst.class)) = blockers
    BY <2>1 DEF More, ClassBlocks, OtherClassBlocks
  <2>4. \/ at' = "done"
        \/ at' = "emit" /\ inst.class = "elsewhere" /\ know' = Added(Blockers({"elsewhere"}), know)
        \/ /\ at' = IF segments = <<>> THEN "emit" ELSE "clause"
           /\ inst.class # "elsewhere" /\ know' = Added(facts, know)
    <3>1. SplitCondition(know.on.condition) = segments
      BY <2>1
    <3>. HIDE DEF Added, More, segments, blockers
    <3>. QED
      BY <2>2, <2>3, <3>1 DEF ReadClass, Fails, Ends, Learns
  <2>5. CASE at' = "done"
    BY <2>5 DEF WhyNotRead
  <2>6. CASE at' = "emit" /\ inst.class = "elsewhere" /\ know' = Added(Blockers({"elsewhere"}), know)
    <3>1. Blockers({"elsewhere"}) = [blockers |-> FlowBlocks \cup OffBlocks \cup {"elsewhere"}]
      BY <2>1 DEF Blockers, More
    <3>2. know'.blockers = FlowBlocks \cup OffBlocks \cup {"elsewhere"}
      BY <2>6, <3>1 DEF Added
    <3>3. ~CouldFire
      BY <2>6 DEF CouldFire
    <3>4. know'.blockers # {} <=> ~CouldFire'
      BY <3>2, <3>3, SameQuestion
    <3>. QED
      BY <2>6, <3>4 DEF WhyNotRead
  <2>7. CASE /\ at' = IF segments = <<>> THEN "emit" ELSE "clause"
             /\ inst.class # "elsewhere" /\ know' = Added(facts, know)
    <3>1. /\ DOMAIN know' = DOMAIN facts \cup DOMAIN know
          /\ know'.blockers = blockers /\ know'.segments = segments /\ know'.segment = 1
          /\ know'.clause = 1 /\ know'.verdict = "yes" /\ know'.verdicts = {}
      <4>. HIDE DEF segments, blockers
      <4>. QED
        BY <2>7 DEF Added
    <3>2. ClauseFields \subseteq DOMAIN know'
      BY <3>1 DEF ClauseFields
    <3>3. blockers' = blockers
      BY SameQuestion
    <3>4. CouldFire <=> /\ blockers = {}
                        /\ segments = <<>> \/ \E s \in DOMAIN segments : Possible(segments[s], inst.holds)
      BY <1>2, <2>7, FireTells
    <3>5. /\ Len(segments) \in Nat /\ DOMAIN segments = 1..Len(segments)
          /\ segments = <<>> <=> Len(segments) = 0
          /\ \A s \in DOMAIN segments : /\ Len(segments[s]) \in Nat \ {0}
                                        /\ DOMAIN segments[s] = 1..Len(segments[s])
      BY <2>2, SegmentsTell
    <3>. HIDE DEF blockers, segments, facts
    <3>6. CASE segments = <<>>
      <4>1. at' = "emit" /\ (know'.blockers # {} <=> ~CouldFire')
        BY <2>7, <3>1, <3>4, <3>6, SameQuestion
      <4>. QED
        BY <4>1 DEF WhyNotRead
    <3>7. CASE segments # <<>>
      <4>1. at' = "clause"
        BY <2>7, <3>7
      <4>2. 1 \in DOMAIN segments
        BY <3>5, <3>7
      <4>3. 1 \in DOMAIN segments[1]
        BY <3>5, <4>2
      <4>4. Tested(segments[1], 0, inst.holds) = "yes" /\ know'.clause - 1 = 0 /\ 1..(know'.segment - 1) = {}
        BY <3>1, NoneTested
      <4>5. know'.verdicts = {Tested(know'.segments[s], Len(know'.segments[s]), inst'.holds) :
                                 s \in 1..(know'.segment - 1)}
        BY <3>1, <4>4
      <4>6. know'.verdict = Tested(know'.segments[know'.segment], know'.clause - 1, inst'.holds)
        BY <3>1, <4>4
      <4>7. /\ inst'.class # "elsewhere" /\ know'.blockers = blockers'
            /\ know'.segments = SplitCondition(inst'.on.condition)
            /\ know'.segment \in DOMAIN know'.segments
            /\ know'.clause \in DOMAIN know'.segments[know'.segment]
        BY <2>7, <3>1, <3>3, <4>2, <4>3 DEF segments
      <4>. QED
        BY <3>2, <4>1, <4>5, <4>6, <4>7 DEF WhyNotRead, blockers
    <3>. QED
      BY <3>6, <3>7
  <2>. HIDE DEF facts, segments
  <2>. QED
    BY <2>4, <2>5, <2>6, <2>7
<1>. QED
  BY <1>1, <1>2

LEMMA ClauseIsTested ==
    ASSUME UNCHANGED <<cmd, inst, still>>, Shaped(cmd, inst), WhyNotRead, EvaluateClause
    PROVE  WhyNotRead'
<1>1. CASE ~Promised
  BY <1>1, SameQuestion DEF WhyNotRead
<1>2. CASE Promised
  <2>. DEFINE segments == SplitCondition(inst.on.condition)
              blockers == FlowBlocks \cup OffBlocks \cup OtherClassBlocks
              holds == inst.holds
              m == know.segment
              n == know.clause
              Of(s) == Tested(segments[s], Len(segments[s]), holds)
              verdict == AfterClause(know.verdict, segments[m][n])
              verdicts == know.verdicts \cup {verdict}
  <2>1. /\ at = "clause" /\ ClauseFields \subseteq DOMAIN know /\ inst.class # "elsewhere"
        /\ know.blockers = blockers /\ know.segments = segments
        /\ m \in DOMAIN segments /\ n \in DOMAIN segments[m]
        /\ know.verdict = Tested(segments[m], n - 1, holds)
        /\ know.verdicts = {Of(s) : s \in 1..(m - 1)}
    BY <1>2 DEF WhyNotRead, EvaluateClause
  <2>2. Listed(inst.on.condition)
    BY <1>2 DEF Promised, Shaped, FlowVerbs
  <2>3. /\ Len(segments) \in Nat /\ DOMAIN segments = 1..Len(segments)
        /\ segments = <<>> <=> Len(segments) = 0
        /\ \A s \in DOMAIN segments : /\ Len(segments[s]) \in Nat \ {0}
                                      /\ DOMAIN segments[s] = 1..Len(segments[s])
    BY <2>2, SegmentsTell
  <2>. HIDE DEF segments
  <2>4. m \in 1..Len(segments) /\ n \in 1..Len(segments[m]) /\ n - 1 \in Nat /\ (n - 1) + 1 = n
    BY <2>1, <2>3
  <2>5. verdict = Tested(segments[m], n, holds)
    <3>1. AfterClause(know.verdict, segments[m][(n - 1) + 1])
              = Tested(segments[m], (n - 1) + 1, inst.holds)
      BY <2>1, <2>4, TestedOnce
    <3>. QED
      BY <2>4, <3>1
  <2>6. n = Len(segments[m]) => verdicts = {Of(s) : s \in 1..m}
    <3>1. 1..m = 1..(m - 1) \cup {m}
      BY <2>3, <2>4
    <3>2. n = Len(segments[m]) => verdict = Of(m)
      BY <2>5
    <3>. HIDE DEF verdict, Of
    <3>. QED
      BY <2>1, <3>1, <3>2
  <2>. DEFINE next == [clause |-> n + 1, verdict |-> verdict]
              open == [segment |-> m + 1, clause |-> 1, verdict |-> "yes", verdicts |-> verdicts]
              told == [blockers |-> blockers \cup (IF Overall(verdicts) = "no" THEN {"condition"} ELSE {})]
  <2>7. \/ at' = "done"
        \/ at' = "clause" /\ n < Len(segments[m]) /\ know' = Added(next, know)
        \/ /\ at' = "clause" /\ n = Len(segments[m]) /\ m < Len(segments)
           /\ know' = Added(open, know)
        \/ /\ at' = "emit" /\ n = Len(segments[m]) /\ m = Len(segments)
           /\ know' = Added(told, know)
    <3>1. know.segments = segments /\ know.blockers = blockers
      BY <2>1
    <3>. HIDE DEF Added, blockers
    <3>. QED
      BY <3>1 DEF EvaluateClause, Fails, Ends, Learns, Blockers, More
  <2>8. {"blockers", "segments", "segment", "clause", "verdict", "verdicts"} \subseteq DOMAIN know
    BY <2>1 DEF ClauseFields
  <2>9. blockers' = blockers
    BY SameQuestion
  <2>10. CASE at' = "done"
    BY <2>10 DEF WhyNotRead
  <2>11. CASE at' = "clause" /\ n < Len(segments[m]) /\ know' = Added(next, know)
    <3>1. /\ DOMAIN know \subseteq DOMAIN know'
          /\ know'.blockers = know.blockers /\ know'.segments = segments /\ know'.segment = m
          /\ know'.clause = n + 1 /\ know'.verdict = verdict /\ know'.verdicts = know.verdicts
      <4>. HIDE DEF verdict
      <4>. QED
        BY <2>1, <2>8, <2>11 DEF Added
    <3>2. n + 1 \in DOMAIN segments[m] /\ (n + 1) - 1 = n
      BY <2>1, <2>3, <2>4, <2>11
    <3>3. know'.verdict = Tested(know'.segments[know'.segment], know'.clause - 1, inst'.holds)
      BY <2>5, <3>1, <3>2
    <3>4. know'.verdicts = {Tested(know'.segments[s], Len(know'.segments[s]), inst'.holds) :
                               s \in 1..(know'.segment - 1)}
      BY <2>1, <3>1
    <3>5. /\ ClauseFields \subseteq DOMAIN know' /\ inst'.class # "elsewhere"
          /\ know'.blockers = blockers' /\ know'.segments = SplitCondition(inst'.on.condition)
          /\ know'.segment \in DOMAIN know'.segments
          /\ know'.clause \in DOMAIN know'.segments[know'.segment]
      <4>. HIDE DEF blockers
      <4>. QED
        BY <2>1, <2>9, <3>1, <3>2 DEF segments
    <3>. QED
      BY <2>11, <3>3, <3>4, <3>5 DEF WhyNotRead
  <2>12. CASE /\ at' = "clause" /\ n = Len(segments[m]) /\ m < Len(segments)
              /\ know' = Added(open, know)
    <3>1. /\ DOMAIN know \subseteq DOMAIN know'
          /\ know'.blockers = know.blockers /\ know'.segments = segments /\ know'.segment = m + 1
          /\ know'.clause = 1 /\ know'.verdict = "yes" /\ know'.verdicts = verdicts
      <4>. HIDE DEF verdicts
      <4>. QED
        BY <2>1, <2>8, <2>12 DEF Added
    <3>2. m + 1 \in DOMAIN segments /\ (m + 1) - 1 = m
      BY <2>1, <2>3, <2>4, <2>12
    <3>3. 1 \in DOMAIN segments[m + 1]
      BY <2>3, <3>2
    <3>4. know'.verdict = Tested(know'.segments[know'.segment], know'.clause - 1, inst'.holds)
      <4>1. know'.clause - 1 = 0
        BY <3>1
      <4>. QED
        BY <3>1, <4>1, NoneTested
    <3>5. know'.verdicts = {Tested(know'.segments[s], Len(know'.segments[s]), inst'.holds) :
                               s \in 1..(know'.segment - 1)}
      <4>. HIDE DEF verdicts
      <4>. QED
        BY <2>6, <2>12, <3>1, <3>2
    <3>6. /\ ClauseFields \subseteq DOMAIN know' /\ inst'.class # "elsewhere"
          /\ know'.blockers = blockers' /\ know'.segments = SplitCondition(inst'.on.condition)
          /\ know'.segment \in DOMAIN know'.segments
          /\ know'.clause \in DOMAIN know'.segments[know'.segment]
      <4>. HIDE DEF blockers
      <4>. QED
        BY <2>1, <2>9, <3>1, <3>2, <3>3 DEF segments
    <3>. QED
      BY <2>12, <3>4, <3>5, <3>6 DEF WhyNotRead
  <2>13. CASE /\ at' = "emit" /\ n = Len(segments[m]) /\ m = Len(segments)
              /\ know' = Added(told, know)
    <3>1. know'.blockers = told.blockers
      <4>. DEFINE b == blockers \cup (IF Overall(verdicts) = "no" THEN {"condition"} ELSE {})
      <4>1. know' = Added([blockers |-> b], know)
        BY <2>13
      <4>. HIDE DEF b
      <4>. QED
        BY <4>1 DEF Added, b
    <3>2. verdicts = {Of(s) : s \in DOMAIN segments}
      <4>. HIDE DEF verdicts, Of
      <4>. QED
        BY <2>3, <2>6, <2>13
    <3>3. \A s \in DOMAIN segments : /\ Of(s) \in {"yes", "no", "unknown"}
                                     /\ Of(s) # "no" <=> Possible(segments[s], holds)
      BY <2>3, VerdictTells DEF Tested
    <3>4. Overall(verdicts) # "no" <=> \E s \in DOMAIN segments : Possible(segments[s], holds)
      <4>. HIDE DEF verdicts, Of
      <4>. QED
        BY <3>2, <3>3 DEF Overall
    <3>5. CouldFire <=> /\ blockers = {}
                        /\ segments = <<>> \/ \E s \in DOMAIN segments : Possible(segments[s], inst.holds)
      BY <1>2, <2>1, FireTells DEF segments
    <3>6. segments # <<>>
      BY <2>3, <2>4
    <3>7. know'.blockers # {} <=> ~CouldFire'
      <4>. HIDE DEF blockers, verdicts
      <4>. QED
        BY <3>1, <3>4, <3>5, <3>6, SameQuestion
    <3>. QED
      BY <2>13, <3>7 DEF WhyNotRead
  <2>. HIDE DEF next, open, told
  <2>. QED
    BY <2>7, <2>10, <2>11, <2>12, <2>13
<1>. QED
  BY <1>1, <1>2

LEMMA WhyNotStaysRead ==
    ASSUME Proper, cmd' = cmd, cmd.verb \in FlowVerbs, WhyNotWays, WhyNotRead, FlowStep \/ FlowOthers
    PROVE  WhyNotRead'
<1>. DEFINE Quiet == cmd.verb # "why-not" \/ ~still' \/ at' \in {"argv", "connect", "flow", "done"}
<1>1. CASE Quiet
  BY <1>1 DEF WhyNotRead, Promised
<1>2. CASE FlowArguments \/ FlowConnect \/ FlowEmit
  <2>1. Quiet
    BY <1>2 DEF FlowArguments, FlowConnect, FlowEmit, Connect, Emit, Goto, Learns, Ends, Fails, Rejects
  <2>. QED
    BY <1>1, <2>1
<1>3. CASE WatchFlow \/ FetchContext \/ FetchSteps \/ FetchFailed \/ FetchLogs
  <2>1. cmd.verb # "why-not"
    BY <1>3 DEF WhyNotWays, WatchFlow, FetchContext, FetchSteps, FetchFailed, FetchLogs
  <2>. QED
    BY <1>1, <2>1
<1>4. CASE FlowOthers
  <2>1. Quiet
    BY <1>4 DEF FlowOthers, Others
  <2>. QED
    BY <1>1, <2>1
<1>5. CASE cmd.verb = "why-not" /\ ResolveFlow
  <2>1. UNCHANGED <<cmd, inst, still>> /\ cmd.flow # "any"
    BY <1>5 DEF ResolveFlow, Reading, Proper, Shaped, FlowVerbs
  <2>2. \/ at' = "done"
        \/ at' = "ref" /\ \E f : know' = Added([flow |-> f, flags |-> inst.flags, trigger |-> inst.trigger], know)
    <3>. HIDE DEF Added
    <3>. QED
      BY <1>5, <2>1 DEF ResolveFlow, Fails, Ends, Learns
  <2>3. ASSUME NEW f, know' = Added([flow |-> f, flags |-> inst.flags, trigger |-> inst.trigger], know)
        PROVE  /\ {"flags", "trigger"} \subseteq DOMAIN know'
               /\ know'.flags = inst'.flags /\ know'.trigger = inst'.trigger
    <3>1. /\ {"flags", "trigger"} \subseteq DOMAIN know'
          /\ know'.flags = inst.flags /\ know'.trigger = inst.trigger
      BY <2>3 DEF Added
    <3>. QED
      BY <2>1, <3>1
  <2>. QED
    BY <2>2, <2>3 DEF WhyNotRead
<1>6. CASE FlowRecord
  <2>1. UNCHANGED <<cmd, inst, still>> /\ at = "ref"
    BY <1>6 DEF FlowRecord, ResolveRef, Reading
  <2>2. \/ at' = "done"
        \/ at' = "runs" /\ \E r : know' = Added([record |-> r], know)
    <3>. HIDE DEF Added
    <3>. QED
      BY <1>6 DEF FlowRecord, ResolveRef, Fails, Ends, Learns
  <2>3. ASSUME NEW r, know' = Added([record |-> r], know), {"flags", "trigger"} \subseteq DOMAIN know
        PROVE  /\ {"flags", "trigger"} \subseteq DOMAIN know'
               /\ know'.flags = know.flags /\ know'.trigger = know.trigger
    BY <2>3 DEF Added
  <2>. QED
    BY <2>1, <2>2, <2>3, SameQuestion DEF WhyNotRead
<1>7. CASE cmd.verb = "why-not" /\ FlowRuns
  <2>1. UNCHANGED <<cmd, inst, still>> /\ at = "runs"
    BY <1>7 DEF FlowRuns, Reading
  <2>2. \/ at' = "done"
        \/ at' = "trigger" /\ know' = Added([blockers |-> {}], know)
    <3>. HIDE DEF Added
    <3>. QED
      BY <1>7 DEF FlowRuns, Fails, Ends, Learns
  <2>3. ASSUME know' = Added([blockers |-> {}], know), {"flags", "trigger"} \subseteq DOMAIN know
        PROVE  /\ {"flags", "trigger"} \subseteq DOMAIN know' /\ know'.blockers = {}
               /\ know'.flags = know.flags /\ know'.trigger = know.trigger
    BY <2>3 DEF Added
  <2>. QED
    BY <2>1, <2>2, <2>3, SameQuestion DEF WhyNotRead
<1>8. CASE ReadTrigger \/ ReadRecordTrigger \/ ReadClass \/ EvaluateClause
  <2>1. UNCHANGED <<cmd, inst, still>> /\ Shaped(cmd, inst)
    BY <1>8 DEF ReadTrigger, ReadRecordTrigger, ReadClass, EvaluateClause, Reading, Proper
  <2>. QED
    BY <1>8, <2>1, TriggerIsRead, RecordTriggerIsRead, ClassIsRead, ClauseIsTested
<1>9. CASE cmd.verb # "why-not"
  BY <1>1, <1>9
<1>. QED
  BY <1>2, <1>3, <1>4, <1>5, <1>6, <1>7, <1>8, <1>9 DEF FlowStep

\* why-not (evaluate_record_trigger over split_condition) names a blocker if and only if no
\* write to the record could start the flow, for a condition of any length, whatever its
\* terms and however they are joined.
THEOREM WhyNotIsRight == Spec => []WhyNotIsExact
<1>. DEFINE Inv == cmd.verb \in FlowVerbs => WhyNotWays /\ WhyNotRead
<1>1. Init => Inv
  BY DEF Init, Started, WhyNotWays, WhyNotRead
<1>2. ASSUME Proper, Inv, [Next]_vars PROVE Inv'
  <2>1. CASE Next
    BY <1>2, <2>1, OwnSteps, WhyNotStaysOnWay, WhyNotStaysRead
  <2>2. CASE UNCHANGED vars
    <3>1. WhyNotWays => WhyNotWays'
      BY <2>2 DEF vars, WhyNotWays
    <3>2. WhyNotRead => WhyNotRead'
      <4>1. UNCHANGED <<cmd, inst, still, at, know>>
        BY <2>2 DEF vars
      <4>. QED
        BY <4>1, SameQuestion DEF WhyNotRead
    <3>. QED
      BY <1>2, <2>2, <3>1, <3>2 DEF vars
  <2>. QED
    BY <1>2, <2>1, <2>2
<1>3. Inv => WhyNotIsExact
  BY DEF WhyNotRead, Promised, WhyNotIsExact, FlowVerbs
<1>. QED
  BY <1>1, <1>2, <1>3, ProperAtFirst, StaysProper, PTL DEF Spec
=============================================================================
