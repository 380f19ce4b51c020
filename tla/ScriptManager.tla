---------------------------- MODULE ScriptManager ----------------------------
(***************************************************************************)
(* The scripts of one session (agent/src/script_manager.rs).  The caller,  *)
(* an agent's tool loop or the MCP server, makes one call at a time; the   *)
(* scripts run in tasks of their own, each as ScriptTask says.             *)
(*                                                                         *)
(* wait_for_scripts takes the handles it waits for out of the map, into    *)
(* its own frame: an unknown id further down the list, or an interrupt     *)
(* that drops the wait, loses them and the scripts run on unattended.      *)
(* Scripts that are refused (limits, parse errors) leave no trace.  A task *)
(* that panics is left out.                                                *)
(***************************************************************************)
EXTENDS FiniteSets, Integers

CONSTANTS
  Script,         \* scripts the session may spawn
  MaxConcurrent   \* ScriptManager.max_concurrent

ASSUME ManagerAssumption == IsFiniteSet(Script) /\ MaxConcurrent \in Nat

VARIABLES
  spawned,     \* scripts whose task has been started
  managed,     \* keys of ScriptManager.scripts
  waiting,     \* a call of wait_for_scripts is under way
  awaited,     \* scripts whose handles it has taken
  delivered,   \* scripts whose result a caller got
  token, shown, result, stray   \* see ScriptTask, by script

vars == <<spawned, managed, waiting, awaited, delivered, token, shown, result, stray>>
task == <<token, shown, result, stray>>
book == <<spawned, managed, waiting, awaited, delivered>>

Init ==
  /\ spawned = {} /\ managed = {} /\ awaited = {} /\ delivered = {}
  /\ waiting = FALSE
  /\ token = [s \in Script |-> FALSE]
  /\ shown = [s \in Script |-> "pending"]
  /\ result = [s \in Script |-> "none"]
  /\ stray = [s \in Script |-> FALSE]

Unfinished(S) == {s \in S : result[s] = "none"}

\* check_can_spawn counts what the map holds.
CanSpawn == Cardinality(Unfinished(managed)) < MaxConcurrent

Spawn(s) ==
  /\ ~waiting /\ s \notin spawned /\ CanSpawn
  /\ spawned' = spawned \cup {s}
  /\ managed' = managed \cup {s}
  /\ UNCHANGED <<waiting, awaited, delivered, task>>

\* ScriptExecutor::sync_shared_state
Syncs(s) ==
  /\ s \in spawned /\ (result[s] = "none" \/ stray[s])
  /\ shown' = [shown EXCEPT ![s] = "running"]
  /\ UNCHANGED <<book, token, result, stray>>

\* A parallel block of the script loses a branch that runs.
Loses(s) ==
  /\ s \in spawned /\ result[s] = "none"
  /\ stray' = [stray EXCEPT ![s] = TRUE]
  /\ UNCHANGED <<book, token, shown, result>>

\* ScriptExecutor::execute returns.
Ends(s) ==
  /\ s \in spawned /\ result[s] = "none"
  /\ \E r \in {"completed", "failed"} \cup (IF token[s] THEN {"cancelled"} ELSE {}) :
       /\ result' = [result EXCEPT ![s] = r]
       /\ shown' = [shown EXCEPT ![s] = r]
  /\ \E lost \in {stray[s], TRUE} : stray' = [stray EXCEPT ![s] = lost]
  /\ UNCHANGED <<book, token>>

\* cancel_script, on a script that has ended too.
BadCancelScript(s) ==
  /\ ~waiting /\ s \in managed
  /\ shown' = [shown EXCEPT ![s] = "cancelled"]
  /\ UNCHANGED <<book, token, result, stray>>
CancelScript(s) ==
  /\ ~waiting /\ s \in managed
  /\ token' = [token EXCEPT ![s] = TRUE]
  /\ shown' = [shown EXCEPT ![s] = "cancelled"]
  /\ UNCHANGED <<book, result, stray>>

\* wait_for_scripts, all ids known (None stands for all in the map).
WaitBegins(W) ==
  /\ ~waiting /\ W \subseteq managed
  /\ waiting' = TRUE /\ awaited' = W /\ managed' = managed \ W
  /\ UNCHANGED <<spawned, delivered, task>>

\* An id that is not in the map, or is listed twice, ends the call after it took
\* out those before it.
WaitUnknown(W) ==
  /\ ~waiting /\ W \subseteq managed
  /\ managed' = managed \ W
  /\ UNCHANGED <<spawned, waiting, awaited, delivered, task>>

\* The last handle is joined: the results go to the caller, and cleanup_completed
\* drops every other script that has ended, its result with it.
BadWaitReturns ==
  /\ waiting /\ \A s \in awaited : result[s] = "completed"
  /\ waiting' = FALSE /\ awaited' = {}
  /\ delivered' = delivered \cup awaited
  /\ managed' = Unfinished(managed)
  /\ UNCHANGED <<spawned, task>>
WaitReturns ==
  /\ waiting /\ Unfinished(awaited) = {}
  /\ waiting' = FALSE /\ awaited' = {}
  /\ delivered' = delivered \cup awaited
  /\ managed' = Unfinished(managed)
  /\ UNCHANGED <<spawned, task>>

\* An interrupt of the turn drops the tool's future.
WaitDropped ==
  /\ waiting
  /\ waiting' = FALSE /\ awaited' = {}
  /\ UNCHANGED <<spawned, managed, delivered, task>>

Next ==
  \/ \E s \in Script : Spawn(s) \/ Syncs(s) \/ Loses(s) \/ Ends(s) \/ CancelScript(s)
  \/ \E W \in SUBSET Script : WaitBegins(W) \/ WaitUnknown(W)
  \/ WaitReturns \/ WaitDropped

Spec == Init /\ [][Next]_vars

\* Each script ends by its deadline at the latest (ScriptExecutor, StopEnds).
FairSpec == Spec /\ WF_vars(WaitReturns) /\ \A s \in Script : WF_vars(Ends(s))

-----------------------------------------------------------------------------
(* Properties *)

TypeOK ==
  /\ spawned \subseteq Script /\ managed \subseteq spawned
  /\ awaited \subseteq spawned /\ delivered \subseteq spawned
  /\ waiting \in BOOLEAN
  /\ token \in [Script -> BOOLEAN]
  /\ shown \in [Script -> {"pending", "running", "completed", "failed", "cancelled"}]
  /\ result \in [Script -> {"none", "completed", "failed", "cancelled"}]
  /\ stray \in [Script -> BOOLEAN]

\* The scripts that run and that somebody can still wait for or cancel are never
\* more than max_concurrent, a wait and its scripts included.
TrackedWithinLimit == Cardinality(Unfinished(managed \cup awaited)) <= MaxConcurrent

\* A handle is in one place: a result goes to one caller, once, and it is the
\* result of a script that has ended.
OneHolder ==
  /\ managed \cap awaited = {} /\ managed \cap delivered = {} /\ awaited \cap delivered = {}
  /\ Unfinished(delivered) = {}

\* script_status of a script that has ended, that nobody cancelled afterwards and
\* that lost no branch tells its result; the race is with the syncs of the task.
StatusTellsResult ==
  \A s \in managed : result[s] # "none" /\ ~token[s] /\ ~stray[s] => shown[s] = result[s]

\* What the manager lets happen to each script is what ScriptTask allows.
TaskOf(s) == INSTANCE ScriptTask
  WITH token <- token[s], shown <- shown[s], result <- result[s], stray <- stray[s]
EachIsATask ==
  /\ \A s \in Script : TaskOf(s)!Init
  /\ [][\A s \in Script : [TaskOf(s)!Next]_<<token[s], shown[s], result[s], stray[s]>>]_vars

\* A wait ends, also one for scripts that were cancelled or never end by themselves.
WaitEnds == waiting ~> ~waiting
=============================================================================
