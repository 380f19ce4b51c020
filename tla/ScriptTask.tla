----------------------------- MODULE ScriptTask -----------------------------
(***************************************************************************)
(* What a script run promises to the manager that spawned it: its task     *)
(* ends with one result, which is "cancelled" only if somebody cancelled;  *)
(* until then the status anybody may read is kept by the task, and the     *)
(* status it leaves is that of its result, unless a branch that the script *)
(* has lost still writes.  ScriptExecutor implements this for one script,  *)
(* ScriptManager keeps it for every script it spawns.                      *)
(***************************************************************************)
VARIABLES
  token,    \* CancellationToken::is_cancelled
  shown,    \* ScriptState.status in the shared state
  result,   \* ScriptResult.status, "none" while the task runs
  stray     \* a branch was dropped while it ran

Result == {"completed", "failed", "cancelled"}

Init == token = FALSE /\ shown = "pending" /\ result = "none" /\ stray = FALSE

\* sync_shared_state overwrites the status, a requested cancel included.
Sync ==
  /\ result = "none" \/ stray
  /\ shown' = "running"
  /\ UNCHANGED <<token, result, stray>>

\* The JoinSet of a parallel block is dropped with branches in it.
Lose ==
  /\ result = "none"
  /\ stray' = TRUE
  /\ UNCHANGED <<token, shown, result>>

\* cancel_script asks for the end and writes the status it hopes for.
Cancel ==
  /\ token' = TRUE
  /\ shown' = "cancelled"
  /\ UNCHANGED <<result, stray>>

\* The error that ends the script may be that of a block that loses branches.
End(r) ==
  /\ result = "none"
  /\ r = "cancelled" => token
  /\ result' = r
  /\ shown' = r
  /\ stray' \in {stray, TRUE}
  /\ UNCHANGED token

Next == Sync \/ Lose \/ Cancel \/ \E r \in Result : End(r)

Spec == Init /\ [][Next]_<<token, shown, result, stray>>
=============================================================================
