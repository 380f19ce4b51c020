----------------------------- MODULE PipeState -----------------------------
(***************************************************************************)
(* The state of PlaywrightPipe and what is promised of it, apart from its  *)
(* actions: a module that instantiates PlaywrightPipe beside others takes  *)
(* them from here under their own names.                                   *)
(***************************************************************************)
EXTENDS Naturals

CONSTANT MaxCalls  \* calls made on the pipe

ASSUME PipeAssumption == MaxCalls \in Nat

VARIABLES
  caller,   \* where the running call is in write_command_and_read_line
  current,  \* number of the last call begun
  pending,  \* PlaywrightBridge.pending_responses
  stdin,    \* calls whose line the child has not read
  node,     \* the child: ready, working, writing its response, dead
  job,      \* the call whose line the child works on
  torn,     \* what the readers left of the line being written
  stdout,   \* whole lines the bridge has not read
  answer    \* the last call answered, and the call whose response it got

\* No call returns the response of another one, whatever timed out, was
\* dropped, torn or cut short before it.
AnswerIsOwn == answer.got = answer.call
=============================================================================
