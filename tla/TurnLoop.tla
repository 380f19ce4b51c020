------------------------------ MODULE TurnLoop ------------------------------
(***************************************************************************)
(* A conversation in the terminal UI: the worker thread that runs turns,   *)
(* the cancel handle the UI presses, the saved messages and their          *)
(* compaction.  Sources, under crates: runtime/src/conversation/mod.rs,    *)
(* runtime/src/control.rs, runtime/src/compact/mod.rs,                     *)
(* ui/src/app/{api_client,turn,runtime_builder,slash}.rs and               *)
(* tui/src/repl_app/event_loop.rs.                                         *)
(*                                                                         *)
(* Grain.  The worker holds the mutex around LiveCli for a whole turn, so  *)
(* what the two threads share during one is the control state and the      *)
(* channel of UI events.  A worker step goes from one look at the control  *)
(* state, or one await, to the next.  ControlState::cancelled() reads the  *)
(* flag and only then registers for the wakeup; a request in between       *)
(* notifies nobody, hence the two steps WatchPasses and Arm.               *)
(*                                                                         *)
(* Abstractions.  A message is its role and, for an assistant message, the *)
(* number of tool calls it makes; a tool result names the call it answers. *)
(* Token counts are left out: the cumulative usage may or may not have     *)
(* reached the compaction threshold, and a token budget may keep any tail. *)
(* `pressed` is a ghost: the user interrupted the turn that runs.          *)
(*                                                                         *)
(* An operator named Bad... is a plausible mistake in the definition that  *)
(* follows it; no specification uses it, mutation runs put it in place.    *)
(***************************************************************************)
EXTENDS Integers, Sequences

CONSTANTS
  MaxIterations,  \* setting max_steps
  Recent,         \* CompactionConfig.preserve_recent_messages
  Floor,          \* setting preserve_recent_messages_floor
  DefaultFloor,   \* the default of that setting
  MaxCalls,       \* bound: tool calls of one assistant message
  MaxTurns,       \* bound: prompts submitted
  MaxPresses,     \* bound: interrupts pressed
  MaxCommands     \* bound: slash commands that replace the runtime

ASSUME LoopAssumption ==
  /\ MaxIterations \in Nat
  /\ {Recent, Floor, DefaultFloor, MaxTurns, MaxPresses, MaxCommands} \subseteq Nat
  /\ MaxCalls \in Nat \ {0}

VARIABLES
  session,     \* Session.messages
  phase,       \* where the worker is in run_turn
  watch,       \* how far the worker's cancelled() future has come
  calls, done, \* tool calls of the last message, and how many have a result
  iterations,  \* of the running turn
  flag,        \* ControlState.cancelled of the runtime's control state
  attached,    \* the UI's handle is the runtime's control state
  pressed,     \* ghost: the user interrupted this turn
  stopped,     \* ghost: turns that ended as interrupted
  queue,       \* prompts sent to the worker and not begun
  events,      \* UI events sent and not drained
  busy,        \* ReplTuiState.busy
  ui,          \* "loop", or "locked": a slash command waits for the mutex
  turns, presses, commands  \* counters of the bounds

turn == <<phase, watch, calls, done, iterations, pressed, stopped>>
screen == <<queue, events, busy, ui>>
bounds == <<turns, presses, commands>>
vars == <<session, turn, flag, attached, screen, bounds>>

User == [role |-> "user"]
Assistant(n) == [role |-> "assistant", calls |-> n]
Result(i) == [role |-> "tool", call |-> i]
Summary == [role |-> "summary"]

Message == {User, Summary}
  \union {Assistant(n) : n \in 0..MaxCalls}
  \union {Result(i) : i \in 1..MaxCalls}

Phase == {"idle", "top", "connecting", "stream", "tools"}

TypeOK ==
  /\ session \in Seq(Message)
  /\ phase \in Phase
  /\ watch \in {"off", "checked", "armed", "woken"}
  /\ calls \in 0..MaxCalls /\ done \in 0..calls
  /\ iterations \in 0..MaxIterations
  /\ flag \in BOOLEAN /\ attached \in BOOLEAN
  /\ pressed \in BOOLEAN /\ busy \in BOOLEAN
  /\ stopped \in 0..MaxTurns
  /\ queue \in 0..MaxTurns
  /\ events \in Seq({"starting", "finished"})
  /\ ui \in {"loop", "locked"}
  /\ turns \in 0..MaxTurns
  /\ presses \in 0..MaxPresses
  /\ commands \in 0..MaxCommands

Init ==
  /\ session = << >>
  /\ phase = "idle" /\ watch = "off"
  /\ calls = 0 /\ done = 0 /\ iterations = 0
  /\ flag = FALSE /\ attached = TRUE /\ pressed = FALSE
  /\ stopped = 0
  /\ queue = 0 /\ events = << >> /\ busy = FALSE /\ ui = "loop"
  /\ turns = 0 /\ presses = 0 /\ commands = 0

-----------------------------------------------------------------------------
(***************************************************************************)
(* Compaction.                                                             *)
(***************************************************************************)
\* Messages of s that are an earlier summary: it stays out of the cut.
Prefix(s) == IF s # << >> /\ Head(s) = Summary THEN 1 ELSE 0

Larger(a, b) == IF a > b THEN a ELSE b
Monus(a, b) == IF a > b THEN a - b ELSE 0
EffFloor(floor) == Larger(Recent, floor)

\* The numbers of messages that may go before the walk back: whatever the token
\* budget does not pay for, but never into the floor; or, when the budget is
\* left at its default, all but the legacy count.
BudgetCuts(s, floor) ==
  Prefix(s)..Larger(Monus(Len(s), EffFloor(floor)), Prefix(s))
LegacyCuts(s) ==
  IF Recent > 0 THEN {Larger(Monus(Len(s), Recent), Prefix(s))} ELSE {}

Separable(s, k) == k = Prefix(s) \/ s[k + 1].role # "tool"

BadWalkBack(s, k) == {k}

\* The last cut up to k (a set of one) that does not begin with a tool result.
WalkBack(s, k) ==
  IF k = Len(s) THEN {k}
  ELSE {j \in Prefix(s)..k :
          Separable(s, j) /\ \A i \in j + 1..k : ~Separable(s, i)}

CutAt(s, k) ==
  IF k = Prefix(s) THEN s ELSE <<Summary>> \o SubSeq(s, k + 1, Len(s))

\* What compact_session makes of s when its first cut is one of ks.
Compacted(s, floor, ks) ==
  IF Len(s) - Prefix(s) <= EffFloor(floor) THEN {s}
  ELSE UNION {{CutAt(s, j) : j \in WalkBack(s, k)} : k \in ks}

\* maybe_auto_compact reads the settings; /compact uses the defaults.
AutoCompacted(s) == Compacted(s, Floor, BudgetCuts(s, Floor) \union LegacyCuts(s))
CommandCompacted(s) ==
  Compacted(s, DefaultFloor,
            IF Recent > 0 THEN LegacyCuts(s) ELSE BudgetCuts(s, DefaultFloor))

-----------------------------------------------------------------------------
(***************************************************************************)
(* The worker: one turn.                                                   *)
(***************************************************************************)
BadEndTurn(how) ==
  /\ phase' = "idle" /\ watch' = "off" /\ calls' = 0 /\ done' = 0
  /\ iterations' = 0
  /\ stopped' = IF how = "interrupted" THEN stopped + 1 ELSE stopped
  /\ UNCHANGED <<events, pressed>>

\* run_turn returns, tells the observer, and the worker lets go of the mutex.
EndTurn(how) ==
  /\ phase' = "idle" /\ watch' = "off" /\ calls' = 0 /\ done' = 0
  /\ iterations' = 0
  /\ stopped' = IF how = "interrupted" THEN stopped + 1 ELSE stopped
  /\ events' = Append(events, "finished")
  /\ UNCHANGED pressed

\* The worker takes a prompt, and the mutex.
Begin ==
  /\ phase = "idle" /\ queue > 0
  /\ queue' = queue - 1
  /\ session' = Append(session, User)
  /\ phase' = "top" /\ pressed' = FALSE
  /\ events' = Append(events, "starting")
  /\ UNCHANGED <<watch, calls, done, iterations, stopped, flag, attached, busy, ui, bounds>>

\* check_cancel, fail_if_cancelled: the flag is consumed.
PrepareStops ==
  /\ phase = "top" /\ flag
  /\ flag' = FALSE
  /\ EndTurn("interrupted")
  /\ UNCHANGED <<session, attached, queue, busy, ui, bounds>>

BadPrepareExhausted ==
  /\ phase = "top" /\ ~flag /\ iterations > MaxIterations
  /\ EndTurn("error")
  /\ UNCHANGED <<session, flag, attached, queue, busy, ui, bounds>>

PrepareExhausted ==
  /\ phase = "top" /\ ~flag /\ iterations = MaxIterations
  /\ EndTurn("error")
  /\ UNCHANGED <<session, flag, attached, queue, busy, ui, bounds>>

BadPrepareDeaf ==
  /\ phase = "top" /\ iterations < MaxIterations
  /\ iterations' = iterations + 1
  /\ phase' = "connecting"
  /\ UNCHANGED <<session, watch, calls, done, pressed, stopped, flag, attached, screen, bounds>>

PrepareContinues ==
  /\ phase = "top" /\ ~flag /\ iterations < MaxIterations
  /\ iterations' = iterations + 1
  /\ phase' = "connecting"
  /\ UNCHANGED <<session, watch, calls, done, pressed, stopped, flag, attached, screen, bounds>>

\* The provider answers the request: nothing watches the flag until it does.
StreamOpens ==
  /\ phase = "connecting"
  /\ phase' = "stream" /\ watch' = "off"
  /\ UNCHANGED <<session, calls, done, iterations, pressed, stopped, flag, attached, screen, bounds>>

\* The request, the stream or the building of the message fails.
ModelFails ==
  /\ phase = "connecting" \/ (phase = "stream" /\ watch = "armed")
  /\ EndTurn("error")
  /\ UNCHANGED <<session, flag, attached, queue, busy, ui, bounds>>

BadWatchPasses ==
  /\ phase \in {"stream", "tools"} /\ watch = "off"
  /\ watch' = "checked"
  /\ UNCHANGED <<session, phase, calls, done, iterations, pressed, stopped, flag, attached, screen, bounds>>

\* cancelled() finds the flag down ...
WatchPasses ==
  /\ phase \in {"stream", "tools"} /\ watch = "off" /\ ~flag
  /\ watch' = "checked"
  /\ UNCHANGED <<session, phase, calls, done, iterations, pressed, stopped, flag, attached, screen, bounds>>

\* ... and then waits for the next request.
Arm ==
  /\ watch = "checked"
  /\ watch' = "armed"
  /\ UNCHANGED <<session, phase, calls, done, iterations, pressed, stopped, flag, attached, screen, bounds>>

\* cancelled() has returned, or returns at once.
CancelSeen == watch = "woken" \/ (watch = "off" /\ flag)

\* The client gives up the stream; nobody takes the flag down.
StreamStops ==
  /\ phase = "stream" /\ CancelSeen
  /\ EndTurn("interrupted")
  /\ UNCHANGED <<session, flag, attached, queue, busy, ui, bounds>>

StreamEvent ==
  /\ phase = "stream" /\ watch = "armed"
  /\ watch' = "off"
  /\ UNCHANGED <<session, phase, calls, done, iterations, pressed, stopped, flag, attached, screen, bounds>>

\* A message without tool calls ends the turn; the session may be compacted.
AnswersDirectly ==
  /\ phase = "stream" /\ watch = "armed"
  /\ LET answered == Append(session, Assistant(0))
     IN session' \in {answered} \union AutoCompacted(answered)
  /\ EndTurn("ok")
  /\ UNCHANGED <<flag, attached, queue, busy, ui, bounds>>

AsksForTools ==
  /\ phase = "stream" /\ watch = "armed"
  /\ \E n \in 1..MaxCalls :
       /\ session' = Append(session, Assistant(n))
       /\ calls' = n
  /\ phase' = "tools" /\ watch' = "off" /\ done' = 0
  /\ UNCHANGED <<iterations, pressed, stopped, flag, attached, screen, bounds>>

\* A tool returns, well or not, before the cancel is seen.
ToolDone ==
  /\ phase = "tools" /\ watch = "armed"
  /\ session' = Append(session, Result(done + 1))
  /\ done' = done + 1
  /\ watch' = "off"
  /\ phase' = IF done + 1 = calls THEN "top" ELSE "tools"
  /\ UNCHANGED <<calls, iterations, pressed, stopped, flag, attached, screen, bounds>>

BadToolsInterrupted ==
  /\ phase = "tools" /\ CancelSeen
  /\ session' = Append(session, Result(done + 1))
  /\ flag' = FALSE
  /\ EndTurn("interrupted")
  /\ UNCHANGED <<attached, queue, busy, ui, bounds>>

\* The interrupted call and those after it get a result that says so.
ToolsInterrupted ==
  /\ phase = "tools" /\ CancelSeen
  /\ session' = session \o [i \in 1..calls - done |-> Result(done + i)]
  /\ flag' = FALSE
  /\ EndTurn("interrupted")
  /\ UNCHANGED <<attached, queue, busy, ui, bounds>>

-----------------------------------------------------------------------------
(***************************************************************************)
(* The UI thread.                                                          *)
(***************************************************************************)
\* Enter: accepted unless a TurnStarting without its TurnFinished was drained.
Submit ==
  /\ ui = "loop" /\ ~busy /\ turns < MaxTurns
  /\ queue' = queue + 1
  /\ turns' = turns + 1
  /\ UNCHANGED <<session, turn, flag, attached, events, busy, ui, presses, commands>>

\* A frame takes what has arrived, up to MAX_EVENTS_PER_FRAME.
Drain ==
  /\ ui = "loop"
  /\ \E n \in 1..Len(events) :
       /\ busy' = (events[n] = "starting")
       /\ events' = SubSeq(events, n + 1, Len(events))
  /\ UNCHANGED <<session, turn, flag, attached, queue, ui, bounds>>

\* Esc Esc or Ctrl+C while busy: request_cancel on the handle the UI has.
Press ==
  /\ ui = "loop" /\ busy /\ presses < MaxPresses
  /\ presses' = presses + 1
  /\ pressed' = (pressed \/ phase # "idle")
  /\ flag' = (flag \/ attached)
  /\ watch' = IF attached /\ watch = "armed" THEN "woken" ELSE watch
  /\ UNCHANGED <<session, phase, calls, done, iterations, stopped, attached, screen, turns, commands>>

\* A slash command asks for the mutex.
EnterCommand ==
  /\ ui = "loop" /\ ~busy /\ commands < MaxCommands
  /\ ui' = "locked"
  /\ commands' = commands + 1
  /\ UNCHANGED <<session, turn, flag, attached, queue, events, busy, turns, presses>>

\* /model or /auth, /clear, /compact: build_runtime makes a control state of its
\* own, and the UI keeps the one it took at startup.
RunCommand ==
  /\ ui = "locked" /\ phase = "idle"
  /\ ui' = "loop"
  /\ session' \in {session, << >>} \union CommandCompacted(session)
  /\ attached' = FALSE /\ flag' = FALSE
  /\ UNCHANGED <<turn, queue, events, busy, bounds>>

\* /status, /cost and /export only look.
InspectCommand ==
  /\ ui = "locked" /\ phase = "idle"
  /\ ui' = "loop"
  /\ UNCHANGED <<session, turn, flag, attached, queue, events, busy, bounds>>

-----------------------------------------------------------------------------
Worker ==
  \/ PrepareStops \/ PrepareExhausted \/ PrepareContinues
  \/ WatchPasses \/ Arm \/ StreamStops \/ ToolsInterrupted

\* What the provider and the tools decide.
Outside ==
  \/ StreamOpens \/ ModelFails \/ StreamEvent
  \/ AnswersDirectly \/ AsksForTools \/ ToolDone

Next ==
  \/ Begin \/ Worker \/ Outside
  \/ Submit \/ Drain \/ Press
  \/ EnterCommand \/ RunCommand \/ InspectCommand

Spec == Init /\ [][Next]_vars

\* The threads run, and the mutex is handed on when it is free; the provider
\* and the tools may stay silent for ever, the user may stop typing.
FairSpec ==
  /\ Spec
  /\ WF_vars(Worker) /\ WF_vars(Begin) /\ WF_vars(Drain)
  /\ WF_vars(RunCommand \/ InspectCommand)

-----------------------------------------------------------------------------
(***************************************************************************)
(* Properties.                                                             *)
(***************************************************************************)
\* Every result stands where the call it answers put it, and every call has its
\* result right behind the message that made it.
Rooted(s) ==
  \A p \in DOMAIN s : s[p].role = "tool" =>
    LET asked == p - s[p].call
    IN /\ asked \in DOMAIN s
       /\ s[asked].role = "assistant"
       /\ s[asked].calls >= s[p].call

Answered(s, j) ==
  s[j].role = "assistant" =>
    \A i \in 1..s[j].calls : j + i \in DOMAIN s /\ s[j + i] = Result(i)

\* No compaction and no interrupt leaves a tool result whose assistant message
\* is gone (a provider rejects such a request, and every later one of the
\* conversation).
NoOrphanResult == Rooted(session)

\* Whenever no tool runs, every call in the session has its result, whatever
\* was interrupted, failed or compacted.
CallsAnswered ==
  phase # "tools" => \A j \in DOMAIN session : Answered(session, j)

\* After an interrupt that reaches the runtime the turn sends no new request,
\* even when the wakeup is lost between the flag's test and the registration.
InterruptStopsLoop ==
  [][pressed /\ attached => iterations' <= iterations]_vars

\* When the event channel is empty the UI knows whether a turn runs.
BusyTracksTurn ==
  events = << >> => (busy <=> phase # "idle")

\* A request seen by a waiting select, or made before the select looks at the
\* flag, ends the turn without any help from the provider or the tool.
InterruptEndsTurn ==
  (phase \in {"stream", "tools"} /\ flag /\ watch \in {"off", "woken"})
    ~> phase = "idle"

\* If the provider and the tools keep answering, a slash command that froze the
\* UI on the mutex gets it: the turns in front of it are bounded and finish.
CommandGetsMutex ==
  (/\ WF_vars(StreamOpens) /\ WF_vars(ToolDone)
   /\ SF_vars(ModelFails \/ AnswersDirectly \/ AsksForTools))
    => (ui = "locked" ~> ui = "loop")

\* Keyboard shortcuts: Esc Esc interrupts the running task.  No new request goes
\* out in a turn the user interrupted.
InterruptReaches == [][pressed => iterations' <= iterations]_vars
=============================================================================
