--------------------------- MODULE ScriptExecutor ---------------------------
(***************************************************************************)
(* One run of a script (agent/src/script_executor): a main executor, the   *)
(* executors of its parallel branches, and what they share: the counters   *)
(* of steps and output bytes, the cancel token, the deadline and the pages *)
(* of the browser.                                                         *)
(*                                                                         *)
(* The script itself is not a datum: an executor that is ready runs any    *)
(* node next, enters or leaves a block, or is at its end, so the runs are  *)
(* those of every script of bounded nesting.  Loops and conditions add no  *)
(* control but their checks of the limits.  An executor is named by the    *)
(* branch numbers that lead to it, the main one by << >>; each branch of   *)
(* each block has a name of its own.                                       *)
(*                                                                         *)
(* A JoinSet that is dropped tells its branches to stop; until they come   *)
(* to an await they go on: orphans, whose data and errors nobody takes.    *)
(*                                                                         *)
(* Simplified: a script does not call switch_tab; nothing but this script  *)
(* moves pages.                                                            *)
(***************************************************************************)
EXTENDS Integers, SequencesExt, FiniteSetsExt

CONSTANTS
  Executor,    \* the main executor and those of the branches
  Stray,       \* a page that no running executor was given
  MaxSteps,    \* ScriptLimits.max_steps
  MaxBytes,    \* ScriptLimits.max_output_bytes
  Sizes,       \* bytes of a collected or yielded value
  MaxFrames,   \* bound: try blocks open in one executor
  Fuel,        \* bound: nodes between two checks of the limits
  MinBranches, \* bound: branches of a block, unless there are no more names
  MaxPages     \* bound: pages of the browser

Main == << >>
Branch == Executor \ {Main}
\* The executors of the blocks of e, and of the blocks of those, and so on.
Under(e) == {b \in Branch : Len(e) < Len(b) /\ \A i \in DOMAIN e : b[i] = e[i]}
Kids(e) == {b \in Under(e) : Len(b) = Len(e) + 1}

ASSUME ScriptAssumption ==
  /\ Main \in Executor
  /\ Executor \subseteq Seq(Nat) /\ IsFiniteSet(Executor)
  /\ \A e \in Executor : \A n \in 0..Len(e) : SubSeq(e, 1, n) \in Executor
  /\ Stray \notin Executor
  /\ MaxSteps \in Nat /\ MaxBytes \in Nat /\ Sizes \subseteq Nat
  /\ MaxFrames \in [Executor -> Nat] /\ Fuel \in Nat /\ MinBranches \in Nat /\ MaxPages \in Nat \ {0}

\* check_limits' errors, which no try catches, and all the others in one.
Fatal == {"cancelled", "limit"}
Error == Fatal \cup {"tool"}

VARIABLES
  phase,     \* where each executor stands; of a failed branch, its error
  frames,    \* its open try blocks, innermost last
  block,     \* its parallel block
  doomed,    \* branches that were told to stop
  orphans,   \* those among them that nobody joins
  fuel,      \* nodes left before its next check of the limits
  kept,      \* bytes of its extracted_data
  snap,      \* output_bytes when it entered its block
  index,     \* BrowserContext.page_index
  steps,     \* step_counter
  acted,     \* tool calls that passed the check of the limits
  bytes,     \* output_bytes
  expired,   \* the deadline has passed
  pages,     \* the browser's pages, each named by the executor it was opened for
  token, shown, result   \* see ScriptTask

own == <<frames, doomed, orphans, fuel>>
output == <<kept, snap, bytes>>
counts == <<steps, acted>>
task == <<token, shown, result>>
vars == <<phase, block, own, output, counts, index, pages, expired, task>>

Phase == {"idle", "ready", "counted", "calling", "opening", "joining", "closing", "done", "gone"} \cup Error
Running == {"ready", "counted", "calling", "opening", "joining", "closing"}
NoBlock == [branches |-> {}, opened |-> << >>, err |-> "none"]
Frame == [kind : {"try", "catch"}, err : {"none"}] \cup [kind : {"finally"}, err : Error \cup {"none"}]
Try == [kind |-> "try", err |-> "none"]
Catch == [kind |-> "catch", err |-> "none"]
Finally(err) == [kind |-> "finally", err |-> err]

Init ==
  /\ phase = [e \in Executor |-> "idle"]
  /\ frames = [e \in Executor |-> << >>]
  /\ block = [e \in Executor |-> NoBlock]
  /\ doomed = {} /\ orphans = {}
  /\ fuel = [e \in Executor |-> 0]
  /\ kept = [e \in Executor |-> 0]
  /\ snap = [e \in Executor |-> 0]
  /\ index = [e \in Executor |-> 0]
  /\ steps = 0 /\ acted = 0 /\ bytes = 0
  /\ expired = FALSE
  /\ pages = <<Main>>
  /\ token = FALSE /\ shown = "pending" /\ result = "none"

-----------------------------------------------------------------------------
(* Errors *)

\* check_limits
BadLimitErrorDeaf ==
  IF steps > MaxSteps \/ expired THEN "limit" ELSE "none"
LimitError ==
  IF token THEN "cancelled" ELSE IF steps > MaxSteps \/ expired THEN "limit" ELSE "none"

\* An error in finally_steps leaves its block at once, in place of any other; so
\* the innermost block that is elsewhere reacts to an error, here the i-th of e.
Leaves(e, i) == frames[e][i].kind = "finally"
Reacts(e, i) == ~Leaves(e, i) /\ \A j \in DOMAIN frames[e] : j > i => Leaves(e, j)
Unhandled(e) == \A i \in DOMAIN frames[e] : Leaves(e, i)

Unwound(e, i, err) ==
  Append(SubSeq(frames[e], 1, i - 1),
         IF frames[e][i].kind = "try" /\ err \notin Fatal THEN Catch ELSE Finally(err))

\* execute and run_parallel_branch: an error that no block takes ends the run.
\* ph says where the other executors stand after the step, status what the task's
\* status has been set to before.
RaiseFrom(e, err, ph, status) ==
  \/ \E i \in DOMAIN frames[e] :
       /\ Reacts(e, i)
       /\ frames' = [frames EXCEPT ![e] = Unwound(e, i, err)]
       /\ phase' = [ph EXCEPT ![e] = "ready"]
       /\ shown' = status /\ UNCHANGED result
  \/ /\ Unhandled(e) /\ e # Main
     /\ frames' = [frames EXCEPT ![e] = << >>]
     /\ phase' = [ph EXCEPT ![e] = IF e \in orphans THEN "gone" ELSE err]
     /\ shown' = status /\ UNCHANGED result
  \/ /\ Unhandled(e) /\ e = Main
     /\ frames' = [frames EXCEPT ![e] = << >>]
     /\ phase' = [ph EXCEPT ![e] = "idle"]
     /\ result' = IF err = "cancelled" THEN "cancelled" ELSE "failed"
     /\ shown' = result'
Raise(e, err, ph) == RaiseFrom(e, err, ph, shown)

-----------------------------------------------------------------------------
(* Nodes of one executor *)

Ready(e) == phase[e] = "ready"
Goes(e, where) == phase' = [phase EXCEPT ![e] = where]
\* sync_shared_state
Synced == shown' = "running" /\ UNCHANGED <<token, result>>

\* execute
Start ==
  /\ phase[Main] = "idle" /\ result = "none"
  /\ Goes(Main, "ready")
  /\ Synced
  /\ UNCHANGED <<block, own, output, counts, index, pages, expired>>

Node(e) ==
  /\ Ready(e) /\ fuel[e] > 0
  /\ fuel' = [fuel EXCEPT ![e] = @ - 1]
  /\ UNCHANGED <<doomed, orphans, expired>>

\* Before a step of the script or the branch, and at each turn of a loop.
CheckLimits(e) ==
  /\ Ready(e)
  /\ \/ /\ LimitError = "none"
        /\ fuel' = [fuel EXCEPT ![e] = Fuel]
        /\ UNCHANGED <<phase, frames, shown, result>>
     \/ /\ LimitError # "none"
        /\ Raise(e, LimitError, phase)
        /\ UNCHANGED fuel
  /\ UNCHANGED <<block, doomed, orphans, output, counts, index, pages, expired, token>>

\* A while loop whose body made no tool call charges one step for the turn.
ChargeTurn(e) ==
  /\ Ready(e)
  /\ steps' = IF steps > MaxSteps THEN steps ELSE steps + 1
  /\ fuel[e] > 0
  /\ fuel' = [fuel EXCEPT ![e] = 0]
  /\ UNCHANGED <<phase, block, frames, doomed, orphans, output, acted, index, pages, expired, task>>

\* A tool call counts itself, ...  (beyond MaxSteps the count does not matter)
CountStep(e) ==
  /\ Node(e)
  /\ steps' = IF steps > MaxSteps THEN steps ELSE steps + 1
  /\ Goes(e, "counted")
  /\ UNCHANGED <<block, frames, output, acted, index, pages, task>>

\* ... checks the limits, which branches may have moved meanwhile, ...
CheckStep(e) ==
  /\ phase[e] = "counted"
  /\ \/ /\ LimitError = "none"
        /\ acted' = IF acted > MaxSteps THEN acted ELSE acted + 1
        /\ Goes(e, "calling")
        /\ UNCHANGED <<frames, shown, result>>
     \/ /\ LimitError # "none"
        /\ Raise(e, LimitError, phase)
        /\ UNCHANGED acted
  /\ UNCHANGED <<block, doomed, orphans, fuel, output, steps, index, pages, expired, token>>

\* ... and drives the browser.  The code of a js_eval does the last alone.
Evaluate(e) ==
  /\ Node(e)
  /\ Goes(e, "calling")
  /\ UNCHANGED <<block, frames, output, counts, index, pages, task>>

\* Pages that the site opens, or that a dropped call leaves behind.
MorePages == {pages} \cup (IF Len(pages) < MaxPages THEN {Append(pages, Stray)} ELSE {})

\* The index of a page that is opened now.
BadNewIndex == Len(pages) + 1
NewIndex == Len(pages)

\* acquire_bridge switches to the page of the index, or, when that fails, opens
\* another; the tool succeeds.  All of it awaits the browser, so the call of a
\* branch that was told to stop does not return (AbortLands).
ToolReturns(e) ==
  /\ phase[e] = "calling" /\ e \notin doomed
  /\ \/ /\ index[e] < Len(pages)
        /\ pages' \in MorePages
        /\ UNCHANGED index
     \/ /\ Len(pages) < MaxPages
        /\ pages' = Append(pages, e)
        /\ index' = [index EXCEPT ![e] = NewIndex]
  /\ Goes(e, "ready")
  /\ Synced
  /\ UNCHANGED <<block, own, output, counts, expired>>

\* The tool fails or runs into per_step_timeout_secs; the status is synced even so.
ToolFails(e) ==
  /\ phase[e] = "calling" /\ e \notin doomed
  /\ pages' \in MorePages
  /\ RaiseFrom(e, "tool", phase, "running")
  /\ UNCHANGED <<block, doomed, orphans, fuel, output, counts, index, expired, token>>

\* A variable is missing, a value has the wrong type, a tool is not allowed, a
\* block has more than max_parallel_branches.
NodeFails(e) ==
  /\ Node(e)
  /\ Raise(e, "tool", phase)
  /\ UNCHANGED <<block, output, counts, index, pages, token>>

\* reserve_output_bytes
Fits(n) == bytes + n <= MaxBytes

Collect(e) ==
  /\ Node(e)
  /\ \E n \in Sizes :
       \/ /\ Fits(n)
          /\ bytes' = bytes + n
          /\ kept' = IF e \in orphans THEN kept ELSE [kept EXCEPT ![e] = @ + n]
          /\ Synced
          /\ UNCHANGED <<phase, frames>>
       \/ /\ ~Fits(n)
          /\ Raise(e, "tool", phase)
          /\ UNCHANGED <<kept, bytes, token>>
  /\ UNCHANGED <<block, snap, counts, index, pages>>

Yield(e) ==
  /\ Node(e)
  /\ \E n \in Sizes :
       \/ /\ Fits(n)
          /\ bytes' = bytes + n
          /\ Synced
          /\ UNCHANGED <<phase, frames>>
       \/ /\ ~Fits(n)
          /\ Raise(e, "tool", phase)
          /\ UNCHANGED <<bytes, token>>
  /\ UNCHANGED <<block, snap, kept, counts, index, pages>>

EnterTry(e) ==
  /\ Node(e)
  /\ Len(frames[e]) < MaxFrames[e]
  /\ frames' = [frames EXCEPT ![e] = Append(@, Try)]
  /\ UNCHANGED <<phase, block, output, counts, index, pages, task>>

\* try_steps or catch_steps are through: finally_steps are next.  They are
\* through: the error that was pending goes on.
LeaveTry(e) ==
  /\ Ready(e) /\ frames[e] # << >>
  /\ LET top == Last(frames[e]) IN
       \/ /\ top.kind # "finally"
          /\ frames' = [frames EXCEPT ![e] = Append(Front(@), Finally("none"))]
          /\ UNCHANGED <<phase, shown, result>>
       \/ /\ top.kind = "finally" /\ top.err = "none"
          /\ frames' = [frames EXCEPT ![e] = Front(@)]
          /\ shown' \in {shown, "running"}  \* a step of the script syncs
          /\ UNCHANGED <<phase, result>>
       \/ /\ top.kind = "finally" /\ top.err # "none"
          /\ Raise(e, top.err, phase)
  /\ UNCHANGED <<block, doomed, orphans, fuel, output, counts, index, pages, expired, token>>

-----------------------------------------------------------------------------
(* Parallel blocks *)

\* Branches of e that have not been used.
Fresh(e) == {b \in Kids(e) : phase[b] = "idle"}

EnterParallel(e) ==
  /\ Node(e) /\ Fresh(e) # {}
  /\ Goes(e, "opening")
  /\ snap' = [snap EXCEPT ![e] = bytes]
  /\ UNCHANGED <<block, frames, kept, bytes, counts, index, pages, task>>

\* The block of e may have no more branches than it has with b.
Complete(e, b) == Cardinality(block[e].branches) + 1 >= MinBranches \/ Fresh(e) = {b}

\* new_page, then the branch is spawned on it.
OpenBranch(e) ==
  /\ phase[e] = "opening" /\ Len(pages) < MaxPages /\ Fresh(e) # {}
  /\ LET b == CHOOSE b \in Fresh(e) : TRUE IN
       /\ pages' = Append(pages, b)
       /\ index' = [index EXCEPT ![b] = NewIndex]
       /\ block' = [block EXCEPT ![e].branches = @ \cup {b}, ![e].opened = Append(@, NewIndex)]
       /\ \E next \in {"opening"} \cup (IF Complete(e, b) THEN {"joining"} ELSE {}) :
            phase' = [phase EXCEPT ![b] = "ready", ![e] = next]
  /\ UNCHANGED <<own, output, counts, expired, task>>

\* The JoinSet of e is dropped, its branches that still run are told to stop, and
\* what its branches hold is lost but for sum, which e holds then.
Live(e) == {b \in block[e].branches : phase[b] \in Running}
Dropped(e) == [x \in Executor |-> IF x \in block[e].branches \ Live(e) THEN "gone" ELSE phase[x]]
Drops(e, sum) ==
  /\ block' = [block EXCEPT ![e] = NoBlock]
  /\ snap' = [snap EXCEPT ![e] = 0]
  /\ kept' = [x \in Executor |-> IF x = e THEN sum ELSE IF x \in block[e].branches THEN 0 ELSE kept[x]]
  /\ doomed' = doomed \cup Live(e)
  /\ orphans' = orphans \cup Live(e)

\* new_page fails, perhaps when the page is there but not its url: the block
\* fails at once.
OpenFails(e) ==
  /\ phase[e] = "opening"
  /\ Drops(e, kept[e])
  /\ pages' \in MorePages
  /\ Raise(e, "tool", Dropped(e))
  /\ UNCHANGED <<fuel, bytes, counts, index, expired, token>>

\* What an executor that is over leaves behind is its data or its error.
Forgets(b) ==
  /\ frames' = [frames EXCEPT ![b] = << >>]
  /\ fuel' = [fuel EXCEPT ![b] = 0]
  /\ index' = [index EXCEPT ![b] = 0]

BranchEnds(b) ==
  /\ b # Main /\ Ready(b) /\ frames[b] = << >>
  /\ Goes(b, IF b \in orphans THEN "gone" ELSE "done")
  /\ Forgets(b)
  /\ UNCHANGED <<block, doomed, orphans, output, counts, pages, expired, task>>

\* join_next returns a failed branch: the first error counts, and with it all
\* other branches are told to stop.
JoinFailed(e, b) ==
  /\ phase[e] = "joining" /\ b \in block[e].branches /\ phase[b] \in Error
  /\ Goes(b, "gone")
  /\ IF block[e].err = "none"
     THEN /\ block' = [block EXCEPT ![e].err = phase[b]]
          /\ doomed' = doomed \cup Live(e)
     ELSE UNCHANGED <<block, doomed>>
  /\ Forgets(b)
  /\ kept' = [kept EXCEPT ![b] = 0]
  /\ UNCHANGED <<orphans, snap, bytes, counts, pages, expired, task>>

\* A branch told to stop is dropped at an await; the branches of its own block
\* are then told.
AbortLands(b) ==
  /\ b \in doomed /\ phase[b] \in Running \ {"counted"}
  /\ phase' = [Dropped(b) EXCEPT ![b] = "gone"]
  /\ Drops(b, 0)
  /\ Forgets(b)
  /\ pages' \in IF phase[b] \in {"calling", "opening"} THEN MorePages ELSE {pages}
  /\ UNCHANGED <<bytes, counts, expired, task>>

BadAllJoined(e) ==
  /\ phase[e] = "joining"
  /\ \A b \in block[e].branches : phase[b] \in {"done", "gone"} \/ b \in doomed
  /\ Goes(e, "closing")
  /\ UNCHANGED <<block, own, output, counts, index, pages, expired, task>>
AllJoined(e) ==
  /\ phase[e] = "joining"
  /\ \A b \in block[e].branches : phase[b] \in {"done", "gone"}
  /\ Goes(e, "closing")
  /\ UNCHANGED <<block, own, output, counts, index, pages, expired, task>>

\* close_parallel_pages closes by the indices the pages had when they were
\* opened; an error is kept and the next one tried.
ClosePage(e) ==
  /\ phase[e] = "closing" /\ block[e].opened # << >>
  /\ LET i == Head(block[e].opened)
         closes(ps, err) ==
           /\ pages' = ps
           /\ block' = [block EXCEPT ![e].opened = Tail(@), ![e].err = IF @ = "none" THEN err ELSE @]
     IN \/ i < Len(pages) /\ closes(RemoveAt(pages, i + 1), "none")
        \/ closes(pages, "tool")
  /\ UNCHANGED <<phase, own, output, counts, index, expired, task>>

\* The budget after a block that failed: its start plus what was merged.
BadReset(e, merged) == snap[e]
Reset(e, merged) == snap[e] + merged

\* finish_parallel merges what the branches that ended well have extracted.
FinishParallel(e) ==
  /\ phase[e] = "closing" /\ block[e].opened = << >>
  /\ LET merged == MapThenSumSet(LAMBDA b : kept[b], {b \in block[e].branches : phase[b] = "done"}) IN
       /\ Drops(e, kept[e] + merged)
       /\ bytes' = IF block[e].err = "none" THEN bytes ELSE Reset(e, merged)
  /\ \/ /\ block[e].err = "none"
        /\ phase' = [Dropped(e) EXCEPT ![e] = "ready"]
        /\ shown' \in {shown, "running"}
        /\ UNCHANGED <<frames, result>>
     \/ /\ block[e].err # "none"
        /\ Raise(e, block[e].err, Dropped(e))
  /\ UNCHANGED <<fuel, counts, index, pages, expired, token>>

-----------------------------------------------------------------------------
(* The run as a whole *)

BadScriptEnds ==
  /\ Ready(Main) /\ frames[Main] = << >>
  /\ Goes(Main, "idle")
  /\ result' = "completed"
  /\ UNCHANGED <<block, own, output, counts, index, pages, expired, token, shown>>
ScriptEnds ==
  /\ Ready(Main) /\ frames[Main] = << >>
  /\ Goes(Main, "idle")
  /\ result' = "completed" /\ shown' = "completed"
  /\ UNCHANGED <<block, own, output, counts, index, pages, expired, token>>

\* ScriptManager::cancel_script
Cancel ==
  /\ ~token
  /\ token' = TRUE /\ shown' = "cancelled"
  /\ UNCHANGED <<phase, block, own, output, counts, index, pages, expired, result>>

\* max_timeout_secs have passed since the start.
Expire ==
  /\ ~expired /\ result = "none"
  /\ expired' = TRUE
  /\ UNCHANGED <<phase, block, own, output, counts, index, pages, task>>

Nodes(e) ==
  \/ CheckLimits(e) \/ ChargeTurn(e) \/ CountStep(e) \/ CheckStep(e) \/ Evaluate(e)
  \/ ToolReturns(e) \/ ToolFails(e) \/ NodeFails(e)
  \/ Collect(e) \/ Yield(e) \/ EnterTry(e) \/ LeaveTry(e)

Blocks(e) ==
  \/ EnterParallel(e) \/ OpenBranch(e) \/ OpenFails(e)
  \/ BranchEnds(e) \/ AbortLands(e) \/ (\E b \in Branch : JoinFailed(e, b))
  \/ AllJoined(e) \/ ClosePage(e) \/ FinishParallel(e)

Moves(e) == Nodes(e) \/ Blocks(e) \/ (e = Main /\ (Start \/ ScriptEnds))

Next == (\E e \in Executor : Moves(e)) \/ Cancel \/ Expire

Spec == Init /\ [][Next]_vars

\* As long as some executor can move one does: tokio polls its tasks, and a
\* tool call ends by its timeout.  Which of them moves is left open.
FairSpec == Spec /\ WF_vars(\E e \in Executor : Moves(e))

-----------------------------------------------------------------------------
(* Properties *)

\* Bytes of extracted data that the script holds: its own and those of branches
\* it can still merge.
Extracted == MapThenSumSet(LAMBDA e : kept[e], {Main} \cup UNION {block[e].branches : e \in Executor})

TypeOK ==
  /\ phase \in [Executor -> Phase]
  /\ frames \in [Executor -> Seq(Frame)] /\ \A e \in Executor : Len(frames[e]) <= MaxFrames[e]
  /\ block \in [Executor -> [branches : SUBSET Branch, opened : Seq(Nat), err : Error \cup {"none"}]]
  /\ doomed \subseteq Branch /\ orphans \subseteq Branch
  /\ fuel \in [Executor -> 0..Fuel]
  /\ index \in [Executor -> Nat]
  /\ steps \in 0..MaxSteps + 1 /\ acted \in 0..MaxSteps + 1
  /\ expired \in BOOLEAN
  /\ pages \in Seq(Executor \cup {Stray}) /\ Len(pages) <= MaxPages
  /\ token \in BOOLEAN
  /\ shown \in {"pending", "running", "completed", "failed", "cancelled"}
  /\ result \in {"none", "completed", "failed", "cancelled"}

\* Data that branches collect at the same time, that a failing block merges in
\* part and whose bytes it gives back: with no block inside a block, what a script
\* holds never exceeds what the shared counter has reserved, and that never
\* max_output_bytes.
ExtractedWithinBudget ==
  /\ kept \in [Executor -> Nat] /\ snap \in [Executor -> Nat]
  /\ Extracted <= bytes /\ bytes <= MaxBytes

\* However the branches' counting and checking interleave, no more tool calls
\* than max_steps reach the browser.
StepLimitHolds == acted <= MaxSteps

\* With no block inside a block, an executor that is not an orphan drives the page
\* that was opened for it, never one that took its index when another page closed
\* (close_page moves all pages behind the closed one).
OnOwnTab ==
  \A e \in Executor \ orphans : phase[e] \in Running => index[e] < Len(pages) /\ pages[index[e] + 1] = e

\* A branch runs only while the executor above it opens branches or waits for
\* them, never while their pages are closed, unless it was told to stop and nobody
\* waits for that.
NoBranchOutlives ==
  \A e \in Executor : \A b \in Kids(e) :
    phase[b] \in Running => phase[e] \in {"opening", "joining"} \/ (b \in orphans /\ b \in doomed)

\* The status and the result of the run are those of a task (ScriptTask): after the
\* result nothing is written, but by orphans.
Task == INSTANCE ScriptTask WITH stray <- orphans # {}
ImplementsTask == Task!Spec

\* Cancelled or out of time, a script ends, whatever it catches, cleans up or
\* still has to join and to close.
StopEnds == (token \/ expired) ~> result # "none"
=============================================================================
