----------------------------- MODULE AgentTree -----------------------------
(***************************************************************************)
(* The tree of agents: fork, wait, cancel, the slots and URL claims they   *)
(* take, and what happens to them when a turn is interrupted, a child is   *)
(* aborted or an agent ends.  Sources, under crates/agent/src:             *)
(* implementation/fork.rs, implementation/mod.rs, manager.rs,              *)
(* url_claim.rs, child_events.rs; and the turn loop's reaction to a cancel *)
(* (crates/runtime/src/conversation/mod.rs, control.rs).                   *)
(*                                                                         *)
(* Grain.  An agent is one tokio task; it runs one tool at a time.  A step *)
(* is what the agent does between two points where it awaits something     *)
(* that can really suspend it, because a cancel or an abort drops its      *)
(* future only there: the browser page of a fork, a child's handle in a    *)
(* wait, the manager's lock in release_child_slot and cleanup_finished.    *)
(* What the suspended tool future owns as local variables is `held`.       *)
(*                                                                         *)
(* Abstractions.  Agent is the set of ids that can ever be issued, with    *)
(* the parent and the depth each id stands for; the model does not spend   *)
(* an id on a fork refused by a limit, since nothing ever refers to it.    *)
(* Goals, steps, costs and extracted items are left out: a block says      *)
(* whether its items were collected.  The root's "thinking" also stands    *)
(* for the pause between two turns, and the root ends as a `run` does      *)
(* (crates/mcp-server's run_goal) or is dropped with its session.  Every   *)
(* agent has the control registry the TUI installs.                        *)
(*                                                                         *)
(* An operator named Bad... is a plausible mistake in a definition that    *)
(* follows it; no specification uses it, mutation runs put it in place.    *)
(***************************************************************************)
EXTENDS UrlClaims, Naturals, FiniteSets, Sequences, SequencesExt

CONSTANTS
  Agent,          \* every agent id that can be issued
  Root,           \* the id of the root agent
  Parent,         \* the agent whose fork issues an id
  Depth,          \* the depth an id is registered at
  MaxPerParent,   \* setting max_concurrent_per_parent
  MaxDepth,       \* setting max_fork_depth
  MaxTotal,       \* setting max_total_agents
  ForkScopes,     \* the scopes the agents ask for
  NoScope,        \* the scope of an agent that has not been given one
  MaxInterrupts   \* bound of the model: cancels requested by the user

ASSUME TreeAssumption ==
  /\ Root \in Agent
  /\ Parent \in [Agent \ {Root} -> Agent]
  /\ Depth \in [Agent -> Nat]
  /\ Depth[Root] = 0
  /\ \A c \in Agent \ {Root} : Depth[c] = Depth[Parent[c]] + 1
  /\ ForkScopes \subseteq Scope
  /\ NoScope \notin Scope

ASSUME LimitAssumption ==
  /\ MaxPerParent \in Nat
  /\ MaxDepth \in Nat
  /\ MaxTotal \in Nat \ {0}
  /\ MaxInterrupts \in Nat

VARIABLES
  status,      \* AgentManager.agents: absent, active or done
  entries,     \* AgentManager.url_claims
  scope,       \* the scope a child was forked with
  guarded,     \* the children whose ClaimGuard has not been dropped
  task,        \* the tokio task of each agent
  phase,       \* where the agent's turn is
  children,    \* child_tasks: the handles an agent keeps
  held,        \* the children whose handle or guard the running tool owns
  blocks,      \* crawl_state.child_blocks, in the order they were pushed
  snap,        \* the shared ChildSnapshotRegistry
  control,     \* the root's ControlState and the ChildControlRegistry
  interrupts   \* how many cancels the user has requested

vars == <<status, entries, scope, guarded, task, phase, children, held,
          blocks, snap, control, interrupts>>

Child == Agent \ {Root}

Status   == {"absent", "active", "done"}
Ended    == {"ok", "failed", "panicked", "aborted"}
Task     == {"none", "running", "aborting"} \cup Ended
Phase    == {"none", "thinking", "setup", "releasing", "waiting", "cleanup",
             "completing", "failing", "gone"}
Snapshot == {"absent", "created", "running", "completed", "failed", "cancelled"}
Control  == {"absent", "clear", "set"}
Block    == [child : Child, items : BOOLEAN]

TypeOK ==
  /\ status \in [Agent -> Status]
  /\ entries \subseteq [key : Key, owner : Child]
  /\ scope \in [Agent -> Scope \cup {NoScope}]
  /\ guarded \subseteq Child
  /\ task \in [Agent -> Task]
  /\ phase \in [Agent -> Phase]
  /\ children \in [Agent -> SUBSET Child]
  /\ held \in [Agent -> Seq(Child)]
  /\ blocks \in [Agent -> Seq(Block)]
  /\ snap \in [Agent -> Snapshot]
  /\ control \in [Agent -> Control]
  /\ interrupts \in 0 .. MaxInterrupts

Init ==
  /\ status = [a \in Agent |-> "absent"]
  /\ entries = {}
  /\ scope = [a \in Agent |-> NoScope]
  /\ guarded = {}
  /\ task = [a \in Agent |-> IF a = Root THEN "running" ELSE "none"]
  /\ phase = [a \in Agent |-> IF a = Root THEN "thinking" ELSE "none"]
  /\ children = [a \in Agent |-> {}]
  /\ held = [a \in Agent |-> << >>]
  /\ blocks = [a \in Agent |-> << >>]
  /\ snap = [a \in Agent |-> "absent"]
  /\ control = [a \in Agent |-> IF a = Root THEN "clear" ELSE "absent"]
  /\ interrupts = 0

-----------------------------------------------------------------------------
(* The manager: slots and limits. *)

ActiveAgents(st) == {a \in Agent : st[a] = "active"}

ActiveChildren(st, a) == {c \in Child : Parent[c] = a /\ st[c] = "active"}

BadWithinLimits(st, a) ==
  /\ Cardinality(ActiveChildren(st, a)) < MaxPerParent
  /\ Depth[a] <= MaxDepth
  /\ Cardinality(ActiveAgents(st)) < MaxTotal

\* The checks of register_child.
WithinLimits(st, a) ==
  /\ Cardinality(ActiveChildren(st, a)) < MaxPerParent
  /\ Depth[a] + 1 <= MaxDepth
  /\ Cardinality(ActiveAgents(st)) < MaxTotal

\* The root registers itself when the manager does not know it yet.
Registered(a) ==
  IF status[a] = "absent" THEN [status EXCEPT ![a] = "active"] ELSE status

\* The ids `a` has not issued: its counter only grows.
FreshIds(a) == {c \in Child : Parent[c] = a /\ status[c] = "absent"}

NextChildId(a) == CHOOSE c \in FreshIds(a) : TRUE

\* mark_done does nothing to an agent the manager does not know.
MarkDone(st, a) ==
  IF st[a] = "absent" THEN st ELSE [st EXCEPT ![a] = "done"]

-----------------------------------------------------------------------------
(* Who takes a step, and what others see of it. *)

\* An aborted task is never polled again once it is suspended, but the poll
\* in progress goes on to the next await that suspends it.  A model call blocks
\* inside a poll; a free lock, an ended child or a passed deadline does not
\* suspend it; opening a page always does.
CanStep(a) ==
  \/ task[a] = "running"
  \/ task[a] = "aborting" /\ phase[a] # "setup"

\* Only the root's own children have an event sender, hence an observer: run
\* takes the sender out of the agent, so grandchildren are forked without one.
Observed(a) == a \in Child /\ Parent[a] = Root

\* The observer sees the model's reply before any tool of it runs.
Heard(a) ==
  IF Observed(a) /\ snap[a] = "created"
  THEN [snap EXCEPT ![a] = "running"] ELSE snap

Thinking(a) == CanStep(a) /\ phase[a] = "thinking"

\* Dropping the guards of the children in S.
DropGuards(S) ==
  /\ entries' = ReleasedAll(entries, {scope[c] : c \in S \cap guarded})
  /\ guarded' = guarded \ S

\* JoinHandle::abort has no effect on a task that has already ended.
Aborted(S) ==
  [c \in Agent |-> IF c \in S /\ task[c] = "running" THEN "aborting" ELSE task[c]]

-----------------------------------------------------------------------------
(* fork: handle_spawn. *)

\* register_child refuses the fork.
ForkRefused(a) ==
  /\ Thinking(a)
  /\ ~WithinLimits(Registered(a), a)
  /\ status' = Registered(a)
  /\ snap' = Heard(a)
  /\ UNCHANGED <<entries, scope, guarded, task, phase, children, held, blocks,
                 control, interrupts>>

\* The slot is free but the scope is not: the slot is given back.
ForkConflict(a, s) ==
  /\ Thinking(a)
  /\ FreshIds(a) # {}
  /\ WithinLimits(Registered(a), a)
  /\ ~Claimable(entries, s)
  /\ status' = [Registered(a) EXCEPT ![NextChildId(a)] = "done"]
  /\ snap' = Heard(a)
  /\ UNCHANGED <<entries, scope, guarded, task, phase, children, held, blocks,
                 control, interrupts>>

\* Slot and scope are taken under one lock; the setup of the page follows.
ForkReserved(a, s) ==
  LET c == NextChildId(a) IN
  /\ Thinking(a)
  /\ FreshIds(a) # {}
  /\ WithinLimits(Registered(a), a)
  /\ Claimable(entries, s)
  /\ status' = [Registered(a) EXCEPT ![c] = "active"]
  /\ entries' = Claimed(entries, s, c)
  /\ scope' = [scope EXCEPT ![c] = s]
  /\ guarded' = guarded \cup {c}
  /\ phase' = [phase EXCEPT ![a] = "setup"]
  /\ held' = [held EXCEPT ![a] = <<c>>]
  /\ snap' = Heard(a)
  /\ UNCHANGED <<task, children, blocks, control, interrupts>>

\* The browser or the page cannot be had: the claim goes at once, the slot
\* once the manager's lock is taken again.
SetupFails(a) ==
  /\ CanStep(a)
  /\ phase[a] = "setup"
  /\ DropGuards(ToSet(held[a]))
  /\ phase' = [phase EXCEPT ![a] = "releasing"]
  /\ UNCHANGED <<status, scope, task, children, held, blocks, snap, control,
                 interrupts>>

BadReleaseSlot(a) ==
  /\ CanStep(a)
  /\ phase[a] = "releasing"
  /\ held' = [held EXCEPT ![a] = << >>]
  /\ phase' = [phase EXCEPT ![a] = "thinking"]
  /\ UNCHANGED <<status, entries, scope, guarded, task, children, blocks, snap,
                 control, interrupts>>

ReleaseSlot(a) ==
  /\ CanStep(a)
  /\ phase[a] = "releasing"
  /\ status' = MarkDone(status, Head(held[a]))
  /\ held' = [held EXCEPT ![a] = << >>]
  /\ phase' = [phase EXCEPT ![a] = "thinking"]
  /\ UNCHANGED <<entries, scope, guarded, task, children, blocks, snap, control,
                 interrupts>>

\* The page is there: the child is registered for status and control, its
\* task is spawned and its handle and guard are kept.
SpawnChild(a) ==
  LET c == Head(held[a]) IN
  /\ CanStep(a)
  /\ phase[a] = "setup"
  /\ task' = [task EXCEPT ![c] = "running"]
  /\ phase' = [phase EXCEPT ![a] = "thinking", ![c] = "thinking"]
  /\ children' = [children EXCEPT ![a] = @ \cup {c}]
  /\ held' = [held EXCEPT ![a] = << >>]
  /\ snap' = [snap EXCEPT ![c] = "created"]
  /\ control' = [control EXCEPT ![c] = "clear"]
  /\ UNCHANGED <<status, entries, scope, guarded, blocks, interrupts>>

-----------------------------------------------------------------------------
(* wait_for_subagents: handle_wait_effect_with_timeout. *)

\* The orders in which a wait may take up the children of a set: the order of
\* the request, or that of a hash map.
WaitOrders(S) ==
  UNION {{q \in [1 .. n -> S] : \A i, j \in 1 .. n : q[i] = q[j] => i = j} :
         n \in 1 .. Cardinality(S)}

\* The entries asked for leave child_tasks before the first await.
WaitBegin(a, q) ==
  /\ Thinking(a)
  /\ children' = [children EXCEPT ![a] = @ \ ToSet(q)]
  /\ held' = [held EXCEPT ![a] = q]
  /\ phase' = [phase EXCEPT ![a] = "waiting"]
  /\ snap' = Heard(a)
  /\ UNCHANGED <<status, entries, scope, guarded, task, blocks, control,
                 interrupts>>

BadCollectFinished(a) ==
  LET c == Head(held[a]) IN
  /\ CanStep(a)
  /\ phase[a] = "waiting"
  /\ task[c] \in Ended
  /\ blocks' = [blocks EXCEPT ![a] = Append(@, [child |-> c, items |-> TRUE])]
  /\ snap' = [snap EXCEPT ![c] = "completed"]
  /\ phase' = [phase EXCEPT ![a] = "cleanup"]
  /\ UNCHANGED <<status, entries, scope, guarded, task, children, held, control,
                 interrupts>>

\* The awaited child has ended: its result is recorded, then the manager's
\* lock is awaited.
CollectFinished(a) ==
  LET c == Head(held[a]) IN
  /\ CanStep(a)
  /\ phase[a] = "waiting"
  /\ task[c] \in Ended
  /\ blocks' = [blocks EXCEPT ![a] =
                  Append(@, [child |-> c, items |-> task[c] = "ok"])]
  /\ snap' = [snap EXCEPT ![c] = IF task[c] = "ok" THEN "completed" ELSE "failed"]
  /\ phase' = [phase EXCEPT ![a] = "cleanup"]
  /\ UNCHANGED <<status, entries, scope, guarded, task, children, held, control,
                 interrupts>>

\* cleanup_finished, for a child that was collected or cancelled; its guard,
\* if it is still held, is dropped at the end of the iteration.
CleanupFinished(a) ==
  LET c == Head(held[a]) IN
  /\ CanStep(a)
  /\ phase[a] = "cleanup"
  /\ control' = [control EXCEPT ![c] = "absent"]
  /\ status' = MarkDone(status, c)
  /\ DropGuards({c})
  /\ held' = [held EXCEPT ![a] = Tail(@)]
  /\ phase' = [phase EXCEPT ![a] = IF Len(held[a]) > 1 THEN "waiting" ELSE "thinking"]
  /\ UNCHANGED <<scope, task, children, blocks, snap, interrupts>>

\* The children that are still running are cleaned up as if they had ended.
BadWaitDeadline(a) ==
  /\ CanStep(a)
  /\ phase[a] = "waiting"
  /\ status' = [c \in Agent |-> IF c \in ToSet(held[a]) THEN "done" ELSE status[c]]
  /\ DropGuards(ToSet(held[a]))
  /\ children' = [children EXCEPT ![a] = @ \cup ToSet(held[a])]
  /\ held' = [held EXCEPT ![a] = << >>]
  /\ phase' = [phase EXCEPT ![a] = "thinking"]
  /\ UNCHANGED <<scope, task, blocks, snap, control, interrupts>>

\* Only the awaited child goes back.
BadWaitDeadlineBreaks(a) ==
  /\ CanStep(a)
  /\ phase[a] = "waiting"
  /\ children' = [children EXCEPT ![a] = @ \cup {Head(held[a])}]
  /\ held' = [held EXCEPT ![a] = << >>]
  /\ phase' = [phase EXCEPT ![a] = "thinking"]
  /\ UNCHANGED <<status, entries, scope, guarded, task, blocks, snap, control,
                 interrupts>>

\* The deadline passes: everything not yet collected goes back, a child that
\* has ended behind the awaited one included.
WaitDeadline(a) ==
  /\ CanStep(a)
  /\ phase[a] = "waiting"
  /\ children' = [children EXCEPT ![a] = @ \cup ToSet(held[a])]
  /\ held' = [held EXCEPT ![a] = << >>]
  /\ phase' = [phase EXCEPT ![a] = "thinking"]
  /\ UNCHANGED <<status, entries, scope, guarded, task, blocks, snap, control,
                 interrupts>>

-----------------------------------------------------------------------------
(* cancel_subagent: handle_cancel_effect, one id of the request at a time. *)

CancelRequested(S) ==
  [c \in Agent |-> IF c \in S /\ control[c] # "absent" THEN "set" ELSE control[c]]

\* A child the agent tracks: aborted, unclaimed, reported; then cleaned up.
CancelTracked(a, c) ==
  /\ Thinking(a)
  /\ c \in children[a]
  /\ control' = CancelRequested({c})
  /\ children' = [children EXCEPT ![a] = @ \ {c}]
  /\ task' = Aborted({c})
  /\ DropGuards({c})
  /\ snap' = [Heard(a) EXCEPT ![c] = "cancelled"]
  /\ blocks' = [blocks EXCEPT ![a] = Append(@, [child |-> c, items |-> FALSE])]
  /\ held' = [held EXCEPT ![a] = <<c>>]
  /\ phase' = [phase EXCEPT ![a] = "cleanup"]
  /\ UNCHANGED <<status, scope, interrupts>>

\* Any other id is reported as not found, after its control state was set.
CancelUntracked(a, c) ==
  /\ Thinking(a)
  /\ c \notin children[a]
  /\ control' = CancelRequested({c})
  /\ snap' = Heard(a)
  /\ UNCHANGED <<status, entries, scope, guarded, task, phase, children, held,
                 blocks, interrupts>>

-----------------------------------------------------------------------------
(* The end of an agent. *)

\* Any other tool, seen from here: the observer hears of it.
OtherTool(a) ==
  /\ Thinking(a)
  /\ snap' = Heard(a)
  /\ UNCHANGED <<status, entries, scope, guarded, task, phase, children, held,
                 blocks, control, interrupts>>

\* run_turn returns, with a summary or with an error (a model or network
\* failure, max_iterations); the observer is told of it.
TurnEnds(a, ok) ==
  /\ Thinking(a)
  /\ phase' = [phase EXCEPT ![a] = IF ok THEN "completing" ELSE "failing"]
  /\ snap' = IF ~ok /\ Observed(a) THEN [snap EXCEPT ![a] = "failed"] ELSE Heard(a)
  /\ UNCHANGED <<status, entries, scope, guarded, task, children, held, blocks,
                 control, interrupts>>

BadDropAgent(a, end) ==
  /\ DropGuards(children[a])
  /\ task' = [Aborted(children[a]) EXCEPT ![a] = end]
  /\ phase' = [phase EXCEPT ![a] = "gone"]
  /\ children' = [children EXCEPT ![a] = {}]
  /\ held' = [held EXCEPT ![a] = << >>]
  /\ UNCHANGED <<scope, blocks, snap, control, interrupts>>

\* The agent's value is dropped and its task ends as `end`.  Children it still
\* tracks are aborted; handles its tool future held are only dropped, which
\* detaches them.  Guards go in both cases.
DropAgent(a, end) ==
  /\ DropGuards(children[a] \cup ToSet(held[a]))
  /\ task' = [Aborted(children[a]) EXCEPT ![a] = end]
  /\ phase' = [phase EXCEPT ![a] = "gone"]
  /\ children' = [children EXCEPT ![a] = {}]
  /\ held' = [held EXCEPT ![a] = << >>]
  /\ UNCHANGED <<scope, blocks, snap, control, interrupts>>

\* The rest of run: the agent marks itself done and is dropped.
RunReturns(a) ==
  /\ CanStep(a)
  /\ phase[a] \in {"completing", "failing"}
  /\ DropAgent(a, IF phase[a] = "completing" THEN "ok" ELSE "failed")
  /\ status' = MarkDone(status, a)

\* A panic in the model call or a tool unwinds past mark_done.
Panics(a) ==
  /\ a # Root
  /\ Thinking(a)
  /\ DropAgent(a, "panicked")
  /\ UNCHANGED status

\* An abort takes effect where the task is suspended.
AbortLands(a) ==
  /\ task[a] = "aborting"
  /\ DropAgent(a, "aborted")
  /\ UNCHANGED status

-----------------------------------------------------------------------------
(* The user interrupts the root's turn. *)

\* The TUI sets the root's control state and every registered child's.
UserCancels ==
  /\ task[Root] = "running"
  /\ interrupts < MaxInterrupts
  /\ interrupts' = interrupts + 1
  /\ control' = CancelRequested(Agent)
  /\ UNCHANGED <<status, entries, scope, guarded, task, phase, children, held,
                 blocks, snap>>

\* The root is suspended in a tool: the tool's future is dropped with the
\* handles and guards it held, and the turn ends with an error.
ToolInterrupted ==
  /\ control[Root] = "set"
  /\ task[Root] = "running"
  /\ phase[Root] \in {"setup", "releasing", "waiting", "cleanup"}
  /\ DropGuards(ToSet(held[Root]))
  /\ held' = [held EXCEPT ![Root] = << >>]
  /\ phase' = [phase EXCEPT ![Root] = "thinking"]
  /\ control' = [control EXCEPT ![Root] = "clear"]
  /\ UNCHANGED <<status, scope, task, children, blocks, snap, interrupts>>

\* The root is between two tools: check_cancel ends the turn.
TurnInterrupted ==
  /\ control[Root] = "set"
  /\ task[Root] = "running"
  /\ phase[Root] = "thinking"
  /\ control' = [control EXCEPT ![Root] = "clear"]
  /\ UNCHANGED <<status, entries, scope, guarded, task, phase, children, held,
                 blocks, snap, interrupts>>

-----------------------------------------------------------------------------
(* The specification. *)

Fork(a) ==
  \/ ForkRefused(a)
  \/ \E s \in ForkScopes : ForkConflict(a, s) \/ ForkReserved(a, s)
  \/ SetupFails(a)
  \/ ReleaseSlot(a)
  \/ SpawnChild(a)

Wait(a) ==
  \/ \E q \in WaitOrders(children[a]) : WaitBegin(a, q)
  \/ CollectFinished(a)
  \/ CleanupFinished(a)
  \/ WaitDeadline(a)

Cancel(a) == \E c \in Child : CancelTracked(a, c) \/ CancelUntracked(a, c)

End(a) ==
  \/ OtherTool(a)
  \/ \E ok \in BOOLEAN : TurnEnds(a, ok)
  \/ RunReturns(a)
  \/ Panics(a)
  \/ AbortLands(a)

Interrupt == UserCancels \/ ToolInterrupted \/ TurnInterrupted

\* Every task has ended: nothing is left to run.
Quiescent ==
  /\ \A a \in Agent : task[a] \in Ended \cup {"none"}
  /\ UNCHANGED vars

Next ==
  \/ \E a \in Agent : Fork(a) \/ Wait(a) \/ Cancel(a) \/ End(a)
  \/ Interrupt
  \/ Quiescent

Spec == Init /\ [][Next]_vars

\* What the scheduler and the code guarantee.  Every task keeps being polled
\* (WF of its steps), an abort lands, and a turn ends: each return to
\* "thinking" uses up one of max_iterations (SF, since waits and forks keep
\* leaving it).  For the root this says that its session ends at last: a TUI
\* left alone between two turns keeps its children's claims.  Nothing is
\* assumed of the interrupts.
Fairness ==
  \A a \in Agent :
    /\ WF_vars(SetupFails(a) \/ SpawnChild(a))
    /\ WF_vars(ReleaseSlot(a))
    /\ WF_vars(CollectFinished(a) \/ WaitDeadline(a))
    /\ WF_vars(CleanupFinished(a))
    /\ SF_vars(\E ok \in BOOLEAN : TurnEnds(a, ok))
    /\ WF_vars(RunReturns(a))
    /\ WF_vars(AbortLands(a))

FairSpec == Spec /\ Fairness

-----------------------------------------------------------------------------
(* Safety. *)

Tracked(a) == children[a] \cup ToSet(held[a])

\* The agent's value exists: it has not been dropped yet.
Alive(a) == task[a] \in {"running", "aborting"}

\* No two entries of the registry block each other, whatever the order of the
\* forks that put them there (url_claim.rs try_claim, ClaimGuard::drop).
ClaimsDisjoint == Disjoint(entries)

\* The registry is exactly what the live guards hold: a failed fork leaves
\* nothing behind, no guard releases another one's keys, no key is left
\* without a guard (url_claim.rs try_claim, ClaimGuard::drop).
GuardsBacked ==
  /\ \A c \in guarded : [key : KeysOf(scope[c]), owner : {c}] \subseteq entries
  /\ \A e \in entries : e.owner \in guarded /\ e.key \in KeysOf(scope[e.owner])

\* A live guard is owned by the live parent of its child, which still holds the
\* child's handle or is setting it up: no claim is stranded, whichever of a
\* wait, a cancel, an abort, an interrupt or the end of the parent comes first.
GuardsOwned ==
  \A c \in guarded : Alive(Parent[c]) /\ c \in Tracked(Parent[c])

\* A running child its parent still tracks keeps its claim.
TrackedChildHoldsClaim ==
  \A a \in Agent : \A c \in Tracked(a) : task[c] = "running" => c \in guarded

\* Two running children that are still tracked, siblings or not, never work on
\* clashing scopes: what the registry is for, said of the agents that run and
\* not of its entries (url_claim.rs, fork.rs handle_spawn).
TrackedScopesDisjoint ==
  \A a, b \in Agent : \A c \in Tracked(a), d \in Tracked(b) :
    c # d /\ task[c] = "running" /\ task[d] = "running" =>
      \A k \in KeysOf(scope[c]), l \in KeysOf(scope[d]) : ~Clash(k, l)

\* The limits of the settings bind the slots (manager.rs register_child).
LimitsHold ==
  /\ Cardinality(ActiveAgents(status)) <= MaxTotal
  /\ \A a \in Agent : Cardinality(ActiveChildren(status, a)) <= MaxPerParent
  /\ \A c \in Child : status[c] = "active" => Depth[c] <= MaxDepth

\* A child that runs, tracked or not, occupies a slot, so the limits bind the
\* agents that really run and are not being aborted.
RunningIsActive ==
  \A c \in Child : task[c] = "running" => status[c] = "active"

\* A live parent accounts for each child it ever spawned exactly once: it holds
\* the handle or it has pushed one block for it.  Only the user's interrupt
\* of the root makes it lose a child (fork.rs wait and cancel).
BlocksOf(a, c) == {i \in DOMAIN blocks[a] : blocks[a][i].child = c}

ChildAccounting ==
  \A c \in Child :
    LET p == Parent[c] IN
    /\ Cardinality(BlocksOf(p, c)) <= 1
    /\ c \in children[p] => BlocksOf(p, c) = {}
    /\ (task[c] # "none" /\ Alive(p) /\ (p # Root \/ interrupts = 0))
         => c \in Tracked(p) \/ BlocksOf(p, c) # {}

\* Items are collected exactly from children that ended well and were waited
\* for: a block with items belongs to a child whose task returned a result, and
\* the status shown for that child is "completed" from then on.
ItemsFromFinished ==
  \A a \in Agent : \A i \in DOMAIN blocks[a] :
    blocks[a][i].items =>
      /\ task[blocks[a][i].child] = "ok"
      /\ snap[blocks[a][i].child] = "completed"

\* Every slot in use by a child of a live parent is that of a child the parent
\* tracks: it sets it up, gives the slot back, keeps its handle, or has to clean up
\* after it.  Only the parent's end or the user's interrupt of the root leaves a
\* slot behind that nobody gives back (manager.rs mark_done, fork.rs).
SlotsAccounted ==
  \A c \in Child :
    LET p == Parent[c] IN
    status[c] = "active" /\ Alive(p) /\ (p # Root \/ interrupts = 0) => c \in Tracked(p)

-----------------------------------------------------------------------------
(* Action properties. *)

\* A slot is never taken twice and a task never restarts: an id names one
\* child for the life of the tree.
IdsNeverReused ==
  [][\A c \in Child :
       /\ status[c] = "done" => status'[c] = "done"
       /\ task[c] \in Ended => task'[c] = task[c]
       /\ task[c] # "none" => task'[c] # "none" /\ scope'[c] = scope[c]]_vars

\* The claims are leases: forks take a child's whole scope or nothing, and
\* whatever drops a guard gives back that scope and no other
\* (url_claim.rs try_claim and ClaimGuard::drop, fork.rs handle_spawn).
OwnerKeys(c) == {e.key : e \in {f \in entries : f.owner = c}}

Leases == INSTANCE ScopeLeases
            WITH Owner <- Child, lease <- [c \in Child |-> OwnerKeys(c)]

ImplementsLeases == Leases!Spec

-----------------------------------------------------------------------------
(* Liveness. *)

\* Every claim is released in the end, even when the parent never waits.
ClaimsReleased == \A c \in Child : c \in guarded ~> c \notin guarded
=============================================================================
