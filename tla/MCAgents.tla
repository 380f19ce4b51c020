------------------------------ MODULE MCAgents ------------------------------
(***************************************************************************)
(* Three components that share no state, side by side: a tree of agents    *)
(* and how it forks, the tool calls of one agent with what watches them,   *)
(* and what two agents observe of their pages.  A behaviour picks one of   *)
(* them and runs it, the others stay as they start.                        *)
(***************************************************************************)
EXTENDS MCAgentTree

CONSTANTS
  None,
  Page, Interval, Window, Threshold, WarnAt, Limit, MaxRequests, MaxBatch, MaxChanges,
  Watcher, FirstWatcher, Capacity, MaxSteps

VARIABLES
  part,
  linked, mode, turn, left, spent, text, prompt, slot, step, lows, page, known, cache,
  last, repeats, still, changes, answer, blind, ran, alert,
  live, counter, currentSeq, buffer, printed, attached, open, store, doing,
  happened, gone, muted, since, clear

Calls == INSTANCE ToolCalls WITH phase <- turn
\* An empty slot is no guidance.
ASSUME NoneAssumption == \A S \in SUBSET Calls!Note : S # None
Seen == INSTANCE Observations WITH Agent <- Watcher, Root <- FirstWatcher, linked <- attached
\* The bounds are numbers, and the agents that look are a root and at most one child:
\* a third may find itself on another's page once a child has set a device.
ASSUME SeenAssumption ==
  /\ Capacity \in Nat /\ MaxSteps \in Nat /\ FirstWatcher \in Watcher
  /\ \A b, c \in Watcher \ {FirstWatcher} : b = c

calls == <<linked, mode, turn, left, spent, text, prompt, slot, step, lows, page, known,
           cache, last, repeats, still, changes, answer, blind, ran, alert>>

seen == <<live, counter, currentSeq, buffer, printed, attached, open, store, doing,
          happened, gone, muted, since, clear>>

AgentsInit ==
  /\ part \in {"tree", "calls", "seen"}
  /\ Init /\ Calls!Init /\ Seen!Init
  /\ part # "calls" => linked /\ mode = "warn" /\ page = CHOOSE p \in Page : TRUE
  /\ part # "seen" => live = Watcher

AgentsNext ==
  /\ UNCHANGED part
  /\ \/ part = "tree" /\ Next /\ UNCHANGED <<calls, seen>>
     \/ part = "calls" /\ Calls!Next /\ UNCHANGED <<vars, seen>>
     \/ part = "seen" /\ Seen!Next /\ UNCHANGED <<vars, calls>>

AgentsSpec == AgentsInit /\ [][AgentsNext]_<<part, vars, calls, seen>>

\* Calls: what the last call's guards found, and an alert no later call wrote over, is in
\* the prompt of the next request, and an answer from the cache shows the page it is
\* keyed by.
ModelIsTold == Calls!GuidanceReaches /\ Calls!AnswerShowsPage
\* Seen: between a page and its agent no event is lost, doubled or misdirected.
EveryEventOnce == Seen!EveryEventOnce
\* Seen: a listing since the last action shows what that action began.
LastCoversAction == Seen!LastCoversAction
=============================================================================
