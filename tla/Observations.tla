---------------------------- MODULE Observations ----------------------------
(***************************************************************************)
(* What the pages do between two looks at them: the events the Playwright  *)
(* child buffers, the sequence number that dates them, and the tools that  *)
(* list them.  Sources, under crates: browser/src/playwright/              *)
(* bridge_script.rs, browser/src/observation.rs, agent/src/state.rs and,   *)
(* under agent/src/tools, seq.rs, network_activity.rs, page_logs.rs,       *)
(* websocket_activity.rs and the tools that act on a page.                 *)
(*                                                                         *)
(* Every agent has a page of its own, the one at its index; the bridge,    *)
(* its sequence number and the counter behind it are shared.  What         *)
(* close_page, switch_tab or a third agent does to indices, so that two    *)
(* agents come to share a page, is in BrowserPages and left out here.      *)
(*                                                                         *)
(* Abstractions.  An event is its kind, its number, its state and its      *)
(* date.  A buffer is full at Capacity events instead of at 2 MiB, a page  *)
(* prints fewer than the 2000 messages its own buffer holds.  A            *)
(* listing is what it selects by date; filters, groups and order within    *)
(* it are left out.  `happened`, `gone`, `muted`, `since` and `clear` are  *)
(* ghosts.                                                                 *)
(*                                                                         *)
(* An operator named Bad... is a plausible mistake in the definition that  *)
(* follows it; no specification uses it, mutation runs put it in place.    *)
(***************************************************************************)
EXTENDS Naturals, Sequences

CONSTANTS
  Agent,       \* the root agent and a child it may fork
  Root,
  Capacity,    \* events a page's buffer holds
  MaxSteps     \* bound: events of the pages and actions that count

VARIABLES
  live,        \* the agents that run: the root alone, or its child too
  counter,     \* SeqCounter, shared by them
  currentSeq,  \* the child's currentSeq
  buffer,      \* observationBuffers, by page
  printed,     \* the console buffer of the page's document
  linked,      \* window.__acrawlConsoleBuffer is still the array the hooks fill
  open,        \* pendingRequests: requests under way, with their date
  store,       \* events CrawlState has taken, by agent
  doing,       \* where an agent's action is
  happened,    \* ghost: for each event begun, its page, kind and state
  gone,        \* ghost: events pushed out, lost or cleared away
  muted,       \* ghost: console messages no buffer of the page was left to take
  since,       \* ghost: requests of the page begun since the last action began
  clear        \* ghost: nobody else has counted since that action began

page == <<printed, linked, open>>
ghosts == <<happened, gone, muted, since, clear>>
vars == <<live, counter, currentSeq, buffer, page, store, doing, ghosts>>

Idle == [at |-> "idle"]
Event(k, i, s, d) == [kind |-> k, id |-> i, state |-> s, seq |-> d]
Named(e) == [id |-> e.id, state |-> e.state]

Init ==
  /\ live \in {{Root}, Agent} /\ counter = 0 /\ currentSeq = 0
  /\ buffer = [a \in Agent |-> << >>] /\ store = [a \in Agent |-> << >>]
  /\ printed = [a \in Agent |-> << >>] /\ linked = [a \in Agent |-> TRUE]
  /\ open = [a \in Agent |-> {}]
  /\ doing = [a \in Agent |-> Idle]
  /\ happened = << >> /\ gone = {} /\ muted = {}
  /\ since = [a \in Agent |-> {}]
  /\ clear = [a \in Agent |-> FALSE]

-----------------------------------------------------------------------------
(***************************************************************************)
(* The page and the child that watches it.                                 *)
(***************************************************************************)
\* bufferEvent: the oldest make room.
Kept(q) == IF Len(q) > Capacity THEN SubSeq(q, Len(q) - Capacity + 1, Len(q)) ELSE q
PushedOut(q) == {Named(q[i]) : i \in 1 .. Len(q) - Capacity}

Buffers(a, events) ==
  /\ buffer' = [buffer EXCEPT ![a] = Kept(@ \o events)]
  /\ gone' = gone \cup PushedOut(buffer[a] \o events)

Steps == Len(happened) + counter

Begins(a, k, s) ==
  /\ a \in live /\ Steps < MaxSteps
  /\ happened' = Append(happened, [page |-> a, kind |-> k, state |-> s])

Number == Len(happened) + 1

RequestBegins(a) ==
  /\ Begins(a, "net", "pending")
  /\ Buffers(a, <<Event("net", Number, "pending", currentSeq)>>)
  /\ open' = [open EXCEPT ![a] = @ \cup {[id |-> Number, seq |-> currentSeq]}]
  /\ since' = [since EXCEPT ![a] = @ \cup {Number}]
  /\ doing' = IF doing[a] = Idle THEN doing ELSE [doing EXCEPT ![a].fresh = @ \cup {Number}]
  /\ UNCHANGED <<live, counter, currentSeq, printed, linked, store, muted, clear>>

\* Finished or failed: dated as when it began.
RequestEnds(a) ==
  \E r \in open[a] :
    /\ open' = [open EXCEPT ![a] = @ \ {r}]
    /\ happened' = [happened EXCEPT ![r.id].state = "ended"]
    /\ Buffers(a, <<Event("net", r.id, "ended", r.seq)>>)
    /\ UNCHANGED <<live, counter, currentSeq, printed, linked, store, doing,
                   muted, since, clear>>

FramePasses(a) ==
  /\ Begins(a, "ws", "ended")
  /\ Buffers(a, <<Event("ws", Number, "ended", currentSeq)>>)
  /\ UNCHANGED <<live, counter, currentSeq, page, store, doing, muted, since, clear>>

\* The hooks push into the array they were made with.
Prints(a) ==
  /\ Begins(a, "log", "ended")
  /\ IF linked[a]
     THEN printed' = [printed EXCEPT ![a] = Append(@, Number)] /\ UNCHANGED muted
     ELSE muted' = muted \cup {Number} /\ UNCHANGED printed
  /\ UNCHANGED <<live, counter, currentSeq, buffer, linked, open, store, doing,
                 gone, since, clear>>

\* drainConsolePage: the page's messages, dated now, and a new array.
Drained(a) == [i \in 1 .. Len(printed[a]) |-> Event("log", printed[a][i], "ended", currentSeq)]

\* What is under way to the agent: events in the buffer, messages in the document.
Within(a) == {Named(buffer[a][i]) : i \in 1 .. Len(buffer[a])}
OnPage(a) == {[id |-> printed[a][i], state |-> "ended"] : i \in 1 .. Len(printed[a])}

\* The page leaves its document: on its own, or, when a tool navigates it,
\* drained before.
LeavesDocument(a) ==
  /\ a \in live
  /\ \/ Buffers(a, Drained(a))
     \/ /\ gone' = gone \cup OnPage(a)
        /\ UNCHANGED buffer
  /\ printed' = [printed EXCEPT ![a] = << >>]
  /\ linked' = [linked EXCEPT ![a] = TRUE]
  /\ UNCHANGED <<live, counter, currentSeq, open, store, doing,
                 happened, muted, since, clear>>

-----------------------------------------------------------------------------
(***************************************************************************)
(* The tools that act on the page.                                         *)
(***************************************************************************)
InSync == currentSeq = counter /\ \A b \in live : doing[b].at # "counted"

ActionBegins(a) ==
  /\ a \in live /\ doing[a] = Idle /\ Steps < MaxSteps
  /\ doing' = [doing EXCEPT ![a] = [at |-> "acting", clear |-> InSync, fresh |-> {}, new |-> 0]]
  /\ UNCHANGED <<live, counter, currentSeq, buffer, page, store, ghosts>>

\* An error returns before increment_seq.
ActionFails(a) ==
  /\ doing[a].at = "acting"
  /\ doing' = [doing EXCEPT ![a] = Idle]
  /\ UNCHANGED <<live, counter, currentSeq, buffer, page, store, ghosts>>

\* increment_seq: the counter first ...
Counts(a) ==
  /\ doing[a].at = "acting" /\ Steps < MaxSteps
  /\ counter' = counter + 1
  /\ doing' = [b \in Agent |->
                 IF b = a THEN [at |-> "counted", clear |-> doing[a].clear,
                                fresh |-> doing[a].fresh, new |-> counter + 1]
                 ELSE IF doing[b] = Idle THEN Idle ELSE [doing[b] EXCEPT !.clear = FALSE]]
  /\ clear' = [b \in Agent |-> FALSE]
  /\ UNCHANGED <<live, currentSeq, buffer, page, store, happened, gone, muted, since>>

\* ... then the child is told, and an error of that is ignored.  The action
\* reports the number before the new one.
SetsSeq(a) ==
  /\ doing[a].at = "counted"
  /\ currentSeq' \in {doing[a].new, currentSeq}
  /\ clear' = [clear EXCEPT ![a] = doing[a].clear]
  /\ since' = [since EXCEPT ![a] = doing[a].fresh]
  /\ doing' = [doing EXCEPT ![a] = Idle]
  /\ UNCHANGED <<live, counter, buffer, page, store, happened, gone, muted>>

\* set_device, refused only to an agent with sub-agents of its own: a child may call it
\* while the root acts and looks.  It clears everybody's buffers and closes the old context
\* with everybody's page; each agent goes on with the page that is at its index now.
\* A request under way may still end, late, and is then buffered as its page was.
SetsDevice(a) ==
  /\ a \in live /\ doing[a] = Idle
  /\ a = Root => live = {Root}
  /\ \E late \in SUBSET UNION {open[b] : b \in Agent} :
       /\ open' = [b \in Agent |-> open[b] \cap late]
       /\ gone' = gone \cup UNION {Within(b) \cup OnPage(b) \cup
                                   {[id |-> r.id, state |-> "ended"] : r \in open[b] \ late} :
                                   b \in Agent}
  /\ buffer' = [b \in Agent |-> << >>]
  /\ printed' = [b \in Agent |-> << >>]
  /\ linked' = [b \in Agent |-> TRUE]
  /\ UNCHANGED <<live, counter, currentSeq, store, doing, happened, muted, since, clear>>

-----------------------------------------------------------------------------
(***************************************************************************)
(* The tools that look.                                                    *)
(***************************************************************************)
BadIngested(a, events) == store[a] \o SelectSeq(events, LAMBDA e : e.kind = "net")
\* ingest_observations: whichever tool polls, every kind is kept.
Ingested(a, events) == store[a] \o events

\* poll_observations: the child drains the page, empties the buffer and
\* answers; an answer that does not arrive takes the events along.
Polls(a) ==
  /\ a \in live /\ doing[a] = Idle
  /\ LET all == buffer[a] \o Drained(a)
         events == Kept(all)
     IN /\ \/ /\ store' = [store EXCEPT ![a] = Ingested(a, events)]
              /\ gone' = gone \cup PushedOut(all)
           \/ /\ gone' = gone \cup {Named(all[i]) : i \in 1 .. Len(all)}
              /\ UNCHANGED store
  /\ buffer' = [buffer EXCEPT ![a] = << >>]
  /\ printed' = [printed EXCEPT ![a] = << >>]
  /\ linked' = [linked EXCEPT ![a] = FALSE]
  /\ UNCHANGED <<live, counter, currentSeq, open, doing, happened, muted, since, clear>>

\* latest_requests: the last event of each request.
Latest(q) ==
  LET net == {i \in 1 .. Len(q) : q[i].kind = "net"}
  IN {i \in net : \A j \in net : j > i => q[j].id # q[i].id}

BadSinceLast == counter
\* What "last" stands for: the action before the one that comes next.
SinceLast == IF counter = 0 THEN 0 ELSE counter - 1

\* The requests a listing with since = "last" shows, had all been polled.
Rows(a) ==
  LET q == store[a] \o buffer[a]
  IN {q[i] : i \in {j \in Latest(q) : q[j].seq >= SinceLast}}

-----------------------------------------------------------------------------
Next ==
  \E a \in Agent :
    \/ RequestBegins(a) \/ RequestEnds(a) \/ FramePasses(a) \/ Prints(a) \/ LeavesDocument(a)
    \/ ActionBegins(a) \/ ActionFails(a) \/ Counts(a) \/ SetsSeq(a) \/ SetsDevice(a)
    \/ Polls(a)

Spec == Init /\ [][Next]_vars

-----------------------------------------------------------------------------
InStore(a) == {Named(store[a][i]) : i \in 1 .. Len(store[a])}

\* Between the page and the agent whose page it is nothing gets lost or is
\* doubled, and nothing reaches another agent, but for what was pushed out of the
\* buffer, cleared away when this or another agent set a device, lost with an answer
\* or a document, or muted.
EveryEventOnce ==
  /\ \A i \in 1 .. Len(happened) :
       LET e == [id |-> i, state |-> happened[i].state]
           a == happened[i].page
       IN e \in InStore(a) \cup Within(a) \cup gone \/ i \in muted
          \/ \E j \in 1 .. Len(printed[a]) : printed[a][j] = i
  /\ \A a \in Agent :
       LET q == store[a] \o buffer[a]
       IN \A i \in 1 .. Len(q) : /\ happened[q[i].id].page = a
                                 /\ \A j \in i + 1 .. Len(q) : Named(q[i]) # Named(q[j])

\* As long as no other agent counts an action at the same time, a listing since
\* the last action shows every request begun since that action began, in the
\* state it is in, unless the event that said so is gone: pushed out, lost with an
\* answer, or cleared away when this or another agent set a device.
LastCoversAction ==
  \A a \in live :
    doing[a] = Idle /\ clear[a] =>
      \A i \in since[a] :
        \/ [id |-> i, state |-> happened[i].state] \in gone
        \/ \E e \in Rows(a) : e.id = i /\ e.state = happened[i].state

\* "Pull page-buffered console/error/rejection entries (see
\* CONSOLE_CAPTURE_SOURCE) into the Node-side observation buffer [...] on every
\* poll" (bridge_script.rs): no message a page prints is out of reach of a poll.
PrintsArePulled == muted = {}
=============================================================================
