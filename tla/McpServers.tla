----------------------------- MODULE McpServers -----------------------------
(***************************************************************************)
(* The MCP client: runtime/src/mcp/server_manager.rs over process.rs.  The *)
(* manager is used by one caller at a time (&mut self); what it talks to   *)
(* are child processes, which answer, answer late, speak unasked, or die.  *)
(*                                                                         *)
(* A request that times out kills its process.  Every other failure leaves *)
(* the process and its half-read stream in place, a dead process too: the  *)
(* next operation goes on with it.                                         *)
(***************************************************************************)
EXTENDS FiniteSets, Integers, SequencesExt

CONSTANTS
  Server,        \* configured names, a sequence in BTreeMap order
  Tool,          \* raw tool names
  Qualified,     \* mcp_tool_name, [Range(Server) \X Tool -> names]
  MaxRequests,   \* bound: ids taken
  MaxLife,       \* bound: processes spawned
  MaxUnasked     \* bound: frames a server sends unasked

Names == ToSet(Server)

VARIABLES
  process,      \* ManagedMcpServer.process: the child, or Gone
  initialized,  \* ManagedMcpServer.initialized
  toolIndex,    \* tool_index, as {<<qualified name, server, raw name>>}
  nextId,       \* next_request_id
  op,           \* the manager's operation under way
  listed,       \* history: tools each server listed since its routes were cleared
  taken,        \* history: the last response an operation accepted
  spawns, unasked

vars == <<process, initialized, toolIndex, nextId, op, listed, taken, spawns, unasked>>

Gone == [state |-> "gone", asked |-> << >>, said |-> << >>]
Fresh == [state |-> "alive", asked |-> << >>, said |-> << >>]
Idle == [do |-> "nothing", todo |-> << >>, step |-> "idle", id |-> 0, tool |-> "none"]
Going(do, todo, tool) ==
  [do |-> do, todo |-> todo, step |-> "ready", id |-> 0, tool |-> tool]
NoResponse == [id |-> 0, of |-> 0, has |-> "nothing"]

Init ==
  /\ process = [s \in Names |-> Gone]
  /\ initialized = [s \in Names |-> FALSE]
  /\ toolIndex = {}
  /\ nextId = 1
  /\ op = Idle
  /\ listed = [s \in Names |-> {}]
  /\ taken = NoResponse
  /\ spawns = 0 /\ unasked = 0

Now == Head(op.todo)      \* the server the operation is at
At(step) == op.step = step

--------------------------------------------------------------------------
\* The callers.

DiscoverTools ==
  /\ At("idle") /\ Server # << >>
  /\ op' = Going("discover", Server, "none")
  /\ UNCHANGED <<process, initialized, toolIndex, nextId, listed, taken, spawns, unasked>>

\* call_tool: a name without a route is UnknownTool.
CallTool ==
  /\ At("idle")
  /\ \E route \in toolIndex : op' = Going("call", <<route[2]>>, route[3])
  /\ UNCHANGED <<process, initialized, toolIndex, nextId, listed, taken, spawns, unasked>>

\* shutdown kills every child; routes stay.
Shutdown ==
  /\ At("idle")
  /\ process' = [s \in Names |-> Gone]
  /\ initialized' = [s \in Names |-> FALSE]
  /\ UNCHANGED <<toolIndex, nextId, op, listed, taken, spawns, unasked>>

--------------------------------------------------------------------------
\* ensure_server_ready, then tools/list or tools/call.

\* discover_tools clears the routes of a server that is ready.
BadCleared == IF op.do = "discover"
              THEN listed' = [listed EXCEPT ![Now] = {}] /\ UNCHANGED toolIndex
              ELSE UNCHANGED <<toolIndex, listed>>
Cleared == IF op.do = "discover"
           THEN /\ toolIndex' = {r \in toolIndex : r[2] # Now}
                /\ listed' = [listed EXCEPT ![Now] = {}]
           ELSE UNCHANGED <<toolIndex, listed>>

Ends == op' = Idle

Spawn ==
  /\ At("ready") /\ process[Now].state = "gone"
  /\ initialized' = [initialized EXCEPT ![Now] = FALSE]
  /\ \/ /\ spawns < MaxLife
        /\ process' = [process EXCEPT ![Now] = Fresh]
        /\ spawns' = spawns + 1
        /\ UNCHANGED op
     \/ Ends /\ UNCHANGED <<process, spawns>>      \* the command does not start
  /\ UNCHANGED <<toolIndex, nextId, listed, taken, unasked>>

\* Ready: on to initialize, or to what was asked for.
Ready ==
  /\ At("ready") /\ process[Now].state # "gone"
  /\ IF initialized[Now]
     THEN op' = [op EXCEPT !.step = "ask"] /\ Cleared
     ELSE op' = [op EXCEPT !.step = "initialize"] /\ UNCHANGED <<toolIndex, listed>>
  /\ UNCHANGED <<process, initialized, nextId, taken, spawns, unasked>>

\* take_request_id and the write: it fails on a child that has died.
Sends ==
  /\ op.step \in {"ask", "initialize"} /\ nextId <= MaxRequests
  /\ nextId' = nextId + 1
  /\ IF process[Now].state = "alive"
     THEN /\ process' = [process EXCEPT ![Now].asked = Append(@, nextId)]
          /\ op' = [do |-> op.do, todo |-> op.todo, id |-> nextId, tool |-> op.tool,
                    step |-> IF At("ask") THEN "answer" ELSE "welcome"]
     ELSE Ends /\ UNCHANGED process
  /\ UNCHANGED <<initialized, toolIndex, listed, taken, spawns, unasked>>

Awaits == op.step \in {"answer", "welcome"}
Frame == Head(process[Now].said)
Heard == Awaits /\ process[Now].said # << >>
Rest == [process EXCEPT ![Now].said = Tail(@)]

\* read_response_matching passes over responses to other requests.
Skips ==
  /\ Heard /\ Frame.id # 0 /\ Frame.id # op.id
  /\ process' = Rest
  /\ UNCHANGED <<initialized, toolIndex, nextId, op, listed, taken, spawns, unasked>>

\* A frame without an id does not parse; at the end of the stream the read
\* fails.  Either way the process stays.
ReadFails ==
  /\ \/ Heard /\ Frame.id = 0 /\ process' = Rest
     \/ /\ Awaits /\ process[Now].said = << >> /\ process[Now].state = "dead"
        /\ UNCHANGED process
  /\ Ends
  /\ UNCHANGED <<initialized, toolIndex, nextId, listed, taken, spawns, unasked>>

\* The tools of a page become routes one after the other: each replaces a route of
\* its name, also one of the same page, when normalize_name_for_mcp makes one name
\* of two.  Which of those comes last is open.
Route(t) == <<Qualified[<<Now, t>>], Now, t>>
LastOfEach(tools) ==
  {last \in SUBSET tools : \A t \in tools :
     \E k \in last : {j \in last : Route(j)[1] = Route(t)[1]} = {k}}
Routed(last) ==
  LET new == {Route(t) : t \in last}
  IN {r \in toolIndex : \A n \in new : n[1] # r[1]} \cup new

\* What the operation does after a page: the next page, server, or its end.
NextPage(more) ==
  IF more THEN [op EXCEPT !.step = "ask"]
  ELSE IF Len(op.todo) = 1 THEN Idle
  ELSE Going(op.do, Tail(op.todo), op.tool)

BadMatches == Heard /\ Frame.id # 0
Matches == Heard /\ Frame.id # 0 /\ Frame.id = op.id

Accepts ==
  /\ Matches
  /\ process' = Rest
  /\ taken' = [id |-> op.id, of |-> Frame.of, has |-> Frame.has]
  /\ CASE At("welcome") /\ Frame.has = "result" ->
            op' = [op EXCEPT !.step = "notify"] /\ UNCHANGED <<toolIndex, listed>>
       [] At("answer") /\ op.do = "discover" /\ Frame.has = "result" ->
            \E tools \in SUBSET Tool, more \in BOOLEAN :
              /\ \E last \in LastOfEach(tools) : toolIndex' = Routed(last)
              /\ listed' = [listed EXCEPT ![Now] = @ \cup tools]
              /\ op' = NextPage(more)
       [] OTHER -> Ends /\ UNCHANGED <<toolIndex, listed>>
  /\ UNCHANGED <<initialized, nextId, spawns, unasked>>

\* notify_initialized
Notifies ==
  /\ At("notify")
  /\ IF process[Now].state = "alive"
     THEN /\ initialized' = [initialized EXCEPT ![Now] = TRUE]
          /\ op' = [op EXCEPT !.step = "ready"]
     ELSE Ends /\ UNCHANGED initialized
  /\ UNCHANGED <<process, toolIndex, nextId, listed, taken, spawns, unasked>>

\* finish_timeout on an elapsed timer: invalidate_server kills the child.
TimesOut ==
  /\ Awaits \/ At("notify")
  /\ process' = [process EXCEPT ![Now] = Gone]
  /\ initialized' = [initialized EXCEPT ![Now] = FALSE]
  /\ Ends
  /\ UNCHANGED <<toolIndex, nextId, listed, taken, spawns, unasked>>

--------------------------------------------------------------------------
\* The children.

\* A child answers a request with a result or an error.
Answers(s) ==
  /\ process[s].state = "alive" /\ process[s].asked # << >>
  /\ \E has \in {"result", "error"} :
       LET of == Head(process[s].asked) IN
       process' = [process EXCEPT ![s] =
         [state |-> "alive", asked |-> Tail(@.asked),
          said |-> Append(@.said, [id |-> of, of |-> of, has |-> has])]]
  /\ UNCHANGED <<initialized, toolIndex, nextId, op, listed, taken, spawns, unasked>>

\* It sends a notification (no id) or a request of its own, with ids of its own.
SpeaksUp(s) ==
  /\ process[s].state = "alive" /\ unasked < MaxUnasked
  /\ \E id \in 0..2 :
       process' = [process EXCEPT ![s].said =
                     Append(@, [id |-> id, of |-> 0, has |-> "nothing"])]
  /\ unasked' = unasked + 1
  /\ UNCHANGED <<initialized, toolIndex, nextId, op, listed, taken, spawns>>

Dies(s) ==
  /\ process[s].state = "alive"
  /\ process' = [process EXCEPT ![s] =
                   [state |-> "dead", asked |-> << >>, said |-> @.said]]
  /\ UNCHANGED <<initialized, toolIndex, nextId, op, listed, taken, spawns, unasked>>

Next ==
  \/ DiscoverTools \/ CallTool \/ Shutdown
  \/ Spawn \/ Ready \/ Sends \/ Skips \/ ReadFails \/ Accepts \/ Notifies \/ TimesOut
  \/ \E s \in Names : Answers(s) \/ SpeaksUp(s) \/ Dies(s)

Spec == Init /\ [][Next]_vars

--------------------------------------------------------------------------
\* A result an operation accepts is the server's answer to the very request it
\* sent, whatever an earlier operation left in the stream.
AnswersItsRequest == taken.has # "nothing" => taken.of = taken.id

\* A name leads to one server, and to a tool that server has listed since it was
\* last asked: whichever server failed, and wherever the discovery stopped.
RoutesAreListed ==
  /\ \A r \in toolIndex : r[3] \in listed[r[2]] /\ r[1] = Qualified[<<r[2], r[3]>>]
  /\ \A r1, r2 \in toolIndex : r1[1] = r2[1] => r1 = r2
=============================================================================
