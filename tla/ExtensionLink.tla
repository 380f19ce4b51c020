----------------------------- MODULE ExtensionLink -----------------------------
(***************************************************************************)
(* The WebSocket between acrawl and the browser extension: WsBridgeServer  *)
(* and its sessions (browser/src/ws_server), ExtensionBridge's commands    *)
(* (browser/src/extension.rs), and the connecting side in the extension's  *)
(* service worker (extension/background.js).                               *)
(*                                                                         *)
(* The user switches either side off and on again, the worker is stopped   *)
(* by Chrome, a command is given up while it is queued, sent or handled.   *)
(* Both ends are on one machine: a closed socket is noticed in the end.    *)
(* The health endpoint, ping/pong and the discovery file are left out.     *)
(***************************************************************************)
EXTENDS Integers, Sequences, FiniteSets

CONSTANTS
  MaxServers,  \* bound on bridge servers started one after the other
  MaxCalls,    \* bound on commands
  Capacity,    \* of the command channel (32 in the code)
  Failures,    \* failed upgrades before a client is refused (5 in the code)
  MaxSockets,  \* bound on sockets that exist at a time
  MaxFaults,   \* bound on the user's switching off or reconnecting and the worker's
               \* being stopped, together
  None

Server == 1 .. MaxServers
Socket == 1 .. MaxSockets
Call == 1 .. MaxCalls

ASSUME LinkAssumption ==
  /\ {MaxServers, MaxCalls, Capacity, Failures, MaxSockets} \subseteq Nat \ {0}
  /\ MaxFaults \in Nat
  /\ None \notin Int

VARIABLES
  started,  \* servers started so far; the last one is listening while `up`
  up,
  server,   \* per server: held (its bridge is in use), active (has_active_client),
            \* connected, fails (the rate limiter's), queue (the command channel)
  socket,   \* per socket: the server dialled, and how far either end has got
  pending,  \* per socket: the session's map, as the calls in it
  out,      \* per socket: commands on their way to the extension
  back,     \* per socket: answers on their way to acrawl
  call,     \* per call: its server, id, state, and the call whose answer it got
  calls,    \* calls made so far
  ws,       \* the extension's current socket
  timed,    \* connect() has a time limit for it
  dialing,  \* connect() calls that are awaiting the settings
  enabled,  \* bridgeEnabled
  handling, \* calls whose command is being handled
  faults    \* counter for the bound

wire == <<socket, pending, out, back>>
extension == <<ws, timed, dialing, enabled, handling>>
vars == <<started, up, server, wire, call, calls, extension, faults>>

Init ==
  /\ started = 1 /\ up = TRUE
  /\ server = [s \in Server |-> [held |-> s = 1, active |-> FALSE, connected |-> FALSE,
                                 fails |-> 0, queue |-> <<>>]]
  /\ socket = [n \in Socket |-> [to |-> None, client |-> "shut", server |-> "done"]]
  /\ pending = [n \in Socket |-> {}]
  /\ out = [n \in Socket |-> <<>>] /\ back = [n \in Socket |-> <<>>]
  /\ call = [k \in Call |-> [to |-> None, id |-> 0, st |-> "none", got |-> None]]
  /\ calls = 0
  /\ ws = None /\ timed = FALSE /\ dialing = {"plain"} /\ enabled = TRUE
  /\ handling = {}
  /\ faults = 0

InFlight(k) == call[k].st \in {"sending", "waiting"}
Elements(q) == {q[i] : i \in DOMAIN q}
Listening(s) == up /\ s = started
Serving(n) == socket[n].server = "session"
Idle(n) == socket[n].client = "shut" /\ socket[n].server \in {"refused", "done"}
Sockets(s) == {n \in Socket : socket[n].to = s}

\* The calls in K lose their responder: one that waits ends with an error.
Lose(K) == call' = [k \in Call |->
  IF k \in K /\ InFlight(k) THEN [call[k] EXCEPT !.st = "lost"] ELSE call[k]]

-----------------------------------------------------------------------------
(* Bridge servers: a session outlives its server while the bridge is held *)

Stop(held) ==
  /\ up /\ started < MaxServers
  /\ up' = FALSE
  /\ server' = [server EXCEPT ![started].held = held]
  /\ held \/ \A k \in Call : call[k].to = started => ~InFlight(k)
  /\ UNCHANGED <<started, wire, call, calls, extension, faults>>

Start ==
  /\ ~up
  /\ up' = TRUE /\ started' = started + 1
  /\ server' = [server EXCEPT ![started + 1].held = TRUE]
  /\ UNCHANGED <<wire, call, calls, extension, faults>>

\* The last holder of an old bridge, a script perhaps, ends.
LetsGo(s) ==
  /\ server[s].held /\ ~Listening(s)
  /\ \A k \in Call : call[k].to = s => ~InFlight(k)
  /\ server' = [server EXCEPT ![s].held = FALSE]
  /\ UNCHANGED <<started, up, wire, call, calls, extension, faults>>

\* Without listener and session the channel has no receiver: what is queued is
\* dropped and a send fails.
BadOrphaned(s) == FALSE
Orphaned(s) ==
  /\ ~Listening(s) /\ s <= started
  /\ \A n \in Sockets(s) : socket[n].server \in {"ended", "leaving", "refused", "done"}
  /\ LET K == Elements(server[s].queue) \cup {k \in Call : call[k].to = s /\ call[k].st = "sending"}
     IN K # {} /\ Lose(K)
  /\ server' = [server EXCEPT ![s].queue = <<>>]
  /\ UNCHANGED <<started, up, wire, calls, extension, faults>>

-----------------------------------------------------------------------------
(* handle_incoming and run_ws_session, for socket n *)

Refused(n) ==
  /\ socket[n].server = "none" /\ ~Listening(socket[n].to)
  /\ socket' = [socket EXCEPT ![n].server = "refused"]
  /\ UNCHANGED <<started, up, server, pending, out, back, call, calls, extension, faults>>

\* The rate limit, whose window may have passed, then has_active_client.
Admits(s, fails) == fails < Failures /\ ~server[s].active
Incoming(n) ==
  LET s == socket[n].to IN
  /\ socket[n].server = "none" /\ Listening(s)
  /\ \E fails \in {0, server[s].fails} :
       /\ socket' = [socket EXCEPT ![n].server =
                       IF Admits(s, fails) THEN "upgrading" ELSE "refused"]
       /\ server' = [server EXCEPT ![s].fails = fails,
                                   ![s].active = @ \/ Admits(s, fails)]
  /\ UNCHANGED <<started, up, pending, out, back, call, calls, extension, faults>>

Upgrades(n) ==
  LET s == socket[n].to IN
  /\ socket[n].server = "upgrading"
  /\ \/ /\ socket' = [socket EXCEPT ![n].server = "session"]
        /\ server' = [server EXCEPT ![s].connected = TRUE]
     \/ /\ socket[n].client = "shut"
        /\ socket' = [socket EXCEPT ![n].server = "done"]
        /\ server' = [server EXCEPT ![s].active = FALSE,
                                    ![s].fails = IF @ < Failures THEN @ + 1 ELSE @]
  /\ UNCHANGED <<started, up, pending, out, back, call, calls, extension, faults>>

\* pending.insert(cmd.id, ..): the responder of an equal id is dropped.
SessionTakes(n) ==
  LET s == socket[n].to
      k == Head(server[s].queue)
      Same == {j \in pending[n] : call[j].id = call[k].id}
  IN
  /\ Serving(n) /\ server[s].queue # <<>>
  /\ server' = [server EXCEPT ![s].queue = Tail(@)]
  /\ pending' = [pending EXCEPT ![n] = (@ \ Same) \cup {k}]
  /\ out' = [out EXCEPT ![n] = IF socket[n].client = "shut" THEN @ ELSE Append(@, k)]
  /\ Lose(Same)
  /\ UNCHANGED <<started, up, socket, back, calls, extension, faults>>

\* handle_text_frame: the answer goes to the responder of its id.
SessionAnswers(n) ==
  LET j == Head(back[n])
      Same == {k \in pending[n] : call[k].id = call[j].id}
  IN
  /\ Serving(n) /\ back[n] # <<>>
  /\ back' = [back EXCEPT ![n] = Tail(@)]
  /\ pending' = [pending EXCEPT ![n] = @ \ Same]
  /\ call' = [k \in Call |-> IF k \in Same /\ call[k].st = "waiting"
                             THEN [call[k] EXCEPT !.st = "answered", !.got = j] ELSE call[k]]
  /\ UNCHANGED <<started, up, server, socket, out, calls, extension, faults>>

SessionEnds(n) ==
  LET s == socket[n].to IN
  /\ Serving(n)
  /\ \/ socket[n].client = "shut"
     \/ ~Listening(s) /\ ~server[s].held /\ server[s].queue = <<>>
  /\ socket' = [socket EXCEPT ![n].server = "ended"]
  /\ Lose(pending[n])
  /\ pending' = [pending EXCEPT ![n] = {}] /\ back' = [back EXCEPT ![n] = <<>>]
  /\ UNCHANGED <<started, up, server, out, calls, extension, faults>>

\* client_connected_tx.send(false), then has_active_client.store(false)
BadStays(first) == "connected"
Leaving(first) == IF first THEN "connected" ELSE "active"
SessionLeaves(n) ==
  /\ socket[n].server \in {"ended", "leaving"}
  /\ LET first == socket[n].server = "ended" IN
       /\ socket' = [socket EXCEPT ![n].server = IF first THEN "leaving" ELSE "done"]
       /\ server' = [server EXCEPT ![socket[n].to][Leaving(first)] = FALSE]
  /\ UNCHANGED <<started, up, pending, out, back, call, calls, extension, faults>>

-----------------------------------------------------------------------------
(* The extension's side *)

\* disconnect(): a shut socket delivers nothing more.
BadDisconnected == socket
Disconnected == IF ws = None THEN socket ELSE [socket EXCEPT ![ws].client = "shut"]
Undelivered == IF ws = None THEN out ELSE [out EXCEPT ![ws] = <<>>]
Disconnects ==
  socket' = Disconnected /\ out' = Undelivered /\ ws' = None /\ timed' = FALSE

\* connect(), after the settings are there; a time limit comes from the user.
Connect(kind) ==
  /\ kind \in dialing
  /\ dialing' = dialing \ {kind}
  /\ IF ~enabled THEN UNCHANGED <<socket, out, ws, timed>>
     ELSE \E n \in Socket :
       /\ Idle(n) /\ \A m \in 1 .. n - 1 : ~Idle(m)
       /\ socket' = [Disconnected EXCEPT ![n] =
            [to |-> started, client |-> "dialing", server |-> IF up THEN "none" ELSE "refused"]]
       /\ out' = Undelivered
       /\ ws' = n /\ timed' = (kind = "timed")
  /\ UNCHANGED <<started, up, server, pending, back, call, calls, enabled, handling, faults>>

Opens(n) ==
  /\ socket[n].client = "dialing" /\ socket[n].server \in {"session", "ended", "leaving"}
  /\ socket' = [socket EXCEPT ![n].client = "open"] /\ timed' = FALSE
  /\ UNCHANGED <<started, up, server, pending, out, back, call, calls,
                 ws, dialing, enabled, handling, faults>>

\* socket.onclose; a socket that is not current any more is shut already.
Closes(n) ==
  /\ socket[n].client # "shut" /\ socket[n].server \in {"refused", "ended", "leaving", "done"}
  /\ socket' = [socket EXCEPT ![n].client = "shut"] /\ out' = [out EXCEPT ![n] = <<>>]
  /\ ws' = None /\ timed' = FALSE
  /\ UNCHANGED <<started, up, server, pending, back, call, calls,
                 dialing, enabled, handling, faults>>

GivesUpDialing ==
  /\ timed /\ Disconnects
  /\ UNCHANGED <<started, up, server, pending, back, call, calls,
                 dialing, enabled, handling, faults>>

\* The reconnect timer, set when a current socket closes and cleared by connect()
\* and disconnect(), or the watchdog's alarm, which also wakes a stopped worker.
Redials ==
  /\ enabled /\ ws = None
  /\ dialing' = dialing \cup {"plain"}
  /\ UNCHANGED <<started, up, server, wire, call, calls, ws, timed, enabled, handling, faults>>

\* The popup: start again, or save the port, which reconnects; stop.
UserConnects ==
  /\ IF enabled THEN faults < MaxFaults /\ faults' = faults + 1 ELSE UNCHANGED faults
  /\ enabled' = TRUE
  /\ dialing' = dialing \cup {"timed"}
  /\ UNCHANGED <<started, up, server, wire, call, calls, ws, timed, handling>>

UserStops ==
  /\ faults < MaxFaults /\ faults' = faults + 1
  /\ enabled' = FALSE /\ Disconnects
  /\ UNCHANGED <<started, up, server, pending, back, call, calls, dialing, handling>>

WorkerDies ==
  /\ faults < MaxFaults /\ faults' = faults + 1
  /\ Disconnects /\ dialing' = {} /\ handling' = {}
  /\ UNCHANGED <<started, up, server, pending, back, call, calls, enabled>>

\* handleMessage, and sendResponse over the socket that is current by then
Handles(n) ==
  /\ socket[n].client = "open" /\ out[n] # <<>>
  /\ handling' = handling \cup {Head(out[n])}
  /\ out' = [out EXCEPT ![n] = Tail(@)]
  /\ UNCHANGED <<started, up, server, socket, pending, back, call, calls,
                 ws, timed, dialing, enabled, faults>>

Responds(k) ==
  /\ k \in handling /\ handling' = handling \ {k}
  /\ back' = IF ws # None /\ socket[ws].client = "open"
                /\ Serving(ws)
             THEN [back EXCEPT ![ws] = Append(@, k)] ELSE back
  /\ UNCHANGED <<started, up, server, socket, pending, out, call, calls,
                 ws, timed, dialing, enabled, faults>>

-----------------------------------------------------------------------------
(* ExtensionBridge::send_command, one at a time under the bridge's mutex; a  *)
(* call while not connected fails at once                                     *)

\* next_id of the one bridge all consumers share
BadNextId(s) == 1
NextId(s) == 1 + Cardinality({k \in Call : call[k].to = s})

Calls(s) ==
  /\ calls < MaxCalls /\ server[s].held /\ server[s].connected
  /\ \A k \in Call : call[k].to = s => ~InFlight(k)
  /\ calls' = calls + 1
  /\ LET room == Len(server[s].queue) < Capacity IN
       /\ server' = [server EXCEPT ![s].queue = IF room THEN Append(@, calls + 1) ELSE @]
       /\ call' = [call EXCEPT ![calls + 1] =
            [to |-> s, id |-> NextId(s), st |-> IF room THEN "waiting" ELSE "sending", got |-> None]]
  /\ UNCHANGED <<started, up, wire, extension, faults>>

Sends(k) ==
  LET s == call[k].to IN
  /\ call[k].st = "sending" /\ Len(server[s].queue) < Capacity
  /\ server' = [server EXCEPT ![s].queue = Append(@, k)]
  /\ call' = [call EXCEPT ![k].st = "waiting"]
  /\ UNCHANGED <<started, up, wire, calls, extension, faults>>

\* The timeout of a command; the bounds leave its caller's being aborted to it.
GivesUp(k) ==
  /\ call[k].st = "waiting"
  /\ call' = [call EXCEPT ![k].st = "gave up"]
  /\ UNCHANGED <<started, up, server, wire, calls, extension, faults>>

-----------------------------------------------------------------------------
Session(n) == Upgrades(n) \/ SessionTakes(n) \/ SessionAnswers(n) \/ SessionEnds(n) \/ SessionLeaves(n)
Link(n) == Refused(n) \/ Incoming(n) \/ Opens(n) \/ Closes(n) \/ Handles(n)
Next ==
  \/ Stop(TRUE) \/ Stop(FALSE) \/ Start
  \/ \E s \in Server : LetsGo(s) \/ Orphaned(s) \/ Calls(s)
  \/ \E n \in Socket : Session(n) \/ Link(n)
  \/ \E kind \in {"plain", "timed"} : Connect(kind)
  \/ GivesUpDialing \/ Redials \/ UserConnects \/ UserStops \/ WorkerDies
  \/ \E k \in Call : Responds(k) \/ Sends(k) \/ GivesUp(k)

\* Tasks and timers run, the watchdog's alarm rings, a closed socket is noticed
\* at the other end, the rate limit's window passes, holders of an old bridge
\* let go.  Nobody has to switch anything on, start a server or make a call.
Fairness ==
  /\ WF_vars(\E s \in Server : LetsGo(s) \/ Orphaned(s))
  /\ WF_vars(\E n \in Socket : Session(n))
  /\ \A n \in Socket : WF_vars(Refused(n) \/ Incoming(n))
  /\ WF_vars(\E n \in Socket : Opens(n) \/ Closes(n))
  /\ WF_vars(\E n \in Socket : Handles(n))
  /\ SF_vars(\E n \in Socket : Incoming(n) /\ socket'[n].server = "upgrading")
  /\ WF_vars(\E kind \in {"plain", "timed"} : Connect(kind))
  /\ WF_vars(Redials)
  /\ WF_vars(\E k \in Call : Responds(k) \/ Sends(k) \/ GivesUp(k))

Spec == Init /\ [][Next]_vars /\ Fairness

-----------------------------------------------------------------------------

\* connect() leaves no socket of an earlier attempt behind that goes on talking:
\* every open one is the current one.
CurrentSocketOnly == \A n \in Socket : socket[n].client # "shut" => n = ws

\* A call gets the answer to its own command, though commands are given up, sent
\* by a later session than the caller's and answered over a later socket; ids
\* begin again with a server, and only the answer of an earlier server's command
\* can be mistaken.
AnswersItsCall ==
  \A k \in Call : call[k].st = "answered" =>
    call[k].got = k \/ call[call[k].got].to # call[k].to

\* One conversation at a time, and every answer in its place.
OneConversation == CurrentSocketOnly /\ AnswersItsCall

\* While the extension stays switched on and a server is up, they find each
\* other in the end, whatever sockets, sessions and timers earlier faults left.
Reconnects ==
  <>[](enabled /\ up) => <>[](server[started].connected /\ ws # None)

\* A call ends: also one that waits for room in the channel, without a time
\* limit and holding the bridge, for as long as the extension is on.
CallEnds ==
  <>[]enabled => \A k \in Call : InFlight(k) ~> ~InFlight(k)

=============================================================================
