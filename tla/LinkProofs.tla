------------------------------ MODULE LinkProofs ------------------------------
(***************************************************************************)
(* Theorems about the websocket between acrawl and the extension, for any  *)
(* number of servers, sockets, calls and faults and any channel: the       *)
(* extension talks over one socket, and a call that is answered has the    *)
(* answer to its own command, or that of a command of another server.      *)
(***************************************************************************)
EXTENDS ExtensionLink, FiniteSetTheorems, SequenceTheorems, TLAPS

-----------------------------------------------------------------------------
(* Sockets. *)

SocketRec == [to : Server \cup {None}, client : {"shut", "dialing", "open"},
              server : {"none", "upgrading", "session", "ended", "leaving", "refused", "done"}]

\* The inductive invariant of the extension's side.
SocketInv ==
  /\ socket \in [Socket -> SocketRec]
  /\ ws \in Socket \cup {None}
  /\ started \in Server /\ (up \/ started + 1 \in Server)
  /\ \A n \in Socket : socket[n].server # "done" => socket[n].to \in Server
  /\ CurrentSocketOnly

\* A step of the server's side moves its end of one socket only.
LEMMA ServerEnd ==
  ASSUME SocketInv, NEW n \in Socket, socket[n].server # "done", NEW at \in {"upgrading", "session", "ended", "leaving", "refused", "done"},
         socket' = [socket EXCEPT ![n].server = at], UNCHANGED <<ws, started, up>>
  PROVE  SocketInv'
  <1>1. /\ socket' \in [Socket -> SocketRec]
        /\ \A m \in Socket : socket'[m].client = socket[m].client /\ socket'[m].to = socket[m].to
        /\ \A m \in Socket : m # n => socket'[m] = socket[m]
    BY DEF SocketInv, SocketRec
  <1> QED BY <1>1 DEF SocketInv, CurrentSocketOnly

\* disconnect() leaves no socket that is not shut.
LEMMA AllShut ==
  ASSUME SocketInv
  PROVE  /\ Disconnected \in [Socket -> SocketRec]
         /\ \A m \in Socket : /\ Disconnected[m].client = "shut"
                             /\ Disconnected[m].to = socket[m].to
                             /\ Disconnected[m].server = socket[m].server
  <1>1. CASE ws = None
    <2>1. None \notin Socket
      BY LinkAssumption DEF Socket
    <2> QED BY <1>1, <2>1 DEF SocketInv, CurrentSocketOnly, Disconnected
  <1>2. CASE ws # None
    <2>1. ws \in Socket /\ Disconnected = [socket EXCEPT ![ws].client = "shut"]
      BY <1>2 DEF SocketInv, Disconnected
    <2>2. /\ [socket EXCEPT ![ws].client = "shut"] \in [Socket -> SocketRec]
          /\ \A m \in Socket :
               /\ [socket EXCEPT ![ws].client = "shut"][m].client = IF m = ws THEN "shut" ELSE socket[m].client
               /\ [socket EXCEPT ![ws].client = "shut"][m].to = socket[m].to
               /\ [socket EXCEPT ![ws].client = "shut"][m].server = socket[m].server
      BY <2>1 DEF SocketInv, SocketRec
    <2> QED BY <2>1, <2>2 DEF SocketInv, CurrentSocketOnly
  <1> QED BY <1>1, <1>2

\* disconnect() through the invariant.
LEMMA DisconnectsKeep ==
  ASSUME SocketInv, Disconnects, UNCHANGED <<started, up>>
  PROVE  SocketInv'
  BY AllShut DEF SocketInv, CurrentSocketOnly, Disconnects

\* The sockets through a step of either side.
LEMMA SocketStep ==
  ASSUME SocketInv, [Next]_vars
  PROVE  SocketInv'
  <1>1. ASSUME UNCHANGED <<socket, ws>>, started' \in Server, up' \/ started' + 1 \in Server PROVE SocketInv'
    BY <1>1 DEF SocketInv, CurrentSocketOnly
  <1>2. started \in Server /\ (up \/ started + 1 \in Server) /\ None \notin Socket
    BY LinkAssumption DEF SocketInv, Socket
  <1>3. CASE Stop(TRUE) \/ Stop(FALSE) \/ UNCHANGED vars
    <2>1. started < MaxServers /\ started \in Server => started + 1 \in Server
      BY LinkAssumption DEF Server
    <2>2. CASE UNCHANGED vars
      BY <1>1, <1>2, <2>2 DEF vars, wire, extension
    <2>3. ASSUME NEW held \in BOOLEAN, Stop(held) PROVE SocketInv'
      BY <1>1, <1>2, <2>1, <2>3 DEF Stop, wire, extension
    <2> QED BY <1>3, <2>2, <2>3
  <1>4. CASE Start
    <2>1. started + 1 \in Server
      BY <1>2, <1>4 DEF Start
    <2>2. started' \in Server /\ up' /\ UNCHANGED <<socket, ws>>
      BY <1>4, <2>1 DEF Start, wire, extension
    <2> QED BY <1>1, <2>2
  <1>5. ASSUME NEW s \in Server, LetsGo(s) \/ Orphaned(s) \/ Calls(s) PROVE SocketInv'
    BY <1>1, <1>2, <1>5 DEF LetsGo, Orphaned, Calls, wire, extension
  <1>6. ASSUME NEW n \in Socket, Session(n) PROVE SocketInv'
    <2>1. CASE Upgrades(n)
      BY <2>1, ServerEnd DEF Upgrades, extension
    <2>2. CASE SessionTakes(n) \/ SessionAnswers(n)
      BY <1>1, <1>2, <2>2 DEF SessionTakes, SessionAnswers, extension
    <2>3. CASE SessionEnds(n)
      BY <2>3, ServerEnd DEF SessionEnds, Serving, extension
    <2>4. CASE SessionLeaves(n)
      BY <2>4, ServerEnd DEF SessionLeaves, extension
    <2> QED BY <1>6, <2>1, <2>2, <2>3, <2>4 DEF Session
  <1>7. ASSUME NEW n \in Socket, Link(n) PROVE SocketInv'
    <2>1. CASE Refused(n)
      BY <2>1, ServerEnd DEF Refused, extension
    <2>2. CASE Incoming(n)
      BY <2>2, ServerEnd DEF Incoming, extension
    <2>3. CASE Opens(n)
      <3>1. /\ socket' \in [Socket -> SocketRec]
            /\ \A m \in Socket : socket'[m].client # "shut" => socket[m].client # "shut"
        BY <2>3 DEF Opens, SocketInv, SocketRec
      <3> QED BY <2>3, <3>1 DEF Opens, SocketInv, CurrentSocketOnly
    <2>4. CASE Closes(n)
      <3>1. n = ws /\ socket' = [socket EXCEPT ![n].client = "shut"] /\ ws' = None /\ UNCHANGED <<started, up>>
        BY <2>4 DEF Closes, SocketInv, CurrentSocketOnly
      <3>2. /\ socket' \in [Socket -> SocketRec]
            /\ \A m \in Socket : socket'[m].client = IF m = n THEN "shut" ELSE socket[m].client
        BY <3>1 DEF SocketInv, SocketRec
      <3> QED BY <3>1, <3>2 DEF SocketInv, CurrentSocketOnly
    <2>5. CASE Handles(n)
      BY <1>1, <1>2, <2>5 DEF Handles
    <2> QED BY <1>7, <2>1, <2>2, <2>3, <2>4, <2>5 DEF Link
  <1>8. ASSUME NEW kind \in {"plain", "timed"}, Connect(kind) PROVE SocketInv'
    <2>1. CASE ~enabled
      BY <1>1, <1>2, <1>8, <2>1 DEF Connect
    <2>2. CASE enabled
      <3>1. PICK n \in Socket :
              /\ socket' = [Disconnected EXCEPT ![n] =
                   [to |-> started, client |-> "dialing", server |-> IF up THEN "none" ELSE "refused"]]
              /\ ws' = n /\ UNCHANGED <<started, up>>
        BY <1>8, <2>2 DEF Connect
      <3>2. [to |-> started, client |-> "dialing", server |-> IF up THEN "none" ELSE "refused"] \in SocketRec
        BY <1>2 DEF SocketRec
      <3> QED BY <1>2, <3>1, <3>2, AllShut DEF SocketInv, CurrentSocketOnly
    <2> QED BY <2>1, <2>2
  <1>9. CASE GivesUpDialing \/ UserStops \/ WorkerDies
    BY <1>9, DisconnectsKeep DEF GivesUpDialing, UserStops, WorkerDies
  <1>10. CASE Redials \/ UserConnects
    BY <1>1, <1>2, <1>10 DEF Redials, UserConnects, wire
  <1>11. ASSUME NEW k \in Call, Responds(k) \/ Sends(k) \/ GivesUp(k) PROVE SocketInv'
    BY <1>1, <1>2, <1>11 DEF Responds, Sends, GivesUp, wire, extension
  <1> QED BY <1>3, <1>4, <1>5, <1>6, <1>7, <1>8, <1>9, <1>10, <1>11 DEF Next

-----------------------------------------------------------------------------
(* Calls. *)

Made == 1 .. calls
State == {"none", "sending", "waiting", "answered", "lost", "gave up"}
CallRec == [to : Server \cup {None}, id : Nat, st : State, got : Call \cup {None}]
ServerRec == [held : BOOLEAN, active : BOOLEAN, connected : BOOLEAN, fails : Nat, queue : Seq(Made)]
Peers(k) == {j \in Call : call[j].to = call[k].to}

\* What is queued, sent, handled or answered is a call that was made.
TravelInv ==
  /\ calls \in 0 .. MaxCalls
  /\ call \in [Call -> CallRec]
  /\ server \in [Server -> ServerRec]
  /\ pending \in [Socket -> SUBSET Made]
  /\ out \in [Socket -> Seq(Made)] /\ back \in [Socket -> Seq(Made)]
  /\ handling \subseteq Made

\* A call that was made has a server and an id of its own there, and no id is
\* larger than the number of calls.
IdsInv ==
  /\ \A k \in Call : k \in Made <=> call[k].to # None
  /\ \A k \in Call : k \in Made <=> call[k].st # "none"
  /\ \A j, k \in Made : call[j].to = call[k].to /\ call[j].id = call[k].id => j = k
  /\ \A k \in Made : call[k].id <= Cardinality(Peers(k))

AnswerInv ==
  /\ \A k \in Call : call[k].st = "answered" => call[k].got \in Made
  /\ AnswersItsCall

\* The inductive invariant.
LinkInv == SocketInv /\ TravelInv /\ IdsInv /\ AnswerInv

\* A step that makes no call leaves every server and id alone.
LEMMA IdsKept ==
  ASSUME IdsInv, calls \in 0 .. MaxCalls, UNCHANGED calls,
         \A k \in Call : /\ call'[k].to = call[k].to /\ call'[k].id = call[k].id
                         /\ call'[k].st = "none" <=> call[k].st = "none"
  PROVE  IdsInv'
  <1>0. \A k \in Made : k \in Call
    BY LinkAssumption DEF Made, Call
  <1>1. Made' = Made
    BY DEF Made
  <1>2. \A k \in Call : Peers(k)' = Peers(k)
    BY DEF Peers
  <1>3. \A k \in Made : call'[k].id <= Cardinality(Peers(k)')
    BY <1>0, <1>2 DEF IdsInv
  <1>4. \A k \in Made : call'[k].id <= Cardinality(Peers(k))'
    BY <1>3
  <1> QED BY <1>0, <1>1, <1>4 DEF IdsInv

\* A step that answers nothing besides leaves the answers alone.
LEMMA BooksKept ==
  ASSUME IdsInv, AnswerInv, calls \in 0 .. MaxCalls, UNCHANGED calls,
         \A k \in Call : /\ call'[k].to = call[k].to /\ call'[k].id = call[k].id
                         /\ call'[k].st = "none" <=> call[k].st = "none"
                         /\ call'[k].st = "answered" => call[k].st = "answered" /\ call'[k].got = call[k].got
  PROVE  IdsInv' /\ AnswerInv'
  <1>0. \A k \in Made : k \in Call
    BY LinkAssumption DEF Made, Call
  <1>1. Made' = Made
    BY DEF Made
  <1> QED BY <1>0, <1>1, IdsKept DEF AnswerInv, AnswersItsCall

\* Who loses a responder ends with an error.
LEMMA LoseKeeps ==
  ASSUME TravelInv, IdsInv, AnswerInv, NEW K, Lose(K), UNCHANGED calls
  PROVE  call' \in [Call -> CallRec] /\ IdsInv' /\ AnswerInv'
  <1>1. call \in [Call -> CallRec]
    BY DEF TravelInv
  <1>2. \A k \in Call : /\ call'[k] \in CallRec
                        /\ call'[k].to = call[k].to /\ call'[k].id = call[k].id
                        /\ call'[k].st = "none" <=> call[k].st = "none"
                        /\ call'[k].st = "answered" => call[k].st = "answered" /\ call'[k].got = call[k].got
    <2> SUFFICES ASSUME NEW k \in Call
                 PROVE  /\ call'[k] \in CallRec
                        /\ call'[k].to = call[k].to /\ call'[k].id = call[k].id
                        /\ call'[k].st = "none" <=> call[k].st = "none"
                        /\ call'[k].st = "answered" => call[k].st = "answered" /\ call'[k].got = call[k].got
      OBVIOUS
    <2>1. CASE k \in K /\ InFlight(k)
      BY <1>1, <2>1 DEF Lose, InFlight, CallRec, State
    <2>2. CASE ~(k \in K /\ InFlight(k))
      BY <1>1, <2>2 DEF Lose
    <2> QED BY <2>1, <2>2
  <1>3. call' \in [Call -> CallRec]
    BY <1>2 DEF Lose
  <1>4. calls \in 0 .. MaxCalls
    BY DEF TravelInv
  <1> QED BY <1>1, <1>2, <1>3, <1>4, BooksKept

\* A command that is queued is made: by Calls, and Calls only.
LEMMA CallsKeeps ==
  ASSUME LinkInv, NEW s \in Server, Calls(s)
  PROVE  (TravelInv /\ IdsInv /\ AnswerInv)'
  <1> DEFINE new == calls + 1
             room == Len(server[s].queue) < Capacity
             record == [to |-> s, id |-> NextId(s), st |-> IF room THEN "waiting" ELSE "sending", got |-> None]
             own == {j \in Call : call[j].to = s}
  <1>1. /\ call \in [Call -> CallRec] /\ calls \in Nat /\ calls < MaxCalls /\ MaxCalls \in Nat
        /\ server \in [Server -> ServerRec] /\ None \notin Int
    BY LinkAssumption DEF LinkInv, TravelInv, Calls
  <1>2. new \in Call /\ new \notin Made /\ Made' = Made \cup {new} /\ Made \subseteq Call
    BY <1>1 DEF Made, Call, Calls
  <1>3. /\ calls' = new /\ call' = [call EXCEPT ![new] = record]
        /\ server' = [server EXCEPT ![s].queue = IF room THEN Append(@, new) ELSE @]
        /\ UNCHANGED <<pending, out, back, handling>>
    BY DEF Calls, wire, extension
  <1>4. Seq(Made) \subseteq Seq(Made')
    BY <1>2
  <1>5. own \subseteq Call /\ IsFiniteSet(own) /\ Cardinality(own) \in Nat /\ NextId(s) = 1 + Cardinality(own)
    <2>1. IsFiniteSet(Call)
      BY <1>1, FS_Interval DEF Call
    <2> QED BY <2>1, FS_Subset, FS_CardinalityType DEF NextId
  <1>6. record \in CallRec /\ record.to = s /\ record.id = 1 + Cardinality(own) /\ record.st \notin {"none", "answered"}
    BY <1>5 DEF CallRec, State
  <1> HIDE DEF record, own, room
  <1>7. call' \in [Call -> CallRec] /\ call'[new] = record /\ \A k \in Call : k # new => call'[k] = call[k]
    BY <1>1, <1>2, <1>3, <1>6
  <1>8. TravelInv'
    <2>1. calls' \in 0 .. MaxCalls
      BY <1>1, <1>3
    <2>2. server' \in [Server -> ServerRec']
      <3>1. \A t \in Server : server[t] \in ServerRec'
        BY <1>1, <1>4 DEF ServerRec
      <3>2. server[s].queue \in Seq(Made') /\ new \in Made'
        BY <1>1, <1>2, <1>4 DEF ServerRec
      <3> DEFINE q == server[s].queue
      <3>3. Append(q, new) \in Seq(Made')
        <4> HIDE DEF q, new
        <4> QED BY <3>2, AppendProperties DEF q
      <3>4. [server[s] EXCEPT !.queue = IF room THEN Append(@, new) ELSE @] \in ServerRec'
        BY <3>1, <3>2, <3>3 DEF ServerRec
      <3> QED BY <1>1, <1>3, <3>1, <3>4
    <2>3. /\ pending' \in [Socket -> SUBSET Made']
          /\ out' \in [Socket -> Seq(Made')] /\ back' \in [Socket -> Seq(Made')]
          /\ handling' \subseteq Made'
      BY <1>2, <1>3, <1>4 DEF LinkInv, TravelInv
    <2> QED BY <1>7, <2>1, <2>2, <2>3 DEF TravelInv
  <1>9. \A k \in Call : k \in Made <=> call[k].to # None
    BY DEF LinkInv, IdsInv
  <1>10. s # None
    BY <1>1 DEF Server
  <1>11. call[new].to = None /\ new \notin own
    BY <1>2, <1>9, <1>10 DEF own
  <1>12. Cardinality(own \cup {new}) = Cardinality(own) + 1
    BY <1>5, <1>11, FS_AddElement
  <1>13. \A k \in Call : call'[k].to = s => Peers(k)' = own \cup {new}
    BY <1>2, <1>6, <1>7, <1>11 DEF Peers, own
  <1>14. \A k \in Made : call[k].to = s => Peers(k) = own /\ call[k].id <= Cardinality(own)
    BY <1>2 DEF LinkInv, IdsInv, Peers, own
  <1>15. \A k \in Made : call[k].to # s => Peers(k)' = Peers(k)
    <2> SUFFICES ASSUME NEW k \in Made, call[k].to # s PROVE Peers(k)' = Peers(k)
      OBVIOUS
    <2>1. k \in Call /\ k # new /\ call'[k] = call[k] /\ call[k].to # None
      BY <1>2, <1>7, <1>9
    <2>2. \A j \in Call : call'[j].to = call[k].to <=> call[j].to = call[k].to
      BY <1>6, <1>7, <1>11, <2>1
    <2> QED BY <2>1, <2>2 DEF Peers
  <1>16. IdsInv'
    <2>1. \A k \in Call : k \in Made' <=> call'[k].to # None
      BY <1>2, <1>6, <1>7, <1>9, <1>10
    <2>2. \A k \in Call : k \in Made' <=> call'[k].st # "none"
      BY <1>2, <1>6, <1>7 DEF LinkInv, IdsInv
    <2>3. \A k \in Made : call[k].to = s => call[k].id # record.id
      BY <1>1, <1>2, <1>5, <1>6, <1>14 DEF CallRec
    <2>4. \A j, k \in Made' : call'[j].to = call'[k].to /\ call'[j].id = call'[k].id => j = k
      BY <1>2, <1>6, <1>7, <2>3 DEF LinkInv, IdsInv
    <2>5. ASSUME NEW k \in Made' PROVE call'[k].id <= Cardinality(Peers(k)')
      <3>1. CASE k = new
        <4>1. Peers(k)' = own \cup {new} /\ call'[k].id = 1 + Cardinality(own)
          BY <1>2, <1>6, <1>7, <1>13, <3>1
        <4> HIDE DEF new
        <4> QED BY <1>5, <1>12, <4>1
      <3>2. CASE k # new /\ call[k].to = s
        <4>1. Peers(k)' = own \cup {new} /\ call'[k].id = call[k].id /\ call[k].id \in Nat
              /\ call[k].id <= Cardinality(own)
          BY <1>1, <1>2, <1>7, <1>13, <1>14, <3>2 DEF CallRec
        <4> HIDE DEF new
        <4> QED BY <1>5, <1>12, <4>1
      <3>3. CASE k # new /\ call[k].to # s
        BY <1>2, <1>7, <1>15, <3>3 DEF LinkInv, IdsInv
      <3> QED BY <3>1, <3>2, <3>3
    <2>6. \A k \in Made' : call'[k].id <= Cardinality(Peers(k))'
      BY <2>5
    <2> QED BY <2>1, <2>2, <2>4, <2>6 DEF IdsInv
  <1>17. AnswerInv'
    <2> SUFFICES ASSUME NEW k \in Call, call'[k].st = "answered"
                 PROVE  call'[k].got \in Made' /\ (call'[k].got = k \/ call'[call'[k].got].to # call'[k].to)
      BY DEF AnswerInv, AnswersItsCall
    <2>1. k # new /\ call'[k] = call[k]
      BY <1>6, <1>7
    <2>2. call[k].got \in Made /\ (call[k].got = k \/ call[call[k].got].to # call[k].to)
      BY <2>1 DEF LinkInv, AnswerInv, AnswersItsCall
    <2> QED BY <1>2, <1>7, <2>1, <2>2
  <1> QED BY <1>8, <1>16, <1>17

\* What queues hold, before and after one is moved.
LEMMA QueueMoves ==
  ASSUME NEW S, NEW q \in Seq(S)
  PROVE  /\ q # <<>> => Head(q) \in S /\ Tail(q) \in Seq(S)
         /\ \A x \in S : Append(q, x) \in Seq(S)
         /\ Elements(q) \subseteq S
  BY HeadTailProperties, AppendProperties, ElementOfSeq DEF Elements

\* A step that makes no call and moves calls only.
LEMMA Moves ==
  ASSUME TravelInv, UNCHANGED calls,
         call' \in [Call -> CallRec], IdsInv', AnswerInv',
         server' \in [Server -> ServerRec], pending' \in [Socket -> SUBSET Made],
         out' \in [Socket -> Seq(Made)], back' \in [Socket -> Seq(Made)], handling' \subseteq Made
  PROVE  (TravelInv /\ IdsInv /\ AnswerInv)'
  <1>1. Made' = Made /\ ServerRec' = ServerRec
    BY DEF Made, ServerRec
  <1> QED BY <1>1 DEF TravelInv

\* The session's steps.
LEMMA SessionKeeps ==
  ASSUME LinkInv, NEW n \in Socket, Session(n)
  PROVE  (TravelInv /\ IdsInv /\ AnswerInv)'
  <1> DEFINE s == socket[n].to
  <1>1. /\ calls \in 0 .. MaxCalls /\ call \in [Call -> CallRec] /\ server \in [Server -> ServerRec]
        /\ pending \in [Socket -> SUBSET Made] /\ out \in [Socket -> Seq(Made)]
        /\ back \in [Socket -> Seq(Made)] /\ handling \subseteq Made /\ TravelInv
    BY DEF LinkInv, TravelInv
  <1>2. \A k \in Made : k \in Call
    BY <1>1, LinkAssumption DEF Made, Call
  <1>3. s \in Server
    BY DEF LinkInv, SocketInv, Session, Upgrades, SessionTakes, SessionAnswers, SessionEnds, SessionLeaves, Serving
  <1>4. IdsInv /\ AnswerInv
    BY DEF LinkInv
  <1>5. ASSUME UNCHANGED <<call, calls>> PROVE call' \in [Call -> CallRec] /\ IdsInv' /\ AnswerInv'
    BY <1>1, <1>4, <1>5, BooksKept
  <1>6. server[s] \in ServerRec /\ server[s].queue \in Seq(Made)
    BY <1>1, <1>3 DEF ServerRec
  <1> HIDE DEF s
  <1>7. CASE Upgrades(n)
    <2>1. UNCHANGED <<pending, out, back, call, calls, handling>>
      BY <1>7 DEF Upgrades, extension
    <2>2. server' \in [Server -> ServerRec]
      <3>1. \/ server' = [server EXCEPT ![s].connected = TRUE]
            \/ server' = [server EXCEPT ![s].active = FALSE, ![s].fails = IF @ < Failures THEN @ + 1 ELSE @]
        BY <1>7 DEF Upgrades, s
      <3>2. CASE server' = [server EXCEPT ![s].connected = TRUE]
        BY <1>1, <1>3, <1>6, <3>2 DEF ServerRec
      <3>3. CASE server' = [server EXCEPT ![s].active = FALSE, ![s].fails = IF @ < Failures THEN @ + 1 ELSE @]
        <4>1. server[s].fails + 1 \in Nat
          BY <1>6 DEF ServerRec
        <4> QED BY <1>1, <1>3, <1>6, <3>3, <4>1 DEF ServerRec
      <3> QED BY <3>1, <3>2, <3>3
    <2> QED BY <1>1, <1>5, <2>1, <2>2, Moves
  <1>8. CASE SessionTakes(n)
    <2> DEFINE k == Head(server[s].queue)
               Same == {j \in pending[n] : call[j].id = call[k].id}
    <2>1. /\ server[s].queue # <<>> /\ server' = [server EXCEPT ![s].queue = Tail(@)]
          /\ pending' = [pending EXCEPT ![n] = (@ \ Same) \cup {k}]
          /\ out' = [out EXCEPT ![n] = IF socket[n].client = "shut" THEN @ ELSE Append(@, k)]
          /\ Lose(Same) /\ UNCHANGED <<back, calls, handling>>
      BY <1>8 DEF SessionTakes, s, extension
    <2>2. k \in Made /\ Tail(server[s].queue) \in Seq(Made) /\ Append(out[n], k) \in Seq(Made)
      <3>1. k \in Made /\ Tail(server[s].queue) \in Seq(Made)
        BY <1>6, <2>1, QueueMoves
      <3> HIDE DEF k
      <3> QED BY <1>1, <3>1, QueueMoves
    <2>3. call' \in [Call -> CallRec] /\ IdsInv' /\ AnswerInv'
      BY <1>1, <1>4, <2>1, LoseKeeps
    <2> HIDE DEF k, Same
    <2>4. server' \in [Server -> ServerRec]
      BY <1>1, <1>3, <2>1, <2>2 DEF ServerRec
    <2>5. pending' \in [Socket -> SUBSET Made] /\ out' \in [Socket -> Seq(Made)]
      BY <1>1, <2>1, <2>2
    <2> QED BY <1>1, <2>1, <2>3, <2>4, <2>5, Moves
  <1>9. CASE SessionAnswers(n)
    <2> DEFINE j == Head(back[n])
               Same == {k \in pending[n] : call[k].id = call[j].id}
    <2>1. /\ back[n] # <<>> /\ back' = [back EXCEPT ![n] = Tail(@)]
          /\ pending' = [pending EXCEPT ![n] = @ \ Same]
          /\ call' = [k \in Call |-> IF k \in Same /\ call[k].st = "waiting"
                                     THEN [call[k] EXCEPT !.st = "answered", !.got = j] ELSE call[k]]
          /\ UNCHANGED <<server, out, calls, handling>>
      BY <1>9 DEF SessionAnswers, extension
    <2>2. j \in Made /\ Tail(back[n]) \in Seq(Made)
      BY <1>1, <2>1, QueueMoves
    <2>3. \A k \in Same : k \in Made /\ call[k].id = call[j].id
      BY <1>1
    <2>4. \A k \in Same : call[k].to = call[j].to => k = j
      BY <1>4, <2>2, <2>3 DEF IdsInv
    <2> HIDE DEF j, Same
    <2>5. \A k \in Call : /\ call'[k] \in CallRec
                          /\ call'[k].to = call[k].to /\ call'[k].id = call[k].id
                          /\ call'[k].st = "none" <=> call[k].st = "none"
      <3> SUFFICES ASSUME NEW k \in Call
                   PROVE  /\ call'[k] \in CallRec
                          /\ call'[k].to = call[k].to /\ call'[k].id = call[k].id
                          /\ call'[k].st = "none" <=> call[k].st = "none"
        OBVIOUS
      <3>1. CASE k \in Same /\ call[k].st = "waiting"
        BY <1>1, <1>2, <2>1, <2>2, <3>1 DEF CallRec, State
      <3>2. CASE ~(k \in Same /\ call[k].st = "waiting")
        BY <1>1, <2>1, <3>2
      <3> QED BY <3>1, <3>2
    <2>6. call' \in [Call -> CallRec] /\ IdsInv'
      BY <1>1, <1>4, <2>1, <2>5, IdsKept
    <2>7. AnswerInv'
      <3> SUFFICES ASSUME NEW k \in Call, call'[k].st = "answered"
                   PROVE  call'[k].got \in Made' /\ (call'[k].got = k \/ call'[call'[k].got].to # call'[k].to)
        BY DEF AnswerInv, AnswersItsCall
      <3>1. Made' = Made
        BY <2>1 DEF Made
      <3>2. CASE k \in Same /\ call[k].st = "waiting"
        <4>1. call'[k].got = j
          BY <1>1, <2>1, <3>2 DEF CallRec
        <4> QED BY <1>2, <2>2, <2>4, <2>5, <3>1, <3>2, <4>1
      <3>3. CASE ~(k \in Same /\ call[k].st = "waiting")
        <4>1. call'[k] = call[k]
          BY <2>1, <3>3
        <4> QED BY <1>2, <1>4, <2>5, <3>1, <4>1 DEF AnswerInv, AnswersItsCall
      <3> QED BY <3>2, <3>3
    <2>8. pending' \in [Socket -> SUBSET Made] /\ back' \in [Socket -> Seq(Made)]
      BY <1>1, <2>1, <2>2
    <2> QED BY <1>1, <2>1, <2>6, <2>7, <2>8, Moves
  <1>10. CASE SessionEnds(n)
    <2>1. /\ Lose(pending[n]) /\ pending' = [pending EXCEPT ![n] = {}] /\ back' = [back EXCEPT ![n] = <<>>]
          /\ UNCHANGED <<server, out, calls, handling>>
      BY <1>10 DEF SessionEnds, extension
    <2>2. call' \in [Call -> CallRec] /\ IdsInv' /\ AnswerInv'
      BY <1>1, <1>4, <2>1, LoseKeeps
    <2>3. pending' \in [Socket -> SUBSET Made] /\ back' \in [Socket -> Seq(Made)]
      BY <1>1, <2>1
    <2> QED BY <1>1, <2>1, <2>2, <2>3, Moves
  <1>11. CASE SessionLeaves(n)
    <2>1. /\ UNCHANGED <<pending, out, back, call, calls, handling>>
          /\ server' = [server EXCEPT ![s][Leaving(socket[n].server = "ended")] = FALSE]
      BY <1>11 DEF SessionLeaves, extension, s
    <2>2. server' \in [Server -> ServerRec]
      <3>1. CASE server' = [server EXCEPT ![s].connected = FALSE]
        BY <1>1, <1>3, <1>6, <3>1 DEF ServerRec
      <3>2. CASE server' = [server EXCEPT ![s].active = FALSE]
        BY <1>1, <1>3, <1>6, <3>2 DEF ServerRec
      <3> QED BY <2>1, <3>1, <3>2 DEF Leaving
    <2> QED BY <1>1, <1>5, <2>1, <2>2, Moves
  <1> QED BY <1>7, <1>8, <1>9, <1>10, <1>11 DEF Session

\* The steps of the extension, of servers and of callers.
LEMMA CallStep ==
  ASSUME LinkInv, [Next]_vars
  PROVE  (TravelInv /\ IdsInv /\ AnswerInv)'
  <1>1. /\ calls \in 0 .. MaxCalls /\ call \in [Call -> CallRec] /\ server \in [Server -> ServerRec]
        /\ pending \in [Socket -> SUBSET Made] /\ out \in [Socket -> Seq(Made)]
        /\ back \in [Socket -> Seq(Made)] /\ handling \subseteq Made /\ TravelInv /\ IdsInv /\ AnswerInv
    BY DEF LinkInv, TravelInv
  <1>2. (\A k \in Made : k \in Call) /\ None \notin Server
    BY <1>1, LinkAssumption DEF Made, Call, Server
  <1>3. started \in Server /\ (up \/ started + 1 \in Server) /\ \A n \in Socket : socket[n].server # "done" => socket[n].to \in Server
    BY DEF LinkInv, SocketInv
  <1>4. UNCHANGED <<call, calls>> => call' \in [Call -> CallRec] /\ IdsInv' /\ AnswerInv'
    BY <1>1, BooksKept
  \* Steps that leave the calls where they are, or drop them.
  <1>5. ASSUME UNCHANGED <<call, calls, server, pending, back>>, handling' \subseteq handling,
               \/ UNCHANGED out \/ \E n \in Socket : out' = [out EXCEPT ![n] = <<>>]
        PROVE  (TravelInv /\ IdsInv /\ AnswerInv)'
    <2>1. out' \in [Socket -> Seq(Made)]
      BY <1>1, <1>5, <<>> \in Seq(Made)
    <2>2. server' \in [Server -> ServerRec] /\ pending' \in [Socket -> SUBSET Made]
          /\ back' \in [Socket -> Seq(Made)] /\ handling' \subseteq Made
      BY <1>1, <1>5
    <2> QED BY <1>1, <1>4, <1>5, <2>1, <2>2, Moves
  <1>6. Disconnects => \/ UNCHANGED out \/ \E n \in Socket : out' = [out EXCEPT ![n] = <<>>]
    BY DEF Disconnects, Undelivered, LinkInv, SocketInv
  \* Steps that change servers, and leave their queues alone.
  <1>7. ASSUME UNCHANGED <<call, calls, pending, out, back, handling>>, server' \in [Server -> ServerRec]
        PROVE  (TravelInv /\ IdsInv /\ AnswerInv)'
    BY <1>1, <1>4, <1>7, Moves
  <1>8. ASSUME NEW held \in BOOLEAN, Stop(held) PROVE (TravelInv /\ IdsInv /\ AnswerInv)'
    <2>1. server' \in [Server -> ServerRec]
      BY <1>1, <1>3, <1>8 DEF Stop, ServerRec
    <2> QED BY <1>7, <1>8, <2>1 DEF Stop, wire, extension
  <1>9. CASE Start
    <2>1. server' \in [Server -> ServerRec]
      BY <1>1, <1>3, <1>9 DEF Start, ServerRec
    <2> QED BY <1>7, <1>9, <2>1 DEF Start, wire, extension
  <1>10. ASSUME NEW s \in Server, LetsGo(s) \/ Orphaned(s) \/ Calls(s)
         PROVE (TravelInv /\ IdsInv /\ AnswerInv)'
    <2>1. CASE LetsGo(s)
      <3>1. server' \in [Server -> ServerRec]
        BY <1>1, <2>1 DEF LetsGo, ServerRec
      <3> QED BY <1>7, <2>1, <3>1 DEF LetsGo, wire, extension
    <2>2. CASE Orphaned(s)
      <3>1. server' \in [Server -> ServerRec]
        BY <1>1, <2>2, <<>> \in Seq(Made) DEF Orphaned, ServerRec
      <3>2. UNCHANGED <<calls, pending, out, back, handling>> /\ \E K : Lose(K)
        BY <2>2 DEF Orphaned, wire, extension
      <3>3. call' \in [Call -> CallRec] /\ IdsInv' /\ AnswerInv'
        BY <1>1, <3>2, LoseKeeps
      <3> QED BY <1>1, <3>1, <3>2, <3>3, Moves
    <2> QED BY <1>10, <2>1, <2>2, CallsKeeps
  <1>11. ASSUME NEW n \in Socket, Link(n) PROVE (TravelInv /\ IdsInv /\ AnswerInv)'
    <2>1. CASE Refused(n) \/ Opens(n) \/ Closes(n)
      BY <1>5, <2>1 DEF Refused, Opens, Closes, extension
    <2>2. CASE Incoming(n)
      <3>1. server' \in [Server -> ServerRec]
        <4> DEFINE s == socket[n].to
        <4>1. s \in Server /\ server[s] \in ServerRec
          BY <1>1, <1>3, <2>2 DEF Incoming
        <4>2. PICK fails \in {0, server[s].fails} :
                server' = [server EXCEPT ![s].fails = fails, ![s].active = @ \/ Admits(s, fails)]
          BY <2>2 DEF Incoming
        <4>3. fails \in Nat /\ (server[s].active \/ Admits(s, fails)) \in BOOLEAN
          BY <4>1 DEF ServerRec
        <4> HIDE DEF s
        <4> QED BY <1>1, <4>1, <4>2, <4>3 DEF ServerRec
      <3> QED BY <1>7, <2>2, <3>1 DEF Incoming, extension
    <2>3. CASE Handles(n)
      <3>1. Head(out[n]) \in Made /\ Tail(out[n]) \in Seq(Made)
        BY <1>1, <2>3, QueueMoves DEF Handles
      <3>2. out' \in [Socket -> Seq(Made)] /\ handling' \subseteq Made
        BY <1>1, <2>3, <3>1 DEF Handles
      <3>3. UNCHANGED <<call, calls, server, pending, back>>
        BY <2>3 DEF Handles
      <3> QED BY <1>1, <1>4, <3>2, <3>3, Moves
    <2> QED BY <1>11, <2>1, <2>2, <2>3 DEF Link
  <1>12. ASSUME NEW kind \in {"plain", "timed"}, Connect(kind) PROVE (TravelInv /\ IdsInv /\ AnswerInv)'
    <2>1. UNCHANGED <<call, calls, server, pending, back, handling>>
      BY <1>12 DEF Connect
    <2>2. \/ UNCHANGED out \/ \E n \in Socket : out' = [out EXCEPT ![n] = <<>>]
      BY <1>12 DEF Connect, Undelivered, LinkInv, SocketInv
    <2> QED BY <1>5, <2>1, <2>2
  <1>13. CASE GivesUpDialing \/ UserStops \/ WorkerDies
    BY <1>5, <1>6, <1>13 DEF GivesUpDialing, UserStops, WorkerDies
  <1>14. CASE Redials \/ UserConnects
    BY <1>5, <1>14 DEF Redials, UserConnects, wire
  <1>15. ASSUME NEW k \in Call, Responds(k) PROVE (TravelInv /\ IdsInv /\ AnswerInv)'
    <2>1. k \in Made /\ handling' \subseteq Made
      BY <1>1, <1>15 DEF Responds
    <2>2. back' \in [Socket -> Seq(Made)]
      <3>1. CASE UNCHANGED back
        BY <1>1, <3>1
      <3>2. CASE ws \in Socket /\ back' = [back EXCEPT ![ws] = Append(@, k)]
        <4>1. Append(back[ws], k) \in Seq(Made)
          BY <1>1, <2>1, <3>2, QueueMoves
        <4> QED BY <1>1, <3>2, <4>1
      <3> QED BY <1>15, <3>1, <3>2 DEF Responds, LinkInv, SocketInv
    <2>3. UNCHANGED <<call, calls, server, pending, out>>
      BY <1>15 DEF Responds
    <2> QED BY <1>1, <1>4, <2>1, <2>2, <2>3, Moves
  <1>16. ASSUME NEW k \in Call, Sends(k) PROVE (TravelInv /\ IdsInv /\ AnswerInv)'
    <2>1. k \in Made /\ call[k].to \in Server
      BY <1>1, <1>16 DEF Sends, IdsInv, CallRec
    <2>2. server' \in [Server -> ServerRec]
      <3>1. server[call[k].to].queue \in Seq(Made)
        BY <1>1, <2>1 DEF ServerRec
      <3>2. Append(server[call[k].to].queue, k) \in Seq(Made)
        BY <2>1, <3>1, QueueMoves
      <3> QED BY <1>1, <1>16, <2>1, <3>2 DEF Sends, ServerRec
    <2>3. UNCHANGED <<calls, pending, out, back, handling>> /\ call' = [call EXCEPT ![k].st = "waiting"]
      BY <1>16 DEF Sends, wire, extension
    <2>4. call' \in [Call -> CallRec]
      BY <1>1, <2>3 DEF CallRec, State
    <2>5. IdsInv' /\ AnswerInv'
      <3>1. call[k].st = "sending"
        BY <1>16 DEF Sends
      <3>2. \A j \in Call : /\ call'[j].to = call[j].to /\ call'[j].id = call[j].id
                            /\ call'[j].st = "none" <=> call[j].st = "none"
                            /\ call'[j].st = "answered" => call[j].st = "answered" /\ call'[j].got = call[j].got
        BY <1>1, <2>3, <3>1 DEF CallRec
      <3> QED BY <1>1, <2>3, <3>2, BooksKept
    <2> QED BY <1>1, <2>2, <2>3, <2>4, <2>5, Moves
  <1>17. ASSUME NEW k \in Call, GivesUp(k) PROVE (TravelInv /\ IdsInv /\ AnswerInv)'
    <2>1. UNCHANGED <<calls, server, pending, out, back, handling>> /\ call' = [call EXCEPT ![k].st = "gave up"]
      BY <1>17 DEF GivesUp, wire, extension
    <2>2. call' \in [Call -> CallRec]
      BY <1>1, <2>1 DEF CallRec, State
    <2>3. IdsInv' /\ AnswerInv'
      <3>1. call[k].st = "waiting"
        BY <1>17 DEF GivesUp
      <3>2. \A j \in Call : /\ call'[j].to = call[j].to /\ call'[j].id = call[j].id
                            /\ call'[j].st = "none" <=> call[j].st = "none"
                            /\ call'[j].st = "answered" => call[j].st = "answered" /\ call'[j].got = call[j].got
        BY <1>1, <2>1, <3>1 DEF CallRec
      <3> QED BY <1>1, <2>1, <3>2, BooksKept
    <2> QED BY <1>1, <2>1, <2>2, <2>3, Moves
  <1>18. CASE UNCHANGED vars
    BY <1>5, <1>18 DEF vars, wire, extension
  <1>19. ASSUME NEW n \in Socket, Session(n) PROVE (TravelInv /\ IdsInv /\ AnswerInv)'
    BY <1>19, SessionKeeps
  <1> QED BY <1>8, <1>9, <1>10, <1>11, <1>12, <1>13, <1>14, <1>15, <1>16, <1>17, <1>18, <1>19 DEF Next

-----------------------------------------------------------------------------

\* The extension speaks over one socket at a time, whatever sockets, timers and
\* popup requests come together, and a call that is answered has the answer to its
\* own command, however late and over whichever session it arrives; only the
\* command of another server, whose ids begin again, can be mistaken for it.
THEOREM OneSocketOwnAnswers == Spec => []OneConversation
  <1>1. Init => LinkInv
    <2> SUFFICES ASSUME Init PROVE LinkInv
      OBVIOUS
    <2>1. 1 \in Server /\ None \notin Server
      BY LinkAssumption DEF Server
    <2>2. SocketInv
      BY <2>1 DEF Init, SocketInv, SocketRec, CurrentSocketOnly
    <2>3. Made = {} /\ calls \in 0 .. MaxCalls /\ <<>> \in Seq(Made) /\ 0 \in Nat
      BY LinkAssumption DEF Init, Made
    <2>4. call \in [Call -> CallRec]
      BY <2>3 DEF Init, CallRec, State
    <2>5. server \in [Server -> ServerRec]
      BY <2>3 DEF Init, ServerRec
    <2>6. TravelInv
      BY <2>3, <2>4, <2>5 DEF Init, TravelInv
    <2>7. IdsInv /\ AnswerInv
      BY <2>3 DEF Init, IdsInv, AnswerInv, AnswersItsCall
    <2> QED BY <2>2, <2>6, <2>7 DEF LinkInv
  <1>2. LinkInv /\ [Next]_vars => LinkInv'
    BY SocketStep, CallStep DEF LinkInv
  <1>3. LinkInv => OneConversation
    BY DEF LinkInv, SocketInv, AnswerInv, OneConversation
  <1> QED BY <1>1, <1>2, <1>3, PTL DEF Spec
===============================================================================
