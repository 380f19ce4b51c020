----------------------------- MODULE UnitsProofs -----------------------------
(***************************************************************************)
(* Theorems about the components that MCUnits runs side by side, for any   *)
(* number of scripts, servers, tools, writers, sessions, requests,         *)
(* elements of a page, and calls on the pipe.  StreamProofs has those      *)
(* about the stream of an answer.                                          *)
(***************************************************************************)
EXTENDS MCUnits, FiniteSetTheorems, SequenceTheorems, WellFoundedInduction, TLAPS

-----------------------------------------------------------------------------
(* The script manager: the handles, the limit, the status of an ended      *)
(* script, and that each script stays a ScriptTask.                        *)

\* Scripts to come have left no trace, and only a wait holds handles.
Fresh ==
  /\ \A s \in Script \ spawned : result[s] = "none"
  /\ waiting \/ awaited = {}

\* The inductive invariant but for the limit.
BookInv == TypeOK /\ Fresh /\ OneHolder /\ StatusTellsResult

\* Init establishes it.
LEMMA BookInit == Init => BookInv
  BY DEF Init, BookInv, TypeOK, Fresh, OneHolder, StatusTellsResult, Unfinished

\* Every step keeps it.
LEMMA BookStep == BookInv /\ [Next]_vars => BookInv'
<1> SUFFICES ASSUME BookInv, [Next]_vars PROVE BookInv'  OBVIOUS
<1> USE DEF BookInv, TypeOK, Fresh, OneHolder, StatusTellsResult, Unfinished
<1>1. ASSUME NEW s \in Script, Spawn(s) PROVE BookInv'
  <2>1. OneHolder'
    BY <1>1 DEF Spawn, task
  <2> QED  BY <1>1, <2>1 DEF Spawn, task
<1>2. ASSUME NEW s \in Script, Syncs(s) PROVE BookInv'
  BY <1>2 DEF Syncs, book
<1>3. ASSUME NEW s \in Script, Ends(s) PROVE BookInv'
  <2>1. PICK lost \in {stray[s], TRUE} : stray' = [stray EXCEPT ![s] = lost]
    BY <1>3 DEF Ends
  <2>2. stray' \in [Script -> BOOLEAN]
    <3>1. lost \in BOOLEAN
      BY <2>1
    <3> QED  BY <2>1, <3>1
  <2>3. \A x \in Script : ~stray'[x] => ~stray[x]
    BY <2>1
  <2>4. PICK r \in {"completed", "failed", "cancelled"} :
          result' = [result EXCEPT ![s] = r] /\ shown' = [shown EXCEPT ![s] = r]
    BY <1>3 DEF Ends
  <2>5. s \in spawned /\ result[s] = "none" /\ UNCHANGED <<spawned, managed, waiting, awaited, delivered, token>>
    BY <1>3 DEF Ends, book
  <2> QED  BY <2>2, <2>3, <2>4, <2>5
<1>10. ASSUME NEW s \in Script, Loses(s) PROVE BookInv'
  BY <1>10 DEF Loses, book
<1>4. ASSUME NEW s \in Script, CancelScript(s) PROVE BookInv'
  BY <1>4 DEF CancelScript, book
<1>5. ASSUME NEW W \in SUBSET Script, WaitBegins(W) PROVE BookInv'
  BY <1>5 DEF WaitBegins, task
<1>6. ASSUME NEW W \in SUBSET Script, WaitUnknown(W) PROVE BookInv'
  BY <1>6 DEF WaitUnknown, task
<1>7. CASE WaitReturns
  BY <1>7 DEF WaitReturns, task
<1>8. CASE WaitDropped
  BY <1>8 DEF WaitDropped, task
<1>9. CASE UNCHANGED vars
  BY <1>9 DEF vars
<1> QED  BY <1>1, <1>2, <1>3, <1>4, <1>5, <1>6, <1>7, <1>8, <1>9, <1>10 DEF Next

\* So it always holds.
LEMMA BookHolds == Spec => []BookInv
  BY BookInit, BookStep, PTL DEF Spec

\* Sets of scripts are finite, so their cardinalities compare.
LEMMA Fewer ==
  ASSUME NEW S \in SUBSET Script, NEW R \in SUBSET S
  PROVE  Cardinality(R) \in Nat /\ Cardinality(S) \in Nat /\ Cardinality(R) <= Cardinality(S)
<1>1. IsFiniteSet(S)
  BY FS_Subset, ManagerAssumption
<1> QED  BY <1>1, FS_Subset, FS_CardinalityType

\* The limit, inductively: a spawn counts the map, and then nothing is awaited;
\* every other step moves handles between the two places, loses some, or ends.
LEMMA LimitStep ==
  ASSUME BookInv, BookInv', TrackedWithinLimit, [Next]_vars
  PROVE  TrackedWithinLimit'
<1> DEFINE Live == Unfinished(managed \cup awaited)
<1> USE DEF BookInv, TypeOK, Fresh
<1>1. Live \in SUBSET Script /\ Live' \in SUBSET Script
  BY DEF Unfinished
<1>2. ASSUME Live' \subseteq Live PROVE TrackedWithinLimit'
  <2>1. /\ Cardinality(Live') \in Nat /\ Cardinality(Live) \in Nat
        /\ Cardinality(Live') <= Cardinality(Live)
    BY <1>1, <1>2, Fewer
  <2>2. Cardinality(Live) <= MaxConcurrent
    BY DEF TrackedWithinLimit
  <2>3. Cardinality(Live') <= MaxConcurrent
    BY <2>1, <2>2, ManagerAssumption
  <2> QED  BY <2>3 DEF TrackedWithinLimit
<1>3. ASSUME NEW s \in Script, Spawn(s) PROVE TrackedWithinLimit'
  <2>1. awaited = {} /\ awaited' = {} /\ result' = result /\ managed' = managed \cup {s}
    BY <1>3 DEF Spawn, task
  <2>2. Live = Unfinished(managed) /\ Live' \subseteq Live \cup {s}
    BY <2>1 DEF Unfinished
  <2>3. IsFiniteSet(Live) /\ Cardinality(Live) \in Nat
    BY <1>1, FS_Subset, FS_CardinalityType, ManagerAssumption
  <2>4. Cardinality(Live \cup {s}) = Cardinality(Live) \/ Cardinality(Live \cup {s}) = Cardinality(Live) + 1
    <3>1. CASE s \in Live
      <4>1. Live \cup {s} = Live
        BY <3>1
      <4> QED  BY <4>1
    <3>2. CASE s \notin Live
      BY <2>3, <3>2, FS_AddElement
    <3> QED  BY <3>1, <3>2
  <2>5. /\ Cardinality(Live') \in Nat
        /\ Cardinality(Live') <= Cardinality(Live \cup {s})
    BY <1>1, <2>2, Fewer
  <2>6. Cardinality(Live) < MaxConcurrent
    BY <1>3, <2>2 DEF Spawn, CanSpawn
  <2>7. Cardinality(Live') <= MaxConcurrent
    BY <2>3, <2>4, <2>5, <2>6, ManagerAssumption
  <2> QED  BY <2>7 DEF TrackedWithinLimit
<1>4. ASSUME NEW s \in Script, Ends(s) PROVE Live' \subseteq Live
  BY <1>4 DEF Ends, book, Unfinished
<1>5. ASSUME NEW s \in Script, Syncs(s) \/ Loses(s) \/ CancelScript(s) PROVE Live' \subseteq Live
  BY <1>5 DEF Syncs, Loses, CancelScript, book, Unfinished
<1>6. ASSUME NEW W \in SUBSET Script, WaitBegins(W) \/ WaitUnknown(W) PROVE Live' \subseteq Live
  BY <1>6 DEF WaitBegins, WaitUnknown, task, Unfinished
<1>7. ASSUME WaitReturns \/ WaitDropped \/ UNCHANGED vars PROVE Live' \subseteq Live
  BY <1>7 DEF WaitReturns, WaitDropped, vars, task, Unfinished
<1> QED  BY <1>2, <1>3, <1>4, <1>5, <1>6, <1>7 DEF Next

\* The state has its types, whatever calls are made.
THEOREM ManagerTypeCorrect == Spec => []TypeOK
<1>1. BookInv => TypeOK
  BY DEF BookInv
<1> QED  BY <1>1, BookHolds, PTL

\* A handle is in one place, a result goes to one caller: remove under the map's
\* one owner, whatever waits fail or are dropped.
THEOREM ResultsGoOnce == Spec => []OneHolder
<1>1. BookInv => OneHolder
  BY DEF BookInv
<1> QED  BY <1>1, BookHolds, PTL

\* script_status of an ended script nobody cancelled tells its result.
THEOREM StatusIsHonest == Spec => []StatusTellsResult
<1>1. BookInv => StatusTellsResult
  BY DEF BookInv
<1> QED  BY <1>1, BookHolds, PTL

\* Scripts that can still be waited for respect max_concurrent, for any limit.
THEOREM LimitKept == Spec => []TrackedWithinLimit
<1>1. Init => TrackedWithinLimit
  BY FS_EmptySet, ManagerAssumption DEF Init, TrackedWithinLimit, Unfinished
<1>2. BookInv /\ BookInv' /\ TrackedWithinLimit /\ [Next]_vars => TrackedWithinLimit'
  BY LimitStep
<1> QED  BY <1>1, <1>2, BookHolds, PTL DEF Spec

\* Each script's status, token and result move only as ScriptTask allows.
THEOREM EachScriptIsATask == Spec => EachIsATask
<1> DEFINE Allowed == \A s \in Script : [TaskOf(s)!Next]_<<token[s], shown[s], result[s], stray[s]>>
<1> USE DEF TaskOf!Next, TaskOf!Sync, TaskOf!Lose, TaskOf!Cancel, TaskOf!End, TaskOf!Result
<1>1. Init => \A s \in Script : TaskOf(s)!Init
  BY DEF Init, TaskOf!Init
<1>2. ASSUME BookInv, [Next]_vars PROVE Allowed
  <2> USE DEF BookInv, TypeOK, Allowed
  <2>1. ASSUME NEW s \in Script, Syncs(s) PROVE Allowed
    BY <1>2, <2>1 DEF Syncs
  <2>2. ASSUME NEW s \in Script, Ends(s) PROVE Allowed
    <3>1. PICK r \in TaskOf(s)!Result :
            /\ result[s] = "none" /\ (r = "cancelled" => token[s])
            /\ result' = [result EXCEPT ![s] = r] /\ shown' = [shown EXCEPT ![s] = r]
      BY <2>2 DEF Ends
    <3>2. PICK lost \in {stray[s], TRUE} : stray' = [stray EXCEPT ![s] = lost]
      BY <2>2 DEF Ends
    <3>3. token' = token
      BY <2>2 DEF Ends
    <3>4. result'[s] = r /\ shown'[s] = r /\ stray'[s] = lost
      BY <1>2, <3>1, <3>2
    <3>5. \A t \in Script : t # s => result'[t] = result[t] /\ shown'[t] = shown[t] /\ stray'[t] = stray[t]
      BY <1>2, <3>1, <3>2
    <3>6. TaskOf(s)!End(r)
      BY <3>1, <3>3, <3>4
    <3>7. TaskOf(s)!Next
      BY <3>6
    <3> QED BY <3>3, <3>5, <3>7
  <2>3. ASSUME NEW s \in Script, CancelScript(s) PROVE Allowed
    BY <1>2, <2>3 DEF CancelScript
  <2>8. ASSUME NEW s \in Script, Loses(s) PROVE Allowed
    BY <1>2, <2>8 DEF Loses
  <2>4. ASSUME UNCHANGED task PROVE Allowed
    BY <2>4 DEF task
  <2>5. ASSUME NEW s \in Script, Spawn(s) PROVE Allowed
    BY <2>4, <2>5 DEF Spawn
  <2>6. ASSUME NEW W \in SUBSET Script, WaitBegins(W) \/ WaitUnknown(W) PROVE Allowed
    BY <2>4, <2>6 DEF WaitBegins, WaitUnknown
  <2>7. ASSUME WaitReturns \/ WaitDropped \/ UNCHANGED vars PROVE Allowed
    BY <2>4, <2>7 DEF WaitReturns, WaitDropped, vars, task
  <2> QED  BY <1>2, <2>1, <2>2, <2>3, <2>5, <2>6, <2>7, <2>8 DEF Next
<1>3. BookInv /\ [Next]_vars => [Allowed]_vars
  BY <1>2
<1> QED  BY <1>1, <1>3, BookHolds, PTL DEF Spec, EachIsATask

-----------------------------------------------------------------------------
(* The MCP client (Mcp). *)

\* A frame that answers carries the id of the request it answers.
Honest == {f \in [id : Nat, of : Nat, has : {"nothing", "result", "error"}] :
             f.has # "nothing" => f.of = f.id}

McpProcess == [state : {"gone", "alive", "dead"}, asked : Seq(Nat), said : Seq(Honest)]
McpDo == {"nothing", "discover", "call"}
McpStep == {"idle", "ready", "ask", "initialize", "answer", "welcome", "notify"}
McpOp == [do : McpDo, todo : Seq(Mcp!Names), step : McpStep, id : Nat, tool : Tool \cup {"none"}]

McpTypes ==
  /\ process \in [Mcp!Names -> McpProcess]
  /\ nextId \in Nat
  /\ op \in McpOp
  /\ op.step # "idle" => op.todo # << >>
  /\ \A r \in toolIndex : r[2] \in Mcp!Names /\ r[3] \in Tool
  /\ listed \in [Mcp!Names -> SUBSET Tool]

\* The inductive invariant.
McpInv == McpTypes /\ ListedToolAnswers

LEMMA ServersAreNamed == Server \in Seq(Mcp!Names)
  <1>1. {Server[n] : n \in DOMAIN Server} = Mcp!Names
    BY DEF Mcp!Names, Mcp!ToSet
  <1> QED BY <1>1, McpAssumption

\* The server an operation is at.
LEMMA NowIsNamed ==
  ASSUME McpTypes, op.step # "idle"
  PROVE  /\ Mcp!Now \in Mcp!Names /\ Tail(op.todo) \in Seq(Mcp!Names)
         /\ Len(op.todo) # 1 => Tail(op.todo) # << >>
  <1>1. op.todo \in Seq(Mcp!Names) /\ op.todo # << >>
    BY DEF McpTypes, McpOp
  <1> DEFINE todo == op.todo
  <1> HIDE DEF todo
  <1>3. todo \in Seq(Mcp!Names) /\ todo # << >>
    BY <1>1 DEF todo
  <1>4. Head(todo) \in Mcp!Names /\ Tail(todo) \in Seq(Mcp!Names) /\ Len(Tail(todo)) = Len(todo) - 1
    BY <1>3, HeadTailProperties
  <1>5. Len(todo) # 1 => Tail(todo) # << >>
    BY <1>3, <1>4
  <1>2. /\ Head(op.todo) \in Mcp!Names /\ Tail(op.todo) \in Seq(Mcp!Names)
        /\ Len(op.todo) # 1 => Tail(op.todo) # << >>
    BY <1>4, <1>5 DEF todo
  <1> QED BY <1>2 DEF Mcp!Now

LEMMA GoingIs ==
  ASSUME NEW do \in McpDo, NEW todo \in Seq(Mcp!Names), todo # << >>, NEW tool \in Tool \cup {"none"}
  PROVE  /\ Mcp!Going(do, todo, tool) \in McpOp
         /\ Mcp!Going(do, todo, tool).todo # << >>
  BY DEF Mcp!Going, McpOp, McpStep

LEMMA IdleIs ==
  /\ Mcp!Idle \in McpOp
  /\ Mcp!Idle.step = "idle"
  BY DEF Mcp!Idle, McpOp, McpDo, McpStep

\* A frame is read.
LEMMA RestIs ==
  ASSUME McpTypes, Mcp!Heard
  PROVE  /\ Mcp!Rest \in [Mcp!Names -> McpProcess]
         /\ Mcp!Frame \in Honest
  <1>1. Mcp!Now \in Mcp!Names /\ process[Mcp!Now].said # << >>
    BY NowIsNamed DEF Mcp!Heard, Mcp!Awaits
  <1> DEFINE now == Mcp!Now
  <1> HIDE DEF now
  <1>2. process[now] \in McpProcess /\ process[now].said # << >>
    BY <1>1 DEF McpTypes, now
  <1>3. Head(process[now].said) \in Honest /\ Tail(process[now].said) \in Seq(Honest)
    <2> DEFINE said == process[now].said
    <2>1. said \in Seq(Honest) /\ said # << >>
      BY <1>2 DEF McpProcess
    <2> HIDE DEF said
    <2>2. Head(said) \in Honest /\ Tail(said) \in Seq(Honest)
      BY <2>1, HeadTailProperties
    <2> QED BY <2>2 DEF said
  <1>4. [process EXCEPT ![now].said = Tail(@)] \in [Mcp!Names -> McpProcess]
    <2>1. [process[now] EXCEPT !.said = Tail(@)] \in McpProcess
      BY <1>2, <1>3 DEF McpProcess
    <2> QED BY <2>1 DEF McpTypes
  <1> QED BY <1>3, <1>4 DEF Mcp!Rest, Mcp!Frame, now

\* A step that neither routes nor takes a response.
LEMMA McpFrame ==
  ASSUME McpInv, process' \in [Mcp!Names -> McpProcess], nextId' \in Nat, op' \in McpOp,
         op'.step # "idle" => op'.todo # << >>, UNCHANGED <<toolIndex, listed, taken>>
  PROVE  McpInv'
  BY DEF McpInv, McpTypes, ListedToolAnswers, Mcp!RoutesAreListed, Mcp!AnswersItsRequest

LEMMA GoneAndFresh == Mcp!Gone \in McpProcess /\ Mcp!Fresh \in McpProcess
  <1>1. << >> \in Seq(Nat) /\ << >> \in Seq(Honest)
    OBVIOUS
  <1> QED BY <1>1 DEF Mcp!Gone, Mcp!Fresh, McpProcess

LEMMA CallersStep ==
  ASSUME McpInv, Mcp!DiscoverTools \/ Mcp!CallTool \/ Mcp!Shutdown
  PROVE  McpInv'
  <1>1. CASE Mcp!DiscoverTools
    <2>1. op' = Mcp!Going("discover", Server, "none") /\ Server # << >>
          /\ UNCHANGED <<process, nextId, toolIndex, listed, taken>>
      BY <1>1 DEF Mcp!DiscoverTools
    <2>2. op' \in McpOp /\ op'.todo # << >>
      BY <2>1, GoingIs, ServersAreNamed DEF McpDo
    <2> QED BY <2>1, <2>2, McpFrame DEF McpInv, McpTypes
  <1>2. CASE Mcp!CallTool
    <2>1. PICK route \in toolIndex : op' = Mcp!Going("call", <<route[2]>>, route[3])
      BY <1>2 DEF Mcp!CallTool
    <2>2. UNCHANGED <<process, nextId, toolIndex, listed, taken>>
      BY <1>2 DEF Mcp!CallTool
    <2>3. route[2] \in Mcp!Names /\ route[3] \in Tool
      BY DEF McpInv, McpTypes
    <2>4. <<route[2]>> \in Seq(Mcp!Names) /\ <<route[2]>> # << >>
      BY <2>3
    <2>5. op' \in McpOp /\ op'.todo # << >>
      BY <2>1, <2>3, <2>4, GoingIs DEF McpDo
    <2> QED BY <2>2, <2>5, McpFrame DEF McpInv, McpTypes
  <1>3. CASE Mcp!Shutdown
    <2>1. process' \in [Mcp!Names -> McpProcess] /\ UNCHANGED <<nextId, op, toolIndex, listed, taken>>
      BY <1>3, GoneAndFresh DEF Mcp!Shutdown
    <2> QED BY <2>1, McpFrame DEF McpInv, McpTypes
  <1> QED BY <1>1, <1>2, <1>3

\* The step of the operation alone changes.
LEMMA StepIs ==
  ASSUME McpTypes, NEW step \in McpStep, op.step # "idle", op' = [op EXCEPT !.step = step]
  PROVE  op' \in McpOp /\ op'.todo # << >>
  BY DEF McpTypes, McpOp

LEMMA SpawnStep ==
  ASSUME McpInv, Mcp!Spawn
  PROVE  McpInv'
  <1>1. /\ op.step = "ready" /\ UNCHANGED <<nextId, toolIndex, listed, taken>>
        /\ \/ process' = [process EXCEPT ![Mcp!Now] = Mcp!Fresh] /\ op' = op
           \/ op' = Mcp!Idle /\ process' = process
    BY DEF Mcp!Spawn, Mcp!At, Mcp!Ends
  <1>2. process' \in [Mcp!Names -> McpProcess]
    BY <1>1, GoneAndFresh DEF McpInv, McpTypes
  <1>3. op' \in McpOp /\ (op'.step # "idle" => op'.todo # << >>)
    BY <1>1, IdleIs DEF McpInv, McpTypes
  <1>4. nextId' \in Nat
    BY <1>1 DEF McpInv, McpTypes
  <1> QED BY <1>1, <1>2, <1>3, <1>4, McpFrame

LEMMA ReadyStep ==
  ASSUME McpInv, Mcp!Ready
  PROVE  McpInv'
  <1>1. op.step = "ready" /\ Mcp!Now \in Mcp!Names
    BY NowIsNamed DEF Mcp!Ready, Mcp!At, McpInv
  <1>2. op' \in McpOp /\ op'.todo # << >>
    BY <1>1, StepIs DEF Mcp!Ready, McpInv, McpStep
  <1>3. UNCHANGED <<process, nextId, taken>>
    BY DEF Mcp!Ready
  <1>4. CASE UNCHANGED <<toolIndex, listed>>
    BY <1>2, <1>3, <1>4, McpFrame DEF McpInv, McpTypes
  <1>5. CASE /\ toolIndex' = {r \in toolIndex : r[2] # Mcp!Now}
             /\ listed' = [listed EXCEPT ![Mcp!Now] = {}]
    <2> DEFINE now == Mcp!Now
    <2>0. now \in Mcp!Names /\ toolIndex' = {r \in toolIndex : r[2] # now} /\ listed' = [listed EXCEPT ![now] = {}]
      BY <1>1, <1>5
    <2> HIDE DEF now
    <2>1. McpTypes'
      BY <1>2, <1>3, <2>0 DEF McpInv, McpTypes
    <2>2. Mcp!RoutesAreListed'
      <3>1. \A r \in toolIndex' : r \in toolIndex /\ listed'[r[2]] = listed[r[2]]
        BY <2>0 DEF McpInv, McpTypes
      <3> QED BY <3>1 DEF McpInv, ListedToolAnswers, Mcp!RoutesAreListed
    <2> QED BY <1>3, <2>1, <2>2 DEF McpInv, ListedToolAnswers, Mcp!AnswersItsRequest
  <1> QED BY <1>4, <1>5 DEF Mcp!Ready, Mcp!Cleared

LEMMA SendsStep ==
  ASSUME McpInv, Mcp!Sends
  PROVE  McpInv'
  <1>1. op.step # "idle" /\ nextId' = nextId + 1 /\ nextId \in Nat /\ UNCHANGED <<toolIndex, listed, taken>>
    BY DEF Mcp!Sends, McpInv, McpTypes
  <1> DEFINE now == Mcp!Now
  <1>2. now \in Mcp!Names
    BY <1>1, NowIsNamed DEF McpInv
  <1>3. CASE op' = Mcp!Idle /\ process' = process
    BY <1>1, <1>3, IdleIs, McpFrame DEF McpInv, McpTypes
  <1>4. CASE process[now].state = "alive"
    <2>1. /\ process' = [process EXCEPT ![now].asked = Append(@, nextId)]
          /\ op' = [do |-> op.do, todo |-> op.todo, id |-> nextId, tool |-> op.tool,
                    step |-> IF Mcp!At("ask") THEN "answer" ELSE "welcome"]
      BY <1>4 DEF Mcp!Sends
    <2> HIDE DEF now
    <2>2. op' \in McpOp /\ op'.todo # << >>
      BY <1>1, <2>1 DEF McpInv, McpTypes, McpOp, McpStep
    <2>3. [process[now] EXCEPT !.asked = Append(@, nextId)] \in McpProcess
      <3>1. process[now] \in McpProcess
        BY <1>2 DEF McpInv, McpTypes
      <3>2. Append(process[now].asked, nextId) \in Seq(Nat)
        BY <1>1, <3>1, AppendProperties DEF McpProcess
      <3> QED BY <3>1, <3>2 DEF McpProcess
    <2>4. process' \in [Mcp!Names -> McpProcess]
      BY <2>1, <2>3 DEF McpInv, McpTypes
    <2>5. nextId' \in Nat
      BY <1>1
    <2> QED BY <1>1, <2>2, <2>4, <2>5, McpFrame
  <1> QED BY <1>3, <1>4 DEF Mcp!Sends, Mcp!Ends

LEMMA ReadsStep ==
  ASSUME McpInv, Mcp!Skips \/ Mcp!ReadFails
  PROVE  McpInv'
  <1>1. UNCHANGED <<nextId, toolIndex, listed, taken>>
    BY DEF Mcp!Skips, Mcp!ReadFails
  <1>2. process' = process \/ (Mcp!Heard /\ process' = Mcp!Rest)
    BY DEF Mcp!Skips, Mcp!ReadFails
  <1>3. process' \in [Mcp!Names -> McpProcess]
    BY <1>2, RestIs DEF McpInv, McpTypes
  <1>4. op' = op \/ op' = Mcp!Idle
    BY DEF Mcp!Skips, Mcp!ReadFails, Mcp!Ends
  <1>5. op' \in McpOp /\ (op'.step # "idle" => op'.todo # << >>) /\ nextId' \in Nat
    BY <1>1, <1>4, IdleIs DEF McpInv, McpTypes
  <1> QED BY <1>1, <1>3, <1>5, McpFrame

LEMMA TimesStep ==
  ASSUME McpInv, Mcp!Notifies \/ Mcp!TimesOut
  PROVE  McpInv'
  <1>1. UNCHANGED <<nextId, toolIndex, listed, taken>>
    BY DEF Mcp!Notifies, Mcp!TimesOut
  <1>2. process' = process \/ process' = [process EXCEPT ![Mcp!Now] = Mcp!Gone]
    BY DEF Mcp!Notifies, Mcp!TimesOut
  <1>3. process' \in [Mcp!Names -> McpProcess]
    BY <1>2, GoneAndFresh DEF McpInv, McpTypes
  <1>4. op' = Mcp!Idle \/ (op.step = "notify" /\ op' = [op EXCEPT !.step = "ready"])
    BY DEF Mcp!Notifies, Mcp!TimesOut, Mcp!Ends, Mcp!At
  <1>5. op' \in McpOp /\ (op'.step # "idle" => op'.todo # << >>) /\ nextId' \in Nat
    BY <1>1, <1>4, IdleIs, StepIs DEF McpInv, McpTypes, McpStep
  <1> QED BY <1>1, <1>3, <1>5, McpFrame

LEMMA ChildrenStep ==
  ASSUME McpInv, NEW s \in Mcp!Names, Mcp!Answers(s) \/ Mcp!SpeaksUp(s) \/ Mcp!Dies(s)
  PROVE  McpInv'
  <1>1. UNCHANGED <<nextId, op, toolIndex, listed, taken>>
    BY DEF Mcp!Answers, Mcp!SpeaksUp, Mcp!Dies
  <1>2. process[s] \in McpProcess /\ process[s].said \in Seq(Honest) /\ process[s].asked \in Seq(Nat)
    BY DEF McpInv, McpTypes, McpProcess
  <1>3. \E p \in McpProcess : process' = [process EXCEPT ![s] = p]
    <2>1. CASE Mcp!Answers(s)
      <3>1. PICK has \in {"result", "error"} :
              process' = [process EXCEPT ![s] =
                [state |-> "alive", asked |-> Tail(process[s].asked),
                 said |-> Append(process[s].said,
                   [id |-> Head(process[s].asked), of |-> Head(process[s].asked), has |-> has])]]
        BY <2>1 DEF Mcp!Answers
      <3> DEFINE asked == process[s].asked
                 said == process[s].said
                 frame == [id |-> Head(asked), of |-> Head(asked), has |-> has]
                 p == [state |-> "alive", asked |-> Tail(asked), said |-> Append(said, frame)]
      <3>2. asked # << >> /\ asked \in Seq(Nat) /\ said \in Seq(Honest)
        BY <1>2, <2>1 DEF Mcp!Answers
      <3>3. process' = [process EXCEPT ![s] = p]
        BY <3>1
      <3> HIDE DEF asked, said
      <3>4. Head(asked) \in Nat /\ Tail(asked) \in Seq(Nat)
        BY <3>2, HeadTailProperties
      <3>5. frame \in Honest
        BY <3>4 DEF Honest
      <3> HIDE DEF frame
      <3>6. Append(said, frame) \in Seq(Honest)
        BY <3>2, <3>5, AppendProperties
      <3>7. p \in McpProcess
        BY <3>4, <3>6 DEF McpProcess
      <3> QED BY <3>3, <3>7
    <2>2. CASE Mcp!SpeaksUp(s)
      <3>1. PICK id \in 0 .. 2 : process' = [process EXCEPT ![s].said =
                                   Append(process[s].said, [id |-> id, of |-> 0, has |-> "nothing"])]
        BY <2>2 DEF Mcp!SpeaksUp
      <3> DEFINE frame == [id |-> id, of |-> 0, has |-> "nothing"]
                 p == [process[s] EXCEPT !.said = Append(process[s].said, frame)]
      <3>2. frame \in Honest
        BY DEF Honest
      <3>3. process' = [process EXCEPT ![s] = p]
        BY <3>1
      <3> HIDE DEF frame
      <3>4. Append(process[s].said, frame) \in Seq(Honest)
        BY <1>2, <3>2, AppendProperties
      <3>5. p \in McpProcess
        BY <1>2, <3>4 DEF McpProcess
      <3> QED BY <3>3, <3>5
    <2>3. CASE Mcp!Dies(s)
      <3> DEFINE p == [state |-> "dead", asked |-> << >>, said |-> process[s].said]
      <3>1. process' = [process EXCEPT ![s] = p]
        BY <2>3 DEF Mcp!Dies
      <3>2. p \in McpProcess
        BY <1>2 DEF McpProcess
      <3> QED BY <3>1, <3>2
    <2> QED BY <2>1, <2>2, <2>3
  <1>4. process' \in [Mcp!Names -> McpProcess] /\ nextId' \in Nat /\ op' \in McpOp
        /\ (op'.step # "idle" => op'.todo # << >>)
    BY <1>1, <1>3 DEF McpInv, McpTypes
  <1> QED BY <1>1, <1>4, McpFrame

\* A page of tools becomes routes: one for each name, and all of tools listed.
LEMMA RoutedKeeps ==
  ASSUME McpInv, Mcp!Now \in Mcp!Names, NEW tools \in SUBSET Tool, NEW last \in Mcp!LastOfEach(tools),
         toolIndex' = Mcp!Routed(last),
         listed' = [listed EXCEPT ![Mcp!Now] = @ \cup tools]
  PROVE  /\ \A r \in toolIndex' : r[2] \in Mcp!Names /\ r[3] \in Tool
         /\ listed' \in [Mcp!Names -> SUBSET Tool]
         /\ Mcp!RoutesAreListed'
  <1> DEFINE now == Mcp!Now
  <1>0. now \in Mcp!Names /\ listed' = [listed EXCEPT ![now] = listed[now] \cup tools]
    OBVIOUS
  <1> DEFINE new == {<<Qualified[<<now, t>>], now, t>> : t \in last}
  <1>1. toolIndex' = {r \in toolIndex : \A n \in new : n[1] # r[1]} \cup new
    BY DEF Mcp!Routed, Mcp!Route
  <1>2. /\ last \in SUBSET tools
        /\ \A t \in tools : \E k \in last :
             {j \in last : Qualified[<<now, j>>] = Qualified[<<now, t>>]} = {k}
    BY DEF Mcp!LastOfEach, Mcp!Route
  <1> HIDE DEF now
  <1>3. \A j, k \in last : Qualified[<<now, j>>] = Qualified[<<now, k>>] => j = k
    <2> SUFFICES ASSUME NEW j \in last, NEW k \in last, Qualified[<<now, j>>] = Qualified[<<now, k>>]
                 PROVE  j = k
      OBVIOUS
    <2>1. PICK l \in last : {i \in last : Qualified[<<now, i>>] = Qualified[<<now, k>>]} = {l}
      BY <1>2
    <2> QED BY <2>1
  <1>4. \A n \in new : /\ n[2] = now /\ n[3] \in last /\ n[1] = Qualified[<<n[2], n[3]>>]
                       /\ n = <<Qualified[<<now, n[3]>>], now, n[3]>>
    <2> SUFFICES ASSUME NEW n \in new
                 PROVE  /\ n[2] = now /\ n[3] \in last /\ n[1] = Qualified[<<n[2], n[3]>>]
                        /\ n = <<Qualified[<<now, n[3]>>], now, n[3]>>
      OBVIOUS
    <2>1. PICK t \in last : n = <<Qualified[<<now, t>>], now, t>>
      OBVIOUS
    <2>2. n[1] = Qualified[<<now, t>>] /\ n[2] = now /\ n[3] = t
      BY <2>1
    <2> QED BY <2>1, <2>2
  <1> HIDE DEF new
  <1>5. listed' \in [Mcp!Names -> SUBSET Tool] /\ \A s \in Mcp!Names : listed[s] \subseteq listed'[s]
    BY <1>0 DEF McpInv, McpTypes
  <1>6. \A r \in toolIndex' : r \in toolIndex \/ r \in new
    BY <1>1
  <1>7. \A r \in toolIndex' : r[2] \in Mcp!Names /\ r[3] \in Tool
    BY <1>0, <1>2, <1>4, <1>6 DEF McpInv, McpTypes
  <1>8. \A r \in toolIndex' : r[3] \in listed'[r[2]] /\ r[1] = Qualified[<<r[2], r[3]>>]
    <2> SUFFICES ASSUME NEW r \in toolIndex'
                 PROVE  r[3] \in listed'[r[2]] /\ r[1] = Qualified[<<r[2], r[3]>>]
      OBVIOUS
    <2>1. CASE r \in toolIndex
      <3>1. r[3] \in listed[r[2]] /\ r[1] = Qualified[<<r[2], r[3]>>] /\ r[2] \in Mcp!Names
        BY <2>1 DEF McpInv, McpTypes, ListedToolAnswers, Mcp!RoutesAreListed
      <3> QED BY <1>5, <3>1
    <2>2. CASE r \in new
      <3>1. tools \subseteq listed'[now]
        BY <1>0 DEF McpInv, McpTypes
      <3> QED BY <1>2, <1>4, <2>2, <3>1
    <2> QED BY <1>6, <2>1, <2>2
  <1>9. \A r1, r2 \in toolIndex' : r1[1] = r2[1] => r1 = r2
    <2> SUFFICES ASSUME NEW r1 \in toolIndex', NEW r2 \in toolIndex', r1[1] = r2[1]
                 PROVE  r1 = r2
      OBVIOUS
    <2>1. CASE r1 \in new /\ r2 \in new
      <3>1. r1[3] \in last /\ r2[3] \in last /\ Qualified[<<now, r1[3]>>] = Qualified[<<now, r2[3]>>]
        BY <1>4, <2>1
      <3>2. r1[3] = r2[3]
        BY <1>3, <3>1
      <3> QED BY <1>4, <2>1, <3>2
    <2>2. CASE r1 \notin new /\ r2 \notin new
      BY <1>6, <2>2 DEF McpInv, ListedToolAnswers, Mcp!RoutesAreListed
    <2> QED BY <1>1, <2>1, <2>2
  <1> QED BY <1>5, <1>7, <1>8, <1>9 DEF Mcp!RoutesAreListed

LEMMA AcceptsStep ==
  ASSUME McpInv, Mcp!Accepts
  PROVE  McpInv'
  <1>1. /\ Mcp!Heard /\ Mcp!Frame.id = op.id /\ process' = Mcp!Rest
        /\ taken' = [id |-> op.id, of |-> Mcp!Frame.of, has |-> Mcp!Frame.has]
        /\ op.step # "idle" /\ UNCHANGED nextId
    BY DEF Mcp!Accepts, Mcp!Matches, Mcp!Heard, Mcp!Awaits
  <1>2. process' \in [Mcp!Names -> McpProcess] /\ Mcp!Frame \in Honest
    BY <1>1, RestIs DEF McpInv
  <1>3. Mcp!AnswersItsRequest'
    BY <1>1, <1>2 DEF Mcp!AnswersItsRequest, Honest
  <1>4. Mcp!Now \in Mcp!Names
    BY <1>1, NowIsNamed DEF McpInv
  <1>5. \/ /\ op' = Mcp!Idle \/ op' = [op EXCEPT !.step = "notify"]
           /\ UNCHANGED <<toolIndex, listed>>
        \/ \E tools \in SUBSET Tool, more \in BOOLEAN :
              /\ \E last \in Mcp!LastOfEach(tools) : toolIndex' = Mcp!Routed(last)
              /\ listed' = [listed EXCEPT ![Mcp!Now] = @ \cup tools]
              /\ op' = Mcp!NextPage(more)
    BY DEF Mcp!Accepts, Mcp!Ends
  <1>6. CASE /\ op' = Mcp!Idle \/ op' = [op EXCEPT !.step = "notify"]
             /\ UNCHANGED <<toolIndex, listed>>
    <2>1. op' \in McpOp /\ (op'.step # "idle" => op'.todo # << >>)
      BY <1>1, <1>6, IdleIs, StepIs DEF McpInv, McpStep
    <2> QED BY <1>1, <1>2, <1>3, <1>6, <2>1
            DEF McpInv, McpTypes, ListedToolAnswers, Mcp!RoutesAreListed
  <1>7. ASSUME NEW tools \in SUBSET Tool, NEW more \in BOOLEAN, NEW last \in Mcp!LastOfEach(tools),
               toolIndex' = Mcp!Routed(last),
               listed' = [listed EXCEPT ![Mcp!Now] = @ \cup tools], op' = Mcp!NextPage(more)
        PROVE  McpInv'
    <2>1. op' \in McpOp /\ (op'.step # "idle" => op'.todo # << >>)
      <3>1. CASE more
        BY <1>1, <1>7, <3>1, StepIs DEF McpInv, McpStep, Mcp!NextPage
      <3>2. CASE ~more /\ Len(op.todo) = 1
        BY <1>7, <3>2, IdleIs DEF Mcp!NextPage
      <3>3. CASE ~more /\ Len(op.todo) # 1
        <4>1. op' = Mcp!Going(op.do, Tail(op.todo), op.tool)
          BY <1>7, <3>3 DEF Mcp!NextPage
        <4>2. Tail(op.todo) \in Seq(Mcp!Names) /\ Tail(op.todo) # << >>
          BY <1>1, <3>3, NowIsNamed DEF McpInv
        <4>3. op.do \in McpDo /\ op.tool \in Tool \cup {"none"}
          BY DEF McpInv, McpTypes, McpOp
        <4> QED BY <4>1, <4>2, <4>3, GoingIs
      <3> QED BY <3>1, <3>2, <3>3
    <2>2. /\ \A r \in toolIndex' : r[2] \in Mcp!Names /\ r[3] \in Tool
          /\ listed' \in [Mcp!Names -> SUBSET Tool]
          /\ Mcp!RoutesAreListed'
      BY <1>4, <1>7, RoutedKeeps
    <2> QED BY <1>1, <1>2, <1>3, <2>1, <2>2 DEF McpInv, McpTypes, ListedToolAnswers
  <1> QED BY <1>5, <1>6, <1>7

\* In UnitsSpec the client moves or stays.
LEMMA McpHolds == UnitsSpec => []McpInv
  <1>1. UnitsInit => McpInv
    <2> SUFFICES ASSUME UnitsInit PROVE McpInv
      OBVIOUS
    <2>1. /\ process = [s \in Mcp!Names |-> Mcp!Gone] /\ toolIndex = {} /\ nextId = 1 /\ op = Mcp!Idle
          /\ listed = [s \in Mcp!Names |-> {}] /\ taken = Mcp!NoResponse
      BY DEF UnitsInit, Mcp!Init
    <2>2. taken.has = "nothing"
      BY <2>1 DEF Mcp!NoResponse
    <2> QED BY <2>1, <2>2, GoneAndFresh, IdleIs
            DEF McpInv, McpTypes, ListedToolAnswers, Mcp!RoutesAreListed, Mcp!AnswersItsRequest
  <1>2. McpInv /\ UNCHANGED mcp => McpInv'
    BY DEF mcp, McpInv, McpTypes, ListedToolAnswers, Mcp!RoutesAreListed, Mcp!AnswersItsRequest
  <1>3. McpInv /\ Mcp!Next => McpInv'
    <2> SUFFICES ASSUME McpInv, Mcp!Next PROVE McpInv'
      OBVIOUS
    <2> QED BY CallersStep, SpawnStep, ReadyStep, SendsStep, ReadsStep, AcceptsStep, TimesStep, ChildrenStep
            DEF Mcp!Next
  <1>4. McpInv /\ [UnitsNext]_units => McpInv'
    BY <1>2, <1>3 DEF UnitsNext, units
  <1> QED BY <1>1, <1>4, PTL DEF UnitsSpec

\* Whatever servers, tools and names there are, and whatever fails in between: a
\* response that is accepted answers the request that was sent, and a qualified
\* name leads to one tool, which its server has listed (runtime/src/mcp/process.rs
\* read_response_matching, server_manager.rs discover_tools).
THEOREM ListedToolsAnswer == UnitsSpec => []ListedToolAnswers
  <1>1. McpInv => ListedToolAnswers
    BY DEF McpInv
  <1> QED BY <1>1, McpHolds, PTL

-----------------------------------------------------------------------------
(* acrawl as an MCP server (Service). *)

Holders == scripts \cup {session} \cup Service!InRequest

\* The user's browser is one; a CloakBrowser was launched.
Owned(b) ==
  /\ b.kind = "extension" => b = Service!Extension
  /\ b.kind = "cloak" => b.life \in 1 .. lives

ServiceTypes ==
  /\ Service!TypeOK /\ served \in 0 .. MaxAsked /\ lives <= served
  /\ crashed \subseteq 1 .. lives
  /\ \A b \in Holders \ {None} : Owned(b)

\* What a request has chosen and got so far, stage by stage; the loop has not
\* launched a browser for it that it does not have.
RequestInv ==
  request # None =>
    /\ request.meant \in {None, request.chosen}
    /\ request.browser # None => request.browser.kind = request.chosen
    /\ request.stage # "drive" => request.browser = None
    /\ request.stage = "launch" => request.chosen = "cloak"
    /\ request.stage \in {"bridge", "tab"} => request.chosen = "extension"
    /\ request.stage = "tab" => request.work = "goal"
    /\ request.stage = "drive" =>
          IF request.work = "goal" THEN request.browser # None \/ request.chosen = "cloak"
          ELSE request.browser = session /\ session # None
    /\ request.browser = None => lives < served

TabInv ==
  "open" \in tabs => /\ request # None /\ request.work = "goal" /\ request.stage = "drive"
                     /\ request.browser = Service!Extension

\* The CloakBrowsers among the holders' that have not died.
LivesOf(holders) == {b.life : b \in {h \in holders : h # None /\ h # Service!Extension}} \ crashed

\* The inductive invariant.
ServiceInv ==
  ServiceTypes /\ RequestInv /\ TabInv /\ alive = LivesOf(Holders) /\ Service!BackendAsSelected

LEMMA BrowserIs ==
  ASSUME ServiceInv, NEW b \in Holders, b # None, b # Service!Extension
  PROVE  b \in Service!Browser /\ b = [kind |-> "cloak", life |-> b.life] /\ b.life \in 1 .. lives
  <1>1. b \in Service!Browser
    BY DEF ServiceInv, ServiceTypes, Service!TypeOK, Holders, Service!InRequest, Service!Request
  <1>2. b.kind \in {"cloak", "extension"} /\ b = [kind |-> b.kind, life |-> b.life]
    BY <1>1 DEF Service!Browser, Service!Kind
  <1>3. Owned(b)
    BY DEF ServiceInv, ServiceTypes
  <1> QED BY <1>1, <1>2, <1>3 DEF Owned

\* What drops with its last holder is what nobody has any more.
LEMMA HeldIs ==
  ASSUME ServiceInv, NEW H \in SUBSET Holders
  PROVE  Service!Held(H) = LivesOf(H)
  <1>1. ASSUME NEW l \in Service!Held(H) PROVE l \in LivesOf(H)
    <2> DEFINE b == [kind |-> "cloak", life |-> l]
    <2>1. b \in H /\ l \in alive /\ b.life = l /\ b.kind = "cloak"
      BY <1>1 DEF Service!Held
    <2>2. l \notin crashed
      BY <2>1 DEF ServiceInv, LivesOf
    <2>3. b \in Service!Browser
      <3>1. l \in 1 .. MaxAsked
        BY <2>1 DEF ServiceInv, ServiceTypes, Service!TypeOK
      <3> QED BY <3>1, ServiceAssumption DEF Service!Browser, Service!Kind
    <2>4. b # None
      BY <2>3, ServiceAssumption
    <2>5. b # Service!Extension
      BY <2>1 DEF Service!Extension
    <2> QED BY <2>1, <2>2, <2>4, <2>5 DEF LivesOf
  <1>2. ASSUME NEW l \in LivesOf(H) PROVE l \in Service!Held(H)
    <2>1. PICK b \in H : b # None /\ b # Service!Extension /\ b.life = l
      BY <1>2 DEF LivesOf
    <2>2. b = [kind |-> "cloak", life |-> l]
      BY <2>1, BrowserIs
    <2>3. l \in alive
      BY <1>2, <2>1 DEF ServiceInv, LivesOf
    <2> QED BY <2>1, <2>2, <2>3 DEF Service!Held
  <1> QED BY <1>1, <1>2

\* Around the server nothing changes but what is connected, selected or alive.
LEMMA OutsideStep ==
  ASSUME ServiceInv,
         Service!SaveStarts \/ Service!SaveEnds \/ Service!Links \/ Service!Unlinks \/ Service!CloakDies
  PROVE  ServiceInv'
  <1>1. UNCHANGED <<lives, manager, session, request, scripts, tabs, reply, served>>
    BY DEF Service!SaveStarts, Service!SaveEnds, Service!Links, Service!Unlinks, Service!CloakDies,
           Service!browsers, Service!server
  <1>2. setting' \in Service!Kind /\ half' \in BOOLEAN /\ linked' \in BOOLEAN
    BY DEF Service!SaveStarts, Service!SaveEnds, Service!Links, Service!Unlinks, Service!CloakDies,
           ServiceInv, ServiceTypes, Service!TypeOK
  <1>3. Holders' = Holders /\ \A b \in Holders : Owned(b)' <=> Owned(b)
    BY <1>1 DEF Holders, Service!InRequest, Owned
  <1>4. CASE UNCHANGED <<alive, crashed>>
    BY <1>1, <1>2, <1>3, <1>4 DEF ServiceInv, ServiceTypes, Service!TypeOK, RequestInv, TabInv, LivesOf,
       Service!BackendAsSelected
  <1>5. ASSUME NEW l \in alive, alive' = alive \ {l}, crashed' = crashed \cup {l}
        PROVE  ServiceInv'
    <2>1. l \in 1 .. lives /\ l \in 1 .. MaxAsked
      <3>1. PICK b \in Holders : b # None /\ b # Service!Extension /\ b.life = l
        BY DEF ServiceInv, LivesOf
      <3> QED BY <3>1, BrowserIs DEF ServiceInv, ServiceTypes, Service!TypeOK
    <2>2. alive' = LivesOf(Holders)'
      BY <1>3, <1>5 DEF ServiceInv, LivesOf
    <2>3. ServiceTypes'
      BY <1>1, <1>2, <1>3, <1>5, <2>1 DEF ServiceInv, ServiceTypes, Service!TypeOK
    <2>4. RequestInv' /\ TabInv' /\ Service!BackendAsSelected'
      BY <1>1 DEF ServiceInv, RequestInv, TabInv, Service!BackendAsSelected
    <2> QED BY <2>2, <2>3, <2>4 DEF ServiceInv
  <1> QED BY <1>4, <1>5 DEF Service!SaveStarts, Service!SaveEnds, Service!Links, Service!Unlinks,
             Service!CloakDies, Service!browsers

\* A request record with another stage and browser.
LEMMA OnIs ==
  ASSUME ServiceInv, request # None,
         NEW stage \in {"select", "launch", "bridge", "tab", "drive"}, NEW b \in Service!Browser \cup {None}
  PROVE  /\ Service!On(stage, b) \in Service!Request /\ Service!On(stage, b) # None
         /\ Service!On(stage, b).work = request.work /\ Service!On(stage, b).stage = stage
         /\ Service!On(stage, b).chosen = request.chosen /\ Service!On(stage, b).meant = request.meant
         /\ Service!On(stage, b).browser = b
  <1>1. request \in Service!Request
    BY DEF ServiceInv, ServiceTypes, Service!TypeOK
  <1>2. Service!On(stage, b) \in Service!Request
    BY <1>1 DEF Service!On, Service!Request
  <1> QED BY <1>2, ServiceAssumption DEF Service!On

\* The request is answered, with the browser it drove or with an error.
LEMMA AnswersKeep ==
  ASSUME ServiceInv, request # None, NEW b \in {None, request.browser}, Service!Answers(b)
  PROVE  /\ request' = None /\ RequestInv' /\ Service!BackendAsSelected' /\ Service!InRequest' = {}
  <1>1. request' = None /\ reply' = [work |-> request.work, meant |-> request.meant, browser |-> b]
    BY DEF Service!Answers
  <1>2. request.meant \in {None, request.chosen} /\ (b # None => b.kind = request.chosen)
    BY DEF ServiceInv, RequestInv
  <1> QED BY <1>1, <1>2 DEF RequestInv, Service!BackendAsSelected, Service!InRequest

\* The types, when the holders are held by others than before at most.
LEMMA TypesKeep ==
  ASSUME ServiceInv, Holders' \subseteq Holders, None \notin scripts', alive' \subseteq alive, tabs' \subseteq {"open", "left"},
         manager' \in BOOLEAN, served' \in 0 .. MaxAsked, lives <= served',
         request' \in Service!Request \cup {None}, UNCHANGED <<setting, half, linked, lives, crashed>>
  PROVE  ServiceTypes'
  <1>1. \A b \in Holders' \ {None} : Owned(b)'
    BY DEF ServiceInv, ServiceTypes, Owned
  <1>2. Holders \subseteq Service!Browser \cup {None}
    BY DEF ServiceInv, ServiceTypes, Service!TypeOK, Holders, Service!InRequest, Service!Request
  <1>3. scripts' \subseteq Holders /\ session' \in Holders
    BY DEF Holders
  <1>4. scripts' \subseteq Service!Browser
    BY <1>2, <1>3
  <1> QED BY <1>1, <1>2, <1>3, <1>4 DEF ServiceInv, ServiceTypes, Service!TypeOK

LEMMA TakesStep ==
  ASSUME ServiceInv, NEW work \in Service!Work, Service!Takes(work)
  PROVE  ServiceInv'
  <1> DEFINE r == [work |-> work, stage |-> "select", chosen |-> None, meant |-> None, browser |-> None]
  <1>1. /\ request = None /\ served < MaxAsked /\ served' = served + 1 /\ request' = r
        /\ UNCHANGED <<setting, half, linked, changes, alive, lives, crashed, manager, session, scripts, tabs, reply>>
    BY DEF Service!Takes, Service!outside, Service!browsers
  <1>2. r \in Service!Request /\ r # None
    <2>1. r \in Service!Request
      BY DEF Service!Request
    <2> QED BY <2>1, ServiceAssumption
  <1>3. r.stage = "select" /\ r.meant = None /\ r.browser = None
    OBVIOUS
  <1> HIDE DEF r
  <1>4. served \in 0 .. MaxAsked /\ lives <= served /\ lives \in Nat /\ served' \in 0 .. MaxAsked
        /\ lives < served'
    BY <1>1, ServiceAssumption DEF ServiceInv, ServiceTypes, Service!TypeOK
  <1>5. Holders' \subseteq Holders \cup {None} /\ LivesOf(Holders)' = LivesOf(Holders)
        /\ \A b \in Holders : Owned(b)' <=> Owned(b)
    BY <1>1, <1>3 DEF Holders, Service!InRequest, LivesOf, Owned
  <1>6. ServiceTypes'
    BY <1>1, <1>2, <1>4, <1>5 DEF ServiceInv, ServiceTypes, Service!TypeOK
  <1>7. RequestInv'
    BY <1>1, <1>3, <1>4 DEF RequestInv
  <1>8. TabInv' /\ Service!BackendAsSelected'
    BY <1>1 DEF ServiceInv, TabInv, Service!BackendAsSelected
  <1> QED BY <1>1, <1>5, <1>6, <1>7, <1>8 DEF ServiceInv

LEMMA SelectsStep ==
  ASSUME ServiceInv, Service!Selects
  PROVE  ServiceInv'
  <1> DEFINE reuse == request.work # "goal" /\ Service!Reusable(Service!Selected)
             chosen == Service!Selected
             meant == IF half THEN None ELSE setting
             browser == IF reuse THEN session ELSE None
             stage == IF reuse \/ (request.work = "goal" /\ chosen = "cloak") THEN "drive"
                      ELSE IF chosen = "cloak" THEN "launch" ELSE "bridge"
             r == [work |-> request.work, chosen |-> chosen, meant |-> meant, browser |-> browser,
                   stage |-> stage]
  <1>1. /\ request # None /\ request.stage = "select" /\ request' = r
        /\ UNCHANGED <<setting, half, linked, changes, alive, lives, crashed, manager, session, scripts, tabs, reply, served>>
    BY DEF Service!Selects, Service!At, Service!outside, Service!browsers
  <1>2. /\ request \in Service!Request /\ request.browser = None /\ request.work \in Service!Work
        /\ setting \in Service!Kind /\ session \in Service!Browser \cup {None}
        /\ lives < served /\ lives \in Nat /\ served \in Nat
    BY <1>1, ServiceAssumption DEF ServiceInv, ServiceTypes, Service!TypeOK, RequestInv, Service!Request
  <1>3. chosen \in Service!Kind /\ meant \in {None, chosen} /\ meant \in Service!Kind \cup {None}
    BY <1>2 DEF Service!Selected, Service!Kind
  <1>4. /\ browser \in Service!Browser \cup {None}
        /\ browser # None => reuse /\ browser = session
        /\ reuse => browser = session /\ session # None /\ session.kind = chosen /\ request.work # "goal"
    BY <1>2 DEF Service!Reusable
  <1>5. /\ stage \in {"launch", "bridge", "drive"}
        /\ stage # "drive" => ~reuse
        /\ stage = "drive" => reuse \/ (request.work = "goal" /\ chosen = "cloak")
        /\ stage = "launch" => chosen = "cloak"
        /\ stage = "bridge" => chosen = "extension"
    BY <1>3 DEF Service!Kind
  <1>6. ~reuse => browser = None
    OBVIOUS
  <1> HIDE DEF reuse, chosen, meant, browser, stage
  <1>7. r \in Service!Request /\ r # None
    <2>1. r \in Service!Request
      BY <1>2, <1>3, <1>4, <1>5 DEF Service!Request
    <2> QED BY <2>1, ServiceAssumption
  <1>8. r.work = request.work /\ r.chosen = chosen /\ r.meant = meant /\ r.browser = browser /\ r.stage = stage
    OBVIOUS
  <1> HIDE DEF r
  <1>9. RequestInv'
    BY <1>1, <1>2, <1>3, <1>4, <1>5, <1>6, <1>8 DEF RequestInv
  <1>10. Holders' = scripts \cup {session} \cup {browser} /\ Holders = scripts \cup {session} \cup {None}
    BY <1>1, <1>2, <1>7, <1>8 DEF Holders, Service!InRequest
  <1>11. Holders' \subseteq Holders \cup {None} /\ LivesOf(Holders)' = LivesOf(Holders)
    BY <1>1, <1>4, <1>10 DEF LivesOf
  <1>12. \A b \in Holders : Owned(b)' <=> Owned(b)
    BY <1>1 DEF Owned
  <1>13. ServiceTypes'
    BY <1>1, <1>7, <1>11, <1>12 DEF ServiceInv, ServiceTypes, Service!TypeOK
  <1>14. TabInv' /\ Service!BackendAsSelected'
    BY <1>1 DEF ServiceInv, TabInv, Service!BackendAsSelected
  <1> QED BY <1>1, <1>9, <1>11, <1>13, <1>14 DEF ServiceInv

\* A CloakBrowser is launched for the request: those whose holders stay live on.
LEMMA Launches ==
  ASSUME ServiceInv, request # None, request.browser = None, request.chosen = "cloak",
         NEW b, b = [kind |-> "cloak", life |-> lives + 1],
         NEW H \in SUBSET Holders, lives' = lives + 1, alive' = Service!Held(H) \cup {lives + 1},
         request' = Service!On("drive", b), request.work # "goal" => session' = b,
         session' \in Service!Browser \cup {None}, Holders' = H \cup {b},
         TabInv', UNCHANGED <<setting, half, linked, crashed, manager, scripts, tabs, reply, served>>
  PROVE  ServiceInv'
  <1>1. lives < served /\ lives \in Nat /\ served \in 0 .. MaxAsked /\ MaxAsked \in Nat
        /\ lives + 1 \in 1 .. MaxAsked /\ lives' \in 0 .. MaxAsked /\ lives + 1 \notin crashed
        /\ crashed \subseteq 1 .. lives' /\ lives' <= served
    BY ServiceAssumption DEF ServiceInv, ServiceTypes, Service!TypeOK, RequestInv
  <1>2. b \in Service!Browser /\ b # None /\ b # Service!Extension /\ b.kind = "cloak" /\ b.life = lives + 1
    <2>1. b \in Service!Browser
      BY <1>1 DEF Service!Browser, Service!Kind
    <2>2. b.kind = "cloak" /\ b.life = lives + 1 /\ Service!Extension.kind = "extension"
      BY DEF Service!Extension
    <2> QED BY <2>1, <2>2, ServiceAssumption
  <1>3. /\ request' \in Service!Request /\ request' # None /\ request'.work = request.work
        /\ request'.stage = "drive" /\ request'.chosen = request.chosen /\ request'.meant = request.meant
        /\ request'.browser = b
    BY <1>2, OnIs
  <1>4. RequestInv'
    BY <1>2, <1>3 DEF ServiceInv, RequestInv
  <1>5. alive' = LivesOf(Holders)'
    BY <1>1, <1>2, HeldIs DEF LivesOf
  <1>6. \A c \in Holders' \ {None} : Owned(c)'
    <2> SUFFICES ASSUME NEW c \in Holders', c # None PROVE Owned(c)'
      OBVIOUS
    <2>1. CASE c = b
      BY <1>1, <1>2, <2>1 DEF Owned
    <2>2. CASE c \in H
      BY <1>1, <2>2 DEF ServiceInv, ServiceTypes, Owned
    <2> QED BY <2>1, <2>2
  <1>7. Service!Held(H) \subseteq alive
    BY DEF Service!Held
  <1>8. Service!TypeOK'
    BY <1>1, <1>3, <1>7 DEF ServiceInv, ServiceTypes, Service!TypeOK
  <1>9. ServiceTypes'
    BY <1>1, <1>6, <1>8 DEF ServiceInv, ServiceTypes
  <1>10. Service!BackendAsSelected'
    BY DEF ServiceInv, Service!BackendAsSelected
  <1> QED BY <1>4, <1>5, <1>9, <1>10 DEF ServiceInv

LEMMA ExtensionIs == Service!Extension \in Service!Browser /\ Service!Extension # None
                     /\ Service!Extension.kind = "extension"
  <1>1. Service!Extension \in Service!Browser
    BY ServiceAssumption DEF Service!Extension, Service!Browser, Service!Kind
  <1> QED BY <1>1, ServiceAssumption DEF Service!Extension

LEMMA LaunchSteps ==
  ASSUME ServiceInv, Service!Launch \/ Service!GoalLaunches
  PROVE  ServiceInv'
  <1> DEFINE b == [kind |-> "cloak", life |-> lives + 1]
  <1>1. lives + 1 \in 0 .. MaxAsked /\ request # None
        => b \in Service!Browser /\ b # None
    BY ServiceAssumption DEF Service!Browser, Service!Kind
  <1>2. request # None /\ request.browser = None => lives + 1 \in 0 .. MaxAsked
    BY ServiceAssumption DEF ServiceInv, ServiceTypes, Service!TypeOK, RequestInv
  <1>3. request # None /\ request.browser = None /\ request' = Service!On("drive", b) => request' # None /\ request'.browser = b
    BY <1>1, <1>2, OnIs
  <1>4. CASE Service!Launch
    <2>1. /\ request # None /\ request.stage = "launch" /\ lives' = lives + 1
          /\ alive' = Service!Held(scripts) \cup {lives + 1} /\ request' = Service!On("drive", b) /\ session' = b
          /\ UNCHANGED <<setting, half, linked, changes, crashed, manager, scripts, tabs, reply, served>>
      BY <1>4 DEF Service!Launch, Service!At, Service!outside
    <2>2. request.browser = None /\ request.chosen = "cloak" /\ "open" \notin tabs
      BY <2>1 DEF ServiceInv, RequestInv, TabInv
    <2>3. Holders' = scripts \cup {b} /\ scripts \subseteq Holders
      BY <1>1, <1>2, <1>3, <2>1, <2>2 DEF Holders, Service!InRequest
    <2>4. TabInv' /\ session' \in Service!Browser \cup {None}
      BY <1>1, <1>2, <2>1, <2>2 DEF TabInv
    <2> QED BY <2>1, <2>2, <2>3, <2>4, Launches
  <1>5. CASE Service!GoalLaunches
    <2>1. /\ request # None /\ request.stage = "drive" /\ request.work = "goal" /\ request.browser = None
          /\ lives' = lives + 1
          /\ alive' = alive \cup {lives + 1} /\ request' = Service!On("drive", b)
          /\ UNCHANGED <<setting, half, linked, changes, crashed, manager, session, scripts, tabs, reply, served>>
      BY <1>5 DEF Service!GoalLaunches, Service!At, Service!outside
    <2>2. request.chosen = "cloak" /\ session \in Service!Browser \cup {None} /\ "open" \notin tabs
      BY <2>1, ExtensionIs DEF ServiceInv, RequestInv, TabInv, ServiceTypes, Service!TypeOK
    <2> DEFINE H == scripts \cup {session}
    <2>3. Holders' = H \cup {b} /\ H \subseteq Holders
      BY <1>1, <1>2, <1>3, <2>1, <2>2 DEF Holders, Service!InRequest
    <2>4. alive = Service!Held(H)
      <3>1. Holders = H \cup {None}
        BY <2>1 DEF Holders, Service!InRequest
      <3>2. LivesOf(Holders) = LivesOf(H)
        BY <3>1 DEF LivesOf
      <3> QED BY <2>3, <3>2, HeldIs DEF ServiceInv
    <2>6. TabInv'
      BY <2>1, <2>2 DEF TabInv
    <2> HIDE DEF H
    <2>7. ServiceInv'
      BY <2>1, <2>2, <2>3, <2>4, <2>6, Launches
    <2> QED BY <2>7
  <1> QED BY <1>4, <1>5

LEMMA StartBridgeStep ==
  ASSUME ServiceInv, Service!StartBridge
  PROVE  ServiceInv'
  <1>1. manager' = TRUE
        /\ UNCHANGED <<setting, half, linked, changes, alive, lives, crashed, session, request, scripts, tabs, reply, served>>
    BY DEF Service!StartBridge, Service!outside, Service!browsers
  <1>2. Holders' = Holders /\ LivesOf(Holders)' = LivesOf(Holders) /\ \A b \in Holders : Owned(b)' <=> Owned(b)
    BY <1>1 DEF Holders, Service!InRequest, LivesOf, Owned
  <1> QED BY <1>1, <1>2 DEF ServiceInv, ServiceTypes, Service!TypeOK, RequestInv, TabInv, Service!BackendAsSelected

\* The request gets the extension's browser, or goes on to a tab of its own.
LEMMA ExtensionSteps ==
  ASSUME ServiceInv, Service!Attach \/ Service!OpensTab
  PROVE  ServiceInv'
  <1>1. /\ request # None /\ request.stage \in {"bridge", "tab"}
        /\ UNCHANGED <<setting, half, linked, lives, crashed, manager, scripts, reply, served>>
        /\ request.stage = "bridge" => tabs' = tabs
        /\ tabs' \subseteq tabs \cup {"open"}
    BY DEF Service!Attach, Service!OpensTab, Service!At, Service!outside, Service!browsers
  <1>2. /\ request.browser = None /\ request.chosen = "extension" /\ "open" \notin tabs
        /\ request.stage = "tab" => request.work = "goal"
        /\ lives < served
    BY <1>1 DEF ServiceInv, RequestInv, TabInv
  <1>3. \A b \in Holders \cup {Service!Extension} : b # None => Owned(b)'
    <2>1. Owned(Service!Extension)'
      BY ExtensionIs DEF Owned
    <2> QED BY <1>1, <2>1 DEF ServiceInv, ServiceTypes, Owned
  <1>4. ASSUME request' = Service!On("tab", None), request.work = "goal", UNCHANGED <<session, alive, tabs>>
        PROVE  ServiceInv'
    <2>1. /\ request' \in Service!Request /\ request' # None /\ request'.work = request.work
          /\ request'.stage = "tab" /\ request'.chosen = request.chosen /\ request'.meant = request.meant
          /\ request'.browser = None
      BY <1>1, <1>4, OnIs
    <2>2. Holders' = Holders
      BY <1>1, <1>2, <1>4, <2>1 DEF Holders, Service!InRequest
    <2>3. LivesOf(Holders)' = LivesOf(Holders)
      BY <1>1, <2>2 DEF LivesOf
    <2>4. ServiceTypes'
      BY <1>1, <1>3, <1>4, <2>1, <2>2 DEF ServiceInv, ServiceTypes, Service!TypeOK
    <2>5. RequestInv' /\ TabInv' /\ Service!BackendAsSelected'
      BY <1>1, <1>2, <1>4, <2>1 DEF ServiceInv, RequestInv, TabInv, Service!BackendAsSelected
    <2> QED BY <1>4, <2>3, <2>4, <2>5 DEF ServiceInv
  <1>5. ASSUME request' = Service!On("drive", Service!Extension),
               IF request.work = "goal" THEN UNCHANGED <<session, alive>>
               ELSE session' = Service!Extension /\ alive' = Service!Held(scripts) /\ tabs' = tabs
        PROVE  ServiceInv'
    <2>1. /\ request' \in Service!Request /\ request' # None /\ request'.work = request.work
          /\ request'.stage = "drive" /\ request'.chosen = request.chosen /\ request'.meant = request.meant
          /\ request'.browser = Service!Extension
      BY <1>1, <1>5, OnIs, ExtensionIs
    <2>2. Holders' \subseteq Holders \cup {Service!Extension}
      BY <1>1, <1>5, <2>1 DEF Holders, Service!InRequest
    <2>3. alive' = LivesOf(Holders)'
      <3>1. CASE request.work = "goal"
        <4>1. Holders' \cup {None} = Holders \cup {Service!Extension} \cup {None}
          BY <1>1, <1>2, <1>5, <2>1, <3>1 DEF Holders, Service!InRequest
        <4> QED BY <1>1, <1>5, <3>1, <4>1 DEF LivesOf, ServiceInv
      <3>2. CASE request.work # "goal"
        <4>1. Holders' = scripts \cup {Service!Extension} /\ scripts \subseteq Holders
          BY <1>1, <1>5, <2>1, <3>2 DEF Holders, Service!InRequest
        <4>2. Service!Held(scripts) = LivesOf(scripts)
          BY <4>1, HeldIs
        <4> QED BY <1>1, <1>5, <3>2, <4>1, <4>2 DEF LivesOf
      <3> QED BY <3>1, <3>2
    <2>4. alive' \subseteq alive
      BY <1>5 DEF Service!Held
    <2>5. Service!TypeOK'
      BY <1>1, <1>5, <2>1, <2>4, ExtensionIs DEF ServiceInv, ServiceTypes, Service!TypeOK
    <2>6. ServiceTypes'
      BY <1>1, <1>3, <2>2, <2>5 DEF ServiceInv, ServiceTypes
    <2>7. RequestInv'
      BY <1>1, <1>2, <1>5, <2>1, ExtensionIs DEF ServiceInv, RequestInv
    <2>8. TabInv' /\ Service!BackendAsSelected'
      BY <1>1, <1>2, <1>5, <2>1 DEF ServiceInv, TabInv, Service!BackendAsSelected
    <2> QED BY <2>3, <2>6, <2>7, <2>8 DEF ServiceInv
  <1>6. CASE Service!Attach
    BY <1>4, <1>5, <1>6 DEF Service!Attach
  <1>7. CASE Service!OpensTab
    <2>1. request.work = "goal"
      BY <1>2, <1>7 DEF Service!OpensTab, Service!At
    <2> QED BY <1>5, <1>7, <2>1 DEF Service!OpensTab, Service!browsers
  <1> QED BY <1>6, <1>7

\* The loop is done with a request that leaves its browser with its other holders.
LEMMA AnsweredKeeps ==
  ASSUME ServiceInv, request # None, NEW b \in {None, request.browser}, Service!Answers(b),
         request.browser = None \/ (request.browser = session /\ request.work # "goal"),
         "open" \notin tabs', tabs' \subseteq {"open", "left"}, None \notin scripts',
         scripts' = scripts \/ scripts' = scripts \cup {request.browser},
         UNCHANGED <<setting, half, linked, changes, alive, lives, crashed, manager, session, served>>
  PROVE  ServiceInv'
  <1>1. request' = None /\ RequestInv' /\ Service!BackendAsSelected' /\ Service!InRequest' = {}
    BY AnswersKeep
  <1>2. Holders' \subseteq Holders /\ Holders \subseteq Holders' \cup {None}
    BY <1>1 DEF Holders, Service!InRequest
  <1>3. LivesOf(Holders)' = LivesOf(Holders)
    BY <1>2 DEF LivesOf
  <1>4. ServiceTypes'
    <2>1. served' \in 0 .. MaxAsked /\ lives <= served' /\ manager' \in BOOLEAN
      BY DEF ServiceInv, ServiceTypes, Service!TypeOK
    <2> QED BY <1>1, <1>2, <2>1, TypesKeep
  <1>5. TabInv'
    BY DEF TabInv
  <1> QED BY <1>1, <1>3, <1>4, <1>5 DEF ServiceInv

LEMMA AnsweringSteps ==
  ASSUME ServiceInv,
         Service!Refuses \/ Service!ToolRuns \/ Service!ScriptStarts \/ Service!TabFails
  PROVE  ServiceInv'
  <1>0. None \notin scripts /\ tabs \subseteq {"open", "left"}
    BY ServiceAssumption DEF ServiceInv, ServiceTypes, Service!TypeOK
  <1>1. CASE Service!Refuses
    <2>1. /\ request # None /\ request.stage \in {"launch", "bridge"} /\ Service!Answers(None)
          /\ UNCHANGED <<setting, half, linked, changes, alive, lives, crashed, manager, session, scripts, tabs, served>>
      BY <1>1 DEF Service!Refuses, Service!At, Service!AnswersError, Service!outside, Service!browsers
    <2>2. request.browser = None /\ "open" \notin tabs
      BY <2>1 DEF ServiceInv, RequestInv, TabInv
    <2> QED BY <1>0, <2>1, <2>2, AnsweredKeeps
  <1>2. CASE Service!ToolRuns
    <2>1. /\ request # None /\ request.stage = "drive" /\ request.work = "tool"
          /\ Service!Answers(request.browser) \/ Service!Answers(None)
          /\ UNCHANGED <<setting, half, linked, changes, alive, lives, crashed, manager, session, scripts, tabs, served>>
      BY <1>2 DEF Service!ToolRuns, Service!At, Service!AnswersError, Service!outside, Service!browsers
    <2>2. request.browser = session /\ "open" \notin tabs
      BY <2>1 DEF ServiceInv, RequestInv, TabInv
    <2> QED BY <1>0, <2>1, <2>2, AnsweredKeeps
  <1>3. CASE Service!ScriptStarts
    <2>1. /\ request # None /\ request.stage = "drive" /\ request.work = "script"
          /\ \/ scripts' = scripts \cup {request.browser} /\ Service!Answers(request.browser)
             \/ scripts' = scripts /\ Service!Answers(None)
          /\ UNCHANGED <<setting, half, linked, changes, alive, lives, crashed, manager, session, tabs, served>>
      BY <1>3 DEF Service!ScriptStarts, Service!At, Service!AnswersError, Service!outside, Service!browsers
    <2>2. request.browser = session /\ session # None /\ "open" \notin tabs
      BY <2>1 DEF ServiceInv, RequestInv, TabInv
    <2>3. None \notin scripts'
      BY <1>0, <2>1, <2>2
    <2> QED BY <1>0, <2>1, <2>2, <2>3, AnsweredKeeps
  <1>4. CASE Service!TabFails
    <2>1. /\ request # None /\ request.stage = "tab" /\ Service!Answers(None)
          /\ tabs' \in {tabs, tabs \cup {"left"}}
          /\ UNCHANGED <<setting, half, linked, changes, alive, lives, crashed, manager, session, scripts, served>>
      BY <1>4 DEF Service!TabFails, Service!At, Service!AnswersError, Service!outside, Service!browsers
    <2>2. request.browser = None /\ "open" \notin tabs
      BY <2>1 DEF ServiceInv, RequestInv, TabInv
    <2>3. "open" \notin tabs' /\ tabs' \subseteq {"open", "left"}
      BY <1>0, <2>1, <2>2
    <2> QED BY <1>0, <2>1, <2>2, <2>3, AnsweredKeeps
  <1> QED BY <1>1, <1>2, <1>3, <1>4

\* A script or a goal ends, and what only it held.
LEMMA EndingSteps ==
  ASSUME ServiceInv, Service!GoalEnds \/ \E b \in scripts : Service!ScriptEnds(b)
  PROVE  ServiceInv'
  <1>0. None \notin scripts /\ tabs \subseteq {"open", "left"} /\ manager \in BOOLEAN
        /\ served \in 0 .. MaxAsked /\ lives <= served /\ request \in Service!Request \cup {None}
    BY ServiceAssumption DEF ServiceInv, ServiceTypes, Service!TypeOK
  <1>1. CASE Service!GoalEnds
    <2>1. /\ request # None /\ Service!Answers(request.browser)
          /\ IF "open" \in tabs
             THEN \E after \in SUBSET {"left"} : tabs' = (tabs \ {"open"}) \cup after
             ELSE tabs' = tabs
          /\ alive' = Service!Held(scripts \cup {session})
          /\ UNCHANGED <<setting, half, linked, changes, lives, crashed, manager, session, scripts, served>>
      BY <1>1 DEF Service!GoalEnds, Service!At, Service!outside
    <2>2. request' = None /\ RequestInv' /\ Service!BackendAsSelected' /\ Service!InRequest' = {}
      BY <2>1, AnswersKeep
    <2>3. "open" \notin tabs' /\ tabs' \subseteq {"open", "left"}
      <3>1. CASE "open" \in tabs
        <4>1. PICK after \in SUBSET {"left"} : tabs' = (tabs \ {"open"}) \cup after
          BY <2>1, <3>1
        <4>2. "open" \notin after
          OBVIOUS
        <4> QED BY <1>0, <4>1, <4>2
      <3>2. CASE "open" \notin tabs
        BY <1>0, <2>1, <3>2
      <3> QED BY <3>1, <3>2
    <2>4. Holders' = scripts \cup {session} /\ Holders' \subseteq Holders /\ scripts \cup {session} \subseteq Holders
      BY <2>1, <2>2 DEF Holders
    <2>5. alive' = LivesOf(Holders)'
      BY <2>1, <2>4, HeldIs DEF LivesOf
    <2>6. alive' \subseteq alive
      BY <2>1 DEF Service!Held
    <2>7. ServiceTypes'
      BY <1>0, <2>1, <2>2, <2>3, <2>4, <2>6, TypesKeep
    <2>8. TabInv'
      BY <2>3 DEF TabInv
    <2> QED BY <2>2, <2>5, <2>7, <2>8 DEF ServiceInv
  <1>2. ASSUME NEW b \in scripts, Service!ScriptEnds(b) PROVE ServiceInv'
    <2>1. /\ scripts' = scripts \ {b} /\ alive' = Service!Held(scripts' \cup {session} \cup Service!InRequest)
          /\ UNCHANGED <<setting, half, linked, changes, lives, crashed, manager, session, request, tabs, reply, served>>
      BY <1>2 DEF Service!ScriptEnds, Service!outside
    <2> DEFINE H == scripts' \cup {session} \cup Service!InRequest
    <2>2. Holders' = H /\ H \subseteq Holders
      BY <2>1 DEF Holders, Service!InRequest
    <2>3. alive' = LivesOf(H)
      BY <2>1, <2>2, HeldIs
    <2>4. alive' = LivesOf(Holders)'
      BY <2>1, <2>2, <2>3 DEF LivesOf
    <2>5. alive' \subseteq alive
      BY <2>1 DEF Service!Held
    <2> HIDE DEF H
    <2>6. ServiceTypes'
      BY <1>0, <2>1, <2>2, <2>5, TypesKeep
    <2>7. RequestInv' /\ TabInv' /\ Service!BackendAsSelected'
      BY <2>1 DEF ServiceInv, RequestInv, TabInv, Service!BackendAsSelected
    <2> QED BY <2>4, <2>6, <2>7 DEF ServiceInv
  <1> QED BY <1>1, <1>2

\* In UnitsSpec the server moves or stays.
LEMMA ServiceHolds == UnitsSpec => []ServiceInv
  <1>1. UnitsInit => ServiceInv
    <2> SUFFICES ASSUME UnitsInit PROVE ServiceInv
      OBVIOUS
    <2>1. Service!Init
      BY DEF UnitsInit
    <2>2. /\ setting \in Service!Kind /\ half = FALSE /\ linked = FALSE /\ manager = FALSE /\ session = None
          /\ alive = {} /\ lives = 0 /\ crashed = {} /\ request = None /\ scripts = {} /\ tabs = {}
          /\ reply = None /\ served = 0
      BY <2>1 DEF Service!Init
    <2>3. Holders = {None}
      BY <2>2 DEF Holders, Service!InRequest
    <2>6. 0 \in 0..MaxAsked /\ FALSE \in BOOLEAN
      BY ServiceAssumption
    <2>7. Service!TypeOK
      BY <2>2, <2>6 DEF Service!TypeOK
    <2>4. ServiceTypes
      BY <2>2, <2>3, <2>6, <2>7 DEF ServiceTypes
    <2>5. alive = LivesOf(Holders)
      BY <2>2, <2>3 DEF LivesOf
    <2> QED BY <2>2, <2>4, <2>5 DEF ServiceInv, RequestInv, TabInv, Service!BackendAsSelected
  <1>2. ServiceInv /\ UNCHANGED service => ServiceInv'
    <2> SUFFICES ASSUME ServiceInv, UNCHANGED service PROVE ServiceInv'
      OBVIOUS
    <2>1. UNCHANGED <<setting, half, linked, alive, lives, crashed, manager, session, request, scripts, tabs, reply, served>>
      BY DEF service
    <2>2. Holders' = Holders /\ LivesOf(Holders)' = LivesOf(Holders) /\ \A b \in Holders : Owned(b)' <=> Owned(b)
      BY <2>1 DEF Holders, Service!InRequest, LivesOf, Owned
    <2> QED BY <2>1, <2>2 DEF ServiceInv, ServiceTypes, Service!TypeOK, RequestInv, TabInv, Service!BackendAsSelected
  <1>3. ServiceInv /\ Service!Next => ServiceInv'
    <2> SUFFICES ASSUME ServiceInv, Service!Next PROVE ServiceInv'
      OBVIOUS
    <2> QED BY OutsideStep, TakesStep, SelectsStep, LaunchSteps, StartBridgeStep, ExtensionSteps,
               AnsweringSteps, EndingSteps DEF Service!Next
  <1>4. ServiceInv /\ [UnitsNext]_units => ServiceInv'
    BY <1>2, <1>3 DEF UnitsNext, units
  <1> QED BY <1>1, <1>4, PTL DEF UnitsSpec

\* Whatever changes around the MCP server while a request is served: the request
\* drives the browser that was selected when it was taken up, a CloakBrowser lives
\* exactly as long as a holder, and the tab of a goal is driven by that goal alone: after
\* it the tab is closed, or left with nobody to drive it when closing it failed
\* (mcp-server/src/server.rs ensure_browser_context, RealGoalExecutor::execute).
THEOREM BrowsersAreKept == UnitsSpec => []ServiceKept
  <1>1. ServiceInv => ServiceKept
    BY DEF ServiceInv, ServiceKept, TabInv, LivesOf, Holders, Service!BrowsersAreHeld, Service!At
  <1> QED BY <1>1, ServiceHolds, PTL

-----------------------------------------------------------------------------
(* settings.json and credentials.json.                                     *)

\* Where a writer is when it has a file open.
ConfigTypes ==
  /\ DOMAIN file = {"settings", "credentials", "temp"}
  /\ \A n \in DOMAIN file : file[n] \in Inode \cup {Config!Missing}
  /\ content \in [Inode -> Config!Entries \cup {Config!Torn}]
  /\ pc \in [Writer -> {"idle", "loaded", "opened", "written"}]
  /\ doing \in [Writer -> Config!Store]
  /\ copy \in [Writer -> Config!Entries]
  /\ fd \in [Writer -> Inode \cup {Config!Missing}]
  /\ saved \in [Config!Store -> Config!Entries]
  /\ overlap \subseteq Config!Store /\ cut \in BOOLEAN
  /\ updates \in [Writer -> 0 .. MaxUpdates]

\* The names lead to different inodes; settings.json is written in its place, and
\* whoever writes credentials has an inode that is not that of settings.json.
NamesInv ==
  /\ \A m, n \in DOMAIN file : m # n /\ file[m] # Config!Missing => file[m] # file[n]
  /\ \A w \in Writer :
       /\ pc[w] = "opened" => fd[w] # Config!Missing
       /\ fd[w] # Config!Missing =>
            /\ pc[w] = "opened"
            /\ doing[w] = "settings" => fd[w] = file["settings"]
            /\ doing[w] = "credentials" => fd[w] # file["settings"]
       /\ pc[w] = "written" => doing[w] = "credentials"

\* A file without overlap has one writer at most, and its copy is what the
\* completed updates add up to, with its own entry on top.
AloneInv ==
  \A s \in Config!Store \ overlap :
    \A w \in Writer : pc[w] # "idle" /\ doing[w] = s =>
      /\ \A v \in Writer : pc[v] # "idle" /\ doing[v] = s => v = w
      /\ ~(cut /\ s = "settings") => copy[w] = [saved[s] EXCEPT ![w] = copy[w][w]]

\* settings.json, on a machine that was never killed inside its write.
SettingsInv ==
  "settings" \notin overlap =>
    /\ \A w \in Writer : pc[w] = "opened" /\ doing[w] = "settings" =>
         content[fd[w]] = Config!Torn
    /\ ~cut /\ (\A w \in Writer : pc[w] = "opened" => doing[w] # "settings") =>
         Config!Parsed("settings") = saved["settings"]

\* credentials.json: nobody writes its inode, and the name of the temporary file
\* leads to what the one writer has written.
CredentialsInv ==
  "credentials" \notin overlap =>
    /\ Config!Parsed("credentials") = saved["credentials"]
    /\ \A w \in Writer : doing[w] = "credentials" =>
         /\ pc[w] = "opened" => fd[w] = file["temp"] /\ content[fd[w]] = Config!Torn
         /\ pc[w] = "written" => file["temp"] # Config!Missing /\ content[file["temp"]] = copy[w]

ConfigInv == ConfigTypes /\ NamesInv /\ AloneInv /\ SettingsInv /\ CredentialsInv

\* Some inode is neither named nor open: there are more than names and writers.
LEMMA FreeIsFree ==
  ConfigTypes => /\ Config!Free \in Inode
                 /\ \A n \in DOMAIN file : file[n] # Config!Free
                 /\ \A w \in Writer : fd[w] # Config!Free
  <1> SUFFICES ASSUME ConfigTypes
               PROVE  \E i \in Inode : (\A n \in DOMAIN file : file[n] # i)
                                              /\ \A w \in Writer : fd[w] # i
    BY DEF Config!Free, ConfigTypes
  <1> DEFINE Open == {fd[w] : w \in Writer}
             One == Open \cup {file["settings"]}
             Two == One \cup {file["credentials"]}
             Taken == Two \cup {file["temp"]}
  <1>1. fd \in Surjection(Writer, Open)
    BY DEF ConfigTypes, Surjection
  <1>2. IsFiniteSet(Open) /\ Cardinality(Open) <= Cardinality(Writer)
    BY <1>1, FS_Surjection, FilesAssumption
  <1>3. Cardinality(Writer) \in Nat /\ Cardinality(Open) \in Nat
    BY <1>2, FS_CardinalityType, FilesAssumption
  <1>4. /\ \A n \in DOMAIN file : file[n] \in Taken
        /\ \A w \in Writer : fd[w] \in Taken
    BY DEF ConfigTypes
  <1> HIDE DEF Open
  <1>5. IsFiniteSet(One) /\ Cardinality(One) \in Nat /\ Cardinality(One) <= Cardinality(Writer) + 1
    <2>1. IsFiniteSet(One) /\ (Cardinality(One) = Cardinality(Open) \/ Cardinality(One) = Cardinality(Open) + 1)
      BY <1>2, FS_AddElement
    <2> QED BY <2>1, <1>2, <1>3
  <1> HIDE DEF One
  <1>6. IsFiniteSet(Two) /\ Cardinality(Two) \in Nat /\ Cardinality(Two) <= Cardinality(Writer) + 2
    <2>1. IsFiniteSet(Two) /\ (Cardinality(Two) = Cardinality(One) \/ Cardinality(Two) = Cardinality(One) + 1)
      BY <1>5, FS_AddElement
    <2> QED BY <2>1, <1>3, <1>5
  <1> HIDE DEF Two
  <1>7. IsFiniteSet(Taken) /\ Cardinality(Taken) \in Nat /\ Cardinality(Taken) <= Cardinality(Writer) + 3
    <2>1. IsFiniteSet(Taken) /\ (Cardinality(Taken) = Cardinality(Two) \/ Cardinality(Taken) = Cardinality(Two) + 1)
      BY <1>6, FS_AddElement
    <2> QED BY <2>1, <1>3, <1>6
  <1> HIDE DEF Taken
  <1>8. Cardinality(Inode) \in Nat /\ Cardinality(Inode) > Cardinality(Writer) + 3
    BY FS_CardinalityType, FilesAssumption
  <1>9. ~(Inode \subseteq Taken)
    <2> SUFFICES ASSUME Inode \subseteq Taken PROVE FALSE
      OBVIOUS
    <2>1. Cardinality(Inode) <= Cardinality(Taken)
      BY <1>7, FS_Subset
    <2> QED BY <2>1, <1>3, <1>7, <1>8
  <1> QED BY <1>4, <1>9

\* What a writer has in memory is never what a half-written file parses to.
LEMMA TornIsNoEntries ==
  /\ \A w \in Writer : Config!Torn \notin Config!Entries
  /\ Config!Missing \notin Inode
  /\ Config!Defaults \in Config!Entries
  BY FilesAssumption DEF Config!Torn, Config!Entries, Config!Missing, Config!Defaults

\* A file as it parses is a set of entries.
LEMMA ParsedType ==
  ASSUME ConfigTypes, NEW s \in Config!Store
  PROVE  Config!Parsed(s) \in Config!Entries
  BY TornIsNoEntries DEF Config!Parsed, ConfigTypes, Config!Store

\* A file without overlap that a writer loads has no other writer, and the copy is
\* what the completed updates add up to.
LEMMA LoadsKeeps ==
  ASSUME ConfigInv, NEW w \in Writer, NEW s \in Config!Store, Config!Loads(w, s)
  PROVE  ConfigInv'
  <1> DEFINE c == [Config!Parsed(s) EXCEPT ![w] = updates'[w]]
  <1>1. /\ pc[w] = "idle" /\ updates[w] < MaxUpdates
        /\ updates' = [updates EXCEPT ![w] = @ + 1] /\ doing' = [doing EXCEPT ![w] = s]
        /\ copy' = [copy EXCEPT ![w] = c] /\ pc' = [pc EXCEPT ![w] = "loaded"]
        /\ overlap' = IF \E v \in Writer : pc[v] # "idle" /\ doing[v] = s
                      THEN overlap \cup {s} ELSE overlap
        /\ UNCHANGED <<file, content, fd, saved, cut>>
    BY DEF Config!Loads, Config!Base
  <1>2. Config!Parsed(s) \in Config!Entries
    BY ParsedType DEF ConfigInv
  <1>3. updates'[w] \in 0 .. MaxUpdates /\ updates' \in [Writer -> 0 .. MaxUpdates]
    BY <1>1, FilesAssumption DEF ConfigInv, ConfigTypes
  <1>4. c \in Config!Entries /\ c = [Config!Parsed(s) EXCEPT ![w] = c[w]]
    BY <1>2, <1>3 DEF Config!Entries
  <1>5. fd[w] = Config!Missing
    BY <1>1 DEF ConfigInv, NamesInv
  <1> HIDE DEF c
  <1>6. ConfigTypes'
    BY <1>1, <1>3, <1>4 DEF ConfigInv, ConfigTypes
  <1>7. NamesInv'
    BY <1>1, <1>5 DEF ConfigInv, ConfigTypes, NamesInv
  <1>8. \A x \in Config!Store : Config!Parsed(x)' = Config!Parsed(x)
    BY <1>1 DEF Config!Parsed
  <1>9. s \notin overlap' =>
          /\ \A v \in Writer : pc[v] # "idle" => doing[v] # s
          /\ s \notin overlap
    BY <1>1
  <1>10. s \notin overlap' /\ ~(cut /\ s = "settings") => Config!Parsed(s) = saved[s]
    BY <1>9 DEF ConfigInv, SettingsInv, CredentialsInv, Config!Store
  <1>11. AloneInv'
    <2> SUFFICES ASSUME NEW x \in Config!Store \ overlap', NEW v \in Writer, pc'[v] # "idle", doing'[v] = x
                 PROVE  /\ \A u \in Writer : pc'[u] # "idle" /\ doing'[u] = x => u = v
                        /\ ~(cut' /\ x = "settings") => copy'[v] = [saved'[x] EXCEPT ![v] = copy'[v][v]]
      BY DEF AloneInv
    <2>1. x \notin overlap
      BY <1>1
    <2>2. CASE v = w
      <3>1. x = s
        BY <1>1, <2>2 DEF ConfigInv, ConfigTypes
      <3>2. copy'[v] = c
        BY <1>1, <2>2 DEF ConfigInv, ConfigTypes
      <3>3. \A u \in Writer : pc'[u] # "idle" /\ doing'[u] = x => u = v
        BY <1>1, <1>9, <2>2, <3>1 DEF ConfigInv, ConfigTypes
      <3>4. ~(cut' /\ x = "settings") => Config!Parsed(s) = saved'[x]
        BY <1>1, <1>10, <3>1
      <3> QED BY <1>4, <2>2, <3>2, <3>3, <3>4
    <2>3. CASE v # w
      <3>1. pc[v] # "idle" /\ doing[v] = x /\ copy'[v] = copy[v]
        BY <1>1, <2>3 DEF ConfigInv, ConfigTypes
      <3>2. x # s
        BY <1>9, <3>1
      <3> QED BY <1>1, <2>1, <2>3, <3>1, <3>2 DEF ConfigInv, ConfigTypes, AloneInv
    <2> QED BY <2>2, <2>3
  <1>12. SettingsInv'
    BY <1>1, <1>8 DEF ConfigInv, ConfigTypes, SettingsInv, Config!Store
  <1>13. CredentialsInv'
    BY <1>1, <1>8 DEF ConfigInv, ConfigTypes, CredentialsInv, Config!Store
  <1> QED BY <1>6, <1>7, <1>11, <1>12, <1>13 DEF ConfigInv

\* Nobody else has the inode that a writer truncates, but for writers of its file.
LEMMA OpensKeeps ==
  ASSUME ConfigInv, NEW w \in Writer, Config!Opens(w)
  PROVE  ConfigInv'
  <1> DEFINE name == Config!Written(doing[w])
             i == IF file[name] = Config!Missing THEN Config!Free ELSE file[name]
  <1>1. /\ pc[w] = "loaded" /\ file' = [file EXCEPT ![name] = i]
        /\ content' = [content EXCEPT ![i] = Config!Torn] /\ fd' = [fd EXCEPT ![w] = i]
        /\ pc' = [pc EXCEPT ![w] = "opened"] /\ UNCHANGED <<doing, copy, saved, overlap, cut, updates>>
    BY DEF Config!Opens, Config!ghost
  <1>2. /\ doing[w] \in {"settings", "credentials"}
        /\ name = IF doing[w] = "credentials" THEN "temp" ELSE "settings"
    BY DEF ConfigInv, ConfigTypes, Config!Store, Config!Written
  <1>3. /\ i \in Inode
        /\ \A n \in DOMAIN file : n # name => file[n] # i
        /\ file[name] # Config!Missing => file[name] = i
        /\ file[name] = Config!Missing => \A v \in Writer : fd[v] # i
    BY <1>2, FreeIsFree, TornIsNoEntries DEF ConfigInv, ConfigTypes, NamesInv
  <1>4. i # Config!Missing
    BY <1>3, TornIsNoEntries
  <1>5. \A v \in Writer : fd[v] # Config!Missing => pc[v] = "opened"
    BY DEF ConfigInv, NamesInv
  <1> HIDE DEF i, name
  <1>6. ConfigTypes'
    BY <1>1, <1>2, <1>3 DEF ConfigInv, ConfigTypes
  <1>7. DOMAIN file' = DOMAIN file /\ file'[name] = i /\ \A n \in DOMAIN file : n # name => file'[n] = file[n]
    BY <1>1, <1>2 DEF ConfigInv, ConfigTypes
  <1>8. NamesInv'
    <2>1. \A m, n \in DOMAIN file' : m # n /\ file'[m] # Config!Missing => file'[m] # file'[n]
      BY <1>3, <1>4, <1>7 DEF ConfigInv, NamesInv
    <2>2. ASSUME NEW v \in Writer
          PROVE  /\ pc'[v] = "opened" => fd'[v] # Config!Missing
                 /\ fd'[v] # Config!Missing =>
                      /\ pc'[v] = "opened"
                      /\ doing'[v] = "settings" => fd'[v] = file'["settings"]
                      /\ doing'[v] = "credentials" => fd'[v] # file'["settings"]
                 /\ pc'[v] = "written" => doing'[v] = "credentials"
      <3>1. CASE v = w
        <4>1. fd'[v] = i /\ pc'[v] = "opened" /\ doing'[v] = doing[w]
          BY <1>1, <3>1 DEF ConfigInv, ConfigTypes
        <4>2. doing[w] = "credentials" => file'["settings"] # i
          BY <1>2, <1>3, <1>7 DEF ConfigInv, ConfigTypes
        <4> QED BY <1>2, <1>4, <1>7, <4>1, <4>2
      <3>2. CASE v # w
        <4>1. fd'[v] = fd[v] /\ pc'[v] = pc[v] /\ doing'[v] = doing[v]
          BY <1>1, <3>2 DEF ConfigInv, ConfigTypes
        <4>2. fd[v] # Config!Missing /\ doing[v] = "settings" => file'["settings"] = file["settings"]
          BY <1>3, <1>4, <1>7 DEF ConfigInv, ConfigTypes, NamesInv
        <4>3. fd[v] # Config!Missing /\ doing[v] = "credentials" => fd[v] # file'["settings"]
          BY <1>2, <1>3, <1>7 DEF ConfigInv, ConfigTypes, NamesInv
        <4> QED BY <4>1, <4>2, <4>3 DEF ConfigInv, NamesInv
      <3> QED BY <3>1, <3>2
    <2> QED BY <2>1, <2>2 DEF NamesInv
  <1>9. AloneInv'
    BY <1>1 DEF ConfigInv, ConfigTypes, AloneInv
  <1>10. \A j \in Inode : content'[j] = IF j = i THEN Config!Torn ELSE content[j]
    BY <1>1, <1>3 DEF ConfigInv, ConfigTypes
  <1>11. SettingsInv'
    <2> SUFFICES ASSUME "settings" \notin overlap PROVE SettingsInv'
      BY <1>1 DEF SettingsInv
    <2>1. ASSUME NEW v \in Writer, pc'[v] = "opened", doing'[v] = "settings"
          PROVE  content'[fd'[v]] = Config!Torn
      <3>1. fd'[v] \in Inode
        BY <1>6, <1>8, <2>1 DEF ConfigTypes, NamesInv
      <3>2. CASE v = w
        BY <1>1, <1>10, <3>1, <3>2 DEF ConfigInv, ConfigTypes
      <3>3. CASE v # w
        <4>1. pc[v] = "opened" /\ doing[v] = "settings" /\ fd'[v] = fd[v]
          BY <1>1, <2>1, <3>3 DEF ConfigInv, ConfigTypes
        <4> QED BY <1>10, <2>1, <3>1, <4>1 DEF ConfigInv, SettingsInv
      <3> QED BY <3>2, <3>3
    <2>2. ASSUME ~cut', \A v \in Writer : pc'[v] = "opened" => doing'[v] # "settings"
          PROVE  Config!Parsed("settings")' = saved'["settings"]
      <3>1. doing[w] = "credentials"
        BY <1>1, <1>2, <2>2 DEF ConfigInv, ConfigTypes
      <3>2. file'["settings"] = file["settings"] /\ file["settings"] # i
        BY <1>2, <1>3, <1>7, <3>1 DEF ConfigInv, ConfigTypes
      <3>3. Config!Parsed("settings")' = Config!Parsed("settings")
        BY <1>10, <3>2 DEF Config!Parsed, ConfigInv, ConfigTypes
      <3>4. \A v \in Writer : pc[v] = "opened" => doing[v] # "settings"
        BY <1>1, <2>2 DEF ConfigInv, ConfigTypes
      <3> QED BY <1>1, <2>2, <3>3, <3>4 DEF ConfigInv, SettingsInv
    <2> QED BY <2>1, <2>2 DEF SettingsInv
  <1>12. CredentialsInv'
    <2> SUFFICES ASSUME "credentials" \notin overlap PROVE CredentialsInv'
      BY <1>1 DEF CredentialsInv
    <2>1. file'["credentials"] = file["credentials"] /\ file["credentials"] # i
      BY <1>2, <1>3, <1>7 DEF ConfigInv, ConfigTypes
    <2>2. Config!Parsed("credentials")' = Config!Parsed("credentials")
      BY <1>10, <2>1 DEF Config!Parsed, ConfigInv, ConfigTypes
    <2>3. ASSUME NEW v \in Writer, doing'[v] = "credentials"
          PROVE  /\ pc'[v] = "opened" => fd'[v] = file'["temp"] /\ content'[fd'[v]] = Config!Torn
                 /\ pc'[v] = "written" => file'["temp"] # Config!Missing /\ content'[file'["temp"]] = copy'[v]
      <3>1. CASE v = w
        <4>1. fd'[v] = i /\ pc'[v] = "opened" /\ doing[w] = "credentials"
          BY <1>1, <2>3, <3>1 DEF ConfigInv, ConfigTypes
        <4> QED BY <1>2, <1>3, <1>7, <1>10, <4>1
      <3>2. CASE v # w
        <4>1. fd'[v] = fd[v] /\ pc'[v] = pc[v] /\ doing[v] = "credentials" /\ copy'[v] = copy[v]
          BY <1>1, <2>3, <3>2 DEF ConfigInv, ConfigTypes
        <4>2. SUFFICES ASSUME pc[v] \in {"opened", "written"}
                       PROVE  /\ pc[v] = "opened" => fd[v] = file'["temp"] /\ content'[fd[v]] = Config!Torn
                              /\ pc[v] = "written" => file'["temp"] # Config!Missing /\ content'[file'["temp"]] = copy[v]
          BY <4>1
        <4>3. doing[w] = "settings"
          BY <1>1, <1>2, <3>2, <4>1, <4>2 DEF ConfigInv, AloneInv, Config!Store
        <4>4. file'["temp"] = file["temp"] /\ file["temp"] # i
          BY <1>2, <1>3, <1>7, <4>3 DEF ConfigInv, ConfigTypes
        <4>5. pc[v] = "opened" => fd[v] = file["temp"] /\ content[fd[v]] = Config!Torn
          BY <4>1 DEF ConfigInv, CredentialsInv
        <4>6. pc[v] = "written" => file["temp"] # Config!Missing /\ content[file["temp"]] = copy[v]
          BY <4>1 DEF ConfigInv, CredentialsInv
        <4>7. pc[v] = "opened" => fd[v] \in Inode
          BY DEF ConfigInv, ConfigTypes, NamesInv
        <4>8. file["temp"] # Config!Missing => file["temp"] \in Inode
          BY DEF ConfigInv, ConfigTypes
        <4> QED BY <1>10, <4>4, <4>5, <4>6, <4>7, <4>8
      <3> QED BY <3>1, <3>2
    <2>4. Config!Parsed("credentials")' = saved'["credentials"]
      BY <1>1, <2>2 DEF ConfigInv, CredentialsInv
    <2> QED BY <2>3, <2>4 DEF CredentialsInv
  <1> QED BY <1>6, <1>8, <1>9, <1>11, <1>12 DEF ConfigInv

\* Where nobody overlaps, what is written over is what the open left empty.
LEMMA WritesKeeps ==
  ASSUME ConfigInv, NEW w \in Writer, Config!Writes(w)
  PROVE  ConfigInv'
  <1>1. /\ pc[w] = "opened" /\ fd' = [fd EXCEPT ![w] = Config!Missing]
        /\ UNCHANGED <<file, doing, copy, overlap, cut, updates>>
    BY DEF Config!Writes
  <1>2. fd[w] \in Inode /\ fd[w] # Config!Missing
    BY <1>1 DEF ConfigInv, ConfigTypes, NamesInv
  <1>3. PICK c \in {copy[w], Config!Torn} :
          content' = [content EXCEPT ![fd[w]] = c] /\ (c # copy[w] => content[fd[w]] # Config!Torn)
    BY DEF Config!Writes
  <1>4. copy[w] \in Config!Entries
    BY DEF ConfigInv, ConfigTypes
  <1>5. \A j \in Inode : content'[j] = IF j = fd[w] THEN c ELSE content[j]
    BY <1>2, <1>3 DEF ConfigInv, ConfigTypes
  <1>6. doing[w] \in {"settings", "credentials"}
    BY DEF ConfigInv, ConfigTypes, Config!Store
  <1>7. copy[w][w] \in 0 .. MaxUpdates
    BY <1>4 DEF Config!Entries
  <1>8. CASE doing[w] = "settings"
    <2>1. /\ pc' = [pc EXCEPT ![w] = "idle"]
          /\ saved' = [saved EXCEPT !["settings"] = [saved["settings"] EXCEPT ![w] = copy[w][w]]]
      BY <1>8 DEF Config!Writes, Config!Completed
    <2>2. [saved["settings"] EXCEPT ![w] = copy[w][w]] \in Config!Entries
      BY <1>7 DEF ConfigInv, ConfigTypes, Config!Store, Config!Entries
    <2>3. ConfigTypes'
      BY <1>1, <1>3, <1>4, <2>1, <2>2 DEF ConfigInv, ConfigTypes, Config!Store
    <2>4. NamesInv'
      BY <1>1, <2>1 DEF ConfigInv, ConfigTypes, NamesInv
    <2>5. saved'["credentials"] = saved["credentials"]
          /\ saved'["settings"] = [saved["settings"] EXCEPT ![w] = copy[w][w]]
      BY <2>1 DEF ConfigInv, ConfigTypes, Config!Store
    <2>6. file["settings"] = fd[w]
      BY <1>2, <1>8 DEF ConfigInv, NamesInv
    <2>7. "settings" \notin overlap => \A v \in Writer : pc'[v] # "idle" => doing[v] # "settings"
      BY <1>1, <1>8, <2>1 DEF ConfigInv, ConfigTypes, AloneInv, Config!Store
    <2>8. AloneInv'
      BY <1>1, <2>1, <2>5, <2>7 DEF ConfigInv, ConfigTypes, AloneInv, Config!Store
    <2>9. "settings" \notin overlap => c = copy[w]
      BY <1>1, <1>3, <1>8 DEF ConfigInv, SettingsInv
    <2>10. "settings" \notin overlap /\ ~cut => copy[w] = saved'["settings"]
      BY <1>1, <1>8, <2>5 DEF ConfigInv, AloneInv, Config!Store
    <2>11. "settings" \notin overlap => Config!Parsed("settings")' = copy[w]
      BY <1>1, <1>2, <1>4, <1>5, <2>6, <2>9, TornIsNoEntries DEF Config!Parsed
    <2>12. SettingsInv'
      BY <1>1, <2>7, <2>10, <2>11 DEF SettingsInv
    <2>13. file["credentials"] # fd[w] /\ file["temp"] # fd[w]
      BY <1>2, <2>6 DEF ConfigInv, ConfigTypes, NamesInv
    <2>14. Config!Parsed("credentials")' = Config!Parsed("credentials")
      BY <1>1, <1>5, <2>13 DEF Config!Parsed, ConfigInv, ConfigTypes
    <2>15. ASSUME NEW v \in Writer, doing'[v] = "credentials"
           PROVE  v # w /\ pc'[v] = pc[v] /\ fd'[v] = fd[v] /\ doing[v] = "credentials" /\ copy'[v] = copy[v]
      BY <1>1, <1>8, <2>1, <2>15 DEF ConfigInv, ConfigTypes
    <2>16. file["temp"] # Config!Missing => content'[file["temp"]] = content[file["temp"]]
      BY <1>5, <2>13 DEF ConfigInv, ConfigTypes
    <2>17. CredentialsInv'
      <3> SUFFICES ASSUME "credentials" \notin overlap PROVE CredentialsInv'
        BY <1>1 DEF CredentialsInv
      <3>1. Config!Parsed("credentials")' = saved'["credentials"]
        BY <2>5, <2>14 DEF ConfigInv, CredentialsInv
      <3>2. ASSUME NEW v \in Writer, doing'[v] = "credentials"
            PROVE  /\ pc'[v] = "opened" => fd'[v] = file'["temp"] /\ content'[fd'[v]] = Config!Torn
                   /\ pc'[v] = "written" => file'["temp"] # Config!Missing /\ content'[file'["temp"]] = copy'[v]
        BY <1>1, <2>15, <2>16, <3>2 DEF ConfigInv, CredentialsInv, NamesInv
      <3> QED BY <3>1, <3>2 DEF CredentialsInv
    <2> QED BY <2>3, <2>4, <2>8, <2>12, <2>17 DEF ConfigInv
  <1>9. CASE doing[w] = "credentials"
    <2>1. pc' = [pc EXCEPT ![w] = "written"] /\ saved' = saved
      BY <1>9 DEF Config!Writes
    <2>2. ConfigTypes'
      BY <1>1, <1>3, <1>4, <2>1 DEF ConfigInv, ConfigTypes
    <2>3. NamesInv'
      BY <1>1, <1>9, <2>1 DEF ConfigInv, ConfigTypes, NamesInv
    <2>4. AloneInv'
      BY <1>1, <2>1 DEF ConfigInv, ConfigTypes, AloneInv
    <2>5. file["settings"] # fd[w]
      BY <1>2, <1>9 DEF ConfigInv, NamesInv
    <2>6. Config!Parsed("settings")' = Config!Parsed("settings")
      BY <1>1, <1>5, <2>5 DEF Config!Parsed, ConfigInv, ConfigTypes
    <2>7. ASSUME NEW v \in Writer, doing[v] = "settings"
          PROVE  v # w /\ pc'[v] = pc[v] /\ fd'[v] = fd[v]
      BY <1>1, <1>9, <2>1, <2>7 DEF ConfigInv, ConfigTypes
    <2>8. SettingsInv'
      <3> SUFFICES ASSUME "settings" \notin overlap PROVE SettingsInv'
        BY <1>1 DEF SettingsInv
      <3>1. ASSUME NEW v \in Writer, pc'[v] = "opened", doing'[v] = "settings"
            PROVE  content'[fd'[v]] = Config!Torn
        <4>1. fd'[v] = fd[v] /\ pc[v] = "opened" /\ fd[v] \in Inode /\ doing[v] = "settings"
          BY <1>1, <2>7, <3>1 DEF ConfigInv, ConfigTypes, NamesInv
        <4>2. fd[v] # fd[w]
          BY <2>5, <4>1, TornIsNoEntries DEF ConfigInv, NamesInv
        <4> QED BY <1>5, <4>1, <4>2 DEF ConfigInv, SettingsInv
      <3>2. ASSUME ~cut', \A v \in Writer : pc'[v] = "opened" => doing'[v] # "settings"
            PROVE  Config!Parsed("settings")' = saved'["settings"]
        BY <1>1, <2>1, <2>6, <2>7, <3>2 DEF ConfigInv, SettingsInv
      <3> QED BY <3>1, <3>2 DEF SettingsInv
    <2>9. CredentialsInv'
      <3> SUFFICES ASSUME "credentials" \notin overlap PROVE CredentialsInv'
        BY <1>1 DEF CredentialsInv
      <3>1. fd[w] = file["temp"] /\ content[fd[w]] = Config!Torn
        BY <1>1, <1>9 DEF ConfigInv, CredentialsInv
      <3>2. c = copy[w]
        BY <1>3, <3>1
      <3>3. file["credentials"] # fd[w]
        BY <1>2, <3>1 DEF ConfigInv, ConfigTypes, NamesInv
      <3>4. Config!Parsed("credentials")' = Config!Parsed("credentials")
        BY <1>1, <1>5, <3>3 DEF Config!Parsed, ConfigInv, ConfigTypes
      <3>5. ASSUME NEW v \in Writer, doing'[v] = "credentials", pc'[v] # "idle" PROVE v = w
        BY <1>1, <1>9, <2>1, <3>5 DEF ConfigInv, ConfigTypes, AloneInv, Config!Store
      <3>6. content'[file'["temp"]] = copy'[w] /\ file'["temp"] # Config!Missing /\ pc'[w] = "written"
        BY <1>1, <1>2, <1>5, <2>1, <3>1, <3>2 DEF ConfigInv, ConfigTypes
      <3>7. Config!Parsed("credentials")' = saved'["credentials"]
        BY <2>1, <3>4 DEF ConfigInv, CredentialsInv
      <3> QED BY <3>5, <3>6, <3>7 DEF CredentialsInv
    <2> QED BY <2>2, <2>3, <2>4, <2>8, <2>9 DEF ConfigInv
  <1> QED BY <1>6, <1>8, <1>9

\* Without overlap the temporary file is there, and is this writer's.
LEMMA RenamesKeeps ==
  ASSUME ConfigInv, NEW w \in Writer, Config!Renames(w)
  PROVE  ConfigInv'
  <1>1. /\ pc[w] = "written" /\ pc' = [pc EXCEPT ![w] = "idle"]
        /\ UNCHANGED <<content, doing, copy, fd, overlap, cut, updates>>
    BY DEF Config!Renames
  <1>2. doing[w] = "credentials"
    BY <1>1 DEF ConfigInv, NamesInv
  <1>3. fd[w] = Config!Missing
    BY <1>1 DEF ConfigInv, NamesInv
  <1>4. \A v \in Writer : pc'[v] # "idle" => v # w /\ pc'[v] = pc[v]
    BY <1>1 DEF ConfigInv, ConfigTypes
  <1>5. \A v \in Writer : pc'[v] = IF v = w THEN "idle" ELSE pc[v]
    BY <1>1 DEF ConfigInv, ConfigTypes
  <1>6. CASE file["temp"] = Config!Missing
    <2>1. UNCHANGED <<file, saved>>
      BY <1>6 DEF Config!Renames
    <2>2. "credentials" \in overlap
      BY <1>1, <1>2, <1>6 DEF ConfigInv, ConfigTypes, CredentialsInv
    <2>3. ConfigTypes'
      BY <1>1, <2>1 DEF ConfigInv, ConfigTypes
    <2>4. NamesInv'
      BY <1>1, <1>3, <1>4, <1>5, <2>1 DEF ConfigInv, NamesInv
    <2>5. AloneInv'
      <3>1. \A v \in Writer : pc'[v] # "idle" => pc[v] # "idle" /\ doing'[v] = doing[v] /\ copy'[v] = copy[v]
        BY <1>1, <1>4
      <3> QED BY <1>1, <2>1, <3>1 DEF ConfigInv, AloneInv
    <2>6. SettingsInv'
      <3>1. Config!Parsed("settings")' = Config!Parsed("settings")
        BY <1>1, <2>1 DEF Config!Parsed
      <3>2. \A v \in Writer : pc'[v] = "opened" <=> pc[v] = "opened"
        BY <1>1, <1>5
      <3> QED BY <1>1, <2>1, <3>1, <3>2 DEF ConfigInv, SettingsInv
    <2>7. CredentialsInv'
      BY <1>1, <2>2 DEF CredentialsInv
    <2> QED BY <2>3, <2>4, <2>5, <2>6, <2>7 DEF ConfigInv
  <1>7. CASE file["temp"] # Config!Missing
    <2>1. /\ file' = [file EXCEPT !["credentials"] = file["temp"], !["temp"] = Config!Missing]
          /\ saved' = [saved EXCEPT !["credentials"] = [saved["credentials"] EXCEPT ![w] = copy[w][w]]]
      BY <1>2, <1>7 DEF Config!Renames, Config!Completed
    <2>2. /\ DOMAIN file' = DOMAIN file /\ file'["credentials"] = file["temp"]
          /\ file'["temp"] = Config!Missing /\ file'["settings"] = file["settings"]
      BY <2>1 DEF ConfigInv, ConfigTypes
    <2>3. copy[w] \in Config!Entries /\ copy[w][w] \in 0 .. MaxUpdates
      BY DEF ConfigInv, ConfigTypes, Config!Entries
    <2>4. [saved["credentials"] EXCEPT ![w] = copy[w][w]] \in Config!Entries
      BY <2>3 DEF ConfigInv, ConfigTypes, Config!Store, Config!Entries
    <2>5. ConfigTypes'
      BY <1>1, <2>1, <2>2, <2>4 DEF ConfigInv, ConfigTypes, Config!Store
    <2>6. NamesInv'
      <3>1. \A m, n \in DOMAIN file' : m # n /\ file'[m] # Config!Missing => file'[m] # file'[n]
        BY <2>2 DEF ConfigInv, ConfigTypes, NamesInv
      <3> QED BY <1>1, <1>3, <1>4, <1>5, <2>2, <3>1 DEF ConfigInv, NamesInv
    <2>7. saved'["settings"] = saved["settings"]
          /\ saved'["credentials"] = [saved["credentials"] EXCEPT ![w] = copy[w][w]]
      BY <2>1 DEF ConfigInv, ConfigTypes, Config!Store
    <2>8. "credentials" \notin overlap => \A v \in Writer : pc'[v] # "idle" => doing[v] # "credentials"
      <3> SUFFICES ASSUME "credentials" \notin overlap, NEW v \in Writer, pc'[v] # "idle", doing[v] = "credentials"
                   PROVE  FALSE
        OBVIOUS
      <3>1. v # w /\ pc[v] # "idle" /\ pc[w] # "idle"
        BY <1>1, <1>4
      <3> QED BY <1>2, <3>1 DEF ConfigInv, AloneInv, Config!Store
    <2>9. AloneInv'
      <3> SUFFICES ASSUME NEW s \in Config!Store \ overlap, NEW v \in Writer, pc'[v] # "idle", doing[v] = s
                   PROVE  /\ \A u \in Writer : pc'[u] # "idle" /\ doing[u] = s => u = v
                          /\ ~(cut /\ s = "settings") => copy[v] = [saved'[s] EXCEPT ![v] = copy[v][v]]
        <4>1. doing' = doing /\ copy' = copy /\ overlap' = overlap /\ cut' = cut
          BY <1>1
        <4> QED BY <4>1 DEF AloneInv
      <3>1. pc[v] # "idle"
        BY <1>4
      <3>2. s = "settings"
        BY <2>8 DEF Config!Store
      <3>3. saved'[s] = saved[s]
        BY <2>7, <3>2
      <3>4. \A u \in Writer : pc[u] # "idle" /\ doing[u] = s => u = v
        BY <3>1 DEF ConfigInv, AloneInv
      <3>5. ~(cut /\ s = "settings") => copy[v] = [saved[s] EXCEPT ![v] = copy[v][v]]
        BY <3>1 DEF ConfigInv, AloneInv
      <3> QED BY <1>4, <3>3, <3>4, <3>5
    <2>10. SettingsInv'
      <3>1. Config!Parsed("settings")' = Config!Parsed("settings")
        BY <1>1, <2>2 DEF Config!Parsed
      <3>2. \A v \in Writer : pc'[v] = "opened" <=> pc[v] = "opened"
        BY <1>1, <1>5
      <3> QED BY <1>1, <2>7, <3>1, <3>2 DEF ConfigInv, SettingsInv
    <2>11. CredentialsInv'
      <3> SUFFICES ASSUME "credentials" \notin overlap PROVE CredentialsInv'
        BY <1>1 DEF CredentialsInv
      <3>1. content[file["temp"]] = copy[w]
        BY <1>1, <1>2 DEF ConfigInv, CredentialsInv
      <3>2. copy[w] = saved'["credentials"]
        <4>1. "credentials" \in Config!Store \ overlap /\ pc[w] # "idle"
          BY <1>1 DEF Config!Store
        <4>2. copy[w] = [saved["credentials"] EXCEPT ![w] = copy[w][w]]
          BY <1>2, <4>1 DEF ConfigInv, AloneInv
        <4> QED BY <2>7, <4>2
      <3>3. Config!Parsed("credentials")' = saved'["credentials"]
        BY <1>1, <1>7, <2>2, <2>3, <3>1, <3>2, TornIsNoEntries DEF Config!Parsed
      <3>4. \A v \in Writer : doing'[v] = "credentials" => pc'[v] = "idle"
        BY <1>1, <2>5, <2>8 DEF ConfigTypes
      <3> QED BY <3>3, <3>4 DEF CredentialsInv
    <2> QED BY <2>5, <2>6, <2>9, <2>10, <2>11 DEF ConfigInv
  <1> QED BY <1>6, <1>7

\* A kill inside the write of settings.json is noted; elsewhere it costs nothing.
LEMMA CrashKeeps ==
  ASSUME ConfigInv, NEW w \in Writer, Config!Crash(w)
  PROVE  ConfigInv'
  <1>1. /\ pc[w] # "idle" /\ pc' = [pc EXCEPT ![w] = "idle"] /\ fd' = [fd EXCEPT ![w] = Config!Missing]
        /\ cut' = (cut \/ (pc[w] = "opened" /\ doing[w] = "settings"))
        /\ UNCHANGED <<file, content, doing, copy, saved, overlap, updates>>
    BY DEF Config!Crash
  <1>2. \A v \in Writer : /\ pc'[v] = IF v = w THEN "idle" ELSE pc[v]
                          /\ fd'[v] = IF v = w THEN Config!Missing ELSE fd[v]
    BY <1>1 DEF ConfigInv, ConfigTypes
  <1>3. ConfigTypes'
    BY <1>1 DEF ConfigInv, ConfigTypes
  <1>4. NamesInv'
    BY <1>1, <1>2 DEF ConfigInv, NamesInv
  <1>9. \A v \in Writer : pc'[v] # "idle" => pc[v] # "idle" /\ doing'[v] = doing[v] /\ copy'[v] = copy[v]
    BY <1>1, <1>2
  <1>10. overlap' = overlap /\ saved' = saved /\ (cut => cut')
    BY <1>1
  <1>5. AloneInv'
    BY <1>9, <1>10 DEF ConfigInv, AloneInv
  <1>6. \A s \in Config!Store : Config!Parsed(s)' = Config!Parsed(s)
    BY <1>1 DEF Config!Parsed
  <1>7. SettingsInv'
    <2> SUFFICES ASSUME "settings" \notin overlap PROVE SettingsInv'
      BY <1>1 DEF SettingsInv
    <2>1. \A v \in Writer : pc'[v] = "opened" => v # w /\ pc[v] = "opened" /\ fd'[v] = fd[v]
      BY <1>2
    <2>2. \A v \in Writer : pc'[v] = "opened" /\ doing'[v] = "settings" => content'[fd'[v]] = Config!Torn
      BY <1>1, <2>1 DEF ConfigInv, SettingsInv
    <2>3. ASSUME ~cut', \A v \in Writer : pc'[v] = "opened" => doing'[v] # "settings"
          PROVE  Config!Parsed("settings")' = saved'["settings"]
      <3>1. ~cut /\ \A v \in Writer : pc[v] = "opened" => doing[v] # "settings"
        BY <1>1, <1>2, <2>3
      <3>2. Config!Parsed("settings") = saved["settings"]
        BY <3>1 DEF ConfigInv, SettingsInv
      <3> QED BY <1>1, <1>6, <3>2 DEF Config!Store
    <2> QED BY <2>2, <2>3 DEF SettingsInv
  <1>8. CredentialsInv'
    BY <1>1, <1>2, <1>6 DEF ConfigInv, CredentialsInv, Config!Store
  <1> QED BY <1>3, <1>4, <1>5, <1>7, <1>8 DEF ConfigInv

\* In UnitsSpec the writers move or stay.
LEMMA ConfigHolds == UnitsSpec => []ConfigInv
  <1>1. UnitsInit => ConfigInv
    <2> SUFFICES ASSUME UnitsInit PROVE ConfigInv
      OBVIOUS
    <2>1. /\ file = [settings |-> Config!Missing, credentials |-> Config!Missing, temp |-> Config!Missing]
          /\ content = [i \in Inode |-> Config!Torn]
          /\ pc = [w \in Writer |-> "idle"] /\ doing = [w \in Writer |-> "settings"]
          /\ copy = [w \in Writer |-> Config!Defaults] /\ fd = [w \in Writer |-> Config!Missing]
          /\ saved = [s \in Config!Store |-> Config!Defaults] /\ overlap = {} /\ cut = FALSE
          /\ updates = [w \in Writer |-> 0]
      BY DEF UnitsInit, Config!Init
    <2>2. DOMAIN file = {"settings", "credentials", "temp"} /\ \A n \in DOMAIN file : file[n] = Config!Missing
      BY <2>1
    <2>5. 0 \in 0 .. MaxUpdates
      BY FilesAssumption
    <2>6. /\ content \in [Inode -> Config!Entries \cup {Config!Torn}]
          /\ copy \in [Writer -> Config!Entries]
          /\ saved \in [Config!Store -> Config!Entries]
      BY <2>1, TornIsNoEntries
    <2>7. /\ pc \in [Writer -> {"idle", "loaded", "opened", "written"}]
          /\ doing \in [Writer -> Config!Store] /\ updates \in [Writer -> 0 .. MaxUpdates]
          /\ fd \in [Writer -> Inode \cup {Config!Missing}]
      BY <2>1, <2>5 DEF Config!Store
    <2>3. ConfigTypes
      BY <2>1, <2>2, <2>6, <2>7 DEF ConfigTypes
    <2>4. \A s \in Config!Store : Config!Parsed(s) = saved[s]
      BY <2>1, <2>2 DEF Config!Parsed, Config!Store
    <2> QED BY <2>1, <2>2, <2>3, <2>4 DEF ConfigInv, NamesInv, AloneInv, SettingsInv, CredentialsInv, Config!Store
  <1>2. ConfigInv /\ UNCHANGED config => ConfigInv'
    <2> SUFFICES ASSUME ConfigInv, UNCHANGED config PROVE ConfigInv'
      OBVIOUS
    <2>1. UNCHANGED <<file, content, pc, doing, copy, fd, saved, overlap, cut, updates>>
      BY DEF config
    <2>2. \A s \in Config!Store : Config!Parsed(s)' = Config!Parsed(s)
      BY <2>1 DEF Config!Parsed
    <2> QED BY <2>1, <2>2 DEF ConfigInv, ConfigTypes, NamesInv, AloneInv, SettingsInv, CredentialsInv, Config!Store
  <1>3. ConfigInv /\ Config!Next => ConfigInv'
    BY LoadsKeeps, OpensKeeps, WritesKeeps, RenamesKeeps, CrashKeeps DEF Config!Next
  <1>4. ConfigInv /\ [UnitsNext]_units => ConfigInv'
    BY <1>2, <1>3 DEF UnitsNext, units
  <1> QED BY <1>1, <1>4, PTL DEF UnitsSpec

-----------------------------------------------------------------------------
(* The sessions of the terminal UI.                                        *)

Titles(s) == {Sessions!NoTitle, <<"auto", s>>, <<"user", s>>}
Title == UNION {Titles(s) : s \in Sessions!Session}
Content == [turns : Nat, title : Title]
File == Content \cup {Sessions!Absent, Sessions!Half}

SessionTypes ==
  /\ disk \in [Sessions!Session -> File] /\ temp \in [Sessions!Session -> File]
  /\ save \in [Sessions!Actor -> [step : {"create", "write", "rename"}, of : Sessions!Session,
                                  data : Content, at : {"nowhere", "temp", "live"}]
                                 \cup {Sessions!NotSaving}]
  /\ cli \in [session : Sessions!Session, turns : Nat, title : Title, dispatched : BOOLEAN]
  /\ slot \in Title
  /\ naming \subseteq Sessions!Session
  /\ lock \in {"free", "worker", "ui"} /\ prompts \in Nat
  /\ ui \in [busy : BOOLEAN, then : {"keys", "renaming", "clear", "refresh"},
             picker : [open : BOOLEAN, entries : SUBSET Sessions!Session,
                       current : Sessions!Session \cup {0}]]
  /\ issued \in Sessions!Session
  /\ kept \in [Sessions!Session -> Nat]
  /\ removed \subseteq Sessions!Session
  /\ gap \in BOOLEAN /\ late \in BOOLEAN

\* A session that was not issued has left nothing.
IssuedInv ==
  /\ cli.session <= issued
  /\ \A a \in Sessions!Actor : save[a].of <= issued
  /\ \A s \in Sessions!Session : s > issued => s \notin removed /\ disk[s] = Sessions!Absent
  /\ \A s \in ui.picker.entries : s <= issued

\* Who saves has the lock, but for a rename.
LockInv ==
  /\ save["worker"].step # "none" => lock = "worker"
  /\ save["ui"].step # "none" => lock = "ui" \/ ui.then = "renaming"
  /\ lock = "ui" => save["ui"].step # "none" /\ ui.then # "renaming"
  /\ ui.then # "keys" => ui.picker.open
  /\ save["ui"].step # "none" => ui.then \in {"keys", "renaming"}

\* Outside the gap the worker does nothing while the picker works on files, and
\* the session the picker took for the current one is.
PickerInv ==
  ~gap =>
    /\ ui.then # "keys" => prompts = 0 /\ lock # "worker"
    /\ ui.picker.open => ui.picker.current = cli.session
    /\ ui.then = "clear" <=> cli.session \in removed

\* Outside the gap a save goes through its steps with its file in place.
SaveInv ==
  ~gap =>
    /\ \A a \in Sessions!Actor : save[a].step # "none" =>
         /\ save[a].of \notin removed
         /\ save[a].at # "live"
         /\ save[a].step \in {"write", "rename"} => save[a].at = "temp"
         /\ save[a].step = "write" => temp[save[a].of] # Sessions!Absent
         /\ save[a].step = "rename" => temp[save[a].of] = save[a].data
    /\ save["worker"].step = "none" \/ save["ui"].step = "none"

\* Outside the gap the file of a session is its last completed save.
DiskInv ==
  ~gap => \A s \in Sessions!Session :
            /\ s \in removed => disk[s] = Sessions!Absent
            /\ disk[s] \in Content \cup {Sessions!Absent}
            /\ disk[s] = Sessions!Absent => kept[s] = 0
            /\ disk[s] # Sessions!Absent => disk[s].turns = kept[s]

\* Every place a title is kept in has one of its session.
Names(s, f) == f \in {Sessions!Absent, Sessions!Half} \/ f.title \in Titles(s)
TitleInv ==
  ~late =>
    /\ \A s \in Sessions!Session : Names(s, disk[s]) /\ Names(s, temp[s])
    /\ \A a \in Sessions!Actor : save[a].step # "none" => save[a].data.title \in Titles(save[a].of)
    /\ cli.title \in Titles(cli.session)
    /\ slot \in {Sessions!NoTitle, <<"auto", cli.session>>}

SessionInv ==
  SessionTypes /\ IssuedInv /\ LockInv /\ PickerInv /\ SaveInv /\ DiskInv /\ TitleInv

\* The kinds of a file differ, and what a save writes is neither of the others.
LEMMA ContentIsWhole ==
  /\ Sessions!Absent \notin Content /\ Sessions!Half \notin Content
  /\ Sessions!Absent # Sessions!Half
  /\ \A f \in Content : f.turns \in Nat /\ f.title \in Title
  BY DEF Content, Title, Titles, Sessions!Absent, Sessions!Half, Sessions!NoTitle

\* A save in progress, and none.
LEMMA SaveFields ==
  ASSUME SessionTypes, NEW a \in Sessions!Actor
  PROVE  /\ save[a].step # "none" => /\ save[a].step \in {"create", "write", "rename"}
                                     /\ save[a].of \in Sessions!Session /\ save[a].data \in Content
                                     /\ save[a].at \in {"nowhere", "temp", "live"}
         /\ save[a].step = "none" => save[a] = Sessions!NotSaving
  BY DEF SessionTypes, Sessions!NotSaving

\* The first session of all, and titles that are its own.
LEMMA TitlesAre ==
  ASSUME NEW s \in Sessions!Session
  PROVE  Titles(s) \subseteq Title /\ Sessions!NoTitle \in Titles(s) /\ <<"auto", s>> \in Titles(s)
         /\ <<"user", s>> \in Titles(s)
  BY DEF Titles, Title

\* What SessionInv is about.
filed == <<disk, temp, save, cli, slot, lock, issued, kept, removed, gap, late>>

\* A step of the UI that neither saves nor changes the session.
LEMMA UiSteps ==
  ASSUME SessionInv, UNCHANGED filed, naming' \subseteq Sessions!Session, prompts' \in Nat,
         ui' \in [busy : BOOLEAN, then : {"keys", "renaming", "clear", "refresh"},
                  picker : [open : BOOLEAN, entries : SUBSET Sessions!Session,
                            current : Sessions!Session \cup {0}]],
         \A s \in ui'.picker.entries : s <= issued,
         \/ UNCHANGED ui
         \/ save["ui"].step = "none" /\ ui.then \in {"keys", "refresh"} /\ ui'.then = "keys",
         ui'.then = ui.then \/ ui'.then = "keys",
         ui'.then # "keys" => ui'.picker.open /\ prompts' = prompts,
         ui'.picker.open => ui'.picker = ui.picker \/ ui'.picker.current = cli.session,
         ui'.picker = ui.picker \/ ui'.then = "keys"
  PROVE  SessionInv'
  <1>1. UNCHANGED <<disk, temp, save, cli, slot, lock, issued, kept, removed, gap, late>>
    BY DEF filed
  <1>2. SessionTypes'
    BY <1>1 DEF SessionInv, SessionTypes
  <1>3. IssuedInv'
    BY <1>1 DEF SessionInv, IssuedInv
  <1>4. LockInv'
    BY <1>1 DEF SessionInv, LockInv
  <1>5. PickerInv'
    BY <1>1 DEF SessionInv, PickerInv
  <1>6. SaveInv'
    BY <1>1 DEF SessionInv, SaveInv
  <1>7. DiskInv'
    BY <1>1 DEF SessionInv, DiskInv
  <1>8. TitleInv'
    BY <1>1 DEF SessionInv, TitleInv, Names
  <1> QED BY <1>2, <1>3, <1>4, <1>5, <1>6, <1>7, <1>8 DEF SessionInv

\* The picker lists sessions that were issued.
LEMMA ListedIs ==
  ASSUME SessionTypes, IssuedInv, NEW c
  PROVE  /\ Sessions!Listed(c).open = TRUE /\ Sessions!Listed(c).current = c
         /\ Sessions!Listed(c).entries \in SUBSET Sessions!Session
         /\ \A s \in Sessions!Listed(c).entries : s <= issued /\ disk[s] # Sessions!Absent
         /\ c \in Sessions!Session =>
              Sessions!Listed(c) \in [open : BOOLEAN, entries : SUBSET Sessions!Session,
                                      current : Sessions!Session \cup {0}]
  BY DEF Sessions!Listed, IssuedInv, Sessions!Session, SessionTypes

\* Steps that leave what the invariant is about, but for the UI's own state.
LEMMA QuietSteps ==
  ASSUME SessionInv,
         \/ Sessions!Drains \/ Sessions!Enter \/ Sessions!OpenPicker \/ Sessions!ClosePicker
         \/ Sessions!Refreshes
  PROVE  SessionInv'
  <1> DEFINE Ui == [busy : BOOLEAN, then : {"keys", "renaming", "clear", "refresh"},
                    picker : [open : BOOLEAN, entries : SUBSET Sessions!Session,
                              current : Sessions!Session \cup {0}]]
             Opened == Sessions!Listed(cli.session)
  <1>1. UNCHANGED filed /\ UNCHANGED naming
    BY DEF filed, Sessions!Drains, Sessions!Enter, Sessions!OpenPicker, Sessions!ClosePicker, Sessions!Refreshes,
           Sessions!files, Sessions!history, Sessions!Keys
  <1>2. /\ ui \in Ui /\ prompts \in Nat /\ naming \subseteq Sessions!Session /\ cli.session \in Sessions!Session
        /\ \A s \in ui.picker.entries : s <= issued
        /\ ui.then # "keys" => ui.picker.open
        /\ prompts + 1 \in Nat
    BY DEF SessionInv, SessionTypes, IssuedInv, LockInv
  <1>3. /\ Opened.open = TRUE /\ Opened.current = cli.session
        /\ Opened \in [open : BOOLEAN, entries : SUBSET Sessions!Session, current : Sessions!Session \cup {0}]
        /\ \A s \in Opened.entries : s <= issued
    BY <1>2, ListedIs DEF SessionInv
  <1>4. /\ Sessions!Closed.open = FALSE /\ Sessions!Closed.entries = {}
        /\ Sessions!Closed \in [open : BOOLEAN, entries : SUBSET Sessions!Session, current : Sessions!Session \cup {0}]
    BY DEF Sessions!Closed
  <1> HIDE DEF Opened
  <1>5. CASE Sessions!Drains
    <2>1. PICK b \in BOOLEAN : ui' = [ui EXCEPT !.busy = b]
      BY <1>5 DEF Sessions!Drains
    <2>2. UNCHANGED prompts /\ ui.then = "keys" /\ save["ui"].step = "none"
      BY <1>5 DEF Sessions!Drains
    <2>3. ui' \in Ui /\ ui'.picker = ui.picker /\ ui'.then = ui.then
      BY <1>2, <2>1
    <2> QED BY <1>1, <1>2, <2>2, <2>3, UiSteps
  <1>6. CASE Sessions!Enter
    <2>1. UNCHANGED ui /\ ui.then = "keys" /\ prompts' = prompts + 1
      BY <1>6 DEF Sessions!Enter, Sessions!Keys
    <2> QED BY <1>1, <1>2, <2>1, UiSteps
  <1>7. CASE Sessions!OpenPicker
    <2>1. /\ ui' = [ui EXCEPT !.picker = Opened] /\ UNCHANGED prompts
          /\ ui.then = "keys" /\ save["ui"].step = "none"
      BY <1>7 DEF Sessions!OpenPicker, Sessions!Keys, Opened
    <2>2. ui' \in Ui /\ ui'.picker = Opened /\ ui'.then = "keys"
      BY <1>2, <1>3, <2>1
    <2> QED BY <1>1, <1>2, <1>3, <2>1, <2>2, UiSteps
  <1>8. CASE Sessions!ClosePicker
    <2>1. /\ ui' = [ui EXCEPT !.picker = Sessions!Closed] /\ UNCHANGED prompts
          /\ ui.then = "keys" /\ save["ui"].step = "none"
      BY <1>8 DEF Sessions!ClosePicker, Sessions!InPicker
    <2>2. ui' \in Ui /\ ui'.picker = Sessions!Closed /\ ui'.then = "keys"
      BY <1>2, <1>4, <2>1
    <2> QED BY <1>1, <1>2, <1>4, <2>1, <2>2, UiSteps
  <1>9. CASE Sessions!Refreshes
    <2>1. /\ ui' = [busy |-> ui.busy, picker |-> Opened, then |-> "keys"] /\ UNCHANGED prompts
          /\ ui.then = "refresh"
      BY <1>9 DEF Sessions!Refreshes, Opened
    <2>2. ui' \in Ui /\ ui'.picker = Opened /\ ui'.then = "keys"
      BY <1>2, <1>3, <2>1
    <2>3. save["ui"].step = "none"
      BY <2>1 DEF SessionInv, LockInv
    <2> QED BY <1>1, <1>2, <1>3, <2>1, <2>2, <2>3, UiSteps
  <1> QED BY <1>5, <1>6, <1>7, <1>8, <1>9

\* save_to_path outside the gap works on its own file, and moves its own data.
LEMMA CreatesKeeps ==
  ASSUME SessionInv, NEW a \in Sessions!Actor, Sessions!Creates(a)
  PROVE  SessionInv'
  <1> DEFINE s == save[a].of
             next == [step |-> "write", of |-> s, data |-> save[a].data, at |-> "temp"]
  <1>1. /\ save[a].step = "create" /\ temp' = [temp EXCEPT ![s] = Sessions!Half]
        /\ save' = [save EXCEPT ![a] = next]
        /\ UNCHANGED <<disk, cli, slot, naming, lock, prompts, ui, issued, kept, removed, gap, late>>
    BY DEF Sessions!Creates, Sessions!WritesLive, Sessions!Reached, Sessions!history
  <1>2. s \in Sessions!Session /\ save[a].data \in Content
    BY <1>1, SaveFields DEF SessionInv
  <1>3. /\ next \in [step : {"create", "write", "rename"}, of : Sessions!Session,
                     data : Content, at : {"nowhere", "temp", "live"}]
        /\ next.step = "write" /\ next.of = s /\ next.data = save[a].data /\ next.at = "temp"
    BY <1>2
  <1>4. \A b \in Sessions!Actor : save'[b] = IF b = a THEN next ELSE save[b]
    BY <1>1 DEF SessionInv, SessionTypes
  <1>5. \A x \in Sessions!Session : temp'[x] = IF x = s THEN Sessions!Half ELSE temp[x]
    BY <1>1 DEF SessionInv, SessionTypes
  <1> HIDE DEF next
  <1>6. SessionTypes'
    BY <1>1, <1>2, <1>3, <1>5 DEF SessionInv, SessionTypes, File
  <1>7. IssuedInv'
    BY <1>1, <1>3, <1>4 DEF SessionInv, IssuedInv
  <1>8. LockInv'
    BY <1>1, <1>3, <1>4 DEF SessionInv, LockInv, Sessions!Actor
  <1>9. PickerInv'
    BY <1>1 DEF SessionInv, PickerInv
  <1>10. SaveInv'
    <2> SUFFICES ASSUME ~gap PROVE SaveInv'
      BY <1>1 DEF SaveInv
    <2>1. \A b \in Sessions!Actor : b # a => save[b].step = "none"
      BY <1>1 DEF SessionInv, SaveInv, Sessions!Actor
    <2>2. s \notin removed
      BY <1>1 DEF SessionInv, SaveInv
    <2>3. temp'[s] # Sessions!Absent
      BY <1>2, <1>5, ContentIsWhole
    <2> QED BY <1>1, <1>3, <1>4, <2>1, <2>2, <2>3 DEF SaveInv, Sessions!Actor
  <1>11. DiskInv'
    BY <1>1 DEF SessionInv, DiskInv
  <1>12. TitleInv'
    BY <1>1, <1>3, <1>4, <1>5 DEF SessionInv, TitleInv, Names
  <1> QED BY <1>6, <1>7, <1>8, <1>9, <1>10, <1>11, <1>12 DEF SessionInv

\* The write goes where the file was opened, in the gap perhaps to the live one.
LEMMA SaveWritesKeeps ==
  ASSUME SessionInv, NEW a \in Sessions!Actor, Sessions!Writes(a)
  PROVE  SessionInv'
  <1> DEFINE s == save[a].of
             next == [step |-> "rename", of |-> s, data |-> save[a].data, at |-> save[a].at]
  <1>1. /\ save[a].step = "write"
        /\ temp' = IF save[a].at = "temp" THEN [temp EXCEPT ![s] = save[a].data] ELSE temp
        /\ disk' = IF save[a].at = "live" THEN [disk EXCEPT ![s] = save[a].data] ELSE disk
        /\ save' = [save EXCEPT ![a] = next]
        /\ UNCHANGED <<cli, slot, naming, lock, prompts, ui, issued, kept, removed, gap, late>>
    BY DEF Sessions!Writes, Sessions!Reached, Sessions!history
  <1>2. s \in Sessions!Session /\ save[a].data \in Content /\ save[a].at \in {"nowhere", "temp", "live"}
    BY <1>1, SaveFields DEF SessionInv
  <1>3. /\ next \in [step : {"create", "write", "rename"}, of : Sessions!Session,
                     data : Content, at : {"nowhere", "temp", "live"}]
        /\ next.step = "rename" /\ next.of = s /\ next.data = save[a].data /\ next.at = save[a].at
    BY <1>2
  <1>4. \A b \in Sessions!Actor : save'[b] = IF b = a THEN next ELSE save[b]
    BY <1>1 DEF SessionInv, SessionTypes
  <1>5. \A x \in Sessions!Session :
          /\ temp'[x] \in {temp[x], save[a].data} /\ disk'[x] \in {disk[x], save[a].data}
          /\ x # s => temp'[x] = temp[x] /\ disk'[x] = disk[x]
    BY <1>1 DEF SessionInv, SessionTypes
  <1>6. save[a].at = "temp" => temp'[s] = save[a].data /\ disk' = disk
    BY <1>1, <1>2 DEF SessionInv, SessionTypes
  <1> HIDE DEF next
  <1>7. SessionTypes'
    <2>1. temp' \in [Sessions!Session -> File] /\ disk' \in [Sessions!Session -> File]
      BY <1>1, <1>2 DEF SessionInv, SessionTypes, File
    <2> QED BY <1>1, <1>3, <2>1 DEF SessionInv, SessionTypes
  <1>8. IssuedInv'
    <2>1. s <= issued
      BY <1>1 DEF SessionInv, IssuedInv
    <2>2. \A x \in Sessions!Session : x > issued => x # s
      BY <1>2, <2>1 DEF Sessions!Session, SessionInv, SessionTypes
    <2> QED BY <1>1, <1>3, <1>4, <1>5, <2>1, <2>2 DEF SessionInv, IssuedInv
  <1>9. LockInv'
    BY <1>1, <1>3, <1>4 DEF SessionInv, LockInv, Sessions!Actor
  <1>10. PickerInv'
    BY <1>1 DEF SessionInv, PickerInv
  <1>11. ASSUME ~gap PROVE save[a].at = "temp" /\ s \notin removed /\ \A b \in Sessions!Actor : b # a => save[b].step = "none"
    BY <1>1, <1>11 DEF SessionInv, SaveInv, Sessions!Actor
  <1>12. SaveInv'
    <2> SUFFICES ASSUME ~gap PROVE SaveInv'
      BY <1>1 DEF SaveInv
    <2> QED BY <1>1, <1>3, <1>4, <1>6, <1>11 DEF SaveInv, Sessions!Actor
  <1>13. DiskInv'
    BY <1>1, <1>6, <1>11 DEF SessionInv, DiskInv
  <1>14. TitleInv'
    <2> SUFFICES ASSUME ~late PROVE TitleInv'
      BY <1>1 DEF TitleInv
    <2>1. save[a].data.title \in Titles(s)
      BY <1>1 DEF SessionInv, TitleInv
    <2>2. \A x \in Sessions!Session : Names(x, disk[x]) /\ Names(x, temp[x])
      BY DEF SessionInv, TitleInv
    <2>3. \A x \in Sessions!Session : Names(x, disk'[x]) /\ Names(x, temp'[x])
      BY <1>5, <2>1, <2>2 DEF Names
    <2> QED BY <1>1, <1>3, <1>4, <2>1, <2>3 DEF SessionInv, TitleInv, Names
  <1> QED BY <1>7, <1>8, <1>9, <1>10, <1>12, <1>13, <1>14 DEF SessionInv

\* Outside the gap what is renamed is what this save wrote, whole.
LEMMA SaveRenamesKeeps ==
  ASSUME SessionInv, NEW a \in Sessions!Actor, Sessions!Renames(a)
  PROVE  SessionInv'
  <1> DEFINE s == save[a].of
             moved == [save EXCEPT ![a] = Sessions!NotSaving]
             there(b) == [moved[b] EXCEPT !.at = "live"]
  <1>1. /\ save[a].step = "rename" /\ lock' = IF lock = a THEN "free" ELSE lock
        /\ ui' = IF ui.then = "renaming" /\ a = "ui" THEN [ui EXCEPT !.then = "refresh"] ELSE ui
        /\ UNCHANGED <<cli, slot, naming, prompts, issued, removed, gap, late>>
    BY DEF Sessions!Renames, Sessions!history
  <1>2. /\ s \in Sessions!Session /\ save[a].data \in Content /\ s <= issued
    BY <1>1, SaveFields DEF SessionInv, IssuedInv
  <1>3. \/ /\ temp[s] = Sessions!Absent /\ save' = moved /\ UNCHANGED <<disk, temp, kept>>
        \/ /\ temp[s] # Sessions!Absent
           /\ disk' = [disk EXCEPT ![s] = temp[s]] /\ temp' = [temp EXCEPT ![s] = Sessions!Absent]
           /\ save' = [b \in Sessions!Actor |->
                         IF moved[b].of = s /\ moved[b].at = "temp" THEN there(b) ELSE moved[b]]
           /\ kept' = [kept EXCEPT ![s] = save[a].data.turns]
    BY DEF Sessions!Renames, Sessions!WritesLive
  <1>4. \A b \in Sessions!Actor : moved[b] = IF b = a THEN Sessions!NotSaving ELSE save[b]
    BY DEF SessionInv, SessionTypes
  <1>5. /\ Sessions!NotSaving.step = "none" /\ Sessions!NotSaving.of = 0 /\ 0 \notin Sessions!Session
    BY DEF Sessions!NotSaving, Sessions!Session
  <1> DEFINE Saves == [step : {"create", "write", "rename"}, of : Sessions!Session,
                       data : Content, at : {"nowhere", "temp", "live"}]
  <1>6. \A b \in Sessions!Actor : save[b].of = s => save[b] \in Saves
    BY <1>2, <1>5 DEF SessionInv, SessionTypes
  <1>7. \A b \in Sessions!Actor : b # a /\ save[b].of = s =>
          /\ there(b) \in Saves /\ there(b).step = save[b].step /\ there(b).of = save[b].of
          /\ there(b).data = save[b].data
    BY <1>4, <1>6
  <1>8. /\ save'[a] = Sessions!NotSaving /\ DOMAIN save' = Sessions!Actor
        /\ \A b \in Sessions!Actor : b # a =>
             /\ save'[b] \in Saves \cup {Sessions!NotSaving}
             /\ save'[b].step = save[b].step /\ save'[b].of = save[b].of /\ save'[b].data = save[b].data
    <2>1. CASE save' = moved
      BY <1>4, <2>1 DEF SessionInv, SessionTypes
    <2>2. CASE save' = [b \in Sessions!Actor |->
                         IF moved[b].of = s /\ moved[b].at = "temp" THEN there(b) ELSE moved[b]]
      <3>1. save'[a] = Sessions!NotSaving
        BY <1>2, <1>4, <1>5, <2>2
      <3>2. ASSUME NEW b \in Sessions!Actor, b # a
            PROVE  /\ save'[b] \in Saves \cup {Sessions!NotSaving}
                   /\ save'[b].step = save[b].step /\ save'[b].of = save[b].of /\ save'[b].data = save[b].data
        <4>1. save'[b] = IF save[b].of = s /\ save[b].at = "temp" THEN there(b) ELSE save[b]
          BY <1>4, <2>2, <3>2
        <4>2. CASE save[b].of = s /\ save[b].at = "temp"
          <5>1. save'[b] = there(b)
            BY <4>1, <4>2
          <5> HIDE DEF there, Saves
          <5> QED BY <1>7, <3>2, <4>2, <5>1
        <4>3. CASE ~(save[b].of = s /\ save[b].at = "temp")
          BY <4>1, <4>3 DEF SessionInv, SessionTypes
        <4> QED BY <4>2, <4>3
      <3> QED BY <2>2, <3>1, <3>2
    <2> QED BY <1>3, <2>1, <2>2
  <1> HIDE DEF there, moved
  <1>9. SessionTypes'
    <2>1. save' \in [Sessions!Actor -> Saves \cup {Sessions!NotSaving}]
      <3>1. \A b \in Sessions!Actor : save'[b] \in Saves \cup {Sessions!NotSaving}
        <4> HIDE DEF Saves
        <4> QED BY <1>8
      <3> HIDE DEF Saves
      <3>2. save' = [b \in Sessions!Actor |-> save'[b]]
        <4>1. save' = moved \/ \E f : save' = [b \in Sessions!Actor |-> f[b]]
          <5> DEFINE g == [b \in Sessions!Actor |-> IF moved[b].of = s /\ moved[b].at = "temp"
                                                    THEN there(b) ELSE moved[b]]
          <5>1. save' = moved \/ save' = g
            BY <1>3
          <5>2. g = [b \in Sessions!Actor |-> g[b]]
            OBVIOUS
          <5> HIDE DEF g
          <5> QED BY <5>1, <5>2
        <4>2. moved = [b \in Sessions!Actor |-> moved[b]]
          BY DEF moved, SessionInv, SessionTypes
        <4> QED BY <4>1, <4>2
      <3> QED BY <3>1, <3>2
    <2>2. temp[s] \in File /\ Sessions!Absent \in File /\ save[a].data.turns \in Nat
      BY <1>2, ContentIsWhole DEF SessionInv, SessionTypes, File
    <2>3. disk' \in [Sessions!Session -> File] /\ temp' \in [Sessions!Session -> File] /\ kept' \in [Sessions!Session -> Nat]
      BY <1>3, <2>2 DEF SessionInv, SessionTypes
    <2>4. lock' \in {"free", "worker", "ui"}
      BY <1>1 DEF SessionInv, SessionTypes
    <2>5. ui' \in [busy : BOOLEAN, then : {"keys", "renaming", "clear", "refresh"},
                   picker : [open : BOOLEAN, entries : SUBSET Sessions!Session,
                             current : Sessions!Session \cup {0}]]
      BY <1>1 DEF SessionInv, SessionTypes
    <2> QED BY <1>1, <2>1, <2>3, <2>4, <2>5 DEF SessionInv, SessionTypes
  <1>10. /\ ui'.picker = ui.picker /\ ui'.busy = ui.busy
         /\ ui'.then = IF ui.then = "renaming" /\ a = "ui" THEN "refresh" ELSE ui.then
    BY <1>1 DEF SessionInv, SessionTypes
  <1>11. \A x \in Sessions!Session :
           /\ x # s => disk'[x] = disk[x] /\ temp'[x] = temp[x] /\ kept'[x] = kept[x]
           /\ disk'[x] \in {disk[x], temp[x]} /\ temp'[x] \in {temp[x], Sessions!Absent}
    BY <1>2, <1>3 DEF SessionInv, SessionTypes
  <1>12. IssuedInv'
    <2>1. \A x \in Sessions!Session : x > issued => x # s
      BY <1>2 DEF Sessions!Session, SessionInv, SessionTypes
    <2>2. 0 <= issued
      BY DEF SessionInv, SessionTypes, Sessions!Session
    <2>3. \A b \in Sessions!Actor : save'[b].of <= issued
      BY <1>5, <1>8, <2>2 DEF SessionInv, IssuedInv
    <2> QED BY <1>1, <1>10, <1>11, <2>1, <2>3 DEF SessionInv, IssuedInv
  <1>13. LockInv'
    <2>1. save'[a].step = "none"
      BY <1>5, <1>8
    <2>2. a = "worker" => save'["ui"].step = save["ui"].step
      BY <1>8 DEF Sessions!Actor
    <2>3. a = "ui" => save'["worker"].step = save["worker"].step
      BY <1>8 DEF Sessions!Actor
    <2>4. a \in {"worker", "ui"}
      BY DEF Sessions!Actor
    <2> QED BY <1>1, <1>10, <2>1, <2>2, <2>3, <2>4 DEF SessionInv, LockInv
  <1>14. PickerInv'
    BY <1>1, <1>10 DEF SessionInv, PickerInv
  <1>15. ASSUME ~gap
         PROVE  /\ s \notin removed /\ temp[s] = save[a].data
                /\ \A b \in Sessions!Actor : b # a => save[b].step = "none"
    BY <1>1, <1>15 DEF SessionInv, SaveInv, Sessions!Actor
  <1>16. SaveInv'
    <2> SUFFICES ASSUME ~gap PROVE SaveInv'
      BY <1>1 DEF SaveInv
    <2>1. \A b \in Sessions!Actor : save'[b].step = "none"
      BY <1>5, <1>8, <1>15
    <2> QED BY <2>1 DEF SaveInv, Sessions!Actor
  <1>17. DiskInv'
    <2> SUFFICES ASSUME ~gap PROVE DiskInv'
      BY <1>1 DEF DiskInv
    <2>1. disk'[s] = save[a].data /\ kept'[s] = save[a].data.turns
      BY <1>2, <1>3, <1>15, ContentIsWhole DEF SessionInv, SessionTypes
    <2>2. disk'[s] \in Content /\ disk'[s] # Sessions!Absent /\ s \notin removed
      BY <1>2, <1>15, <2>1, ContentIsWhole
    <2> QED BY <1>1, <1>11, <2>1, <2>2 DEF SessionInv, DiskInv
  <1>18. TitleInv'
    <2> SUFFICES ASSUME ~late PROVE TitleInv'
      BY <1>1 DEF TitleInv
    <2>1. \A x \in Sessions!Session : Names(x, disk[x]) /\ Names(x, temp[x])
      BY DEF SessionInv, TitleInv
    <2>2. \A x \in Sessions!Session : Names(x, disk'[x]) /\ Names(x, temp'[x])
      BY <1>11, <2>1 DEF Names
    <2>3. \A b \in Sessions!Actor : save'[b].step # "none" => save'[b].data.title \in Titles(save'[b].of)
      BY <1>5, <1>8 DEF SessionInv, TitleInv
    <2> QED BY <1>1, <2>2, <2>3 DEF SessionInv, TitleInv
  <1> QED BY <1>9, <1>12, <1>13, <1>14, <1>16, <1>17, <1>18 DEF SessionInv

\* persist_session of the conversation in memory, perhaps a turn longer.
LEMMA PersistsKeeps ==
  ASSUME SessionInv, NEW a \in Sessions!Actor, NEW c, Sessions!Persists(a, c),
         c \in [session : Sessions!Session, turns : Nat, title : Title, dispatched : BOOLEAN],
         c.session = cli.session, c.title = cli.title,
         save[a].step = "none", UNCHANGED <<disk, temp, kept, naming, prompts, ui, issued, removed, gap, late>>,
         lock = a \/ lock = "free", a = "worker" => lock = a, a = "ui" => ui.then = "keys"
  PROVE  SessionInv'
  <1> DEFINE title == IF c.title = Sessions!NoTitle THEN slot ELSE c.title
             data == [turns |-> c.turns, title |-> title]
             next == [step |-> "create", of |-> c.session, data |-> data, at |-> "nowhere"]
             kepttitle == [session |-> c.session, turns |-> c.turns, title |-> title, dispatched |-> c.dispatched]
  <1>1. title \in Title
    BY DEF SessionInv, SessionTypes
  <1>2. \/ cli' = c /\ lock' = "free" /\ UNCHANGED <<save, slot>>
        \/ /\ cli' = kepttitle /\ slot' \in {Sessions!NoTitle, slot}
           /\ save' = [save EXCEPT ![a] = next] /\ lock' = a
    <2>1. Sessions!Titled(c) = kepttitle
      BY DEF Sessions!Titled
    <2>2. Sessions!Titled(c).title = title
      BY <2>1
    <2> HIDE DEF title, kepttitle
    <2> QED BY <2>1, <2>2 DEF Sessions!Persists, Sessions!Saving
  <1>3. /\ kepttitle \in [session : Sessions!Session, turns : Nat, title : Title, dispatched : BOOLEAN]
        /\ kepttitle.session = cli.session /\ kepttitle.title = title
        /\ data \in Content /\ data.title = title
    <2> HIDE DEF title
    <2> QED BY <1>1 DEF Content
  <1>4. /\ next \in [step : {"create", "write", "rename"}, of : Sessions!Session,
                     data : Content, at : {"nowhere", "temp", "live"}]
        /\ next.step = "create" /\ next.of = cli.session /\ next.data = data /\ next.at = "nowhere"
    <2> HIDE DEF data
    <2> QED BY <1>3
  <1>5. ~late => title \in Titles(cli.session) /\ c.title \in Titles(cli.session)
                 /\ Sessions!NoTitle \in Titles(cli.session)
    BY TitlesAre DEF SessionInv, TitleInv, Titles
  <1>6. /\ cli'.session = cli.session /\ cli'.title \in {c.title, title}
        /\ cli' \in [session : Sessions!Session, turns : Nat, title : Title, dispatched : BOOLEAN]
        /\ slot' \in {Sessions!NoTitle, slot} /\ slot' \in Title
    <2> HIDE DEF kepttitle, title
    <2>1. Sessions!NoTitle \in Title /\ slot \in Title
      BY TitlesAre, FilesAssumption DEF SessionInv, SessionTypes
    <2> QED BY <1>2, <1>3, <2>1
  <1>7. \/ lock' = "free" /\ save' = save
        \/ /\ lock' = a /\ \A b \in Sessions!Actor : save'[b] = IF b = a THEN next ELSE save[b]
           /\ save' = [save EXCEPT ![a] = next]
    BY <1>2 DEF SessionInv, SessionTypes
  <1> HIDE DEF next, kepttitle, title, data
  <1>8. lock' \in {"free", "worker", "ui"}
    BY <1>7 DEF Sessions!Actor
  <1>9. SessionTypes'
    BY <1>4, <1>6, <1>7, <1>8 DEF SessionInv, SessionTypes
  <1>10. IssuedInv'
    BY <1>4, <1>6, <1>7 DEF SessionInv, IssuedInv
  <1>11. a \in {"worker", "ui"} /\ save["worker"].step = "none"
    BY DEF Sessions!Actor, SessionInv, LockInv
  <1>12. a = "ui" => save["worker"].step = "none" /\ save["ui"].step = "none"
    BY DEF SessionInv, LockInv
  <1>13. LockInv'
    BY <1>4, <1>7, <1>11, <1>12 DEF SessionInv, LockInv, Sessions!Actor
  <1>14. PickerInv'
    BY <1>6, <1>7 DEF SessionInv, PickerInv, LockInv, Sessions!Actor
  <1>15. SaveInv'
    <2> SUFFICES ASSUME ~gap PROVE SaveInv'
      BY DEF SaveInv
    <2>1. a = "worker" => ui.then = "keys" /\ save["ui"].step = "none"
      BY DEF SessionInv, PickerInv, LockInv
    <2>2. ui.then = "keys"
      BY <2>1 DEF Sessions!Actor
    <2>3. cli.session \notin removed
      BY <2>2 DEF SessionInv, PickerInv
    <2>4. \A b \in Sessions!Actor : save[b].step = "none"
      BY <1>11, <1>12, <2>1 DEF Sessions!Actor
    <2> QED BY <1>4, <1>7, <2>3, <2>4 DEF SaveInv, Sessions!Actor
  <1>16. DiskInv'
    BY DEF SessionInv, DiskInv
  <1>17. TitleInv'
    BY <1>3, <1>4, <1>5, <1>6, <1>7 DEF SessionInv, TitleInv
  <1> QED BY <1>9, <1>10, <1>13, <1>14, <1>15, <1>16, <1>17 DEF SessionInv

\* A turn starts and ends with the worker's lock, and /model and /exit save with the UI's.
LEMMA TurnSteps ==
  ASSUME SessionInv, Sessions!TurnStarts \/ Sessions!TurnEnds \/ Sessions!SaveCommand
  PROVE  SessionInv'
  <1> DEFINE Cli == [session : Sessions!Session, turns : Nat, title : Title, dispatched : BOOLEAN]
  <1>1. cli \in Cli
    BY DEF SessionInv, SessionTypes
  <1>2. CASE Sessions!TurnStarts
    <2>1. /\ prompts > 0 /\ lock = "free" /\ save["worker"].step = "none" /\ prompts' = prompts - 1
          /\ lock' = "worker" /\ naming' \in {naming, naming \cup {cli.session}}
          /\ cli' = [cli EXCEPT !.dispatched = TRUE]
          /\ UNCHANGED <<disk, temp, save, kept, slot, ui, issued, removed, gap, late>>
      BY <1>2 DEF Sessions!TurnStarts, Sessions!files, Sessions!history
    <2>2. cli' \in Cli /\ cli'.session = cli.session /\ cli'.title = cli.title
      BY <1>1, <2>1
    <2>3. prompts' \in Nat
      BY <2>1 DEF SessionInv, SessionTypes
    <2>4. SessionTypes'
      BY <2>1, <2>2, <2>3 DEF SessionInv, SessionTypes
    <2>5. IssuedInv' /\ LockInv'
      BY <2>1, <2>2 DEF SessionInv, IssuedInv, LockInv
    <2>6. ~gap => ui.then = "keys"
      BY <2>1 DEF SessionInv, PickerInv
    <2>7. PickerInv'
      BY <2>1, <2>2, <2>6 DEF SessionInv, PickerInv
    <2>8. SaveInv' /\ DiskInv' /\ TitleInv'
      BY <2>1, <2>2 DEF SessionInv, SaveInv, DiskInv, TitleInv, Names
    <2> QED BY <2>4, <2>5, <2>7, <2>8 DEF SessionInv
  <1>3. CASE Sessions!TurnEnds
    <2> DEFINE grown == [cli EXCEPT !.turns = @ + 1]
    <2>1. /\ lock = "worker" /\ save["worker"].step = "none"
          /\ \/ Sessions!Persists("worker", grown)
             \/ cli' = grown /\ lock' = "free" /\ UNCHANGED <<save, slot>>
          /\ UNCHANGED <<disk, temp, kept, naming, prompts, ui, issued, removed, gap, late>>
      BY <1>3 DEF Sessions!TurnEnds, Sessions!history
    <2>2. grown \in Cli /\ grown.session = cli.session /\ grown.title = cli.title
      BY <1>1
    <2> HIDE DEF grown
    <2>3. CASE Sessions!Persists("worker", grown)
      BY <2>1, <2>2, <2>3, PersistsKeeps DEF Sessions!Actor
    <2>4. CASE cli' = grown /\ lock' = "free" /\ UNCHANGED <<save, slot>>
      <3>1. SessionTypes'
        BY <2>1, <2>2, <2>4 DEF SessionInv, SessionTypes
      <3>2. IssuedInv' /\ LockInv' /\ PickerInv'
        BY <2>1, <2>2, <2>4 DEF SessionInv, IssuedInv, LockInv, PickerInv
      <3>3. SaveInv' /\ DiskInv' /\ TitleInv'
        BY <2>1, <2>2, <2>4 DEF SessionInv, SaveInv, DiskInv, TitleInv, Names
      <3> QED BY <3>1, <3>2, <3>3 DEF SessionInv
    <2> QED BY <2>1, <2>3, <2>4
  <1>4. CASE Sessions!SaveCommand
    <2>1. /\ Sessions!Persists("ui", cli) /\ lock = "free" /\ ui.then = "keys" /\ save["ui"].step = "none"
          /\ UNCHANGED <<disk, temp, kept, naming, prompts, ui, issued, removed, gap, late>>
      BY <1>4 DEF Sessions!SaveCommand, Sessions!Keys, Sessions!history
    <2> QED BY <1>1, <2>1, PersistsKeeps DEF Sessions!Actor
  <1> QED BY <1>2, <1>3, <1>4

\* A title that comes while its session is the current one waits for its save.
LEMMA TitleComesKeeps ==
  ASSUME SessionInv, NEW s \in Sessions!Session, Sessions!TitleComes(s)
  PROVE  SessionInv'
  <1>1. /\ naming' = naming \ {s}
        /\ \/ slot' = <<"auto", s>> /\ late' = (late \/ s # cli.session)
           \/ UNCHANGED <<slot, late>>
        /\ UNCHANGED <<disk, temp, save, kept, cli, lock, prompts, ui, issued, removed, gap>>
    BY DEF Sessions!TitleComes, Sessions!files
  <1>2. slot' \in Title /\ late' \in BOOLEAN /\ (late => late')
    BY <1>1, TitlesAre DEF SessionInv, SessionTypes
  <1>3. ~late' => slot' \in {slot, <<"auto", cli.session>>}
    BY <1>1 DEF SessionInv, SessionTypes
  <1>4. SessionTypes'
    BY <1>1, <1>2 DEF SessionInv, SessionTypes
  <1>5. IssuedInv' /\ LockInv' /\ PickerInv'
    BY <1>1 DEF SessionInv, IssuedInv, LockInv, PickerInv
  <1>6. SaveInv' /\ DiskInv'
    BY <1>1 DEF SessionInv, SaveInv, DiskInv
  <1>7. TitleInv'
    BY <1>1, <1>2, <1>3 DEF SessionInv, TitleInv, Names
  <1> QED BY <1>4, <1>5, <1>6, <1>7 DEF SessionInv

\* A new session: /clear, the one after the deletion of the current one, and the
\* one a killed program starts with.
LEMMA AfreshSteps ==
  ASSUME SessionInv, Sessions!ClearCommand \/ Sessions!StartsAfresh \/ Sessions!Killed
  PROVE  SessionInv'
  <1> DEFINE n == issued + 1
  <1>1. /\ issued < MaxSessions /\ issued' = n /\ cli' = Sessions!Blank(n) /\ slot' = Sessions!NoTitle
        /\ UNCHANGED <<disk, temp, kept, removed, gap, late>>
    BY DEF Sessions!ClearCommand, Sessions!StartsAfresh, Sessions!Killed, Sessions!Cleared, Sessions!Left,
           Sessions!files, Sessions!history
  <1>2. n \in Sessions!Session /\ n \in Nat /\ issued \in Nat /\ n > issued
    BY <1>1, FilesAssumption DEF SessionInv, SessionTypes, Sessions!Session
  <1> HIDE DEF n
  <1>3. /\ cli' \in [session : Sessions!Session, turns : Nat, title : Title, dispatched : BOOLEAN]
        /\ cli'.session = n /\ cli'.title = Sessions!NoTitle
    BY <1>1, <1>2, TitlesAre DEF Sessions!Blank
  <1>4. Sessions!NoTitle \in Title /\ Sessions!NoTitle \in Titles(n)
    BY <1>2, TitlesAre
  <1>5. n \notin removed /\ disk[n] = Sessions!Absent
    BY <1>2 DEF SessionInv, IssuedInv
  <1>6. /\ \A a \in Sessions!Actor : save[a].of <= n
        /\ \A s \in ui.picker.entries : s <= n
        /\ \A s \in Sessions!Session : s > n => s > issued
    <2>1. \A a \in Sessions!Actor : save[a].of \in Sessions!Session \cup {0} /\ save[a].of <= issued
      BY SaveFields DEF SessionInv, IssuedInv, Sessions!NotSaving
    <2>2. \A s \in ui.picker.entries : s \in Sessions!Session /\ s <= issued
      BY DEF SessionInv, SessionTypes, IssuedInv
    <2> QED BY <1>2, <2>1, <2>2 DEF Sessions!Session
  <1> DEFINE Ui == [busy : BOOLEAN, then : {"keys", "renaming", "clear", "refresh"},
                    picker : [open : BOOLEAN, entries : SUBSET Sessions!Session,
                              current : Sessions!Session \cup {0}]]
  <1>7. \/ /\ UNCHANGED <<lock, save, prompts, naming>>
           /\ lock = "free" /\ save["ui"].step = "none"
        \/ /\ lock' = "free" /\ prompts' = 0 /\ naming' = {}
           /\ save' = [a \in Sessions!Actor |-> Sessions!NotSaving]
    <2>1. CASE Sessions!ClearCommand
      BY <2>1 DEF Sessions!ClearCommand, Sessions!Cleared, Sessions!Keys, Sessions!files
    <2>2. CASE Sessions!StartsAfresh
      BY <2>2 DEF Sessions!StartsAfresh, Sessions!Cleared, Sessions!files, SessionInv, LockInv
    <2>3. CASE Sessions!Killed
      BY <2>3 DEF Sessions!Killed
    <2> QED BY <2>1, <2>2, <2>3
  <1>8. /\ ui' \in Ui /\ ui'.then = "keys"
        /\ \A s \in ui'.picker.entries : s <= n
        /\ ui'.picker.open => ui'.picker.current = n
    <2>1. CASE Sessions!ClearCommand
      <3>1. ui' = [ui EXCEPT !.busy = FALSE] /\ ui.then = "keys" /\ ~ui.picker.open
        BY <2>1 DEF Sessions!ClearCommand, Sessions!Keys
      <3> QED BY <1>6, <3>1 DEF SessionInv, SessionTypes
    <2>2. CASE Sessions!StartsAfresh
      <3> DEFINE l == Sessions!Listed(n)
      <3>1. ui' = [busy |-> FALSE, picker |-> l, then |-> "keys"]
        BY <2>2 DEF Sessions!StartsAfresh, n
      <3>2. /\ l \in [open : BOOLEAN, entries : SUBSET Sessions!Session, current : Sessions!Session \cup {0}]
            /\ l.current = n /\ \A s \in l.entries : s \in Sessions!Session /\ s <= issued
        BY <1>2, ListedIs DEF SessionInv
      <3> HIDE DEF l
      <3>3. \A s \in l.entries : s <= n
        BY <1>2, <3>2 DEF Sessions!Session
      <3> QED BY <3>1, <3>2, <3>3
    <2>3. CASE Sessions!Killed
      <3>1. ui' = [busy |-> FALSE, picker |-> Sessions!Closed, then |-> "keys"]
        BY <2>3 DEF Sessions!Killed
      <3> QED BY <3>1 DEF Sessions!Closed
    <2> QED BY <2>1, <2>2, <2>3
  <1>9. SessionTypes'
    <2>1. /\ prompts' \in Nat /\ naming' \subseteq Sessions!Session /\ lock' \in {"free", "worker", "ui"}
          /\ save' \in [Sessions!Actor -> [step : {"create", "write", "rename"}, of : Sessions!Session,
                                           data : Content, at : {"nowhere", "temp", "live"}]
                                          \cup {Sessions!NotSaving}]
      BY <1>7 DEF SessionInv, SessionTypes
    <2>2. issued' \in Sessions!Session /\ slot' \in Title
      BY <1>1, <1>2, <1>4
    <2> QED BY <1>1, <1>3, <1>8, <2>1, <2>2 DEF SessionInv, SessionTypes
  <1>10. 0 <= n
    BY <1>2
  <1>11. IssuedInv'
    <2>1. cli'.session = n /\ n <= n
      BY <1>2, <1>3
    <2>2. \A a \in Sessions!Actor : save'[a].of <= n
      BY <1>6, <1>7, <1>10 DEF Sessions!NotSaving
    <2> QED BY <1>1, <1>6, <1>8, <2>1, <2>2 DEF SessionInv, IssuedInv
  <1>12. LockInv'
    BY <1>7, <1>8 DEF SessionInv, LockInv, Sessions!NotSaving, Sessions!Actor
  <1>13. PickerInv'
    BY <1>1, <1>3, <1>5, <1>8 DEF SessionInv, PickerInv
  <1>14. SaveInv'
    BY <1>1, <1>7 DEF SessionInv, SaveInv, Sessions!NotSaving, Sessions!Actor
  <1>15. DiskInv'
    BY <1>1 DEF SessionInv, DiskInv
  <1>16. TitleInv'
    BY <1>1, <1>3, <1>4, <1>7 DEF SessionInv, TitleInv, Names, Sessions!NotSaving
  <1> QED BY <1>9, <1>11, <1>12, <1>13, <1>14, <1>15, <1>16 DEF SessionInv

\* The picker switches to a session whose file it has loaded.
LEMMA SwitchKeeps ==
  ASSUME SessionInv, NEW s \in Sessions!Session, Sessions!Switch(s)
  PROVE  SessionInv'
  <1>1. /\ ui.then = "keys" /\ save["ui"].step = "none" /\ ui.picker.open /\ s \in ui.picker.entries /\ lock = "free"
        /\ UNCHANGED <<disk, temp, kept, naming, prompts, issued, removed, gap, late>>
    BY DEF Sessions!Switch, Sessions!InPicker, Sessions!history
  <1>2. s <= issued /\ save["worker"].step = "none"
    BY <1>1 DEF SessionInv, IssuedInv, LockInv
  <1> DEFINE Pickers == [open : BOOLEAN, entries : SUBSET Sessions!Session, current : Sessions!Session \cup {0}]
  <1>3. /\ Sessions!Closed.open = FALSE /\ Sessions!Closed.entries = {} /\ Sessions!Closed \in Pickers
    BY DEF Sessions!Closed
  <1>4. /\ ui' \in [busy : BOOLEAN, then : {"keys", "renaming", "clear", "refresh"}, picker : Pickers]
        /\ ui'.picker = Sessions!Closed /\ ui'.then = "keys"
    <2>1. CASE Sessions!Whole(disk[s])
      <3>1. ui' = [busy |-> FALSE, picker |-> Sessions!Closed, then |-> "keys"]
        BY <2>1 DEF Sessions!Switch
      <3> QED BY <1>3, <3>1
    <2>2. CASE ~Sessions!Whole(disk[s])
      <3>1. ui' = [ui EXCEPT !.picker = Sessions!Closed]
        BY <2>2 DEF Sessions!Switch
      <3> QED BY <1>1, <1>3, <3>1 DEF SessionInv, SessionTypes
    <2> QED BY <2>1, <2>2
  <1> DEFINE there == [session |-> s, turns |-> disk[s].turns, title |-> disk[s].title, dispatched |-> TRUE]
             next == [step |-> "create", of |-> s, data |-> disk[s], at |-> "nowhere"]
  <1>5. \/ UNCHANGED <<cli, slot, lock, save>>
        \/ /\ Sessions!Whole(disk[s]) /\ cli' = there /\ slot' = Sessions!NoTitle /\ lock' = "ui"
           /\ save' = [save EXCEPT !["ui"] = next]
    BY DEF Sessions!Switch, Sessions!Saving
  <1>6. CASE UNCHANGED <<cli, slot, lock, save>>
    <2>1. SessionTypes'
      BY <1>1, <1>4, <1>6 DEF SessionInv, SessionTypes
    <2>2. IssuedInv' /\ LockInv' /\ PickerInv'
      BY <1>1, <1>3, <1>4, <1>6 DEF SessionInv, IssuedInv, LockInv, PickerInv
    <2>3. SaveInv' /\ DiskInv' /\ TitleInv'
      BY <1>1, <1>6 DEF SessionInv, SaveInv, DiskInv, TitleInv, Names
    <2> QED BY <2>1, <2>2, <2>3 DEF SessionInv
  <1>7. CASE /\ Sessions!Whole(disk[s]) /\ cli' = there /\ slot' = Sessions!NoTitle /\ lock' = "ui"
             /\ save' = [save EXCEPT !["ui"] = next]
    <2>1. disk[s] \in Content /\ disk[s] # Sessions!Absent
      BY <1>7 DEF Sessions!Whole, SessionInv, SessionTypes, File
    <2>2. disk[s].turns \in Nat /\ disk[s].title \in Title
      BY <2>1, ContentIsWhole
    <2>3. /\ cli' \in [session : Sessions!Session, turns : Nat, title : Title, dispatched : BOOLEAN]
          /\ cli'.session = s /\ cli'.title = disk[s].title
      BY <1>7, <2>2
    <2>4. /\ next \in [step : {"create", "write", "rename"}, of : Sessions!Session,
                       data : Content, at : {"nowhere", "temp", "live"}]
          /\ next.step = "create" /\ next.of = s /\ next.data = disk[s] /\ next.at = "nowhere"
      BY <2>1
    <2>5. \A b \in Sessions!Actor : save'[b] = IF b = "ui" THEN next ELSE save[b]
      BY <1>7 DEF SessionInv, SessionTypes
    <2> HIDE DEF next, there
    <2>6. SessionTypes'
      <3>1. Sessions!NoTitle \in Title
        BY TitlesAre
      <3> QED BY <1>1, <1>4, <1>7, <2>3, <2>4, <3>1 DEF SessionInv, SessionTypes
    <2>7. IssuedInv'
      BY <1>1, <1>2, <1>3, <1>4, <2>3, <2>4, <2>5 DEF SessionInv, IssuedInv
    <2>8. LockInv'
      BY <1>2, <1>4, <1>7, <2>4, <2>5 DEF SessionInv, LockInv, Sessions!Actor
    <2>9. ~gap => s \notin removed
      BY <2>1 DEF SessionInv, DiskInv
    <2>10. PickerInv'
      BY <1>1, <1>3, <1>4, <2>3, <2>9 DEF PickerInv
    <2>11. SaveInv'
      BY <1>1, <1>2, <2>4, <2>5, <2>9 DEF SaveInv, Sessions!Actor
    <2>12. DiskInv'
      BY <1>1 DEF SessionInv, DiskInv
    <2>13. TitleInv'
      <3> SUFFICES ASSUME ~late PROVE TitleInv'
        BY <1>1 DEF TitleInv
      <3>1. disk[s].title \in Titles(s)
        BY <2>1, ContentIsWhole DEF SessionInv, TitleInv, Names
      <3> QED BY <1>1, <1>7, <2>3, <2>4, <2>5, <3>1 DEF SessionInv, TitleInv, Names
    <2> QED BY <2>6, <2>7, <2>8, <2>10, <2>11, <2>12, <2>13 DEF SessionInv
  <1> QED BY <1>5, <1>6, <1>7

\* The picker renames a session by saving its file anew.
LEMMA RenameKeeps ==
  ASSUME SessionInv, NEW s \in Sessions!Session, Sessions!Rename(s)
  PROVE  SessionInv'
  <1> DEFINE data == [turns |-> disk[s].turns, title |-> <<"user", s>>]
             next == [step |-> "create", of |-> s, data |-> data, at |-> "nowhere"]
  <1>1. /\ ui.then = "keys" /\ save["ui"].step = "none" /\ ui.picker.open /\ s \in ui.picker.entries
        /\ Sessions!Whole(disk[s]) /\ gap' = (gap \/ prompts > 0 \/ lock = "worker")
        /\ save' = [save EXCEPT !["ui"] = next] /\ ui' = [ui EXCEPT !.then = "renaming"]
        /\ UNCHANGED <<disk, temp, kept, cli, slot, naming, lock, prompts, issued, removed, late>>
    BY DEF Sessions!Rename, Sessions!InPicker, Sessions!InGap, Sessions!Saving
  <1>2. disk[s] \in Content /\ disk[s] # Sessions!Absent
    BY <1>1 DEF Sessions!Whole, SessionInv, SessionTypes, File
  <1>3. data \in Content /\ data.title = <<"user", s>>
    BY <1>2, TitlesAre, ContentIsWhole DEF Content
  <1> HIDE DEF data
  <1>4. /\ next \in [step : {"create", "write", "rename"}, of : Sessions!Session,
                     data : Content, at : {"nowhere", "temp", "live"}]
        /\ next.step = "create" /\ next.of = s /\ next.data = data /\ next.at = "nowhere"
    BY <1>3
  <1>5. \A b \in Sessions!Actor : save'[b] = IF b = "ui" THEN next ELSE save[b]
    BY <1>1 DEF SessionInv, SessionTypes
  <1> HIDE DEF next
  <1>6. /\ ui'.picker = ui.picker /\ ui'.then = "renaming"
        /\ ui' \in [busy : BOOLEAN, then : {"keys", "renaming", "clear", "refresh"},
                    picker : [open : BOOLEAN, entries : SUBSET Sessions!Session,
                              current : Sessions!Session \cup {0}]]
    BY <1>1 DEF SessionInv, SessionTypes
  <1>7. gap' \in BOOLEAN /\ (~gap' => ~gap /\ lock # "worker" /\ ~(prompts > 0))
    BY <1>1 DEF SessionInv, SessionTypes
  <1>8. SessionTypes'
    BY <1>1, <1>4, <1>6, <1>7 DEF SessionInv, SessionTypes
  <1>9. s <= issued
    BY <1>1 DEF SessionInv, IssuedInv
  <1>10. IssuedInv'
    BY <1>1, <1>4, <1>5, <1>6, <1>9 DEF SessionInv, IssuedInv
  <1>11. LockInv'
    BY <1>1, <1>4, <1>5, <1>6 DEF SessionInv, LockInv, Sessions!Actor
  <1>12. ~gap => s \notin removed /\ cli.session \notin removed
    BY <1>1, <1>2 DEF SessionInv, DiskInv, PickerInv
  <1>13. ~gap' => prompts = 0
    BY <1>7 DEF SessionInv, SessionTypes
  <1>14. PickerInv'
    BY <1>1, <1>6, <1>7, <1>12, <1>13 DEF SessionInv, PickerInv
  <1>15. SaveInv'
    <2> SUFFICES ASSUME ~gap' PROVE SaveInv'
      BY DEF SaveInv
    <2>1. save["worker"].step = "none"
      BY <1>7 DEF SessionInv, LockInv
    <2> QED BY <1>1, <1>4, <1>5, <1>7, <1>12, <2>1 DEF SaveInv, Sessions!Actor
  <1>16. DiskInv'
    BY <1>1, <1>7 DEF SessionInv, DiskInv
  <1>17. TitleInv'
    <2>1. <<"user", s>> \in Titles(s)
      BY TitlesAre
    <2> QED BY <1>1, <1>3, <1>4, <1>5, <2>1 DEF SessionInv, TitleInv, Names
  <1> QED BY <1>8, <1>10, <1>11, <1>14, <1>15, <1>16, <1>17 DEF SessionInv

\* The picker deletes a session; a save of it under way ends nowhere.
LEMMA DeleteKeeps ==
  ASSUME SessionInv, NEW s \in Sessions!Session, Sessions!Delete(s)
  PROVE  SessionInv'
  <1> DEFINE nowhere(a) == [save[a] EXCEPT !.at = "nowhere"]
  <1>1. /\ ui.then = "keys" /\ save["ui"].step = "none" /\ ui.picker.open /\ s \in ui.picker.entries
        /\ gap' = (gap \/ prompts > 0 \/ lock = "worker")
        /\ temp' = [temp EXCEPT ![s] = Sessions!Absent] /\ disk' = [disk EXCEPT ![s] = Sessions!Absent]
        /\ save' = [a \in Sessions!Actor |-> IF save[a].of = s THEN nowhere(a) ELSE save[a]]
        /\ kept' = [kept EXCEPT ![s] = 0] /\ removed' = removed \cup {s}
        /\ ui' = [ui EXCEPT !.then = IF s = ui.picker.current THEN "clear" ELSE "refresh"]
        /\ UNCHANGED <<cli, slot, naming, lock, prompts, issued, late>>
    BY DEF Sessions!Delete, Sessions!InPicker, Sessions!InGap, Sessions!AfterDelete
  <1> DEFINE Saves == [step : {"create", "write", "rename"}, of : Sessions!Session,
                       data : Content, at : {"nowhere", "temp", "live"}]
  <1>2. ASSUME NEW a \in Sessions!Actor
        PROVE  /\ save'[a] \in Saves \cup {Sessions!NotSaving}
               /\ save'[a].step = save[a].step /\ save'[a].of = save[a].of /\ save'[a].data = save[a].data
    <2>1. save'[a] = IF save[a].of = s THEN nowhere(a) ELSE save[a]
      BY <1>1
    <2>2. CASE save[a].of = s
      <3>1. save[a] \in Saves
        BY <2>2 DEF SessionInv, SessionTypes, Sessions!NotSaving, Sessions!Session
      <3>2. /\ nowhere(a) \in Saves /\ nowhere(a).step = save[a].step /\ nowhere(a).of = save[a].of
            /\ nowhere(a).data = save[a].data
        BY <3>1
      <3> HIDE DEF nowhere, Saves
      <3> QED BY <2>1, <2>2, <3>2
    <2>3. CASE save[a].of # s
      BY <2>1, <2>3 DEF SessionInv, SessionTypes
    <2> QED BY <2>2, <2>3
  <1>3. save' \in [Sessions!Actor -> Saves \cup {Sessions!NotSaving}]
    <2>1. save' = [a \in Sessions!Actor |-> save'[a]]
      BY <1>1
    <2> HIDE DEF Saves
    <2> QED BY <1>2, <2>1
  <1> HIDE DEF nowhere
  <1>4. \A x \in Sessions!Session :
          /\ x = s => temp'[x] = Sessions!Absent /\ disk'[x] = Sessions!Absent /\ kept'[x] = 0
          /\ x # s => temp'[x] = temp[x] /\ disk'[x] = disk[x] /\ kept'[x] = kept[x]
    BY <1>1 DEF SessionInv, SessionTypes
  <1>5. /\ ui'.picker = ui.picker /\ ui'.then = IF s = ui.picker.current THEN "clear" ELSE "refresh"
        /\ ui' \in [busy : BOOLEAN, then : {"keys", "renaming", "clear", "refresh"},
                    picker : [open : BOOLEAN, entries : SUBSET Sessions!Session,
                              current : Sessions!Session \cup {0}]]
    BY <1>1 DEF SessionInv, SessionTypes
  <1>6. gap' \in BOOLEAN /\ (~gap' => ~gap /\ lock # "worker" /\ prompts = 0)
    BY <1>1 DEF SessionInv, SessionTypes
  <1>7. SessionTypes'
    <2>1. /\ temp' \in [Sessions!Session -> File] /\ disk' \in [Sessions!Session -> File]
          /\ kept' \in [Sessions!Session -> Nat] /\ removed' \subseteq Sessions!Session
      BY <1>1 DEF SessionInv, SessionTypes, File
    <2> QED BY <1>1, <1>3, <1>5, <1>6, <2>1 DEF SessionInv, SessionTypes
  <1>8. s <= issued
    BY <1>1 DEF SessionInv, IssuedInv
  <1>9. IssuedInv'
    <2>1. ASSUME NEW x \in Sessions!Session, x > issued PROVE x # s
      BY <1>8, <2>1 DEF Sessions!Session, SessionInv, SessionTypes
    <2> QED BY <1>1, <1>2, <1>4, <1>5, <2>1 DEF SessionInv, IssuedInv
  <1>10. LockInv'
    <2>1. save'["ui"].step = save["ui"].step /\ save'["worker"].step = save["worker"].step
      BY <1>2 DEF Sessions!Actor
    <2> QED BY <1>1, <1>5, <2>1 DEF SessionInv, LockInv
  <1>11. PickerInv'
    <2> SUFFICES ASSUME ~gap' PROVE PickerInv'
      BY DEF PickerInv
    <2>1. ui.picker.current = cli.session /\ cli.session \notin removed
      BY <1>1, <1>6 DEF SessionInv, PickerInv
    <2> QED BY <1>1, <1>5, <1>6, <2>1 DEF PickerInv
  <1>12. SaveInv'
    <2> SUFFICES ASSUME ~gap' PROVE SaveInv'
      BY DEF SaveInv
    <2>1. save["worker"].step = "none"
      BY <1>6 DEF SessionInv, LockInv
    <2>2. \A a \in Sessions!Actor : save'[a].step = "none"
      BY <1>1, <1>2, <2>1 DEF Sessions!Actor
    <2> QED BY <2>2 DEF SaveInv, Sessions!Actor
  <1>13. DiskInv'
    BY <1>1, <1>4, <1>6 DEF SessionInv, DiskInv
  <1>14. TitleInv'
    <2>1. ~late => \A x \in Sessions!Session : Names(x, disk'[x]) /\ Names(x, temp'[x])
      BY <1>4 DEF SessionInv, TitleInv, Names
    <2> QED BY <1>1, <1>2, <2>1 DEF SessionInv, TitleInv
  <1> QED BY <1>7, <1>9, <1>10, <1>11, <1>12, <1>13, <1>14 DEF SessionInv

\* In UnitsSpec the terminal UI moves or stays.
LEMMA SessionsHold == UnitsSpec => []SessionInv
  <1>1. UnitsInit => SessionInv
    <2> SUFFICES ASSUME UnitsInit PROVE SessionInv
      OBVIOUS
    <2>1. /\ disk = [s \in Sessions!Session |-> Sessions!Absent] /\ temp = [s \in Sessions!Session |-> Sessions!Absent]
          /\ save = [a \in Sessions!Actor |-> Sessions!NotSaving]
          /\ cli = Sessions!Blank(1) /\ issued = 1 /\ slot = Sessions!NoTitle /\ naming = {}
          /\ lock = "free" /\ prompts = 0
          /\ ui = [busy |-> FALSE, picker |-> Sessions!Closed, then |-> "keys"]
          /\ kept = [s \in Sessions!Session |-> 0] /\ removed = {} /\ gap = FALSE /\ late = FALSE
      BY DEF UnitsInit, Sessions!Init
    <2>2. 1 \in Sessions!Session
      BY FilesAssumption DEF Sessions!Session
    <2>3. Sessions!NoTitle \in Title /\ Sessions!NoTitle \in Titles(1) /\ Sessions!Absent \in File
      BY <2>2, TitlesAre DEF File
    <2>4. /\ cli \in [session : Sessions!Session, turns : Nat, title : Title, dispatched : BOOLEAN]
          /\ cli.session = 1 /\ cli.title = Sessions!NoTitle
      BY <2>1, <2>2, <2>3 DEF Sessions!Blank
    <2>5. /\ ui.picker = Sessions!Closed /\ ui.then = "keys" /\ ui.busy = FALSE
          /\ Sessions!Closed.open = FALSE /\ Sessions!Closed.entries = {} /\ Sessions!Closed.current = 0
          /\ Sessions!Closed \in [open : BOOLEAN, entries : SUBSET Sessions!Session,
                                  current : Sessions!Session \cup {0}]
      BY <2>1 DEF Sessions!Closed
    <2>6. ui \in [busy : BOOLEAN, then : {"keys", "renaming", "clear", "refresh"},
                  picker : [open : BOOLEAN, entries : SUBSET Sessions!Session,
                            current : Sessions!Session \cup {0}]]
      BY <2>1, <2>5
    <2>7. SessionTypes
      BY <2>1, <2>2, <2>3, <2>4, <2>6 DEF SessionTypes
    <2>8. \A a \in Sessions!Actor : save[a].step = "none" /\ save[a].of = 0
      BY <2>1 DEF Sessions!NotSaving
    <2>9. IssuedInv /\ LockInv
      BY <2>1, <2>4, <2>5, <2>8 DEF IssuedInv, LockInv, Sessions!Actor
    <2>10. PickerInv /\ SaveInv /\ DiskInv
      BY <2>1, <2>4, <2>5, <2>8 DEF PickerInv, SaveInv, DiskInv, Sessions!Actor
    <2>11. TitleInv
      BY <2>1, <2>3, <2>4, <2>8 DEF TitleInv, Names
    <2> QED BY <2>7, <2>9, <2>10, <2>11 DEF SessionInv
  <1>2. SessionInv /\ UNCHANGED sessions => SessionInv'
    <2> SUFFICES ASSUME SessionInv, UNCHANGED sessions PROVE SessionInv'
      OBVIOUS
    <2>1. UNCHANGED <<disk, temp, save, cli, slot, naming, lock, prompts, ui, issued, kept, removed, gap, late>>
      BY DEF sessions
    <2>2. SessionTypes' /\ IssuedInv' /\ LockInv' /\ PickerInv'
      BY <2>1 DEF SessionInv, SessionTypes, IssuedInv, LockInv, PickerInv
    <2>3. SaveInv' /\ DiskInv' /\ TitleInv'
      BY <2>1 DEF SessionInv, SaveInv, DiskInv, TitleInv, Names
    <2> QED BY <2>2, <2>3 DEF SessionInv
  <1>3. SessionInv /\ Sessions!Next => SessionInv'
    BY QuietSteps, CreatesKeeps, SaveWritesKeeps, SaveRenamesKeeps, TurnSteps, TitleComesKeeps, AfreshSteps,
       SwitchKeeps, RenameKeeps, DeleteKeeps DEF Sessions!Next
  <1>4. SessionInv /\ [UnitsNext]_units => SessionInv'
    BY <1>2, <1>3 DEF UnitsNext, units
  <1> QED BY <1>1, <1>4, PTL DEF UnitsSpec

\* Updates of settings.json and credentials.json that do not overlap lose nobody's
\* entry, wherever a writer is killed (update_settings, save_credentials); what a
\* save put on disk stays there whole, what the user deleted does not come back, and
\* a session is named after itself (save_to_path, the session picker, pending_title).
THEOREM ConfigAndSessionsAreKept == UnitsSpec => []FilesKept
  <1>1. ConfigInv => Config!EntriesSurvive
    BY DEF ConfigInv, ConfigTypes, SettingsInv, CredentialsInv, Config!EntriesSurvive, Config!Quiet, Config!Store
  <1>2. SessionInv => Sessions!SavedTurnsSurvive
    <2> SUFFICES ASSUME SessionInv, ~gap, NEW s \in Sessions!Session, kept[s] > 0
                 PROVE  Sessions!Whole(disk[s]) /\ disk[s].turns >= kept[s]
      BY DEF Sessions!SavedTurnsSurvive
    <2>1. kept[s] \in Nat /\ kept[s] # 0
      BY DEF SessionInv, SessionTypes
    <2>2. disk[s] \in Content /\ disk[s].turns = kept[s]
      BY <2>1 DEF SessionInv, DiskInv
    <2> QED BY <2>1, <2>2, ContentIsWhole DEF Sessions!Whole
  <1>3. SessionInv => Sessions!DeletedStaysDeleted
    BY DEF SessionInv, SessionTypes, DiskInv, Sessions!DeletedStaysDeleted
  <1>4. SessionInv => Sessions!TitleIsOwn
    BY DEF SessionInv, TitleInv, Names, Titles, Sessions!TitleIsOwn, Sessions!Whole
  <1> QED BY <1>1, <1>2, <1>3, <1>4, ConfigHolds, SessionsHold, PTL DEF FilesKept

-----------------------------------------------------------------------------
(* Induction *)

\* Every set of natural numbers that is not empty has a least member.
LEMMA Least ==
  ASSUME NEW T \in SUBSET Nat, T # {}
  PROVE  \E m \in T : \A k \in T : m <= k
  <1> DEFINE R == {p \in Nat \X Nat : p[1] < p[2]}
  <1>1. IsWellFoundedOn(R, Nat)
    BY NatLessThanWellFounded DEF OpToRel
  <1>2. \A x, y \in T : y < x => <<y, x>> \in R
    OBVIOUS
  <1> HIDE DEF R
  <1>3. PICK m \in T : \A k \in T : <<k, m>> \notin R
    BY <1>1, WFMin
  <1>4. \A k \in T : ~ (k < m)
    BY <1>2, <1>3
  <1>5. \A k \in T : k \in Nat /\ m \in Nat
    OBVIOUS
  <1> QED BY <1>4, <1>5

\* A finite one has a greatest member.
LEMMA Greatest ==
  ASSUME NEW S \in SUBSET Nat, S # {}, IsFiniteSet(S)
  PROVE  \E m \in S : \A k \in S : k <= m
  <1> DEFINE Tops(s) == {m \in s : \A k \in s : k <= m}
             B == {s \in SUBSET S : s # {} /\ Tops(s) = {}}
             T == {Cardinality(s) : s \in B}
  <1>1. \A s \in SUBSET S : IsFiniteSet(s) /\ Cardinality(s) \in Nat
    BY FS_Subset, FS_CardinalityType
  <1>2. ASSUME B # {} PROVE FALSE
    <2>1. T \in SUBSET Nat /\ T # {}
      BY <1>1, <1>2
    <2>2. PICK m \in T : \A k \in T : m <= k
      <3> HIDE DEF T
      <3> QED BY <2>1, Least
    <2>3. PICK s \in B : m = Cardinality(s)
      BY <2>2
    <2>4. PICK x \in s : TRUE
      BY <2>3
    <2>5. s \in SUBSET S /\ Tops(s) = {} /\ x \in Nat
      BY <2>3, <2>4
    <2> DEFINE r == s \ {x}
    <2>6. Cardinality(r) = Cardinality(s) - 1 /\ Cardinality(s) \in Nat
      BY <1>1, <2>4, <2>5, FS_RemoveElement
    <2>7. r \notin B
      <3>1. r \in B => Cardinality(r) \in T
        OBVIOUS
      <3>2. Cardinality(r) \in T => m <= Cardinality(r)
        BY <2>2
      <3> HIDE DEF B, T, r
      <3> QED BY <3>1, <3>2, <2>3, <2>6
    <2>8. r = {} \/ \E n \in r : \A k \in r : k <= n
      BY <2>5, <2>7
    <2>9. CASE r = {}
      BY <2>4, <2>5, <2>9
    <2>10. CASE \E n \in r : \A k \in r : k <= n
      <3>1. PICK n \in r : \A k \in r : k <= n
        BY <2>10
      <3>2. n \in Nat /\ \A k \in s : k \in Nat /\ (k = x \/ k \in r)
        BY <2>5, <3>1
      <3>3. CASE n <= x
        <4>1. \A k \in s : k <= x
          BY <2>5, <3>1, <3>2, <3>3
        <4> QED BY <2>4, <2>5, <4>1
      <3>4. CASE ~(n <= x)
        <4>1. \A k \in s : k <= n
          BY <2>5, <3>1, <3>2, <3>4
        <4> QED BY <2>5, <3>1, <4>1
      <3> QED BY <3>3, <3>4
    <2> QED BY <2>8, <2>9, <2>10
  <1>3. S \notin B
    BY <1>2
  <1> QED BY <1>3

-----------------------------------------------------------------------------
(* The refs: the page. *)

\* Where elements are, what they bear and what the map names.
RefTypes ==
  /\ at \in [Refs!Element -> {0} \cup Container] /\ \A e \in Refs!Element : at[e] \in Refs!Places(e)
  /\ stamp \in [Refs!Element -> Nat]
  /\ loose \in BOOLEAN /\ strayed \in BOOLEAN
  /\ DOMAIN refs \subseteq Nat \ {0} /\ IsFiniteSet(DOMAIN refs)

\* A stamp is that of the element its entry knows, unless one went astray.
KnowsElement ==
  ~loose => /\ Refs!Distinct(stamp)
            /\ \A r \in DOMAIN refs : \A e \in Refs!Element : stamp[e] = r => e = refs[r].element

\* An entry with a parent is that of an element which hangs from what bears the
\* parent's stamp, or was taken out: as long as nothing has moved.
KnowsParent ==
  ~strayed /\ Refs!Distinct(stamp) =>
    \A r \in DOMAIN refs : refs[r].parent # 0 =>
      \E e \in Refs!Element \ {Refs!Body} :
        stamp[e] = r /\ (at[e] = 0 \/ stamp[at[e]] = refs[r].parent)

\* A document that navigate has loaded and not yet mapped bears no stamps.
LoadedIsBare == ~loose /\ nav # 0 => \A e \in Refs!Element : stamp[e] = 0

RefsInv == RefTypes /\ KnowsElement /\ KnowsParent /\ LoadedIsBare

\* The elements from e up to the one that has no parent.
LEMMA PathIs ==
  ASSUME RefTypes
  PROVE  /\ \A e \in Refs!Element :
              Refs!Path(e) = {e} \cup (IF at[e] = 0 THEN {} ELSE Refs!Path(at[e]))
         /\ \A e \in Refs!Element : at[e] \in {0} \cup Refs!Element /\ at[e] < e /\ e \in Nat \ {0}
  <1> DEFINE S == {0} \cup Refs!Element
             up == CHOOSE f : f = [x \in S |-> IF x = 0 THEN {} ELSE {x} \cup f[at[x]]]
             Closed == {P \in SUBSET Refs!Element : \A y \in P : at[y] # 0 => at[y] \in P}
             g == [x \in S |-> IF x = 0 THEN {} ELSE {y \in Refs!Element : \A P \in Closed : x \in P => y \in P}]
  <1>1. \A e \in Refs!Element : at[e] \in {0} \cup Refs!Element /\ at[e] < e /\ e \in Nat \ {0}
    BY RefsAssumption DEF RefTypes, Refs!Element, Refs!Places, Refs!Nil
  <1>2. \A x \in Refs!Element : g[x] = {x} \cup g[at[x]]
    <2> SUFFICES ASSUME NEW x \in Refs!Element PROVE g[x] = {x} \cup g[at[x]]
      OBVIOUS
    <2>1. x # 0 /\ x \in S /\ at[x] \in S
      BY <1>1
    <2>2. g[x] = {y \in Refs!Element : \A P \in Closed : x \in P => y \in P}
      BY <2>1
    <2>3. CASE at[x] = 0
      <3>1. g[at[x]] = {}
        BY <2>1, <2>3
      <3>2. {x} \in Closed
        BY <2>3
      <3> QED BY <2>2, <3>1, <3>2
    <2>4. CASE at[x] # 0
      <3>1. at[x] \in Refs!Element
        BY <2>1, <2>4
      <3>2. g[at[x]] = {y \in Refs!Element : \A P \in Closed : at[x] \in P => y \in P}
        BY <2>1, <2>4
      <3>3. {x} \cup g[at[x]] \in Closed
        <4>1. \A y \in g[at[x]] : at[y] # 0 => at[y] \in g[at[x]]
          BY <1>1, <3>2
        <4>2. at[x] \in g[at[x]]
          BY <3>1, <3>2
        <4>3. {x} \cup g[at[x]] \in SUBSET Refs!Element
          BY <3>2
        <4> HIDE DEF g
        <4> QED BY <4>1, <4>2, <4>3
      <3>4. \A P \in Closed : x \in P => at[x] \in P
        BY <2>4
      <3>5. x \in {x} \cup g[at[x]] /\ \A y \in g[at[x]] : y \in Refs!Element
        BY <3>2
      <3>6. ASSUME NEW y \in g[x] PROVE y \in {x} \cup g[at[x]]
        <4> HIDE DEF Closed, g
        <4> QED BY <2>2, <3>3, <3>5
      <3>7. ASSUME NEW y \in {x} \cup g[at[x]] PROVE y \in g[x]
        <4>1. y \in Refs!Element
          BY <3>5
        <4>2. ASSUME NEW P \in Closed, x \in P PROVE y \in P
          <5> HIDE DEF Closed, g
          <5> QED BY <3>2, <3>4, <4>2
        <4> HIDE DEF Closed, g
        <4> QED BY <2>2, <4>1, <4>2
      <3> HIDE DEF Closed, g
      <3> QED BY <3>6, <3>7
    <2> QED BY <2>3, <2>4
  <1>3. g = [x \in S |-> IF x = 0 THEN {} ELSE {x} \cup g[at[x]]]
    <2>1. \A x \in S : g[x] = IF x = 0 THEN {} ELSE {x} \cup g[at[x]]
      <3>1. g[0] = {}
        OBVIOUS
      <3> HIDE DEF g
      <3> QED BY <1>2, <3>1
    <2>2. g = [x \in S |-> g[x]]
      OBVIOUS
    <2> HIDE DEF g
    <2> QED BY <2>1, <2>2, Zenon
  <1>4. up = [x \in S |-> IF x = 0 THEN {} ELSE {x} \cup up[at[x]]]
    <2> HIDE DEF g
    <2> QED BY <1>3, Zenon
  <1>5. \A e \in S : Refs!Path(e) = up[e]
    BY DEF Refs!Path, Refs!Nil, Refs!Element
  <1> HIDE DEF up
  <1>6. \A e \in Refs!Element : up[e] = {e} \cup up[at[e]]
    BY <1>1, <1>4
  <1>7. up[0] = {}
    BY <1>4
  <1>8. \A e \in Refs!Element : Refs!Path(e) = up[e] /\ (at[e] # 0 => Refs!Path(at[e]) = up[at[e]])
    BY <1>1, <1>5
  <1> QED BY <1>1, <1>6, <1>7, <1>8

\* A path goes on to the parent of each of its elements, and leads to where they all lead.
LEMMA PathLeadsOn ==
  ASSUME RefTypes, NEW e \in Refs!Element, NEW a \in Refs!Path(e)
  PROVE  /\ a \in Refs!Element
         /\ at[a] # 0 => at[a] \in Refs!Path(e)
         /\ \A b \in Refs!Path(e) : at[b] = 0 => b \in Refs!Path(a)
  <1> DEFINE Good(x) == \A y \in Refs!Path(x) :
                          /\ y \in Refs!Element
                          /\ at[y] # 0 => at[y] \in Refs!Path(x)
                          /\ \A b \in Refs!Path(x) : at[b] = 0 => b \in Refs!Path(y)
             Bad == {x \in Refs!Element : ~Good(x)}
  <1>1. ASSUME NEW x \in Refs!Element, at[x] # 0 => Good(at[x]) PROVE Good(x)
    <2>1. Refs!Path(x) = {x} \cup (IF at[x] = 0 THEN {} ELSE Refs!Path(at[x]))
      BY PathIs
    <2>2. at[x] # 0 => at[x] \in Refs!Path(at[x])
      BY PathIs
    <2>3. CASE at[x] = 0
      BY <2>1, <2>3
    <2>4. CASE at[x] # 0
      <3> SUFFICES ASSUME NEW y \in Refs!Path(x)
                   PROVE  /\ y \in Refs!Element
                          /\ at[y] # 0 => at[y] \in Refs!Path(x)
                          /\ \A b \in Refs!Path(x) : at[b] = 0 => b \in Refs!Path(y)
        OBVIOUS
      <3>1. Good(at[x])
        BY <1>1, <2>4
      <3>2. CASE y = x
        BY <2>1, <2>2, <2>4, <3>2
      <3>3. CASE y # x
        <4>1. y \in Refs!Path(at[x])
          BY <2>1, <2>4, <3>3
        <4>2. \A b \in Refs!Path(x) : at[b] = 0 => b \in Refs!Path(at[x])
          BY <2>1, <2>4
        <4> QED BY <2>1, <2>4, <3>1, <4>1, <4>2
      <3> QED BY <3>2, <3>3
    <2> QED BY <2>3, <2>4
  <1>2. Bad = {}
    <2> SUFFICES ASSUME Bad # {} PROVE FALSE
      OBVIOUS
    <2>1. Bad \in SUBSET Nat
      BY PathIs
    <2>2. PICK m \in Bad : \A k \in Bad : m <= k
      <3> HIDE DEF Bad
      <3> QED BY <2>1, Least
    <2>3. m \in Refs!Element /\ ~Good(m)
      BY <2>2
    <2>4. at[m] # 0 => at[m] \in Refs!Element /\ at[m] < m /\ at[m] \in Nat /\ m \in Nat
      BY <2>3, PathIs
    <2>5. at[m] # 0 => at[m] \notin Bad
      BY <2>2, <2>4
    <2> HIDE DEF Good
    <2>6. at[m] # 0 => Good(at[m])
      BY <2>4, <2>5
    <2> QED BY <1>1, <2>3, <2>6
  <1> HIDE DEF Good
  <1>3. Good(e)
    BY <1>2
  <1> QED BY <1>3 DEF Good

\* What is shown hangs from the body, which hangs from nothing.
LEMMA ShownHangs ==
  ASSUME RefTypes, NEW root \in Refs!Element, NEW e \in Refs!Under(root), e # root
  PROVE  e \in Refs!Element /\ e # Refs!Body /\ at[e] \in Refs!Element
  <1>1. e \in Refs!Element /\ root \in Refs!Path(e)
    BY DEF Refs!Under
  <1>2. at[e] # 0
    BY <1>1, PathIs
  <1>3. Refs!Body \in Refs!Element /\ at[Refs!Body] = 0
    <2>1. Refs!Body \in Container
      BY RefsAssumption
    <2>2. at[Refs!Body] \in {0} \cup Refs!Element /\ at[Refs!Body] < Refs!Body
      BY <2>1, PathIs DEF Refs!Element
    <2> QED BY <2>1, <2>2, PathIs DEF Refs!Element, Refs!Body
  <1> QED BY <1>1, <1>2, <1>3, PathIs

-----------------------------------------------------------------------------
(* The refs: walks. *)

\* The elements are numbers, finitely many.
LEMMA Elements == IsFiniteSet(Refs!Element) /\ Refs!Element \subseteq Nat \ {0}
  BY RefsAssumption, FS_Union DEF Refs!Element

\* An instance counts as everybody does.
LEMMA CountIs == \A S : Refs!Cardinality(S) = Cardinality(S)
  BY DEF Refs!Cardinality, Cardinality

\* A walk leaves the stamps there are, stamps all that it shows, and gives out refs that
\* no other element bears, but where it did not look.
LEMMA WalkStamps ==
  ASSUME RefTypes, NEW root \in Refs!Element, NEW d, Refs!Stamps(root, d)
  PROVE  /\ stamp' \in [Refs!Element -> Nat] /\ at' = at
         /\ Refs!Walked(root, d) \subseteq Refs!Under(root)
         /\ \A e \in Refs!Element : stamp[e] # 0 => stamp'[e] = stamp[e]
         /\ \A e \in Refs!Walked(root, d) : stamp'[e] # 0
         /\ Refs!Distinct(stamp') => Refs!Distinct(stamp)
         /\ Refs!Distinct(stamp) /\ ~Refs!Clashes(root) => Refs!Distinct(stamp')
  <1> DEFINE new == Refs!Unstamped(root, d)
             S == {0} \cup Refs!StampsOf(Refs!Under(root))
             n == Refs!Seed(root)
             upto(e) == {x \in new : x <= e}
  <1>1. stamp' = [e \in Refs!Element |-> IF e \in new THEN n + Cardinality(upto(e)) ELSE stamp[e]]
        /\ at' = at
    <2>1. stamp' = Refs!Stamped(root, d) /\ at' = at
      BY DEF Refs!Stamps
    <2>2. Refs!Stamped(root, d) =
            [e \in Refs!Element |-> IF e \in new THEN n + Cardinality({x \in new : x <= e}) ELSE stamp[e]]
      BY CountIs DEF Refs!Stamped, Refs!Nil
    <2> QED BY <2>1, <2>2
  <1>2. new \subseteq Refs!Element /\ Refs!Walked(root, d) \subseteq Refs!Under(root)
        /\ Refs!Under(root) \subseteq Refs!Element
    BY DEF Refs!Unstamped, Refs!Walked, Refs!Under
  <1>3. /\ \A e \in Refs!Walked(root, d) : e \in new \/ stamp[e] # 0
        /\ \A e \in new : stamp[e] = 0
    BY DEF Refs!Unstamped, Refs!Nil
  <1>4. n \in S /\ n \in Nat /\ \A k \in S : k <= n
    <2>1. S \in SUBSET Nat /\ S # {}
      BY <1>2 DEF RefTypes, Refs!StampsOf
    <2>2. IsFiniteSet(S)
      <3>1. IsFiniteSet(Refs!Under(root))
        BY <1>2, Elements, FS_Subset
      <3> DEFINE I == {stamp[e] : e \in Refs!Under(root)}
      <3>2. IsFiniteSet(I)
        <4>1. stamp \in [Refs!Element -> Nat]
          BY DEF RefTypes
        <4> DEFINE f == [e \in Refs!Under(root) |-> stamp[e]]
        <4>2. f \in Surjection(Refs!Under(root), I)
          BY DEF Surjection
        <4> QED BY <3>1, <4>2, FS_Surjection
      <3>3. S \subseteq {0} \cup I
        BY DEF Refs!StampsOf
      <3> HIDE DEF I, S
      <3>4. IsFiniteSet({0} \cup I)
        BY <3>2, FS_Singleton, FS_Union
      <3> QED BY <3>3, <3>4, FS_Subset
    <2>3. \E m \in S : \A k \in S : k <= m
      <3> HIDE DEF S
      <3> QED BY <2>1, <2>2, Greatest
    <2>4. n = Refs!Max(S)
      BY DEF Refs!Seed, Refs!Nil
    <2>5. Refs!Max(S) \in S /\ \A k \in S : Refs!Max(S) >= k
      <3> HIDE DEF S
      <3>1. \E m \in S : \A k \in S : m >= k
        BY <2>1, <2>3
      <3> QED BY <3>1 DEF Refs!Max
    <2> HIDE DEF S
    <2>6. n \in S
      BY <2>4, <2>5
    <2>7. n \in Nat
      BY <2>1, <2>6
    <2>8. \A k \in S : k <= n
      <3> SUFFICES ASSUME NEW k \in S PROVE k <= n
        OBVIOUS
      <3>1. n >= k /\ k \in Nat
        BY <2>1, <2>4, <2>5
      <3> QED BY <2>7, <3>1
    <2> QED BY <2>6, <2>7, <2>8
  <1> HIDE DEF new
  <1>5. \A e \in new : /\ IsFiniteSet(upto(e)) /\ Cardinality(upto(e)) \in Nat
                       /\ Cardinality(upto(e)) # 0 /\ e \in Nat
    <2> SUFFICES ASSUME NEW e \in new
                 PROVE  /\ IsFiniteSet(upto(e)) /\ Cardinality(upto(e)) \in Nat
                        /\ Cardinality(upto(e)) # 0 /\ e \in Nat
      OBVIOUS
    <2>1. e \in Nat /\ e \in upto(e)
      BY <1>2, Elements
    <2>2. upto(e) \subseteq Refs!Element
      BY <1>2
    <2>3. IsFiniteSet(upto(e))
      BY <2>2, Elements, FS_Subset
    <2> HIDE DEF upto
    <2> QED BY <2>1, <2>3, FS_CardinalityType, FS_EmptySet
  <1>6. ASSUME NEW e \in new, NEW f \in new, e < f PROVE Cardinality(upto(e)) < Cardinality(upto(f))
    <2>1. upto(e) \cup {f} \subseteq upto(f) /\ f \notin upto(e)
      <3>1. e \in Nat /\ f \in Nat
        BY <1>5
      <3>2. \A x \in upto(e) : x \in Nat
        BY <1>5
      <3>3. \A x \in upto(e) : x \in new /\ x <= f
        BY <1>6, <3>1, <3>2
      <3>4. f <= f /\ ~(f <= e)
        BY <1>6, <3>1
      <3>5. upto(e) \subseteq upto(f) /\ f \in upto(f)
        BY <3>3, <3>4
      <3> QED BY <3>4, <3>5
    <2>2. IsFiniteSet(upto(e)) /\ IsFiniteSet(upto(f)) /\ Cardinality(upto(e)) \in Nat /\ Cardinality(upto(f)) \in Nat
      BY <1>5
    <2> HIDE DEF upto
    <2>3. Cardinality(upto(e) \cup {f}) = Cardinality(upto(e)) + 1
      BY <2>1, <2>2, FS_AddElement
    <2>4. Cardinality(upto(e) \cup {f}) <= Cardinality(upto(f))
      BY <2>1, <2>2, FS_Subset
    <2> QED BY <2>2, <2>3, <2>4
  <1> HIDE DEF n, upto
  <1>7. \A e \in new : stamp'[e] = n + Cardinality(upto(e)) /\ stamp'[e] \in Nat /\ stamp'[e] > n
    BY <1>1, <1>2, <1>4, <1>5
  <1>8. \A e \in Refs!Element : e \notin new => stamp'[e] = stamp[e]
    BY <1>1
  <1>9. stamp' \in [Refs!Element -> Nat]
    <2>1. \A e \in Refs!Element : stamp'[e] \in Nat
      BY <1>7, <1>8 DEF RefTypes
    <2> QED BY <1>1, <2>1
  <1>10. \A e \in Refs!Element : stamp[e] # 0 => stamp'[e] = stamp[e]
    BY <1>3, <1>8
  <1>11. \A e \in Refs!Walked(root, d) : stamp'[e] # 0
    BY <1>2, <1>3, <1>4, <1>7, <1>8
  <1>12. Refs!Distinct(stamp') => Refs!Distinct(stamp)
    BY <1>10 DEF Refs!Distinct, Refs!Nil
  <1>13. ASSUME Refs!Distinct(stamp), ~Refs!Clashes(root), NEW e \in Refs!Element, NEW f \in Refs!Element,
                stamp'[e] = stamp'[f], stamp'[e] # 0, e \in new
         PROVE  e = f
    <2>1. CASE f \in new
      <3>1. Cardinality(upto(e)) = Cardinality(upto(f))
        BY <1>4, <1>5, <1>7, <1>13, <2>1
      <3>2. ~(e < f) /\ ~(f < e) /\ e \in Nat /\ f \in Nat
        BY <1>5, <1>6, <1>13, <2>1, <3>1
      <3> QED BY <3>2
    <2>2. CASE f \notin new
      <3>1. stamp[f] = stamp'[e] /\ stamp[e] = 0
        BY <1>3, <1>8, <1>13, <2>2
      <3>2. f \in Refs!Under(root)
        BY <1>13, <3>1 DEF Refs!Clashes, Refs!Nil
      <3>3. stamp[f] \in S
        BY <1>13, <3>1, <3>2 DEF Refs!StampsOf, Refs!Nil
      <3>4. stamp[f] <= n
        BY <1>4, <3>3
      <3>5. n < stamp'[e] /\ stamp'[e] \in Nat
        BY <1>7, <1>13
      <3> HIDE DEF S
      <3> QED BY <1>4, <3>1, <3>4, <3>5
    <2> QED BY <2>1, <2>2
  <1>14. ASSUME Refs!Distinct(stamp), ~Refs!Clashes(root) PROVE Refs!Distinct(stamp')
    <2> SUFFICES ASSUME NEW e \in Refs!Element, NEW f \in Refs!Element, stamp'[e] = stamp'[f], stamp'[e] # 0
                 PROVE  e = f
      BY DEF Refs!Distinct, Refs!Nil
    <2>1. CASE e \in new
      BY <1>13, <1>14, <2>1
    <2>2. CASE f \in new
      BY <1>13, <1>14, <2>2
    <2>3. CASE e \notin new /\ f \notin new
      BY <1>8, <1>14, <2>3 DEF Refs!Distinct, Refs!Nil
    <2> QED BY <2>1, <2>2, <2>3
  <1> QED BY <1>1, <1>2, <1>9, <1>10, <1>11, <1>12, <1>14

\* What a walk binds: each of its stamps to an element that bears it, under the parent the
\* map had for it, or under the element's own in the page, which is one of the page.
LEMMA WalkBinds ==
  ASSUME RefTypes, NEW root \in Refs!Element, NEW d, Refs!Stamps(root, d), NEW known
  PROVE  /\ DOMAIN Refs!Bound(known, root, d) \subseteq Nat \ {0}
         /\ IsFiniteSet(DOMAIN Refs!Bound(known, root, d))
         /\ Refs!Distinct(stamp') =>
              \A r \in DOMAIN Refs!Bound(known, root, d) :
                \E e \in Refs!Element :
                  /\ stamp'[e] = r /\ Refs!Bound(known, root, d)[r].element = e
                  /\ \/ /\ r \in DOMAIN known /\ known[r].parent # 0
                        /\ Refs!Bound(known, root, d)[r].parent = known[r].parent
                     \/ Refs!Bound(known, root, d)[r].parent = 0
                     \/ e # Refs!Body /\ Refs!Bound(known, root, d)[r].parent = stamp'[at[e]]
  <1> DEFINE walked == Refs!Walked(root, d)
             bearing(r) == {e \in walked : stamp'[e] = r}
             above(e) == IF e = root THEN 0 ELSE stamp'[at[e]]
             D == {stamp'[e] : e \in walked}
             b == Refs!Bound(known, root, d)
             entry(r) == [element   |-> Refs!Max(bearing(r)),
                          role      |-> Refs!Max(bearing(r)) \in Leaf,
                          parent    |-> IF r \in DOMAIN known /\ known[r].parent # 0
                                        THEN known[r].parent ELSE above(Refs!Min(bearing(r))),
                          truncated |-> \E x \in Refs!Element \ walked : at[x] = Refs!Max(bearing(r))]
  <1>1. b = [r \in D |-> entry(r)]
    BY DEF Refs!Bound, Refs!Nil
  <1>2. walked \subseteq Refs!Under(root) /\ walked \subseteq Refs!Element
    BY DEF Refs!Walked, Refs!Under
  <1>3. /\ stamp' \in [Refs!Element -> Nat]
        /\ \A e \in walked : stamp'[e] # 0
    BY WalkStamps
  <1>4. \A e \in walked : e # root => e # Refs!Body
    BY <1>2, ShownHangs
  <1>5. D \subseteq Nat \ {0}
    BY <1>2, <1>3
  <1>6. IsFiniteSet(D)
    <2>1. IsFiniteSet(walked)
      BY <1>2, Elements, FS_Subset
    <2> HIDE DEF walked
    <2> DEFINE f == [e \in walked |-> stamp'[e]]
    <2>2. f \in Surjection(walked, D)
      BY DEF Surjection
    <2> QED BY <2>1, <2>2, FS_Surjection
  <1> HIDE DEF walked
  <1>7. ASSUME Refs!Distinct(stamp'), NEW r \in D
        PROVE  \E e \in Refs!Element :
                  /\ stamp'[e] = r /\ b[r].element = e
                  /\ \/ /\ r \in DOMAIN known /\ known[r].parent # 0
                        /\ b[r].parent = known[r].parent
                     \/ b[r].parent = 0
                     \/ e # Refs!Body /\ b[r].parent = stamp'[at[e]]
    <2>1. PICK e \in walked : stamp'[e] = r
      OBVIOUS
    <2>2. \A f \in walked : stamp'[f] = r => f = e
      BY <1>2, <1>3, <1>7, <2>1 DEF Refs!Distinct, Refs!Nil
    <2>3. bearing(r) = {e}
      BY <2>1, <2>2
    <2>4. e \in Nat
      BY <1>2, Elements
    <2>5. Refs!Max({e}) = e /\ Refs!Min({e}) = e
      BY <2>4 DEF Refs!Max, Refs!Min
    <2>6. b[r] = entry(r)
      BY <1>1
    <2> HIDE DEF bearing, above
    <2>7. entry(r).element = e
      BY <2>3, <2>5
    <2>8. entry(r).parent = IF r \in DOMAIN known /\ known[r].parent # 0 THEN known[r].parent ELSE above(e)
      BY <2>3, <2>5
    <2>9. above(e) = IF e = root THEN 0 ELSE stamp'[at[e]]
      BY DEF above
    <2> HIDE DEF entry, b
    <2> QED BY <1>2, <1>4, <2>1, <2>6, <2>7, <2>8, <2>9
  <1>8. DOMAIN b = D
    BY <1>1
  <1> HIDE DEF D, b
  <1>9. Refs!Distinct(stamp') =>
          \A r \in DOMAIN b :
            \E e \in Refs!Element :
                  /\ stamp'[e] = r /\ b[r].element = e
                  /\ \/ /\ r \in DOMAIN known /\ known[r].parent # 0
                        /\ b[r].parent = known[r].parent
                     \/ b[r].parent = 0
                     \/ e # Refs!Body /\ b[r].parent = stamp'[at[e]]
    BY <1>7, <1>8
  <1> QED BY <1>5, <1>6, <1>8, <1>9 DEF b

-----------------------------------------------------------------------------
(* The refs: what every step keeps. *)

\* An empty map names nothing.
LEMMA NoRefs == DOMAIN << >> = {} /\ IsFiniteSet(DOMAIN << >>)
  <1>1. DOMAIN << >> = {}
    OBVIOUS
  <1> QED BY <1>1, FS_EmptySet

\* A document as it is loaded is one of the layouts and bears nothing.
LEMMA LayoutIs ==
  ASSUME NEW l \in Refs!Layouts
  PROVE  l \in [Refs!Element -> {0} \cup Container] /\ \A e \in Refs!Element : l[e] \in Refs!Places(e)
  BY DEF Refs!Layouts, Refs!Nil

\* The invariant holds of a page just loaded.
LEMMA RefsInit == Refs!Init => RefsInv
  <1> SUFFICES ASSUME Refs!Init PROVE RefsInv
    OBVIOUS
  <1> USE DEF Refs!Init, Refs!Nil
  <1>1. RefTypes
    BY LayoutIs, NoRefs DEF RefTypes
  <1>2. KnowsElement /\ KnowsParent /\ LoadedIsBare
    BY NoRefs DEF KnowsElement, KnowsParent, LoadedIsBare, Refs!Distinct
  <1> QED BY <1>1, <1>2 DEF RefsInv

\* What the site does.
LEMMA SiteKept ==
  ASSUME RefsInv, Refs!Site
  PROVE  RefsInv'
  <1> USE DEF RefsInv
  <1>1. ASSUME NEW e \in Refs!Element, NEW c \in Container, Refs!SiteAdds(e, c) PROVE RefsInv'
    <2>1. PICK s \in {0} \cup Refs!StampsOf(Refs!Element) :
            /\ at[e] = 0 /\ stamp[e] = 0 /\ c \in Refs!Places(e)
            /\ at' = [at EXCEPT ![e] = c]
            /\ stamp' = [stamp EXCEPT ![e] = s]
            /\ loose' = (loose \/ s # 0)
            /\ UNCHANGED <<refs, strayed, nav>>
      BY <1>1 DEF Refs!SiteAdds, Refs!Change, Refs!Nil
    <2>2. s \in Nat
      BY DEF Refs!StampsOf, RefTypes
    <2>3. RefTypes'
      BY <2>1, <2>2 DEF RefTypes, Refs!Places
    <2>4. \A x \in Refs!Element : /\ stamp'[x] = IF x = e THEN s ELSE stamp[x]
                                  /\ at'[x] = IF x = e THEN c ELSE at[x]
      BY <2>1 DEF RefTypes
    <2>5. ~loose' => s = 0 /\ stamp' = stamp
      BY <2>1 DEF RefTypes
    <2>6. KnowsElement' /\ LoadedIsBare'
      BY <2>1, <2>5 DEF KnowsElement, LoadedIsBare, RefTypes
    <2>7. Refs!Distinct(stamp') => Refs!Distinct(stamp)
      BY <2>1, <2>4 DEF Refs!Distinct, Refs!Nil
    <2>8. KnowsParent'
      <3> SUFFICES ASSUME ~strayed, Refs!Distinct(stamp), NEW r \in DOMAIN refs, refs[r].parent # 0
                   PROVE  \E x \in Refs!Element \ {Refs!Body} :
                            stamp'[x] = r /\ (at'[x] = 0 \/ stamp'[at'[x]] = refs[r].parent)
        BY <2>1, <2>7 DEF KnowsParent
      <3>1. PICK x \in Refs!Element \ {Refs!Body} :
              stamp[x] = r /\ (at[x] = 0 \/ stamp[at[x]] = refs[r].parent)
        BY DEF KnowsParent
      <3>2. x # e
        BY <2>1, <3>1 DEF RefTypes
      <3>3. at[x] = 0 \/ at[x] \in Refs!Element
        BY PathIs
      <3>4. at[x] # 0 => at[x] # e
        BY <2>1, <3>1
      <3> QED BY <2>4, <3>1, <3>2, <3>3, <3>4
    <2> QED BY <2>3, <2>6, <2>8
  <1>2. ASSUME NEW e \in Refs!Element, Refs!SiteRemoves(e) PROVE RefsInv'
    <2>1. at' = [at EXCEPT ![e] = 0] /\ UNCHANGED <<stamp, refs, loose, strayed, nav>>
      BY <1>2 DEF Refs!SiteRemoves, Refs!Change, Refs!Nil
    <2>2. \A x \in Refs!Element : at'[x] = IF x = e THEN 0 ELSE at[x]
      BY <2>1 DEF RefTypes
    <2>3. RefTypes'
      BY <2>1 DEF RefTypes, Refs!Places, Refs!Nil
    <2>4. KnowsElement' /\ LoadedIsBare'
      BY <2>1 DEF KnowsElement, LoadedIsBare
    <2>5. KnowsParent'
      BY <2>1, <2>2 DEF KnowsParent
    <2> QED BY <2>3, <2>4, <2>5
  <1>3. ASSUME NEW e \in Refs!Element, NEW c \in Container, Refs!SiteMoves(e, c) PROVE RefsInv'
    <2>1. /\ c \in Refs!Places(e)
          /\ at' = [at EXCEPT ![e] = c] /\ strayed' = TRUE /\ UNCHANGED <<stamp, refs, loose, nav>>
      BY <1>3 DEF Refs!SiteMoves, Refs!Change
    <2>2. RefTypes'
      BY <2>1 DEF RefTypes, Refs!Places
    <2>3. KnowsElement' /\ LoadedIsBare' /\ KnowsParent'
      BY <2>1 DEF KnowsElement, LoadedIsBare, KnowsParent
    <2> QED BY <2>2, <2>3
  <1>4. ASSUME NEW u \in Url, Refs!NewDocument(u) PROVE RefsInv'
    <2>1. /\ at' \in Refs!Layouts /\ stamp' = [e \in Refs!Element |-> 0]
          /\ DOMAIN refs' = DOMAIN refs /\ loose' = FALSE
          /\ strayed' = (strayed \/ DOMAIN refs # {}) /\ nav' = nav
      BY <1>4 DEF Refs!NewDocument, Refs!Load, Refs!Nil
    <2>2. RefTypes'
      BY <2>1, LayoutIs DEF RefTypes
    <2>3. \A e \in Refs!Element : stamp'[e] = 0
      BY <2>1
    <2>4. KnowsElement' /\ LoadedIsBare'
      BY <2>1, <2>3 DEF KnowsElement, LoadedIsBare, Refs!Distinct, Refs!Nil, RefTypes
    <2>5. KnowsParent'
      BY <2>1 DEF KnowsParent, RefTypes
    <2> QED BY <2>2, <2>4, <2>5
  <1> QED BY <1>1, <1>2, <1>3, <1>4 DEF Refs!Site

\* A walk whose result the map takes, with the parents it had or without any.
LEMMA BoundKept ==
  ASSUME RefsInv, NEW root \in Refs!Element, NEW d, Refs!Stamps(root, d), NEW known,
         refs' = Refs!Bound(known, root, d),
         loose' \in BOOLEAN, strayed' \in BOOLEAN,
         ~loose' => Refs!Distinct(stamp') \/ (~loose /\ ~Refs!Clashes(root)),
         ~strayed' => known = << >> \/ (known = refs /\ ~strayed)
  PROVE  RefTypes' /\ KnowsElement' /\ KnowsParent'
  <1> USE DEF RefsInv
  <1>1. /\ stamp' \in [Refs!Element -> Nat] /\ at' = at
        /\ \A e \in Refs!Element : stamp[e] # 0 => stamp'[e] = stamp[e]
        /\ Refs!Distinct(stamp') => Refs!Distinct(stamp)
        /\ Refs!Distinct(stamp) /\ ~Refs!Clashes(root) => Refs!Distinct(stamp')
    BY WalkStamps
  <1>2. ~loose' => Refs!Distinct(stamp')
    BY <1>1 DEF KnowsElement
  <1>3. /\ DOMAIN refs' \subseteq Nat \ {0} /\ IsFiniteSet(DOMAIN refs')
        /\ Refs!Distinct(stamp') =>
             \A r \in DOMAIN refs' :
                \E e \in Refs!Element :
                  /\ stamp'[e] = r /\ refs'[r].element = e
                  /\ \/ /\ r \in DOMAIN known /\ known[r].parent # 0
                        /\ refs'[r].parent = known[r].parent
                     \/ refs'[r].parent = 0
                     \/ e # Refs!Body /\ refs'[r].parent = stamp'[at[e]]
    BY WalkBinds
  <1>4. RefTypes'
    BY <1>1, <1>3 DEF RefTypes, Refs!Places
  <1>5. KnowsElement'
    <2> SUFFICES ASSUME Refs!Distinct(stamp'), NEW r \in DOMAIN refs', NEW e \in Refs!Element, stamp'[e] = r
                 PROVE  e = refs'[r].element
      BY <1>2 DEF KnowsElement
    <2>1. PICK f \in Refs!Element : stamp'[f] = r /\ refs'[r].element = f
      BY <1>3
    <2>2. r # 0
      BY <1>3
    <2> QED BY <2>1, <2>2 DEF Refs!Distinct, Refs!Nil
  <1>6. KnowsParent'
    <2> SUFFICES ASSUME ~strayed', Refs!Distinct(stamp'), NEW r \in DOMAIN refs', refs'[r].parent # 0
                 PROVE  \E e \in Refs!Element \ {Refs!Body} :
                          stamp'[e] = r /\ (at'[e] = 0 \/ stamp'[at'[e]] = refs'[r].parent)
      BY DEF KnowsParent
    <2>1. PICK e \in Refs!Element :
                  /\ stamp'[e] = r
                  /\ \/ /\ r \in DOMAIN known /\ known[r].parent # 0
                        /\ refs'[r].parent = known[r].parent
                     \/ refs'[r].parent = 0
                     \/ e # Refs!Body /\ refs'[r].parent = stamp'[at[e]]
      BY <1>3
    <2>2. CASE e # Refs!Body /\ refs'[r].parent = stamp'[at[e]]
      BY <1>1, <2>1, <2>2
    <2>3. CASE r \in DOMAIN known /\ known[r].parent # 0 /\ refs'[r].parent = known[r].parent
      <3>1. known = refs /\ ~strayed /\ Refs!Distinct(stamp)
        BY <1>1, <2>3, NoRefs
      <3>2. PICK f \in Refs!Element \ {Refs!Body} :
              stamp[f] = r /\ (at[f] = 0 \/ stamp[at[f]] = refs[r].parent)
        BY <2>3, <3>1 DEF KnowsParent
      <3>3. stamp'[f] = r
        BY <1>1, <1>3, <3>2
      <3>4. at[f] # 0 => stamp'[at[f]] = refs[r].parent
        BY <1>1, <2>3, <3>1, <3>2, PathIs
      <3> QED BY <1>1, <2>3, <3>1, <3>2, <3>3, <3>4
    <2> QED BY <2>1, <2>2, <2>3
  <1> QED BY <1>4, <1>5, <1>6

\* A walk whose result the map does not take.
LEMMA LostKept ==
  ASSUME RefsInv, NEW d, Refs!Stamps(Refs!Body, d), loose' = (loose \/ Refs!Mints),
         \/ UNCHANGED <<refs, strayed>>
         \/ refs' = << >> /\ strayed' = FALSE,
         nav' = nav
  PROVE  RefsInv'
  <1> USE DEF RefsInv
  <1>0. Refs!Body \in Refs!Element
    BY RefsAssumption DEF Refs!Element
  <1>1. /\ stamp' \in [Refs!Element -> Nat] /\ at' = at
        /\ \A e \in Refs!Element : stamp[e] # 0 => stamp'[e] = stamp[e]
        /\ Refs!Distinct(stamp') => Refs!Distinct(stamp)
    BY <1>0, WalkStamps
  <1>2. ~loose' => ~loose /\ stamp' = stamp
    BY DEF Refs!Mints, RefTypes
  <1>3. loose' \in BOOLEAN
    BY DEF RefTypes, Refs!Mints
  <1>4. RefTypes'
    BY <1>1, <1>3, NoRefs DEF RefTypes, Refs!Places
  <1>5. KnowsElement'
    BY <1>1, <1>2, NoRefs DEF KnowsElement
  <1>6. KnowsParent'
    <2>1. CASE refs' = << >>
      BY <2>1, NoRefs DEF KnowsParent
    <2>2. CASE UNCHANGED <<refs, strayed>>
      <3> SUFFICES ASSUME ~strayed, Refs!Distinct(stamp), NEW r \in DOMAIN refs, refs[r].parent # 0
                   PROVE  \E e \in Refs!Element \ {Refs!Body} :
                            stamp'[e] = r /\ (at'[e] = 0 \/ stamp'[at'[e]] = refs[r].parent)
        BY <1>1, <2>2 DEF KnowsParent
      <3>1. PICK e \in Refs!Element \ {Refs!Body} :
              stamp[e] = r /\ (at[e] = 0 \/ stamp[at[e]] = refs[r].parent)
        BY DEF KnowsParent
      <3>2. stamp'[e] = r
        BY <1>1, <3>1 DEF RefTypes
      <3>3. at[e] # 0 => stamp'[at[e]] = stamp[at[e]] \/ stamp[at[e]] = 0
        BY <1>1, PathIs
      <3> QED BY <1>1, <3>1, <3>2, <3>3
    <2> QED BY <2>1, <2>2
  <1>7. LoadedIsBare'
    BY <1>1, <1>2 DEF LoadedIsBare
  <1> QED BY <1>4, <1>5, <1>6, <1>7

\* What the tools do.
LEMMA ToolsKept ==
  ASSUME RefsInv, Refs!Tools
  PROVE  RefsInv'
  <1> USE DEF RefsInv
  <1>0. Refs!Body \in Refs!Element
    BY RefsAssumption DEF Refs!Element
  <1>1. ASSUME NEW d \in Depths \cup {Default}, Refs!FullWalk(d) PROVE RefsInv'
    <2>1. /\ Refs!Stamps(Refs!Body, d) /\ nav = 0 /\ nav' = nav
          /\ refs' = Refs!Bound(IF Refs!UrlChanged THEN << >> ELSE refs, Refs!Body, d)
          /\ strayed' = (strayed /\ ~Refs!UrlChanged)
          /\ loose' = (~Refs!Distinct(stamp') /\ (loose \/ Refs!Clashes(Refs!Body)))
      BY <1>1 DEF Refs!FullWalk, Refs!Nil
    <2> DEFINE known == IF Refs!UrlChanged THEN << >> ELSE refs
    <2>2. ~strayed' => known = << >> \/ (known = refs /\ ~strayed)
      BY <2>1
    <2>3. loose' \in BOOLEAN /\ strayed' \in BOOLEAN
      BY <2>1 DEF RefTypes
    <2>4. ~loose' => Refs!Distinct(stamp') \/ (~loose /\ ~Refs!Clashes(Refs!Body))
      BY <2>1
    <2>5. refs' = Refs!Bound(known, Refs!Body, d)
      BY <2>1
    <2> HIDE DEF known
    <2>6. RefTypes' /\ KnowsElement' /\ KnowsParent'
      BY <1>0, <2>1, <2>2, <2>3, <2>4, <2>5, BoundKept
    <2> QED BY <2>1, <2>6 DEF LoadedIsBare
  <1>2. ASSUME NEW d \in Depths \cup {Default}, NEW e \in Refs!Element, Refs!ScopedWalk(e, d) PROVE RefsInv'
    <2>1. /\ Refs!Stamps(e, d) /\ nav = 0 /\ nav' = nav
          /\ refs' = Refs!Bound(refs, e, d) /\ strayed' = strayed
          /\ loose' = (loose \/ Refs!Clashes(e))
      BY <1>2 DEF Refs!ScopedWalk, Refs!Nil
    <2>2. loose' \in BOOLEAN /\ strayed' \in BOOLEAN /\ (~loose' => ~loose /\ ~Refs!Clashes(e))
      BY <2>1 DEF RefTypes, Refs!Clashes
    <2>3. RefTypes' /\ KnowsElement' /\ KnowsParent'
      BY <2>1, <2>2, BoundKept
    <2> QED BY <2>1, <2>3 DEF LoadedIsBare
  <1>3. ASSUME Refs!LostWalk PROVE RefsInv'
    BY <1>3, LostKept DEF Refs!LostWalk
  <1>4. ASSUME Refs!SelfHeal PROVE RefsInv'
    <2>1. /\ Refs!Stamps(Refs!Body, Default) /\ loose' = (loose \/ Refs!Mints) /\ nav' = nav
          /\ UNCHANGED <<refs, strayed>> \/ (refs' = << >> /\ strayed' = FALSE)
      BY <1>4 DEF Refs!SelfHeal, Refs!Cleared
    <2> QED BY <2>1, LostKept
  <1>5. ASSUME Refs!ClearRefs PROVE RefsInv'
    <2>1. refs' = << >> /\ strayed' = FALSE /\ UNCHANGED <<at, stamp, loose, nav>>
      BY <1>5 DEF Refs!ClearRefs, Refs!Cleared, Refs!page
    <2>2. RefTypes'
      BY <2>1, NoRefs DEF RefTypes, Refs!Places
    <2> QED BY <2>1, <2>2, NoRefs DEF KnowsElement, KnowsParent, LoadedIsBare
  <1>6. ASSUME Refs!NavigateMaps PROVE RefsInv'
    <2>1. /\ Refs!Stamps(Refs!Body, Default) /\ nav' = 0
          /\ refs' = Refs!Bound(refs, Refs!Body, Default) /\ strayed' = strayed
          /\ loose' = (~Refs!Distinct(stamp') /\ (loose \/ Refs!Clashes(Refs!Body)))
      BY <1>6 DEF Refs!NavigateMaps, Refs!Nil
    <2>2. /\ loose' \in BOOLEAN /\ strayed' \in BOOLEAN
          /\ ~loose' => Refs!Distinct(stamp') \/ (~loose /\ ~Refs!Clashes(Refs!Body))
      BY <2>1 DEF RefTypes
    <2>3. RefTypes' /\ KnowsElement' /\ KnowsParent'
      BY <1>0, <2>1, <2>2, BoundKept
    <2> QED BY <2>1, <2>3 DEF LoadedIsBare
  <1>7. ASSUME Refs!NavigateSkipsMap PROVE RefsInv'
    <2>1. nav' = 0 /\ UNCHANGED <<at, stamp, refs, loose, strayed>>
      BY <1>7 DEF Refs!NavigateSkipsMap, Refs!page, Refs!Nil
    <2>2. RefTypes'
      BY <2>1 DEF RefTypes, Refs!Places
    <2> QED BY <2>1, <2>2 DEF KnowsElement, KnowsParent, LoadedIsBare
  <1>8. ASSUME NEW u \in Url, Refs!Navigate(u) PROVE RefsInv'
    <2>1. /\ at' \in Refs!Layouts /\ stamp' = [e \in Refs!Element |-> 0]
          /\ refs' = << >> /\ loose' = FALSE /\ strayed' = FALSE
      BY <1>8 DEF Refs!Navigate, Refs!Load, Refs!Cleared, Refs!Nil
    <2>2. RefTypes'
      BY <2>1, NoRefs, LayoutIs DEF RefTypes
    <2>3. \A e \in Refs!Element : stamp'[e] = 0
      BY <2>1
    <2> QED BY <2>1, <2>2, <2>3, NoRefs DEF KnowsElement, KnowsParent, LoadedIsBare, Refs!Distinct, Refs!Nil
  <1>9. ASSUME NEW n \in 1 .. MaxHeadings, Refs!NavigateSynthesizes(n) PROVE RefsInv'
    <2>1. /\ nav # 0 /\ nav' = 0 /\ UNCHANGED <<at, stamp, loose, strayed>>
          /\ DOMAIN refs' = 1 .. n /\ \A r \in 1 .. n : refs'[r].parent = 0
      BY <1>9 DEF Refs!NavigateSynthesizes, Refs!page, Refs!Nil
    <2>2. RefTypes'
      <3>1. n \in Int /\ IsFiniteSet(1 .. n) /\ 1 .. n \subseteq Nat \ {0}
        BY FS_Interval
      <3> QED BY <2>1, <3>1 DEF RefTypes, Refs!Places
    <2>3. KnowsElement'
      <3> SUFFICES ASSUME ~loose
                   PROVE  Refs!Distinct(stamp) /\ \A r \in 1 .. n : \A e \in Refs!Element : stamp[e] # r
        BY <2>1 DEF KnowsElement
      <3> QED BY <2>1 DEF LoadedIsBare, KnowsElement
    <2> QED BY <2>1, <2>2, <2>3 DEF KnowsParent, LoadedIsBare
  <1> QED BY <1>1, <1>2, <1>3, <1>4, <1>5, <1>6, <1>7, <1>8, <1>9 DEF Refs!Tools

\* Steps of other parts leave the refs alone.
LEMMA RefsHold == UnitsSpec => []RefsInv
  <1>1. UnitsInit => RefsInv
    BY RefsInit DEF UnitsInit
  <1>2. RefsInv /\ Refs!Next => RefsInv'
    BY SiteKept, ToolsKept DEF Refs!Next
  <1>3. RefsInv /\ UNCHANGED elements => RefsInv'
    BY DEF elements, RefsInv, RefTypes, Refs!Places, KnowsElement, KnowsParent, LoadedIsBare
  <1>4. RefsInv /\ [UnitsNext]_units => RefsInv'
    BY <1>2, <1>3 DEF UnitsNext, units
  <1> QED BY <1>1, <1>4, PTL DEF UnitsSpec

-----------------------------------------------------------------------------
(* The refs: what a tool acts on. *)

Ups(S) == {refs[x].parent : x \in S \cap DOMAIN refs}

\* What is above a ref is reached by parents.
LEMMA AboveIs ==
  ASSUME RefTypes, NEW x \in DOMAIN refs, NEW P,
         \A y \in Ups({x}) : y \in P,
         \A y \in P : \A z \in Ups({y}) : z \in P
  PROVE  Refs!Above(x) \subseteq P
  <1> DEFINE N == Cardinality(DOMAIN refs)
             f == CHOOSE h : h = [n \in 1 .. N |-> IF n = 1 THEN Ups({x}) ELSE h[n - 1] \cup Ups(h[n - 1])]
             Eq(h, k) == /\ h \in [1 .. k -> SUBSET P]
                         /\ \A n \in 1 .. k : h[n] = IF n = 1 THEN Ups({x}) ELSE h[n - 1] \cup Ups(h[n - 1])
             Good(k) == \E h : Eq(h, k)
             Bad == {k \in Nat : k # 0 /\ ~Good(k)}
  <1>1. N \in Nat /\ N # 0
    BY FS_CardinalityType, FS_EmptySet DEF RefTypes
  <1>2. Ups({x}) \in SUBSET P /\ \A S \in SUBSET P : S \cup Ups(S) \in SUBSET P
    BY DEF Ups
  <1>3. Good(1)
    <2> DEFINE h == [n \in 1 .. 1 |-> Ups({x})]
    <2>1. Eq(h, 1)
      BY <1>2
    <2> HIDE DEF h, Eq
    <2> QED BY <2>1
  <1>4. ASSUME NEW k \in Nat, k # 0, Good(k) PROVE Good(k + 1)
    <2>1. PICK g : Eq(g, k)
      BY <1>4
    <2> DEFINE h == [n \in 1 .. k + 1 |-> IF n = k + 1 THEN g[k] \cup Ups(g[k]) ELSE g[n]]
    <2>2. \A n \in 1 .. k : h[n] = g[n] /\ g[n] \in SUBSET P
      BY <2>1
    <2>3. h[k + 1] = g[k] \cup Ups(g[k]) /\ k \in 1 .. k
      BY <1>4
    <2>4. \A n \in 1 .. k + 1 : n = k + 1 \/ n \in 1 .. k
      OBVIOUS
    <2>5. h \in [1 .. k + 1 -> SUBSET P]
      <3>1. g[k] \cup Ups(g[k]) \in SUBSET P
        BY <1>2, <2>2, <2>3
      <3> QED BY <2>2, <2>4, <3>1
    <2>6. ASSUME NEW n \in 1 .. k + 1 PROVE h[n] = IF n = 1 THEN Ups({x}) ELSE h[n - 1] \cup Ups(h[n - 1])
      <3> HIDE DEF h
      <3>1. CASE n = k + 1
        <4>1. n # 1 /\ n - 1 = k
          BY <1>4, <3>1
        <4> QED BY <2>2, <2>3, <3>1, <4>1
      <3>2. CASE n \in 1 .. k
        <4>1. n # 1 => n - 1 \in 1 .. k
          BY <3>2
        <4> QED BY <2>1, <2>2, <3>2, <4>1
      <3> QED BY <2>4, <3>1, <3>2
    <2> HIDE DEF h
    <2>7. Eq(h, k + 1)
      BY <2>5, <2>6
    <2> HIDE DEF Eq
    <2> QED BY <2>7
  <1> HIDE DEF Good
  <1>5. Bad = {}
    <2> SUFFICES ASSUME Bad # {} PROVE FALSE
      OBVIOUS
    <2>1. PICK m \in Bad : \A k \in Bad : m <= k
      <3>1. Bad \in SUBSET Nat
        OBVIOUS
      <3> HIDE DEF Bad
      <3> QED BY <3>1, Least
    <2>2. m \in Nat /\ m # 0 /\ m # 1 /\ ~Good(m)
      BY <1>3, <2>1
    <2>3. m - 1 \in Nat /\ m - 1 # 0 /\ m - 1 \notin Bad /\ (m - 1) + 1 = m
      BY <2>1, <2>2
    <2>4. Good(m - 1)
      BY <2>3
    <2> QED BY <1>4, <2>2, <2>3, <2>4
  <1>6. PICK g : Eq(g, N)
    <2>1. Good(N)
      BY <1>1, <1>5
    <2> HIDE DEF N
    <2> QED BY <2>1 DEF Good
  <1>7. g = [n \in 1 .. N |-> IF n = 1 THEN Ups({x}) ELSE g[n - 1] \cup Ups(g[n - 1])]
    <2> HIDE DEF N
    <2>1. g = [n \in 1 .. N |-> g[n]]
      BY <1>6
    <2>2. \A n \in 1 .. N : g[n] = IF n = 1 THEN Ups({x}) ELSE g[n - 1] \cup Ups(g[n - 1])
      BY <1>6
    <2> HIDE DEF Eq
    <2> QED BY <2>1, <2>2, Zenon
  <1>8. f = [n \in 1 .. N |-> IF n = 1 THEN Ups({x}) ELSE f[n - 1] \cup Ups(f[n - 1])]
    <2> HIDE DEF N
    <2> QED BY <1>7, Zenon
  <1>9. Refs!Above(x) = f[N] \ {0}
    BY CountIs DEF Refs!Above, Refs!Nil, Ups
  <1> HIDE DEF f, N
  <1>10. ASSUME NEW n \in 1 .. N PROVE f[n] \in SUBSET P
    <2> DEFINE Worse == {k \in 1 .. N : f[k] \notin SUBSET P}
    <2>1. Worse = {}
      <3> SUFFICES ASSUME Worse # {} PROVE FALSE
        OBVIOUS
      <3>1. PICK m \in Worse : \A k \in Worse : m <= k
        <4>1. Worse \in SUBSET Nat
          OBVIOUS
        <4> HIDE DEF Worse
        <4> QED BY <4>1, Least
      <3>2. m \in 1 .. N /\ f[m] \notin SUBSET P
        BY <3>1
      <3>3. m # 1
        BY <1>2, <1>8, <3>2
      <3>4. m - 1 \in 1 .. N /\ m - 1 \notin Worse
        BY <1>1, <3>1, <3>2, <3>3
      <3>5. f[m - 1] \in SUBSET P
        BY <3>4
      <3>6. f[m] = f[m - 1] \cup Ups(f[m - 1])
        BY <1>8, <3>2, <3>3
      <3> QED BY <1>2, <3>2, <3>5, <3>6
    <2> QED BY <2>1
  <1>11. f[N] \in SUBSET P
    BY <1>1, <1>10
  <1> QED BY <1>9, <1>11

\* The refs above the one an element bears are borne by elements above it.
LEMMA AboveIsOnPath ==
  ASSUME RefsInv, ~loose, ~strayed, NEW x \in DOMAIN refs, NEW e \in Refs!Bearing(x),
         NEW r \in Refs!Above(x) \cap DOMAIN refs
  PROVE  refs[r].element \in Refs!Path(e)
  <1> USE DEF RefsInv
  <1> DEFINE Traced(y) == y \in DOMAIN refs => \E a \in Refs!Path(e) : stamp[a] = y
             P == {y \in Ups(DOMAIN refs) : Traced(y)}
  <1>1. /\ e \in Refs!Element /\ stamp[e] = x /\ Refs!Body \in Refs!Path(e) /\ e \in Refs!Path(e)
        /\ Refs!Body \in Refs!Element /\ at[Refs!Body] = 0
    <2>1. e \in Refs!Element /\ stamp[e] = x /\ Refs!Body \in Refs!Path(e)
      BY DEF Refs!Bearing, Refs!Shown, Refs!Under
    <2>2. Refs!Body \in Refs!Element /\ at[Refs!Body] = 0
      <3>1. Refs!Body \in Container
        BY RefsAssumption
      <3>2. at[Refs!Body] \in {0} \cup Refs!Element /\ at[Refs!Body] < Refs!Body
        BY <3>1, PathIs DEF Refs!Element
      <3> QED BY <3>1, <3>2, PathIs DEF Refs!Element, Refs!Body
    <2> QED BY <2>1, <2>2, PathIs
  <1>2. ASSUME NEW y \in DOMAIN refs, NEW a \in Refs!Path(e), stamp[a] = y PROVE Traced(refs[y].parent)
    <2> SUFFICES ASSUME refs[y].parent \in DOMAIN refs
                 PROVE  \E b \in Refs!Path(e) : stamp[b] = refs[y].parent
      OBVIOUS
    <2>1. refs[y].parent # 0 /\ y # 0
      BY DEF RefTypes
    <2>2. PICK b \in Refs!Element \ {Refs!Body} :
            stamp[b] = y /\ (at[b] = 0 \/ stamp[at[b]] = refs[y].parent)
      BY <2>1 DEF KnowsParent, KnowsElement
    <2>3. a \in Refs!Element
      BY <1>1, PathLeadsOn
    <2>4. a = b
      BY <1>2, <2>1, <2>2, <2>3 DEF KnowsElement, Refs!Distinct, Refs!Nil
    <2>5. at[a] # 0
      <3> SUFFICES ASSUME at[a] = 0 PROVE FALSE
        OBVIOUS
      <3>1. Refs!Path(a) = {a}
        BY <2>3, PathIs
      <3>2. Refs!Body \in Refs!Path(a)
        BY <1>1, PathLeadsOn
      <3> QED BY <2>2, <2>4, <3>1, <3>2
    <2>6. at[a] \in Refs!Path(e)
      BY <1>1, <2>5, PathLeadsOn
    <2> QED BY <2>2, <2>4, <2>5, <2>6
  <1>3. \A y \in Ups({x}) : y \in P
    <2> SUFFICES ASSUME NEW y \in Ups({x}) PROVE y \in P
      OBVIOUS
    <2>1. y = refs[x].parent /\ y \in Ups(DOMAIN refs)
      BY DEF Ups
    <2>2. Traced(refs[x].parent)
      BY <1>1, <1>2
    <2> HIDE DEF Traced
    <2> QED BY <2>1, <2>2
  <1>4. \A y \in P : \A z \in Ups({y}) : z \in P
    <2> SUFFICES ASSUME NEW y \in P, NEW z \in Ups({y}) PROVE z \in P
      OBVIOUS
    <2>1. y \in DOMAIN refs /\ z = refs[y].parent /\ z \in Ups(DOMAIN refs)
      BY DEF Ups
    <2>2. PICK a \in Refs!Path(e) : stamp[a] = y
      BY <2>1
    <2>3. Traced(z)
      BY <1>2, <2>1, <2>2
    <2> HIDE DEF Traced
    <2> QED BY <2>1, <2>3
  <1>5. Refs!Above(x) \subseteq P
    <2> HIDE DEF P
    <2> QED BY <1>3, <1>4, AboveIs
  <1>6. PICK a \in Refs!Path(e) : stamp[a] = r
    BY <1>5
  <1>7. a \in Refs!Element
    BY <1>1, PathLeadsOn
  <1> QED BY <1>6, <1>7 DEF KnowsElement

\* For any page, any depth of the walks and any number of changes: a tool that is given a
\* ref acts on the element the ref was bound to, on one inside it, or on none, unless a
\* stamp went astray (ref_resolve.rs, ref_map.rs).
THEOREM RefsLeadToTheirElement == UnitsSpec => []ActsOnItsElement
  <1>1. ASSUME RefsInv PROVE ActsOnItsElement
    <2> USE DEF RefsInv
    <2> SUFFICES ASSUME ~loose, NEW r \in DOMAIN refs, NEW x \in Refs!Aim(r), NEW e \in Refs!Bearing(x)
                 PROVE  e = refs[x].element /\ (strayed \/ refs[r].element \in Refs!Path(e))
      BY DEF ActsOnItsElement, Refs!ActsOnItsElement
    <2>1. x \in DOMAIN refs /\ (x = r \/ r \in Refs!Above(x))
      BY DEF Refs!Aim, Refs!Actionable
    <2>2. e \in Refs!Element /\ stamp[e] = x
      BY DEF Refs!Bearing, Refs!Shown, Refs!Under
    <2>3. e = refs[x].element
      BY <2>1, <2>2, <1>1 DEF KnowsElement
    <2>4. CASE x = r
      BY <1>1, <2>2, <2>3, <2>4, PathIs
    <2>5. CASE r \in Refs!Above(x)
      BY <1>1, <2>1, <2>3, <2>5, AboveIsOnPath
    <2> QED BY <2>1, <2>3, <2>4, <2>5
  <1> QED BY <1>1, RefsHold, PTL

-----------------------------------------------------------------------------
(* The line protocol of the Playwright bridge: it and its child owe each    *)
(* other at most one line, for any number of calls.                         *)

AtWork == node \in {"working", "writing"}

\* What pending_responses counts bounds what is really under way, and a call
\* writes only when the count is zero.
CountBounds ==
  /\ pending \in 0..1
  /\ Pipe!Owed <= pending
  /\ caller = "write" => pending = 0
  /\ caller \in {"drain", "read"} => pending = 1

\* Whatever is under way while a call reads is that call's own.
OwedIsCurrent ==
  caller = "read" =>
    /\ \A i \in 1..Len(stdin) : stdin[i] = current
    /\ \A i \in 1..Len(stdout) : stdout[i].call = current
    /\ AtWork => job = current

PipeInv == Pipe!TypeOK /\ CountBounds /\ OwedIsCurrent /\ AnswerIsOwn

\* Taking the first element of a queue.
LEMMA QueueTail ==
  ASSUME NEW S, NEW q \in Seq(S), q # << >>
  PROVE  /\ Head(q) \in S /\ Head(q) = q[1] /\ Tail(q) \in Seq(S)
         /\ Len(q) \in Nat /\ Len(q) >= 1 /\ Len(Tail(q)) = Len(q) - 1
         /\ \A i \in 1..Len(Tail(q)) : Tail(q)[i] = q[i + 1]
OBVIOUS

\* Adding one at the end.
LEMMA QueueAppend ==
  ASSUME NEW S, NEW q \in Seq(S), NEW x \in S
  PROVE  /\ Append(q, x) \in Seq(S) /\ Len(Append(q, x)) = Len(q) + 1 /\ Len(q) \in Nat
         /\ \A i \in 1..Len(q) : Append(q, x)[i] = q[i]
         /\ Append(q, x)[Len(q) + 1] = x
OBVIOUS

\* The pipe starts with nothing under way.
LEMMA InitPipe == Pipe!Init => PipeInv
BY PipeAssumption DEF Pipe!Init, PipeInv, Pipe!TypeOK, CountBounds, OwedIsCurrent, AnswerIsOwn,
  Pipe!Owed, AtWork, Pipe!Torn, Pipe!Response

\* No step of the bridge or of its child breaks it.
LEMMA StepPipe == PipeInv /\ [Pipe!Next]_(Pipe!vars) => PipeInv'
<1> SUFFICES ASSUME PipeInv, [Pipe!Next]_(Pipe!vars) PROVE PipeInv'
    OBVIOUS
<1> USE PipeAssumption DEF PipeInv, CountBounds, OwedIsCurrent, AnswerIsOwn, Pipe!Owed, AtWork
<1> Len(stdin) \in Nat /\ Len(stdout) \in Nat
    BY DEF Pipe!TypeOK
<1>1. CASE Pipe!Begin
    BY <1>1 DEF Pipe!Begin, Pipe!child, Pipe!TypeOK
<1>2. CASE Pipe!DrainLine
    <2>1. stdout # << >> /\ stdout \in Seq(Pipe!Response) /\ Pipe!Takes(Head(stdout))
        BY <1>2 DEF Pipe!DrainLine, Pipe!TypeOK
    <2>2. stdout' \in Seq(Pipe!Response) /\ Len(stdout') = Len(stdout) - 1
        BY <2>1, QueueTail DEF Pipe!Takes
    <2> QED  BY <1>2, <2>1, <2>2 DEF Pipe!DrainLine, Pipe!Takes, Pipe!TypeOK
<1>3. CASE Pipe!Write
    <2>1. pending = 0 /\ Len(stdin) = 0 /\ Len(stdout) = 0 /\ ~AtWork
        BY <1>3 DEF Pipe!Write, Pipe!TypeOK
    <2>2. current \in Nat /\ stdin \in Seq(Nat)
        BY DEF Pipe!TypeOK
    <2>3. stdin' \in Seq(Nat) /\ Len(stdin') = 1 /\ stdin'[1] = current
        BY <1>3, <2>1, <2>2, QueueAppend DEF Pipe!Write
    <2> QED  BY <1>3, <2>1, <2>3 DEF Pipe!Write, Pipe!child, Pipe!TypeOK
<1>4. CASE Pipe!WriteFails
    BY <1>4 DEF Pipe!WriteFails, Pipe!child, Pipe!TypeOK
<1>5. CASE Pipe!ReadLine
    <2>1. stdout # << >> /\ stdout \in Seq(Pipe!Response) /\ Pipe!Takes(Head(stdout))
        BY <1>5 DEF Pipe!ReadLine, Pipe!TypeOK
    <2>2. /\ stdout' \in Seq(Pipe!Response) /\ Len(stdout') = Len(stdout) - 1
          /\ Head(stdout) \in Pipe!Response /\ Head(stdout) = stdout[1] /\ Len(stdout) >= 1
        BY <2>1, QueueTail DEF Pipe!Takes
    <2>3. Head(stdout).call = current
        BY <1>5, <2>2 DEF Pipe!ReadLine
    <2> QED  BY <1>5, <2>1, <2>2, <2>3 DEF Pipe!ReadLine, Pipe!Takes, Pipe!TypeOK
<1>6. CASE Pipe!ReadTimeout
    BY <1>6 DEF Pipe!ReadTimeout, Pipe!GivesUp, Pipe!TypeOK, Pipe!Torn
<1>7. CASE Pipe!ReadClosed
    BY <1>7 DEF Pipe!ReadClosed, Pipe!child, Pipe!TypeOK
<1>8. CASE Pipe!DropRead
    BY <1>8 DEF Pipe!DropRead, Pipe!GivesUp, Pipe!TypeOK, Pipe!Torn
<1>9. CASE Pipe!DropWrite
    BY <1>9 DEF Pipe!DropWrite, Pipe!child, Pipe!TypeOK
<1>10. CASE Pipe!NodeTakes
    <2>1. stdin # << >> /\ stdin \in Seq(Nat)
        BY <1>10 DEF Pipe!NodeTakes, Pipe!TypeOK
    <2>2. /\ stdin' \in Seq(Nat) /\ Len(stdin') = Len(stdin) - 1 /\ Len(stdin) >= 1
          /\ job' = stdin[1] /\ job' \in Nat
          /\ \A i \in 1..Len(stdin') : stdin'[i] = stdin[i + 1]
        BY <1>10, <2>1, QueueTail DEF Pipe!NodeTakes
    <2> QED  BY <1>10, <2>2 DEF Pipe!NodeTakes, Pipe!call, Pipe!TypeOK
<1>11. CASE Pipe!NodeWrites
    BY <1>11 DEF Pipe!NodeWrites, Pipe!call, Pipe!TypeOK, Pipe!Torn
<1>12. CASE Pipe!NodeAnswers
    <2> DEFINE r == [call |-> job, torn |-> torn]
    <2>1. r \in Pipe!Response /\ stdout \in Seq(Pipe!Response)
        BY DEF Pipe!Response, Pipe!TypeOK
    <2>2. /\ stdout' \in Seq(Pipe!Response) /\ Len(stdout') = Len(stdout) + 1
          /\ \A i \in 1..Len(stdout) : stdout'[i] = stdout[i]
          /\ stdout'[Len(stdout) + 1] = r
        BY <1>12, <2>1, QueueAppend DEF Pipe!NodeAnswers
    <2> QED  BY <1>12, <2>2 DEF Pipe!NodeAnswers, Pipe!call, Pipe!TypeOK, Pipe!Torn
<1>13. CASE Pipe!NodeDies
    <2>1. CASE stdout' = stdout
        BY <1>13, <2>1 DEF Pipe!NodeDies, Pipe!call, Pipe!TypeOK, Pipe!Torn
    <2>2. CASE stdout' # stdout
        <3>1. PICK t \in {"clean", "char"} :
                node = "writing" /\ stdout' = Append(stdout, [call |-> job, torn |-> t])
            BY <1>13, <2>2 DEF Pipe!NodeDies
        <3> DEFINE r == [call |-> job, torn |-> t]
        <3>2. r \in Pipe!Response /\ stdout \in Seq(Pipe!Response)
            BY DEF Pipe!Response, Pipe!TypeOK, Pipe!Torn
        <3>3. /\ stdout' \in Seq(Pipe!Response) /\ Len(stdout') = Len(stdout) + 1
              /\ \A i \in 1..Len(stdout) : stdout'[i] = stdout[i]
              /\ stdout'[Len(stdout) + 1] = r
            BY <3>1, <3>2, QueueAppend
        <3> QED  BY <1>13, <3>1, <3>3 DEF Pipe!NodeDies, Pipe!call, Pipe!TypeOK, Pipe!Torn
    <2> QED  BY <2>1, <2>2
<1>14. CASE UNCHANGED Pipe!vars
    BY <1>14 DEF Pipe!vars, Pipe!call, Pipe!child, Pipe!TypeOK
<1> QED
    BY <1>1, <1>2, <1>3, <1>4, <1>5, <1>6, <1>7, <1>8, <1>9, <1>10, <1>11, <1>12,
       <1>13, <1>14 DEF Pipe!Next, Pipe!Bridge

\* So it holds of every behaviour of the pipe.
LEMMA PipeInvariant == Pipe!Spec => []PipeInv
BY InitPipe, StepPipe, PTL DEF Pipe!Spec

\* Every variable keeps its type; in particular pending_responses, a usize,
\* is never decremented below zero.
THEOREM PipeTypeCorrect == Pipe!Spec => []Pipe!TypeOK
<1>1. PipeInv => Pipe!TypeOK
    BY DEF PipeInv
<1> QED  BY <1>1, PipeInvariant, PTL

\* A call that succeeds returns the response to its own command, after any
\* number of timeouts, drops, torn lines and errors.
THEOREM AnswersMatch == Pipe!Spec => []AnswerIsOwn
<1>1. PipeInv => AnswerIsOwn
    BY DEF PipeInv
<1> QED  BY <1>1, PipeInvariant, PTL

\* At most one command is under way, whoever has given up on it.
THEOREM OneAtATime == Pipe!Spec => []Pipe!OneInFlight
<1>1. PipeInv => Pipe!OneInFlight
    BY DEF PipeInv, CountBounds, Pipe!Owed, Pipe!OneInFlight, Pipe!TypeOK
<1> QED  BY <1>1, PipeInvariant, PTL
=============================================================================
