------------------------ MODULE ScriptExecutorProofs ------------------------
(***************************************************************************)
(* ScriptExecutor, for branches nested and numbered in any way: the types, *)
(* who runs above whom, the limit of steps, and that the run is a          *)
(* ScriptTask; for scripts without a block inside a block, that every      *)
(* executor stays on its own page and that what is extracted stays within  *)
(* the budget.                                                             *)
(***************************************************************************)
EXTENDS ScriptExecutor, FiniteSetTheorems, SequenceTheorems, WellFoundedInduction, TLAPS

-----------------------------------------------------------------------------
(* The tree of executors *)

\* Names are sequences of numbers.
LEMMA Names ==
  ASSUME NEW e \in Executor
  PROVE  e \in Seq(Nat) /\ Len(e) \in Nat /\ DOMAIN e = 1..Len(e)
BY ScriptAssumption

\* Nobody is below itself, and below is transitive.
LEMMA Below ==
  ASSUME NEW e \in Executor, NEW b \in Under(e), NEW d \in Under(b)
  PROVE  e \notin Under(e) /\ d \in Under(e)
<1>1. e \notin Under(e)
  BY Names DEF Under, Branch
<1>2. b \in Executor /\ d \in Executor /\ Len(e) < Len(b) /\ Len(b) < Len(d)
  BY DEF Under, Branch
<1>3. Len(e) < Len(d)
  BY <1>2, Names
<1>4. ASSUME NEW i \in DOMAIN e PROVE d[i] = e[i]
  <2>1. i \in DOMAIN b
    BY <1>2, Names
  <2> QED  BY <2>1 DEF Under
<1> QED  BY <1>1, <1>3, <1>4 DEF Under

\* Nobody is below itself.
LEMMA NotBelowItself ==
  ASSUME NEW e \in Executor
  PROVE  e \notin Under(e) /\ e \notin Kids(e) /\ Under(e) \subseteq Branch /\ Branch \subseteq Executor
BY Names DEF Under, Branch, Kids

\* Who is below an executor is a branch of one of its blocks or below one.
LEMMA ByAKid ==
  ASSUME NEW e \in Executor, NEW d \in Under(e)
  PROVE  \E b \in Kids(e) : d = b \/ d \in Under(b)
<1> DEFINE b == SubSeq(d, 1, Len(e) + 1)
<1>1. d \in Executor /\ Len(e) < Len(d)
  BY DEF Under, Branch
<1>2. Len(e) + 1 \in 0..Len(d)
  BY <1>1, Names
<1>3. b \in Executor
  BY <1>1, <1>2, ScriptAssumption
<1>4. /\ Len(b) = Len(e) + 1 /\ DOMAIN b = 1..Len(e) + 1
      /\ \A i \in 1..Len(e) + 1 : b[i] = d[i]
  BY <1>1, <1>2, Names
<1>0. Len(e) \in Nat /\ DOMAIN e = 1..Len(e)
  BY Names
<1>5. b # Main
  <2>1. Len(<< >>) = 0
    OBVIOUS
  <2> HIDE DEF b
  <2> QED  BY <1>0, <1>4, <2>1 DEF Main
<1>6. b \in Kids(e)
  <2>1. \A i \in DOMAIN e : b[i] = e[i]
    BY <1>0, <1>4 DEF Under
  <2>2. Len(e) < Len(b)
    BY <1>0, <1>4
  <2> HIDE DEF b
  <2> QED  BY <1>3, <1>4, <1>5, <2>1, <2>2 DEF Kids, Under, Branch
<1>7. CASE Len(d) = Len(e) + 1
  <2>1. d = b
    BY <1>1, <1>3, <1>4, <1>7, Names, SeqEqual
  <2> QED  BY <1>6, <2>1
<1>8. CASE Len(d) > Len(e) + 1
  <2>1. d \in Under(b)
    BY <1>1, <1>3, <1>4, <1>8, Names DEF Under, Branch
  <2> QED  BY <1>6, <2>1
<1> QED  BY <1>1, <1>7, <1>8, Names

\* Whoever is above a branch is its executor or above that.
\* Whoever is above a branch is its executor or above that; it has one executor.
LEMMA AboveAKid ==
  ASSUME NEW e \in Executor, NEW b \in Kids(e), NEW a \in Executor
  PROVE  /\ b \in Under(a) => a = e \/ e \in Under(a)
         /\ b \in Kids(a) => a = e
<1>1. b \in Executor /\ Len(b) = Len(e) + 1 /\ \A i \in 1..Len(e) : b[i] = e[i]
  BY Names DEF Kids, Under, Branch
<1>2. ASSUME b \in Under(a), a # e PROVE e \in Under(a) /\ b \notin Kids(a)
  <2>0. Len(a) < Len(b) /\ \A i \in 1..Len(a) : b[i] = a[i]
    BY <1>2, Names DEF Under
  <2>1. Len(a) <= Len(e) /\ \A i \in 1..Len(a) : e[i] = a[i]
    BY <1>1, <2>0, Names
  <2>2. Len(a) # Len(e)
    BY <2>1, <1>2, Names, SeqEqual
  <2>3. e # Main
    BY <2>1, <2>2, Names DEF Main
  <2>4. Len(a) < Len(e)
    BY <2>1, <2>2, Names
  <2>5. e \in Under(a)
    BY <2>1, <2>3, <2>4, Names DEF Under, Branch
  <2>6. Len(b) # Len(a) + 1
    BY <1>1, <2>2, Names
  <2> QED  BY <2>5, <2>6 DEF Kids
<1> QED  BY <1>2 DEF Kids

\* The main executor is above all branches.
LEMMA AllBelowMain == Main \in Executor /\ Under(Main) = Branch
<1>1. Main \in Executor
  BY ScriptAssumption
<1>2. ASSUME NEW b \in Branch PROVE b \in Under(Main)
  <2>1. b \in Seq(Nat) /\ b # << >>
    BY Names DEF Branch, Main
  <2>2. Len(b) > 0
    BY <2>1
  <2> QED  BY <2>2 DEF Under, Main
<1> QED  BY <1>1, <1>2 DEF Under
-----------------------------------------------------------------------------
(* Types *)

\* The types of what an error changes.
ErrorTypes ==
  /\ phase \in [Executor -> Phase]
  /\ frames \in [Executor -> Seq(Frame)] /\ \A e \in Executor : Len(frames[e]) <= MaxFrames[e]
  /\ shown \in {"pending", "running", "completed", "failed", "cancelled"}
  /\ result \in {"none", "completed", "failed", "cancelled"}

\* The limits give one of check_limits' errors.
LEMMA Limits == LimitError \in Fatal \cup {"none"} /\ Fatal \subseteq Error /\ "tool" \in Error
BY DEF LimitError, Fatal, Error

\* Whom a dropped JoinSet leaves where.
LEMMA DroppedIs ==
  ASSUME TypeOK, NEW e \in Executor
  PROVE  /\ Dropped(e) \in [Executor -> Phase]
         /\ \A x \in Executor : Dropped(e)[x] = phase[x] \/ (Dropped(e)[x] = "gone" /\ phase[x] \notin Running)
         /\ \A x \in Executor : x \notin block[e].branches => Dropped(e)[x] = phase[x]
         /\ Live(e) \subseteq Branch
<1>1. block[e].branches \subseteq Branch
  BY DEF TypeOK
<1> QED  BY <1>1 DEF Dropped, Live, TypeOK, Phase, Branch

\* Frames after an error: as many as before, or fewer.
LEMMA UnwoundIs ==
  ASSUME TypeOK, NEW e \in Executor, NEW err \in Error, NEW i \in DOMAIN frames[e]
  PROVE  Unwound(e, i, err) \in Seq(Frame) /\ Len(Unwound(e, i, err)) <= MaxFrames[e]
<1> DEFINE f == IF frames[e][i].kind = "try" /\ err \notin Fatal THEN Catch ELSE Finally(err)
<1> DEFINE s == SubSeq(frames[e], 1, i - 1)
<1>1. f \in Frame
  BY DEF Frame, Catch, Finally
<1>2. frames[e] \in Seq(Frame) /\ i \in 1..Len(frames[e]) /\ Len(frames[e]) \in Nat
  BY DEF TypeOK
<1>3. s \in Seq(Frame) /\ Len(s) = i - 1
  <2> HIDE DEF f
  <2> QED  BY <1>2
<1>4. Unwound(e, i, err) = Append(s, f)
  BY DEF Unwound
<1>5. Append(s, f) \in Seq(Frame) /\ Len(Append(s, f)) = i
  <2> HIDE DEF f, s
  <2> QED  BY <1>1, <1>2, <1>3
<1>6. Len(frames[e]) <= MaxFrames[e] /\ MaxFrames[e] \in Nat
  BY ScriptAssumption DEF TypeOK
<1> HIDE DEF f, s
<1> QED  BY <1>2, <1>4, <1>5, <1>6

\* An error that a step may have synced the status before
Raised(e, err, ph) == \E status \in {shown, "running"} : RaiseFrom(e, err, ph, status)

LEMMA RaisedIs ==
  \A e, err, ph : Raise(e, err, ph) \/ RaiseFrom(e, err, ph, "running") => Raised(e, err, ph)
BY DEF Raise, Raised

\* An error keeps the types.
LEMMA RaiseType ==
  ASSUME TypeOK, NEW e \in Executor, NEW err \in Error, NEW ph \in [Executor -> Phase], Raised(e, err, ph)
  PROVE  ErrorTypes'
<1> USE DEF ErrorTypes
<1>1. ASSUME NEW i \in DOMAIN frames[e], frames' = [frames EXCEPT ![e] = Unwound(e, i, err)],
             phase' = [ph EXCEPT ![e] = "ready"], shown' \in {shown, "running"}, UNCHANGED result
      PROVE  ErrorTypes'
  <2>1. Unwound(e, i, err) \in Seq(Frame) /\ Len(Unwound(e, i, err)) <= MaxFrames[e]
    BY UnwoundIs
  <2> QED  BY <1>1, <2>1 DEF TypeOK, Phase
<1>2. ASSUME frames' = [frames EXCEPT ![e] = << >>], phase' \in [Executor -> Phase],
             shown' \in {shown, "running", "failed", "cancelled"}, result' \in {result, "failed", "cancelled"}
      PROVE  ErrorTypes'
  <2>1. << >> \in Seq(Frame) /\ Len(<< >>) = 0 /\ 0 <= MaxFrames[e]
    BY ScriptAssumption
  <2> QED  BY <1>2, <2>1 DEF TypeOK
<1>3. \A p \in Phase : [ph EXCEPT ![e] = p] \in [Executor -> Phase]
  OBVIOUS
<1>4. "gone" \in Phase /\ "idle" \in Phase /\ err \in Phase
  BY DEF Phase
<1> QED  BY <1>1, <1>2, <1>3, <1>4 DEF Raised, RaiseFrom

\* What is left of the types.
OtherTypes ==
  /\ block \in [Executor -> [branches : SUBSET Branch, opened : Seq(Nat), err : Error \cup {"none"}]]
  /\ doomed \subseteq Branch /\ orphans \subseteq Branch
  /\ fuel \in [Executor -> 0..Fuel]
  /\ index \in [Executor -> Nat]
  /\ steps \in 0..MaxSteps + 1 /\ acted \in 0..MaxSteps + 1
  /\ expired \in BOOLEAN
  /\ pages \in Seq(Executor \cup {Stray}) /\ Len(pages) <= MaxPages
  /\ token \in BOOLEAN

LEMMA TypeParts == TypeOK <=> ErrorTypes /\ OtherTypes
BY DEF TypeOK, ErrorTypes, OtherTypes

\* A page more, if there is room.
LEMMA MoreTypes ==
  ASSUME TypeOK, NEW ps \in MorePages
  PROVE  ps \in Seq(Executor \cup {Stray}) /\ Len(ps) <= MaxPages /\ Len(ps) >= Len(pages)
         /\ \A i \in 1..Len(pages) : ps[i] = pages[i]
<1>1. MaxPages \in Nat /\ pages \in Seq(Executor \cup {Stray}) /\ Len(pages) <= MaxPages
  BY ScriptAssumption DEF TypeOK
<1>2. CASE ps = pages
  BY <1>1, <1>2
<1>3. CASE Len(pages) < MaxPages /\ ps = Append(pages, Stray)
  BY <1>1, <1>3
<1> QED  BY <1>2, <1>3 DEF MorePages

\* The steps of one executor keep the types.
LEMMA NodesType ==
  ASSUME TypeOK, NEW e \in Executor, Nodes(e)
  PROVE  TypeOK'
<1> SUFFICES ErrorTypes' /\ OtherTypes'
  BY TypeParts DEF TypeOK, ErrorTypes, OtherTypes
<1> ErrorTypes /\ OtherTypes
  BY TypeParts
<1> USE Limits DEF own, output, counts, task, Goes, Synced, Ready
<1>r. ASSUME NEW err \in Error, Raised(e, err, phase) PROVE ErrorTypes'
  BY <1>r, RaiseType DEF TypeOK
<1>p. ASSUME NEW p \in Phase, Goes(e, p), UNCHANGED frames,
             shown' \in {shown, "running"}, UNCHANGED result
      PROVE  ErrorTypes'
  BY <1>p DEF ErrorTypes
<1>q. Running \subseteq Phase
  BY DEF Running, Phase
<1>f. MaxSteps \in Nat /\ Fuel \in Nat /\ MaxPages \in Nat /\ MaxFrames[e] \in Nat
  BY ScriptAssumption
<1>n. ASSUME Node(e) PROVE fuel' \in [Executor -> 0..Fuel] /\ doomed' = doomed /\ orphans' = orphans /\ expired' = expired
  BY <1>n, <1>f DEF Node, OtherTypes
<1>1. CASE CheckLimits(e)
  <2>1. ErrorTypes'
    <3>1. CASE LimitError = "none" /\ UNCHANGED <<phase, frames, shown, result>>
      BY <3>1 DEF ErrorTypes
    <3>2. CASE LimitError # "none" /\ Raised(e, LimitError, phase)
      BY <1>r, <3>2
    <3> QED  BY <1>1, <3>1, <3>2, RaisedIs DEF CheckLimits
  <2>3. fuel' \in [Executor -> 0..Fuel]
    <3>1. fuel' = fuel \/ fuel' = [fuel EXCEPT ![e] = Fuel]
      BY <1>1 DEF CheckLimits
    <3>2. Fuel \in 0..Fuel /\ fuel \in [Executor -> 0..Fuel]
      BY <1>f DEF OtherTypes
    <3> QED  BY <3>1, <3>2
  <2>2. OtherTypes'
    BY <1>1, <2>3 DEF CheckLimits, OtherTypes
  <2> QED  BY <2>1, <2>2
<1>2. CASE ChargeTurn(e)
  <2>1. ErrorTypes'
    BY <1>2 DEF ChargeTurn, ErrorTypes
  <2>2. steps' \in 0..MaxSteps + 1 /\ fuel' \in [Executor -> 0..Fuel]
    BY <1>2, <1>f DEF ChargeTurn, OtherTypes
  <2> QED  BY <1>2, <2>1, <2>2 DEF ChargeTurn, OtherTypes
<1>3. CASE CountStep(e)
  <2>1. ErrorTypes'
    BY <1>3 DEF CountStep, ErrorTypes, Phase
  <2>2. steps' \in 0..MaxSteps + 1 /\ fuel' \in [Executor -> 0..Fuel]
    BY <1>3, <1>f, <1>n DEF CountStep, OtherTypes
  <2> QED  BY <1>3, <1>n, <2>1, <2>2 DEF CountStep, OtherTypes
<1>4. CASE CheckStep(e)
  <2>1. ErrorTypes'
    BY <1>4, <1>r, <1>p, <1>q, RaisedIs DEF CheckStep, Running
  <2>2. OtherTypes'
    BY <1>4, <1>f DEF CheckStep, OtherTypes
  <2> QED  BY <2>1, <2>2
<1>5. CASE Evaluate(e)
  BY <1>5, <1>n, <1>p, <1>q DEF Evaluate, OtherTypes, Running
<1>6. CASE ToolReturns(e)
  <2>1. ErrorTypes'
    BY <1>6, <1>p, <1>q DEF ToolReturns, Running
  <2>2. CASE UNCHANGED index /\ pages' \in MorePages
    <3>1. pages' \in Seq(Executor \cup {Stray}) /\ Len(pages') <= MaxPages
      BY <2>2, MoreTypes
    <3> QED  BY <1>6, <2>1, <2>2, <3>1 DEF ToolReturns, OtherTypes
  <2>3. CASE Len(pages) < MaxPages /\ pages' = Append(pages, e) /\ index' = [index EXCEPT ![e] = NewIndex]
    <3>1. pages' \in Seq(Executor \cup {Stray}) /\ Len(pages') <= MaxPages
      BY <1>f, <2>3 DEF OtherTypes
    <3>2. index' \in [Executor -> Nat]
      BY <2>3 DEF OtherTypes, NewIndex
    <3> QED  BY <1>6, <2>1, <3>1, <3>2 DEF ToolReturns, OtherTypes
  <2> QED  BY <1>6, <2>1, <2>2, <2>3 DEF ToolReturns
<1>7. CASE ToolFails(e)
  BY <1>7, <1>r, RaisedIs, MoreTypes DEF ToolFails, OtherTypes
<1>8. CASE NodeFails(e)
  BY <1>8, <1>r, RaisedIs, <1>n DEF NodeFails, OtherTypes
<1>9. CASE Collect(e)
  <2>1. ErrorTypes'
    BY <1>9, <1>r, RaisedIs DEF Collect, ErrorTypes
  <2> QED  BY <1>9, <1>n, <2>1 DEF Collect, OtherTypes
<1>10. CASE Yield(e)
  <2>1. ErrorTypes'
    BY <1>10, <1>r, RaisedIs DEF Yield, ErrorTypes
  <2> QED  BY <1>10, <1>n, <2>1 DEF Yield, OtherTypes
<1>11. CASE EnterTry(e)
  <2>1. Try \in Frame
    BY DEF Try, Frame
  <2>2. ErrorTypes'
    BY <1>11, <1>f, <2>1 DEF EnterTry, ErrorTypes
  <2> QED  BY <1>11, <1>n, <2>2 DEF EnterTry, OtherTypes
<1>12. CASE LeaveTry(e)
  <2>1. frames[e] \in Seq(Frame) /\ frames[e] # << >> /\ Len(frames[e]) <= MaxFrames[e]
    BY <1>12 DEF LeaveTry, ErrorTypes
  <2>2. /\ Front(frames[e]) \in Seq(Frame) /\ Len(Front(frames[e])) <= MaxFrames[e]
        /\ Len(Append(Front(frames[e]), Finally("none"))) <= MaxFrames[e]
        /\ Append(Front(frames[e]), Finally("none")) \in Seq(Frame)
    <3>1. Finally("none") \in Frame
      BY DEF Finally, Frame
    <3>2. Front(frames[e]) \in Seq(Frame) /\ Len(Front(frames[e])) = Len(frames[e]) - 1
      BY <2>1 DEF Front
    <3> QED  BY <1>f, <2>1, <3>1, <3>2
  <2>3. Last(frames[e]) \in Frame /\ Last(frames[e]).err \in Error \cup {"none"}
    BY <2>1 DEF Last, Frame
  <2>4. ErrorTypes'
    <3>1. CASE UNCHANGED <<phase, shown, result>>
               /\ frames' = [frames EXCEPT ![e] = Append(Front(@), Finally("none"))]
      BY <3>1, <2>2 DEF ErrorTypes
    <3>2. CASE UNCHANGED <<phase, result>> /\ shown' \in {shown, "running"}
               /\ frames' = [frames EXCEPT ![e] = Front(@)]
      BY <3>2, <2>2 DEF ErrorTypes
    <3>3. CASE Last(frames[e]).err # "none" /\ Raised(e, Last(frames[e]).err, phase)
      BY <3>3, <2>3, <1>r
    <3> QED  BY <1>12, <3>1, <3>2, <3>3, RaisedIs DEF LeaveTry
  <2> QED  BY <1>12, <2>4 DEF LeaveTry, OtherTypes
<1> QED  BY <1>1, <1>2, <1>3, <1>4, <1>5, <1>6, <1>7, <1>8, <1>9, <1>10, <1>11, <1>12 DEF Nodes

\* What an executor drops is reset, and what it keeps is kept.
LEMMA DropsType ==
  ASSUME TypeOK, NEW e \in Executor, NEW sum, Drops(e, sum)
  PROVE  /\ block' \in [Executor -> [branches : SUBSET Branch, opened : Seq(Nat), err : Error \cup {"none"}]]
         /\ doomed' \subseteq Branch /\ orphans' \subseteq Branch
<1>1. NoBlock \in [branches : SUBSET Branch, opened : Seq(Nat), err : Error \cup {"none"}]
  BY DEF NoBlock
<1> QED  BY <1>1, DroppedIs DEF Drops, TypeOK

\* A closed page is gone and those behind it move up.
LEMMA RemovedIs ==
  ASSUME TypeOK, NEW i \in Nat, i < Len(pages)
  PROVE  LET ps == RemoveAt(pages, i + 1) IN
         /\ ps \in Seq(Executor \cup {Stray})
         /\ Len(ps) = Len(pages) - 1 /\ Len(ps) <= MaxPages
         /\ \A j \in 1..i : ps[j] = pages[j]
<1> DEFINE s == SubSeq(pages, 1, i)
           t == SubSeq(pages, i + 2, Len(pages))
<1>1. pages \in Seq(Executor \cup {Stray}) /\ Len(pages) \in Nat /\ Len(pages) <= MaxPages /\ MaxPages \in Nat
  BY ScriptAssumption DEF TypeOK
<1>2. s \in Seq(Executor \cup {Stray}) /\ Len(s) = i /\ \A j \in 1..i : s[j] = pages[j]
  BY <1>1
<1>3. t \in Seq(Executor \cup {Stray}) /\ Len(t) = Len(pages) - i - 1
  <2>1. CASE i + 2 <= Len(pages)
    BY <1>1, <2>1
  <2>2. CASE i + 2 = Len(pages) + 1
    <3>1. t = << >>
      BY <1>1, <2>2
    <3> HIDE DEF t
    <3> QED  BY <1>1, <2>2, <3>1
  <2> QED  BY <1>1, <2>1, <2>2
<1>4. RemoveAt(pages, i + 1) = s \o t
  <2>1. (i + 1) - 1 = i /\ (i + 1) + 1 = i + 2
    OBVIOUS
  <2> QED  BY <2>1, Zenon DEF RemoveAt
<1> HIDE DEF s, t
<1>5. s \o t \in Seq(Executor \cup {Stray}) /\ Len(s \o t) = Len(pages) - 1 /\ \A j \in 1..i : (s \o t)[j] = s[j]
  BY <1>1, <1>2, <1>3
<1>6. Len(pages) - 1 <= MaxPages /\ \A j \in 1..i : (s \o t)[j] = pages[j]
  BY <1>1, <1>2, <1>5
<1> QED  BY <1>4, <1>5, <1>6

\* Opening a branch, whichever of its names is taken.
Opens(e, b, next) ==
  /\ Len(pages) < MaxPages /\ pages' = Append(pages, b)
  /\ block' = [block EXCEPT ![e].branches = @ \cup {b}, ![e].opened = Append(@, NewIndex)]
  /\ index' = [index EXCEPT ![b] = NewIndex]
  /\ phase' = [phase EXCEPT ![b] = "ready", ![e] = next]
  /\ UNCHANGED <<own, output, counts, expired, task>>

LEMMA OpenedIs ==
  ASSUME NEW e \in Executor, OpenBranch(e)
  PROVE  phase[e] = "opening" /\ \E b \in Fresh(e), next \in {"opening", "joining"} : Opens(e, b, next)
<1> DEFINE b == CHOOSE b \in Fresh(e) : TRUE
<1>1. b \in Fresh(e)
  BY DEF OpenBranch
<1> QED  BY <1>1 DEF OpenBranch, Opens

\* The steps of a block keep the types.
LEMMA BlocksType ==
  ASSUME TypeOK, NEW e \in Executor, Blocks(e)
  PROVE  TypeOK'
<1> SUFFICES ErrorTypes' /\ OtherTypes'
  BY TypeParts DEF TypeOK, ErrorTypes, OtherTypes
<1> ErrorTypes /\ OtherTypes
  BY TypeParts
<1> USE Limits DEF own, output, counts, task, Goes, Synced, Ready
<1> DEFINE Block == [branches : SUBSET Branch, opened : Seq(Nat), err : Error \cup {"none"}]
<1>f. MaxSteps \in Nat /\ Fuel \in Nat /\ MaxPages \in Nat /\ MaxFrames[e] \in Nat
  BY ScriptAssumption
<1>b. block \in [Executor -> Block] /\ block[e].opened \in Seq(Nat) /\ block[e].branches \in SUBSET Branch
      /\ block[e].err \in Error \cup {"none"}
  BY DEF OtherTypes
<1>d. ASSUME NEW b \in Executor, Forgets(b)
      PROVE  /\ fuel' \in [Executor -> 0..Fuel] /\ index' \in [Executor -> Nat]
             /\ frames' \in [Executor -> Seq(Frame)] /\ \A d \in Executor : Len(frames'[d]) <= MaxFrames[d]
  <2>1. << >> \in Seq(Frame) /\ Len(<< >>) = 0 /\ 0 <= MaxFrames[b] /\ 0 \in 0..Fuel
    BY <1>f, ScriptAssumption
  <2> QED  BY <1>d, <2>1 DEF Forgets, ErrorTypes, OtherTypes
<1>1. CASE EnterParallel(e)
  <2>1. fuel' \in [Executor -> 0..Fuel] /\ doomed' = doomed /\ orphans' = orphans /\ expired' = expired
    BY <1>1, <1>f DEF EnterParallel, Node, OtherTypes
  <2>2. ErrorTypes'
    BY <1>1 DEF EnterParallel, ErrorTypes, Phase
  <2> QED  BY <1>1, <2>1, <2>2 DEF EnterParallel, OtherTypes
<1>2. CASE OpenBranch(e)
  <2>1. PICK b \in Fresh(e), next \in {"opening", "joining"} : Opens(e, b, next)
    BY <1>2, OpenedIs
  <2>0. b \in Branch /\ b \in Executor
    BY DEF Fresh, Kids, Under, Branch
  <2>2. pages' \in Seq(Executor \cup {Stray}) /\ Len(pages') <= MaxPages
    BY <1>f, <2>0, <2>1 DEF OtherTypes, Opens
  <2>3. block' \in [Executor -> Block]
    <3>1. NewIndex \in Nat
      BY DEF NewIndex, OtherTypes
    <3>2. Append(block[e].opened, NewIndex) \in Seq(Nat) /\ block[e].branches \cup {b} \in SUBSET Branch
      BY <1>b, <2>0, <3>1
    <3> QED  BY <1>b, <2>1, <3>2 DEF Opens
  <2>4. index' \in [Executor -> Nat]
    <3>1. NewIndex \in Nat
      BY DEF NewIndex, OtherTypes
    <3> QED  BY <2>1, <3>1 DEF OtherTypes, Opens
  <2>5. ErrorTypes'
    <3>1. phase' \in [Executor -> Phase]
      BY <2>1 DEF ErrorTypes, Phase, Opens
    <3> QED  BY <2>1, <3>1 DEF ErrorTypes, Opens
  <2> QED  BY <2>1, <2>2, <2>3, <2>4, <2>5 DEF OtherTypes, Opens
<1>3. CASE OpenFails(e)
  <2>1. ErrorTypes'
    BY <1>3, RaiseType, RaisedIs, DroppedIs DEF OpenFails
  <2>2. pages' \in Seq(Executor \cup {Stray}) /\ Len(pages') <= MaxPages
    BY <1>3, MoreTypes DEF OpenFails
  <2> QED  BY <1>3, <2>1, <2>2, DropsType DEF OpenFails, OtherTypes
<1>4. CASE BranchEnds(e)
  <2>1. phase' \in [Executor -> Phase]
    BY <1>4 DEF BranchEnds, ErrorTypes, Phase
  <2> QED  BY <1>4, <1>d, <2>1 DEF BranchEnds, ErrorTypes, OtherTypes
<1>5. CASE AbortLands(e)
  <2>1. phase' \in [Executor -> Phase]
    BY <1>5, DroppedIs DEF AbortLands, Phase
  <2>2. pages' \in Seq(Executor \cup {Stray}) /\ Len(pages') <= MaxPages
    <3>1. CASE pages' = pages
      BY <3>1 DEF OtherTypes
    <3>2. CASE pages' \in MorePages
      BY <3>2, MoreTypes
    <3> QED  BY <1>5, <3>1, <3>2 DEF AbortLands
  <2> QED  BY <1>5, <1>d, <2>1, <2>2, DropsType DEF AbortLands, ErrorTypes, OtherTypes
<1>6. ASSUME NEW b \in Branch, JoinFailed(e, b) PROVE ErrorTypes' /\ OtherTypes'
  <2>0. b \in Executor
    BY DEF Branch
  <2>1. ErrorTypes'
    BY <1>6, <1>d, <2>0 DEF JoinFailed, ErrorTypes, Phase
  <2>2. phase[b] \in Error
    BY <1>6 DEF JoinFailed
  <2>3. block' \in [Executor -> Block]
    BY <1>6, <1>b, <2>2 DEF JoinFailed
  <2>4. doomed' \subseteq Branch
    BY <1>6, DroppedIs DEF JoinFailed, OtherTypes
  <2> QED  BY <1>6, <1>d, <2>0, <2>1, <2>3, <2>4 DEF JoinFailed, OtherTypes
<1>7. CASE AllJoined(e)
  BY <1>7 DEF AllJoined, ErrorTypes, OtherTypes, Phase
<1>8. CASE ClosePage(e)
  <2>1. ErrorTypes'
    BY <1>8 DEF ClosePage, ErrorTypes
  <2>2. PICK err \in {"none", "tool"} :
          block' = [block EXCEPT ![e].opened = Tail(@), ![e].err = IF @ = "none" THEN err ELSE @]
    BY <1>8 DEF ClosePage
  <2>3. Tail(block[e].opened) \in Seq(Nat)
    BY <1>8, <1>b DEF ClosePage
  <2>4. block' \in [Executor -> Block]
    BY <1>b, <2>2, <2>3
  <2>5. pages' \in Seq(Executor \cup {Stray}) /\ Len(pages') <= MaxPages
    <3>1. CASE pages' = pages
      BY <3>1 DEF OtherTypes
    <3>2. CASE Head(block[e].opened) < Len(pages) /\ pages' = RemoveAt(pages, Head(block[e].opened) + 1)
      <4>1. Head(block[e].opened) \in Nat
        BY <1>8, <1>b DEF ClosePage
      <4> QED  BY <3>2, <4>1, RemovedIs
    <3> QED  BY <1>8, <3>1, <3>2 DEF ClosePage
  <2> QED  BY <1>8, <2>1, <2>4, <2>5 DEF ClosePage, OtherTypes
<1>9. CASE FinishParallel(e)
  <2>1. ErrorTypes'
    <3>1. CASE phase' = [Dropped(e) EXCEPT ![e] = "ready"]
               /\ shown' \in {shown, "running"} /\ UNCHANGED <<frames, result>>
      BY <1>9, <3>1, DroppedIs DEF FinishParallel, ErrorTypes, Phase
    <3>2. CASE block[e].err # "none" /\ Raised(e, block[e].err, Dropped(e))
      BY <1>9, <1>b, <3>2, RaiseType, DroppedIs DEF FinishParallel
    <3> QED  BY <1>9, <3>1, <3>2, RaisedIs DEF FinishParallel
  <2> QED  BY <1>9, <2>1, DropsType DEF FinishParallel, OtherTypes
<1> QED  BY <1>1, <1>2, <1>3, <1>4, <1>5, <1>6, <1>7, <1>8, <1>9 DEF Blocks

\* The types hold, however branches are nested and whatever the bounds.
THEOREM ExecutorTypeCorrect == Spec => []TypeOK
<1>1. Init => TypeOK
  <2> SUFFICES ASSUME Init PROVE TypeOK
    OBVIOUS
  <2>1. << >> \in Seq(Frame) /\ Len(<< >>) = 0 /\ << >> \in Seq(Nat)
    OBVIOUS
  <2>2. \A e \in Executor : MaxFrames[e] \in Nat
    BY ScriptAssumption
  <2>3. pages \in Seq(Executor \cup {Stray}) /\ Len(pages) <= MaxPages
    BY ScriptAssumption DEF Init, Main
  <2>4. 0 \in 0..Fuel /\ 0 \in 0..MaxSteps + 1
    BY ScriptAssumption
  <2>5. frames \in [Executor -> Seq(Frame)] /\ \A e \in Executor : Len(frames[e]) <= MaxFrames[e]
    BY <2>1, <2>2 DEF Init
  <2>6. block \in [Executor -> [branches : SUBSET Branch, opened : Seq(Nat), err : Error \cup {"none"}]]
    BY <2>1 DEF Init, NoBlock
  <2> QED  BY <2>3, <2>4, <2>5, <2>6 DEF Init, TypeOK, Phase
<1>2. TypeOK /\ [Next]_vars => TypeOK'
  <2> SUFFICES ASSUME TypeOK, [Next]_vars PROVE TypeOK'
    OBVIOUS
  <2>1. CASE Start
    BY <2>1 DEF Start, Goes, Synced, own, output, counts, TypeOK, Phase
  <2>2. CASE ScriptEnds
    BY <2>2 DEF ScriptEnds, Goes, own, output, counts, TypeOK, Phase
  <2>3. CASE Cancel
    BY <2>3 DEF Cancel, own, output, counts, TypeOK
  <2>4. CASE Expire
    BY <2>4 DEF Expire, own, output, counts, task, TypeOK
  <2>5. CASE UNCHANGED vars
    BY <2>5 DEF vars, own, output, counts, task, TypeOK
  <2> QED  BY <2>1, <2>2, <2>3, <2>4, <2>5, NodesType, BlocksType DEF Next, Moves
<1> QED  BY <1>1, <1>2, PTL DEF Spec

-----------------------------------------------------------------------------
(* Who runs above whom *)

Waits(e) == phase[e] \in {"opening", "joining"}

\* A branch that runs is in the block of the executor above, which opens or waits,
\* or it is an orphan.  Orphans were told to stop, have no block above them, and
\* their names are not used again.
KidsInv ==
  /\ \A e \in Executor : block[e].branches \subseteq Kids(e) \ orphans
  /\ \A b \in orphans : b \in doomed /\ phase[b] # "idle"
  /\ \A e \in Executor : \A b \in Kids(e) :
       phase[b] \in Running => b \in orphans \/ (Waits(e) /\ b \in block[e].branches)

\* Without orphans, whoever runs has only executors that wait above it.
TopInv == orphans = {} => \A e \in Executor : \A b \in Under(e) : phase[b] \in Running => Waits(e)

\* The inductive invariant.
TreeInv == TypeOK /\ KidsInv /\ TopInv

\* A step of e that opens nothing: of the others those that run go on, nobody
\* starts, and no name is free again.
StepOf(e) ==
  /\ \A x \in Executor \ {e} :
       phase'[x] = phase[x] \/ (phase[x] \notin Running /\ phase'[x] \notin Running \cup {"idle"})
  /\ phase'[e] \in Running => phase[e] \in Running \/ e = Main
  /\ phase'[e] = "idle" => e = Main
  /\ orphans \subseteq orphans' /\ doomed \subseteq doomed'

\* It keeps the order of the tree if it keeps that of the blocks.
LEMMA TopKept ==
  ASSUME TypeOK, KidsInv', TopInv, NEW e \in Executor, StepOf(e)
  PROVE  TopInv'
<1> SUFFICES ASSUME orphans' = {}, NEW a \in Executor, NEW b \in Under(a), phase'[b] \in Running
             PROVE  Waits(a)'
  BY DEF TopInv
<1>1. orphans = {} /\ b \in Branch /\ b \in Executor
  BY DEF StepOf, Under, Branch
<1>2. phase[b] \in Running
  BY <1>1 DEF StepOf, Branch
<1>3. Waits(a) /\ phase[a] \in Running
  BY <1>1, <1>2 DEF TopInv, Waits, Running
<1>4. CASE a # e
  BY <1>3, <1>4 DEF StepOf, Waits
<1>5. CASE a = e
  <2>1. PICK k \in Kids(e) : b = k \/ b \in Under(k)
    BY <1>5, ByAKid
  <2>2. k \in Executor /\ k # e
    BY NotBelowItself DEF Kids
  <2>3. phase'[k] \in Running
    <3>1. CASE b \in Under(k)
      <4>1. phase[k] \in Running
        BY <1>1, <1>2, <2>2, <3>1 DEF TopInv, Waits, Running
      <4> QED  BY <2>2, <4>1 DEF StepOf
    <3> QED  BY <2>1, <3>1
  <2> QED  BY <1>5, <2>3 DEF KidsInv
<1> QED  BY <1>4, <1>5

\* A step that keeps the blocks' branches, and waits on or has none that runs.
LEMMA BlocksKept ==
  ASSUME TypeOK, KidsInv, NEW e \in Executor, StepOf(e), orphans' = orphans,
         \A x \in Executor : block'[x].branches = block[x].branches,
         Waits(e) => Waits(e)' \/ \A b \in block[e].branches : phase[b] \notin Running
  PROVE  KidsInv'
<1>1. \A x \in Executor : block'[x].branches \subseteq Kids(x) \ orphans'
  BY DEF KidsInv
<1>2. ASSUME NEW b \in orphans' PROVE b \in doomed' /\ phase'[b] # "idle"
  BY DEF KidsInv, StepOf, TypeOK, Branch
<1>3. ASSUME NEW x \in Executor, NEW b \in Kids(x), phase'[b] \in Running, b \notin orphans
      PROVE  Waits(x)' /\ b \in block'[x].branches
  <2>1. b \in Executor /\ b # Main
    BY NotBelowItself DEF Kids, Under, Branch
  <2>2. phase[b] \in Running
    BY <1>3, <2>1 DEF StepOf
  <2>3. Waits(x) /\ phase[x] \in Running /\ b \in block[x].branches
    BY <1>3, <2>2 DEF KidsInv, Waits, Running
  <2>4. CASE x # e
    BY <2>3, <2>4 DEF StepOf, Waits
  <2>5. CASE x = e
    BY <2>2, <2>3, <2>5
  <2> QED  BY <2>3, <2>4, <2>5
<1> QED  BY <1>1, <1>2, <1>3 DEF KidsInv

\* A step that drops the block: its branches that run are orphans.
LEMMA BlockDropped ==
  ASSUME TypeOK, KidsInv, NEW e \in Executor, StepOf(e), NEW sum, Drops(e, sum)
  PROVE  KidsInv'
<1>0. /\ block'[e].branches = {} /\ \A x \in Executor \ {e} : block'[x] = block[x]
      /\ orphans' = orphans \cup Live(e) /\ doomed' = doomed \cup Live(e)
  BY DEF Drops, NoBlock, TypeOK
<1>l. Live(e) \subseteq Kids(e) /\ \A b \in Live(e) : phase[b] \in Running
  BY DEF Live, KidsInv
<1>1. ASSUME NEW x \in Executor PROVE block'[x].branches \subseteq Kids(x) \ orphans'
  <2>1. CASE x = e
    BY <1>0, <2>1
  <2>2. CASE x # e
    <3>1. block[x].branches \subseteq Kids(x) \ orphans
      BY DEF KidsInv
    <3>2. Kids(x) \cap Live(e) = {}
      BY <1>l, <2>2, AboveAKid
    <3> QED  BY <1>0, <2>2, <3>1, <3>2
  <2> QED  BY <2>1, <2>2
<1>2. ASSUME NEW b \in orphans' PROVE b \in doomed' /\ phase'[b] # "idle"
  <2>1. b \in Branch /\ b \in doomed' /\ phase[b] # "idle"
    BY <1>0, <1>l, NotBelowItself DEF KidsInv, TypeOK, Running, Kids
  <2> QED  BY <2>1 DEF StepOf, Branch
<1>3. ASSUME NEW x \in Executor, NEW b \in Kids(x), phase'[b] \in Running, b \notin orphans'
      PROVE  Waits(x)' /\ b \in block'[x].branches
  <2>1. b \in Executor /\ b # Main
    BY NotBelowItself DEF Kids, Under, Branch
  <2>2. phase[b] \in Running
    BY <1>3, <2>1 DEF StepOf
  <2>3. Waits(x) /\ phase[x] \in Running /\ b \in block[x].branches
    BY <1>0, <1>3, <2>2 DEF KidsInv, Waits, Running
  <2>4. x # e
    BY <1>0, <1>3, <2>2, <2>3 DEF Live
  <2> QED  BY <1>0, <2>3, <2>4 DEF StepOf, Waits
<1> QED  BY <1>1, <1>2, <1>3 DEF KidsInv

\* Opening a branch: the executor above opens or waits.
LEMMA Opened ==
  ASSUME TreeInv, NEW e \in Executor, OpenBranch(e)
  PROVE  KidsInv' /\ TopInv'
<1>0. PICK b \in Fresh(e), next \in {"opening", "joining"} : Opens(e, b, next)
  BY OpenedIs
<1>1. /\ block' = [block EXCEPT ![e].branches = @ \cup {b}, ![e].opened = Append(@, NewIndex)]
      /\ phase' = [phase EXCEPT ![b] = "ready", ![e] = next]
      /\ UNCHANGED own
  BY <1>0 DEF Opens
<1>2. phase[e] = "opening" /\ b \in Kids(e) /\ phase[b] = "idle" /\ b \in Executor /\ b \in Branch /\ b # e
  BY OpenedIs, NotBelowItself DEF Fresh, Kids
<1>3. /\ phase'[b] = "ready" /\ phase'[e] \in {"opening", "joining"}
      /\ \A x \in Executor : x # e /\ x # b => phase'[x] = phase[x]
  BY <1>1, <1>2 DEF TreeInv, TypeOK
<1>4. /\ block'[e].branches = block[e].branches \cup {b}
      /\ \A x \in Executor : x # e => block'[x] = block[x]
      /\ orphans' = orphans /\ doomed' = doomed
  BY <1>1 DEF TreeInv, TypeOK, own
<1>5. b \notin orphans
  BY <1>2 DEF TreeInv, KidsInv
<1>6. \A x \in Executor : b \in Kids(x) => x = e
  BY <1>2, AboveAKid
<1>7. KidsInv'
  <2>1. ASSUME NEW x \in Executor PROVE block'[x].branches \subseteq Kids(x) \ orphans'
    BY <1>2, <1>4, <1>5 DEF TreeInv, KidsInv
  <2>2. ASSUME NEW d \in orphans' PROVE d \in doomed' /\ phase'[d] # "idle"
    <3>1. d \in Executor /\ d \in doomed /\ phase[d] # "idle"
      BY <1>4 DEF TreeInv, KidsInv, TypeOK, Branch
    <3> QED  BY <1>3, <1>4, <3>1
  <2>3. ASSUME NEW x \in Executor, NEW d \in Kids(x), phase'[d] \in Running, d \notin orphans
        PROVE  Waits(x)' /\ d \in block'[x].branches
    <3>1. CASE d = b
      BY <1>3, <1>4, <1>6, <3>1 DEF Waits
    <3>2. CASE d # b
      <4>1. d \in Executor
        BY NotBelowItself DEF Kids
      <4>2. phase[d] \in Running
        BY <1>2, <1>3, <2>3, <3>2, <4>1 DEF Running
      <4>3. Waits(x) /\ d \in block[x].branches
        BY <2>3, <4>2 DEF TreeInv, KidsInv
      <4>4. x # b
        BY <1>2, <4>3 DEF Waits
      <4> QED  BY <1>3, <1>4, <4>3, <4>4 DEF Waits
    <3> QED  BY <3>1, <3>2
  <2> QED  BY <1>4, <2>1, <2>2, <2>3 DEF KidsInv
<1>8. TopInv'
  <2> SUFFICES ASSUME orphans = {}, NEW a \in Executor, NEW d \in Under(a), phase'[d] \in Running
               PROVE  Waits(a)'
    BY <1>4 DEF TopInv
  <2>1. d \in Executor
    BY NotBelowItself
  <2>2. CASE d = b
    <3>1. a = e \/ e \in Under(a)
      BY <1>2, <2>2, AboveAKid
    <3>2. a = e \/ Waits(a)
      BY <1>2, <3>1 DEF TreeInv, TopInv, Running
    <3>3. a # b
      BY <2>2, NotBelowItself
    <3> QED  BY <1>3, <3>2, <3>3 DEF Waits
  <2>3. CASE d # b
    <3>1. phase[d] \in Running
      BY <1>2, <1>3, <2>1, <2>3 DEF Running
    <3>2. Waits(a) /\ a # b
      BY <1>2, <3>1 DEF TreeInv, TopInv, Waits
    <3> QED  BY <1>3, <3>2 DEF Waits
  <2> QED  BY <2>2, <2>3
<1> QED  BY <1>7, <1>8

\* Where an error leaves the executors.
LEMMA RaiseIs ==
  ASSUME NEW e \in Executor, NEW err \in Error, NEW ph, Raised(e, err, ph)
  PROVE  \E p \in {"ready", "gone"} \cup Error \cup (IF e = Main THEN {"idle"} ELSE {}) :
            phase' = [ph EXCEPT ![e] = p]
BY DEF Raised, RaiseFrom

\* The errors that are raised, by blocks and by their frames.
LEMMA ErrorsAre ==
  ASSUME TypeOK, NEW e \in Executor
  PROVE  /\ Error \subseteq Phase /\ Error \cap Running = {} /\ "idle" \notin Error
         /\ LimitError # "none" => LimitError \in Error
         /\ block[e].err # "none" => block[e].err \in Error
         /\ frames[e] # << >> /\ Last(frames[e]).err # "none" => Last(frames[e]).err \in Error
<1>1. block[e].err \in Error \cup {"none"}
  BY DEF TypeOK
<1>2. ASSUME frames[e] # << >> PROVE Last(frames[e]).err \in Error \cup {"none"}
  <2>1. frames[e] \in Seq(Frame)
    BY DEF TypeOK
  <2>2. Last(frames[e]) \in Frame
    BY <1>2, <2>1 DEF Last
  <2> QED  BY <2>2 DEF Frame
<1>3. Error \subseteq Phase /\ Error \cap Running = {} /\ "idle" \notin Error
  BY DEF Error, Fatal, Phase, Running
<1> QED  BY <1>1, <1>2, <1>3, Limits

\* A step of an executor of its own moves that executor alone.
LEMMA NodesMove ==
  ASSUME TypeOK, NEW e \in Executor, Nodes(e)
  PROVE  /\ phase[e] \in {"ready", "counted", "calling"} /\ block' = block
         /\ doomed' = doomed /\ orphans' = orphans
         /\ \E p \in {"ready", "counted", "calling", "gone"} \cup Error \cup (IF e = Main THEN {"idle"} ELSE {}) :
               phase' = [phase EXCEPT ![e] = p]
<1>1. phase[e] \in {"ready", "counted", "calling"} /\ block' = block
  BY DEF Nodes, CheckLimits, ChargeTurn, CountStep, CheckStep, Evaluate, ToolReturns, ToolFails,
         NodeFails, Collect, Yield, EnterTry, LeaveTry, Node, Ready
<1>2. doomed' = doomed /\ orphans' = orphans
  BY DEF Nodes, CheckLimits, ChargeTurn, CountStep, CheckStep, Evaluate, ToolReturns, ToolFails,
         NodeFails, Collect, Yield, EnterTry, LeaveTry, Node, own
<1>3. \E p \in {"ready", "counted", "calling", "gone"} \cup Error \cup (IF e = Main THEN {"idle"} ELSE {}) :
         phase' = [phase EXCEPT ![e] = p]
  <2> DEFINE Goal == \E p \in {"ready", "counted", "calling", "gone"} \cup Error \cup (IF e = Main THEN {"idle"} ELSE {}) :
                        phase' = [phase EXCEPT ![e] = p]
  <2>1. phase = [phase EXCEPT ![e] = phase[e]]
    BY DEF TypeOK
  <2>2. ASSUME NEW err \in Error, Raised(e, err, phase) PROVE Goal
    BY <2>2, RaiseIs
  <2>3. ASSUME UNCHANGED phase PROVE Goal
    BY <1>1, <2>1, <2>3
  <2>4. ASSUME Goes(e, "counted") \/ Goes(e, "calling") \/ Goes(e, "ready") PROVE Goal
    BY <2>4 DEF Goes
  <2> HIDE DEF Goal
  <2>5. ASSUME CheckLimits(e) \/ CheckStep(e) PROVE Goal
    BY <2>2, <2>3, <2>4, <2>5, ErrorsAre, RaisedIs DEF CheckLimits, CheckStep
  <2>6. ASSUME LeaveTry(e) PROVE Goal
    BY <2>2, <2>3, <2>6, ErrorsAre, RaisedIs DEF LeaveTry
  <2>7. ASSUME ToolFails(e) \/ NodeFails(e) \/ Collect(e) \/ Yield(e) PROVE Goal
    BY <2>2, <2>3, <2>7, Limits, RaisedIs DEF ToolFails, NodeFails, Collect, Yield
  <2>8. ASSUME ChargeTurn(e) \/ CountStep(e) \/ Evaluate(e) \/ ToolReturns(e) \/ EnterTry(e) PROVE Goal
    BY <2>3, <2>4, <2>8 DEF ChargeTurn, CountStep, Evaluate, ToolReturns, EnterTry
  <2> QED  BY <2>5, <2>6, <2>7, <2>8 DEF Nodes, Goal
<1> QED  BY <1>1, <1>2, <1>3

\* So is a step that drops a block and goes on, ends or fails.
LEMMA DropsMove ==
  ASSUME TypeOK, NEW e \in Executor, NEW sum, Drops(e, sum), phase[e] \in Running, e \notin block[e].branches,
         NEW p \in {"ready", "gone"} \cup Error \cup (IF e = Main THEN {"idle"} ELSE {}),
         phase' = [Dropped(e) EXCEPT ![e] = p]
  PROVE  StepOf(e)
<1>1. /\ phase'[e] = p /\ \A x \in Executor \ {e} : phase'[x] = Dropped(e)[x]
  BY DroppedIs
<1>2. \A x \in Executor : Dropped(e)[x] = phase[x] \/ (Dropped(e)[x] = "gone" /\ phase[x] \notin Running)
  BY DroppedIs
<1>3. p = "idle" => e = Main
  BY ErrorsAre
<1> QED  BY <1>1, <1>2, <1>3 DEF StepOf, Drops, Running

\* What closing a page does to the block: one index less, perhaps an error.
LEMMA PageClosed ==
  ASSUME TypeOK, NEW e \in Executor, ClosePage(e)
  PROVE  /\ \A x \in Executor : block'[x].branches = block[x].branches
         /\ \A x \in Executor : x # e => block'[x] = block[x]
         /\ block'[e].opened = Tail(block[e].opened)
         /\ block'[e].err \in {block[e].err, "tool"}
<1>1. PICK err \in {"none", "tool"} :
        block' = [block EXCEPT ![e].opened = Tail(@), ![e].err = IF @ = "none" THEN err ELSE @]
  BY DEF ClosePage
<1> DEFINE one == [block[e] EXCEPT !.opened = Tail(@)]
           two == [one EXCEPT !.err = IF @ = "none" THEN err ELSE @]
<1>2. block[e] \in [branches : SUBSET Branch, opened : Seq(Nat), err : Error \cup {"none"}]
  BY DEF TypeOK
<1>3. /\ one.branches = block[e].branches /\ one.opened = Tail(block[e].opened) /\ one.err = block[e].err
      /\ two.branches = one.branches /\ two.opened = one.opened /\ two.err \in {one.err, "tool"}
  BY <1>2
<1>4. block' = [block EXCEPT ![e] = two]
  BY <1>1, <1>2 DEF TypeOK
<1> HIDE DEF one, two
<1> QED  BY <1>3, <1>4 DEF TypeOK

\* The other steps of a block keep the invariant.
LEMMA BlocksKeep ==
  ASSUME TypeOK, KidsInv, NEW e \in Executor, Blocks(e), ~OpenBranch(e)
  PROVE  StepOf(e) /\ KidsInv'
<1>0. e \notin block[e].branches
  BY NotBelowItself DEF KidsInv
<1>1. ASSUME NEW p \in Phase \ {"idle"}, phase' = [phase EXCEPT ![e] = p], phase[e] \in Running,
             UNCHANGED <<orphans, doomed>>
      PROVE  StepOf(e)
  BY <1>1 DEF StepOf, TypeOK
<1>2. CASE EnterParallel(e)
  <2>1. /\ phase[e] = "ready" /\ phase' = [phase EXCEPT ![e] = "opening"]
        /\ UNCHANGED <<block, orphans, doomed>>
    BY <1>2 DEF EnterParallel, Node, Ready, Goes
  <2>2. StepOf(e)
    BY <1>1, <2>1 DEF Running, Phase
  <2> QED  BY <2>1, <2>2, BlocksKept DEF Waits
<1>3. CASE OpenFails(e)
  <2>1. PICK p \in {"ready", "gone"} \cup Error \cup (IF e = Main THEN {"idle"} ELSE {}) :
           phase' = [Dropped(e) EXCEPT ![e] = p]
    BY <1>3, Limits, RaiseIs, RaisedIs DEF OpenFails
  <2>2. StepOf(e)
    BY <1>0, <1>3, <2>1, DropsMove DEF OpenFails, Running
  <2> QED  BY <1>3, <2>2, BlockDropped DEF OpenFails
<1>4. CASE BranchEnds(e)
  <2>1. PICK p \in {"gone", "done"} : phase' = [phase EXCEPT ![e] = p]
    BY <1>4 DEF BranchEnds, Goes
  <2>2. phase[e] = "ready" /\ UNCHANGED <<block, orphans, doomed>>
    BY <1>4 DEF BranchEnds, Ready
  <2>3. StepOf(e)
    BY <1>1, <2>1, <2>2 DEF Running, Phase
  <2> QED  BY <2>2, <2>3, BlocksKept DEF Waits
<1>5. CASE AbortLands(e)
  <2>1. StepOf(e)
    BY <1>0, <1>5, DropsMove DEF AbortLands
  <2> QED  BY <1>5, <2>1, BlockDropped DEF AbortLands
<1>6. ASSUME NEW b \in Branch, JoinFailed(e, b) PROVE StepOf(e) /\ KidsInv'
  <2>1. /\ phase[e] = "joining" /\ b \in block[e].branches /\ phase[b] \in Error
        /\ phase' = [phase EXCEPT ![b] = "gone"] /\ orphans' = orphans /\ doomed \subseteq doomed'
    BY <1>6 DEF JoinFailed, Goes
  <2>2. \A x \in Executor : block'[x].branches = block[x].branches
    <3> DEFINE rec == [block[e] EXCEPT !.err = phase[b]]
    <3>1. block[e] \in [branches : SUBSET Branch, opened : Seq(Nat), err : Error \cup {"none"}]
      BY DEF TypeOK
    <3>2. rec.branches = block[e].branches
      BY <3>1
    <3> HIDE DEF rec
    <3>3. block' = block \/ block' = [block EXCEPT ![e] = rec]
      BY <1>6 DEF JoinFailed, rec
    <3> QED  BY <3>2, <3>3 DEF TypeOK
  <2>3. b \in Executor /\ b # e /\ phase[b] \notin Running
    BY <1>0, <2>1, ErrorsAre DEF Branch
  <2>4. phase'[b] = "gone" /\ \A x \in Executor : x # b => phase'[x] = phase[x]
    BY <2>1, <2>3 DEF TypeOK
  <2>5. StepOf(e)
    BY <2>1, <2>3, <2>4 DEF StepOf, Running
  <2> QED  BY <2>1, <2>2, <2>3, <2>4, <2>5, BlocksKept DEF Waits
<1>7. CASE AllJoined(e)
  <2>1. /\ phase[e] = "joining" /\ phase' = [phase EXCEPT ![e] = "closing"]
        /\ UNCHANGED <<block, orphans, doomed>>
        /\ \A b \in block[e].branches : phase[b] \in {"done", "gone"}
    BY <1>7 DEF AllJoined, Goes, own
  <2>2. StepOf(e)
    BY <1>1, <2>1 DEF Running, Phase
  <2> QED  BY <2>1, <2>2, BlocksKept DEF Running
<1>8. CASE ClosePage(e)
  <2>0. \A x \in Executor : block'[x].branches = block[x].branches
    BY <1>8, PageClosed
  <2>1. phase[e] = "closing" /\ UNCHANGED <<phase, orphans, doomed>>
    BY <1>8 DEF ClosePage, own
  <2>2. StepOf(e)
    BY <2>1 DEF StepOf, Running
  <2> QED  BY <2>0, <2>1, <2>2, BlocksKept DEF Waits
<1>9. CASE FinishParallel(e)
  <2>1. phase[e] = "closing" /\ \E sum : Drops(e, sum)
    BY <1>9 DEF FinishParallel
  <2>2. PICK p \in {"ready", "gone"} \cup Error \cup (IF e = Main THEN {"idle"} ELSE {}) :
           phase' = [Dropped(e) EXCEPT ![e] = p]
    <3>1. CASE phase' = [Dropped(e) EXCEPT ![e] = "ready"]
      BY <3>1
    <3>2. CASE block[e].err # "none" /\ Raised(e, block[e].err, Dropped(e))
      BY <3>2, ErrorsAre, RaiseIs
    <3> QED  BY <1>9, <3>1, <3>2, RaisedIs DEF FinishParallel
  <2>3. StepOf(e)
    BY <1>0, <2>1, <2>2, DropsMove DEF Running
  <2> QED  BY <2>1, <2>3, BlockDropped
<1> QED  BY <1>2, <1>3, <1>4, <1>5, <1>6, <1>7, <1>8, <1>9 DEF Blocks

\* An executor that moves alone and is in no block.
LEMMA AloneKeeps ==
  ASSUME TypeOK, KidsInv, NEW e \in Executor, phase[e] \in Running \/ e = Main, ~Waits(e), UNCHANGED <<block, orphans, doomed>>,
         NEW p \in Phase, p # "idle" \/ e = Main, phase' = [phase EXCEPT ![e] = p]
  PROVE  StepOf(e) /\ KidsInv'
<1>1. StepOf(e)
  BY DEF StepOf, TypeOK
<1> QED  BY <1>1, BlocksKept

\* So do the steps of an executor of its own.
LEMMA NodesKeep ==
  ASSUME TypeOK, KidsInv, NEW e \in Executor, Nodes(e)
  PROVE  StepOf(e) /\ KidsInv'
<1>1. phase[e] \in Running /\ ~Waits(e) /\ UNCHANGED <<block, orphans, doomed>>
  BY NodesMove DEF Running, Waits
<1>2. PICK p \in {"ready", "counted", "calling", "gone"} \cup Error \cup (IF e = Main THEN {"idle"} ELSE {}) :
             phase' = [phase EXCEPT ![e] = p]
  BY NodesMove
<1>3. p \in Phase /\ (p # "idle" \/ e = Main)
  BY ErrorsAre DEF Phase
<1> QED  BY <1>1, <1>2, <1>3, AloneKeeps

\* Every step keeps the invariant.
LEMMA TreeStep == TreeInv /\ TypeOK' /\ [Next]_vars => TreeInv'
<1> SUFFICES ASSUME TreeInv, TypeOK', [Next]_vars PROVE KidsInv' /\ TopInv'
  BY DEF TreeInv
<1> TypeOK /\ KidsInv /\ TopInv
  BY DEF TreeInv
<1>1. ASSUME NEW e \in Executor, Nodes(e) PROVE KidsInv' /\ TopInv'
  BY <1>1, NodesKeep, TopKept
<1>2. ASSUME NEW e \in Executor, Blocks(e) PROVE KidsInv' /\ TopInv'
  BY <1>2, BlocksKeep, TopKept, Opened
<1>3. CASE Start
  <2>1. "ready" \in Phase /\ ~Waits(Main) /\ phase' = [phase EXCEPT ![Main] = "ready"]
        /\ UNCHANGED <<block, orphans, doomed>>
    BY <1>3 DEF Start, Goes, Phase, Waits, own
  <2> QED  BY <2>1, AloneKeeps, TopKept, AllBelowMain
<1>4. CASE ScriptEnds
  <2>1. "idle" \in Phase /\ ~Waits(Main) /\ phase' = [phase EXCEPT ![Main] = "idle"]
        /\ UNCHANGED <<block, orphans, doomed>>
    BY <1>4 DEF ScriptEnds, Ready, Goes, Phase, Waits, own
  <2> QED  BY <2>1, AloneKeeps, TopKept, AllBelowMain
<1>5. CASE UNCHANGED <<phase, block, orphans, doomed>>
  BY <1>5 DEF KidsInv, TopInv, Waits
<1>6. Cancel \/ Expire \/ UNCHANGED vars => UNCHANGED <<phase, block, orphans, doomed>>
  BY DEF Cancel, Expire, vars, own
<1> QED  BY <1>1, <1>2, <1>3, <1>4, <1>5, <1>6 DEF Next, Moves

\* The invariant always holds.
LEMMA TreeHolds == Spec => []TreeInv
<1>1. Init /\ TypeOK => TreeInv
  <2> SUFFICES ASSUME Init, TypeOK PROVE TreeInv
    OBVIOUS
  <2>1. \A e \in Executor : phase[e] = "idle" /\ block[e].branches = {}
    BY DEF Init, NoBlock
  <2>2. \A e \in Executor : Kids(e) \subseteq Executor /\ Under(e) \subseteq Executor
    BY DEF Kids, Under, Branch
  <2>3. orphans = {} /\ "idle" \notin Running
    BY DEF Init, Running
  <2> QED  BY <2>1, <2>2, <2>3 DEF TreeInv, KidsInv, TopInv
<1> QED  BY <1>1, TreeStep, ExecutorTypeCorrect, PTL DEF Spec

\* Nobody closes the pages of branches that still run, and the script does not
\* end before them, but for orphans; and those were told to stop.
THEOREM BranchesEndFirst == Spec => []NoBranchOutlives
<1>1. TreeInv => NoBranchOutlives
  BY DEF TreeInv, KidsInv, NoBranchOutlives, Waits
<1> QED  BY <1>1, TreeHolds, PTL

-----------------------------------------------------------------------------
(* The limit of steps *)

Counted == {e \in Executor : phase[e] = "counted"}

\* Whoever has counted its call and not checked the limits has its call counted.
StepsInv ==
  /\ acted <= MaxSteps
  /\ steps <= MaxSteps => acted + Cardinality(Counted) <= steps

\* The executors are finitely many.
LEMMA CountedIs == IsFiniteSet(Counted) /\ Cardinality(Counted) \in Nat
BY FS_Subset, FS_CardinalityType, ScriptAssumption DEF Counted

LEMMA StepsStep == TypeOK /\ TypeOK' /\ StepsInv /\ [Next]_vars => StepsInv'
<1> SUFFICES ASSUME TypeOK, TypeOK', StepsInv, [Next]_vars PROVE StepsInv'
  OBVIOUS
<1>t. MaxSteps \in Nat /\ steps \in Nat /\ acted \in Nat /\ steps' \in Nat /\ acted' \in Nat
  BY ScriptAssumption DEF TypeOK
<1>c. /\ Cardinality(Counted) \in Nat /\ IsFiniteSet(Counted)
      /\ IsFiniteSet(Counted') /\ Cardinality(Counted') \in Nat
  <2>1. Counted' \subseteq Executor
    BY DEF Counted
  <2> QED  BY <2>1, CountedIs, FS_Subset, FS_CardinalityType, ScriptAssumption
<1>1. ASSUME Counted' \subseteq Counted, acted' = acted, steps' \in {steps, steps + 1} PROVE StepsInv'
  <2>1. Cardinality(Counted') <= Cardinality(Counted)
    BY <1>1, <1>c, FS_Subset
  <2> QED  BY <1>1, <1>t, <1>c, <2>1 DEF StepsInv
<1>2. ASSUME NEW e \in Executor, CountStep(e) PROVE StepsInv'
  <2>1. Counted' \subseteq Counted \cup {e}
    BY <1>2 DEF CountStep, Goes, Counted, TypeOK
  <2>2. Cardinality(Counted') <= Cardinality(Counted) + 1
    <3>1. IsFiniteSet(Counted \cup {e}) /\ Cardinality(Counted \cup {e}) \in {Cardinality(Counted), Cardinality(Counted) + 1}
      <4>1. e \in Counted => Counted \cup {e} = Counted
        OBVIOUS
      <4> QED  BY <1>c, <4>1, FS_AddElement
    <3>2. Cardinality(Counted') <= Cardinality(Counted \cup {e})
      BY <2>1, <3>1, FS_Subset
    <3> QED  BY <1>c, <3>1, <3>2
  <2>3. acted' = acted /\ steps' = IF steps > MaxSteps THEN steps ELSE steps + 1
    BY <1>2 DEF CountStep
  <2> QED  BY <1>t, <1>c, <2>2, <2>3 DEF StepsInv
<1>3. ASSUME NEW e \in Executor, CheckStep(e), ~UNCHANGED acted PROVE StepsInv'
  <2>1. /\ phase[e] = "counted" /\ phase' = [phase EXCEPT ![e] = "calling"] /\ steps' = steps
        /\ acted' = acted + 1 /\ steps <= MaxSteps
    BY <1>3, <1>t DEF CheckStep, Goes, LimitError, StepsInv
  <2>2. e \in Counted /\ Counted' = Counted \ {e}
    BY <2>1 DEF Counted, TypeOK
  <2>3. Cardinality(Counted') = Cardinality(Counted) - 1
    BY <1>c, <2>2, FS_RemoveElement
  <2> QED  BY <1>t, <1>c, <2>1, <2>3 DEF StepsInv
<1>4. ASSUME NEW e \in Executor, NEW err \in Error, NEW ph \in [Executor -> Phase], Raised(e, err, ph),
             \A d \in Executor : ph[d] = "counted" => phase[d] = "counted"
      PROVE  Counted' \subseteq Counted
  <2>1. PICK p \in {"ready", "gone"} \cup Error \cup (IF e = Main THEN {"idle"} ELSE {}) :
           phase' = [ph EXCEPT ![e] = p]
    BY <1>4, RaiseIs
  <2>2. p # "counted"
    BY DEF Error, Fatal
  <2> QED  BY <1>4, <2>1, <2>2 DEF Counted
<1>5. ASSUME NEW e \in Executor PROVE \A d \in Executor : Dropped(e)[d] = "counted" => phase[d] = "counted"
  BY DroppedIs
<1>6. ASSUME NEW e \in Executor, NEW p \in Phase \ {"counted"}, Goes(e, p) PROVE Counted' \subseteq Counted
  BY <1>6 DEF Goes, Counted, TypeOK
<1>7. ASSUME NEW e \in Executor, Nodes(e) PROVE StepsInv'
  <2>1. CASE CountStep(e) \/ (CheckStep(e) /\ ~UNCHANGED acted)
    BY <1>2, <1>3, <2>1
  <2>2. CASE ~CountStep(e) /\ ~(CheckStep(e) /\ ~UNCHANGED acted)
    <3>1. acted' = acted /\ steps' \in {steps, steps + 1}
      BY <1>7, <2>2 DEF Nodes, CheckLimits, ChargeTurn, CheckStep, Evaluate, ToolReturns, ToolFails,
         NodeFails, Collect, Yield, EnterTry, LeaveTry, Node, counts
    <3>0. CheckStep(e) => \E err \in Error : Raised(e, err, phase)
      BY <1>t, <2>2, Limits, RaisedIs DEF CheckStep, StepsInv
    <3> DEFINE Goal == \/ UNCHANGED phase
                       \/ Goes(e, "calling")
                       \/ Goes(e, "ready")
                       \/ \E err \in Error : Raised(e, err, phase)
    <3>2. Goal
      <4>1. ASSUME CheckLimits(e) \/ LeaveTry(e) PROVE Goal
        BY <4>1, ErrorsAre, RaisedIs DEF CheckLimits, LeaveTry
      <4>2. ASSUME ToolFails(e) \/ NodeFails(e) \/ Collect(e) \/ Yield(e) PROVE Goal
        BY <4>2, Limits, RaisedIs DEF ToolFails, NodeFails, Collect, Yield
      <4>3. ASSUME ChargeTurn(e) \/ Evaluate(e) \/ ToolReturns(e) \/ EnterTry(e) PROVE Goal
        BY <4>3 DEF ChargeTurn, Evaluate, ToolReturns, EnterTry
      <4> QED  BY <1>7, <2>2, <3>0, <4>1, <4>2, <4>3 DEF Nodes
    <3>3. phase \in [Executor -> Phase]
      BY DEF TypeOK
    <3>4. Counted' \subseteq Counted
      BY <1>4, <1>6, <3>2, <3>3 DEF Counted, Phase
    <3> QED  BY <1>1, <3>1, <3>4
  <2> QED  BY <2>1, <2>2
<1>8. ASSUME NEW e \in Executor, Blocks(e) PROVE StepsInv'
  <2>1. acted' = acted /\ steps' = steps
    BY <1>8 DEF Blocks, EnterParallel, OpenBranch, OpenFails, BranchEnds, AbortLands, JoinFailed, AllJoined,
       ClosePage, FinishParallel, Node, counts
  <2>2. Dropped(e) \in [Executor -> Phase]
    BY DroppedIs
  <2>3. CASE EnterParallel(e) \/ BranchEnds(e) \/ AllJoined(e) \/ ClosePage(e)
    <3>1. Counted' \subseteq Counted
      BY <1>6, <2>3 DEF EnterParallel, BranchEnds, AllJoined, ClosePage, Counted, Phase
    <3> QED  BY <1>1, <2>1, <3>1
  <2>4. CASE OpenBranch(e)
    <3>1. PICK b \in Fresh(e), p \in {"opening", "joining"} : Opens(e, b, p)
      BY <2>4, OpenedIs
    <3>2. phase' = [phase EXCEPT ![b] = "ready", ![e] = p]
      BY <3>1 DEF Opens
    <3>3. Counted' \subseteq Counted
      BY <3>2 DEF Counted, TypeOK
    <3> QED  BY <1>1, <2>1, <3>3
  <2>5. CASE OpenFails(e) \/ FinishParallel(e)
    <3>1. (\E err \in Error : Raised(e, err, Dropped(e))) \/ phase' = [Dropped(e) EXCEPT ![e] = "ready"]
      BY <2>5, Limits, ErrorsAre, RaisedIs DEF OpenFails, FinishParallel
    <3>2. Counted' \subseteq Counted
      BY <1>4, <1>5, <2>2, <3>1 DEF Counted
    <3> QED  BY <1>1, <2>1, <3>2
  <2>6. CASE AbortLands(e)
    <3>1. phase' = [Dropped(e) EXCEPT ![e] = "gone"]
      BY <2>6 DEF AbortLands
    <3>2. Counted' \subseteq Counted
      BY <1>5, <2>2, <3>1 DEF Counted
    <3> QED  BY <1>1, <2>1, <3>2
  <2>7. ASSUME NEW b \in Branch, JoinFailed(e, b) PROVE StepsInv'
    <3>1. Counted' \subseteq Counted
      BY <1>6, <2>7 DEF JoinFailed, Branch, Phase
    <3> QED  BY <1>1, <2>1, <3>1
  <2> QED  BY <1>8, <2>3, <2>4, <2>5, <2>6, <2>7 DEF Blocks
<1>9. CASE Start \/ ScriptEnds
  <2>1. acted' = acted /\ steps' = steps
    BY <1>9 DEF Start, ScriptEnds, counts
  <2>2. Counted' \subseteq Counted
    BY <1>6, <1>9, AllBelowMain DEF Start, ScriptEnds, Phase
  <2> QED  BY <1>1, <2>1, <2>2
<1>10. CASE Cancel \/ Expire \/ UNCHANGED vars
  <2>1. acted' = acted /\ steps' = steps /\ phase' = phase
    BY <1>10 DEF Cancel, Expire, vars, counts
  <2> QED  BY <1>1, <2>1 DEF Counted
<1> QED  BY <1>7, <1>8, <1>9, <1>10 DEF Next, Moves

\* max_steps bounds the calls that reach the browser for any number of branches:
\* each counts before it checks, so the checks can only refuse too many.
THEOREM StepsAreLimited == Spec => []StepLimitHolds
<1>1. Init => StepsInv
  <2>1. ASSUME Init PROVE Counted = {}
    BY <2>1 DEF Init, Counted
  <2>2. Init => steps = 0 /\ acted = 0 /\ Cardinality(Counted) = 0
    BY <2>1, FS_EmptySet DEF Init
  <2>3. MaxSteps \in Nat
    BY ScriptAssumption
  <2> QED  BY <2>2, <2>3 DEF StepsInv
<1>2. StepsInv => StepLimitHolds
  BY DEF StepsInv, StepLimitHolds
<1> QED  BY <1>1, <1>2, StepsStep, ExecutorTypeCorrect, PTL DEF Spec

-----------------------------------------------------------------------------
(* The run is a task *)

\* The error "cancelled" is nowhere before somebody cancels, ...
ErrorsOfRuns ==
  \A e \in Executor : phase[e] # "cancelled" /\ \A i \in 1..Len(frames[e]) : frames[e][i].err # "cancelled"
ErrorsOfBlocks == \A e \in Executor : block[e].err # "cancelled"
\* ... and with the result the main executor has come to rest.
AtRest == result # "none" => phase[Main] \notin Running

TaskInv == AtRest /\ (token \/ (ErrorsOfRuns /\ ErrorsOfBlocks))

TaskStep == [Task!Next]_<<token, shown, result, orphans # {}>>

\* Who runs after the result is an orphan's.
LEMMA AfterTheResult ==
  ASSUME TreeInv, AtRest, NEW e \in Executor, phase[e] \in Running
  PROVE  /\ result = "none" \/ orphans # {}
         /\ e = Main => result = "none"
<1>1. ASSUME result # "none", orphans = {} PROVE FALSE
  <2>1. e # Main /\ e \in Under(Main)
    BY <1>1, AllBelowMain DEF AtRest, Branch
  <2>2. Waits(Main)
    BY <1>1, <2>1, AllBelowMain DEF TreeInv, TopInv
  <2> QED  BY <1>1, <2>2 DEF AtRest, Waits, Running
<1> QED  BY <1>1 DEF AtRest

\* A step that loses branches or none and leaves the task alone.
LEMMA LoseTask ==
  ASSUME result = "none" \/ orphans # {}, UNCHANGED <<token, shown, result>>, orphans \subseteq orphans'
  PROVE  TaskStep
<1>1. CASE (orphans' # {}) = (orphans # {})
  BY <1>1 DEF TaskStep
<1>2. CASE orphans = {} /\ orphans' # {}
  BY <1>2 DEF TaskStep, Task!Next, Task!Lose
<1> QED  BY <1>1, <1>2

\* So is a step that syncs or that leaves the task alone.
LEMMA SyncTask ==
  ASSUME result = "none" \/ orphans # {}, token' = token, result' = result, shown' \in {shown, "running"},
         orphans' = orphans
  PROVE  TaskStep
BY DEF TaskStep, Task!Next, Task!Sync

\* Without frames there is no error in one.
LEMMA EmptyFrames ==
  ASSUME TypeOK, ErrorsOfRuns, NEW e \in Executor, frames' = [frames EXCEPT ![e] = << >>],
         \A d \in Executor : phase'[d] # "cancelled"
  PROVE  ErrorsOfRuns'
<1>1. frames'[e] = << >> /\ Len(<< >>) = 0 /\ \A d \in Executor : d # e => frames'[d] = frames[d]
  BY DEF TypeOK
<1>2. 1..0 = {}
  OBVIOUS
<1> QED  BY <1>1, <1>2 DEF ErrorsOfRuns

\* An error that is not "cancelled" leaves no "cancelled".
LEMMA RaiseErrors ==
  ASSUME TypeOK, ErrorsOfRuns, NEW e \in Executor, NEW err \in Error \ {"cancelled"},
         NEW ph \in [Executor -> Phase], \A d \in Executor : ph[d] \in {phase[d], "gone"}, Raised(e, err, ph)
  PROVE  ErrorsOfRuns'
<1>0. \A d \in Executor : phase'[d] # "cancelled"
  <2>1. PICK p \in {"ready", "gone", "idle", err} : phase' = [ph EXCEPT ![e] = p]
    BY DEF Raised, RaiseFrom
  <2> QED  BY <2>1 DEF ErrorsOfRuns
<1>1. ASSUME NEW i \in DOMAIN frames[e], frames' = [frames EXCEPT ![e] = Unwound(e, i, err)]
      PROVE  ErrorsOfRuns'
  <2> DEFINE f == IF frames[e][i].kind = "try" /\ err \notin Fatal THEN Catch ELSE Finally(err)
             s == SubSeq(frames[e], 1, i - 1)
  <2>1. f.err # "cancelled"
    BY DEF Catch, Finally
  <2>2. i \in 1..Len(frames[e]) /\ frames[e] \in Seq(Frame)
    BY DEF TypeOK
  <2>3. /\ Len(Append(s, f)) = i
        /\ \A j \in 1..i : Append(s, f)[j] = IF j < i THEN frames[e][j] ELSE f
    <3>1. Len(s) = i - 1 /\ \A j \in 1..i - 1 : s[j] = frames[e][j]
      BY <2>2
    <3>2. s \in Seq(Frame)
      BY <2>2
    <3> HIDE DEF s, f
    <3> QED  BY <2>2, <3>1, <3>2
  <2>4. frames'[e] = Append(s, f) /\ \A d \in Executor : d # e => frames'[d] = frames[d]
    BY <1>1 DEF TypeOK, Unwound
  <2> HIDE DEF s, f
  <2>5. \A j \in 1..Len(frames'[e]) : frames'[e][j].err # "cancelled"
    BY <2>1, <2>2, <2>3, <2>4 DEF ErrorsOfRuns
  <2> QED  BY <1>0, <2>4, <2>5 DEF ErrorsOfRuns
<1>2. ASSUME frames' = [frames EXCEPT ![e] = << >>]
      PROVE  ErrorsOfRuns'
  BY <1>0, <1>2, EmptyFrames
<1> QED  BY <1>1, <1>2 DEF Raised, RaiseFrom

\* An error of a running script is a step of the task, whatever it drops, ...
LEMMA RaiseTask ==
  ASSUME NEW e \in Executor, NEW err \in Error, NEW ph, Raise(e, err, ph), token' = token,
         e = Main => result = "none", result = "none" \/ orphans # {}, orphans \subseteq orphans',
         err = "cancelled" => token
  PROVE  TaskStep
<1>1. CASE UNCHANGED <<shown, result>>
  BY <1>1, LoseTask
<1>2. CASE e = Main /\ result' = (IF err = "cancelled" THEN "cancelled" ELSE "failed") /\ shown' = result'
  <2>1. Task!End(result')
    BY <1>2 DEF Task!End
  <2>2. result' \in Task!Result
    BY <1>2 DEF Task!Result
  <2> QED  BY <2>1, <2>2 DEF TaskStep, Task!Next
<1> QED  BY <1>1, <1>2 DEF Raise, RaiseFrom

\* ... and one that drops nothing, whether the status was synced before or not.
LEMMA RaisedTask ==
  ASSUME NEW e \in Executor, NEW err \in Error, NEW ph, Raised(e, err, ph), token' = token,
         e = Main => result = "none", result = "none" \/ orphans # {}, orphans' = orphans,
         err = "cancelled" => token
  PROVE  TaskStep
<1>1. CASE shown' \in {shown, "running"} /\ UNCHANGED result
  BY <1>1, SyncTask
<1>2. CASE e = Main /\ result' = (IF err = "cancelled" THEN "cancelled" ELSE "failed") /\ shown' = result'
  <2>1. Task!End(result')
    BY <1>2 DEF Task!End
  <2>2. result' \in Task!Result
    BY <1>2 DEF Task!Result
  <2> QED  BY <2>1, <2>2 DEF TaskStep, Task!Next
<1> QED  BY <1>1, <1>2 DEF Raised, RaiseFrom


\* check_limits says "cancelled" only if the token does.
LEMMA LimitsTell == LimitError = "cancelled" => token
BY DEF LimitError

\* The top frame's error is one of the frames' errors.
LEMMA TopError ==
  ASSUME TypeOK, NEW e \in Executor, frames[e] # << >>
  PROVE  /\ Last(frames[e]).err \in Error \cup {"none"}
         /\ ErrorsOfRuns => Last(frames[e]).err # "cancelled"
<1>1. frames[e] \in Seq(Frame) /\ Len(frames[e]) \in 1..Len(frames[e])
  BY DEF TypeOK
<1>2. Last(frames[e]) = frames[e][Len(frames[e])] /\ Last(frames[e]) \in Frame
  BY <1>1 DEF Last
<1> QED  BY <1>1, <1>2 DEF ErrorsOfRuns, Frame

\* A step that fails nobody keeps the errors if it keeps those of the frames.
LEMMA NobodyFails ==
  ASSUME TypeOK, ErrorsOfRuns, NEW e \in Executor, NEW p, p # "cancelled", phase' = [phase EXCEPT ![e] = p],
         \A d \in Executor : \A i \in 1..Len(frames'[d]) : frames'[d][i].err # "cancelled"
  PROVE  ErrorsOfRuns'
BY DEF ErrorsOfRuns, TypeOK

\* The steps of one executor.
LEMMA NodesTask ==
  ASSUME TreeInv, TaskInv, NEW e \in Executor, Nodes(e)
  PROVE  TaskStep /\ (token' \/ (ErrorsOfRuns' /\ ErrorsOfBlocks'))
<1>t. TypeOK /\ AtRest /\ (~token => ErrorsOfRuns)
  BY DEF TreeInv, TaskInv
<1>1. phase[e] \in Running /\ block' = block /\ orphans' = orphans
  BY <1>t, NodesMove DEF Running
<1>2. token' = token
  BY DEF Nodes, CheckLimits, ChargeTurn, CountStep, CheckStep, Evaluate, ToolReturns, ToolFails,
         NodeFails, Collect, Yield, EnterTry, LeaveTry, task, Synced
<1>3. (result = "none" \/ orphans # {}) /\ (e = Main => result = "none")
  BY <1>t, <1>1, AfterTheResult
<1> SUFFICES TaskStep /\ (token \/ ErrorsOfRuns')
  BY <1>1, <1>2 DEF TaskInv, ErrorsOfBlocks
<1> DEFINE Goal == TaskStep /\ (token \/ ErrorsOfRuns')
<1>4. ASSUME NEW p, p # "cancelled", phase' = [phase EXCEPT ![e] = p], UNCHANGED frames,
             result' = result, shown' \in {shown, "running"}
      PROVE  Goal
  <2>1. TaskStep
    BY <1>1, <1>2, <1>3, <1>4, SyncTask
  <2>2. ErrorsOfRuns => ErrorsOfRuns'
    BY <1>t, <1>4 DEF ErrorsOfRuns, TypeOK
  <2> QED  BY <1>t, <2>1, <2>2
<1>5. ASSUME UNCHANGED <<phase, frames>>, result' = result, shown' \in {shown, "running"}
      PROVE  Goal
  <2>1. TaskStep
    BY <1>1, <1>2, <1>3, <1>5, SyncTask
  <2> QED  BY <1>t, <1>5, <2>1 DEF ErrorsOfRuns
<1>6. ASSUME NEW err \in Error, Raised(e, err, phase), ~token => err # "cancelled"
      PROVE  Goal
  <2>1. TaskStep
    BY <1>1, <1>2, <1>3, <1>6, RaisedTask
  <2>2. ~token => ErrorsOfRuns'
    <3>1. phase \in [Executor -> Phase]
      BY <1>t DEF TypeOK
    <3> QED  BY <1>t, <1>6, <3>1, RaiseErrors
  <2> QED  BY <2>1, <2>2
<1>7. "tool" \in Error /\ "tool" # "cancelled" /\ (LimitError # "none" => LimitError \in Error)
  BY Limits
<1> HIDE DEF Goal
<1>8. ASSUME EnterTry(e) PROVE Goal
  <2>1. frames' = [frames EXCEPT ![e] = Append(@, Try)] /\ UNCHANGED <<phase, token, shown, result>>
    BY <1>8 DEF EnterTry, task
  <2>2. Try \in Frame /\ Try.err = "none" /\ frames[e] \in Seq(Frame)
    BY <1>t DEF Try, Frame, TypeOK
  <2>3. frames'[e] = Append(frames[e], Try) /\ \A d \in Executor : d # e => frames'[d] = frames[d]
    BY <1>t, <2>1 DEF TypeOK
  <2>4. ErrorsOfRuns => ErrorsOfRuns'
    <3>1. \A j \in 1..Len(Append(frames[e], Try)) :
             Append(frames[e], Try)[j] = Try \/ (j \in 1..Len(frames[e]) /\ Append(frames[e], Try)[j] = frames[e][j])
      BY <2>2
    <3> QED  BY <2>1, <2>2, <2>3, <3>1 DEF ErrorsOfRuns
  <2>5. TaskStep
    BY <1>1, <1>3, <2>1, SyncTask
  <2> QED  BY <1>t, <2>4, <2>5 DEF Goal
<1>9. ASSUME LeaveTry(e) PROVE Goal
  <2>1. frames[e] # << >> /\ frames[e] \in Seq(Frame)
    BY <1>9, <1>t DEF LeaveTry, TypeOK
  <2>2. Front(frames[e]) \in Seq(Frame) /\ Len(Front(frames[e])) = Len(frames[e]) - 1
        /\ \A j \in 1..Len(frames[e]) - 1 : Front(frames[e])[j] = frames[e][j]
    BY <2>1 DEF Front
  <2>3. ASSUME UNCHANGED <<phase, result>>, shown' \in {shown, "running"},
               frames' \in {[frames EXCEPT ![e] = Front(@)], [frames EXCEPT ![e] = Append(Front(@), Finally("none"))]}
        PROVE  Goal
    <3>1. Finally("none") \in Frame /\ Finally("none").err = "none"
      BY DEF Finally, Frame
    <3>2. frames'[e] \in {Front(frames[e]), Append(Front(frames[e]), Finally("none"))}
          /\ \A d \in Executor : d # e => frames'[d] = frames[d]
      BY <1>t, <2>3 DEF TypeOK
    <3>3. \A j \in 1..Len(frames'[e]) :
             frames'[e][j] = Finally("none") \/ (j \in 1..Len(frames[e]) /\ frames'[e][j] = frames[e][j])
      <4>1. CASE frames'[e] = Front(frames[e])
        BY <2>1, <2>2, <4>1
      <4>2. CASE frames'[e] = Append(Front(frames[e]), Finally("none"))
        <5>1. Len(frames'[e]) = Len(frames[e])
          BY <2>1, <2>2, <3>1, <4>2
        <5>2. \A j \in 1..Len(frames[e]) : frames'[e][j] = IF j < Len(frames[e]) THEN Front(frames[e])[j] ELSE Finally("none")
          BY <2>1, <2>2, <3>1, <4>2
        <5> QED  BY <2>1, <2>2, <5>1, <5>2
      <4> QED  BY <3>2, <4>1, <4>2
    <3>4. ErrorsOfRuns => ErrorsOfRuns'
      BY <2>3, <3>1, <3>2, <3>3 DEF ErrorsOfRuns
    <3>5. TaskStep
      BY <1>1, <1>2, <1>3, <2>3, SyncTask
    <3> QED  BY <1>t, <3>4, <3>5 DEF Goal
  <2>4. ASSUME Last(frames[e]).err # "none", Raised(e, Last(frames[e]).err, phase) PROVE Goal
    <3>1. Last(frames[e]).err \in Error
      BY <1>t, <2>1, <2>4, TopError
    <3>2. ~token => Last(frames[e]).err # "cancelled"
      BY <1>t, <2>1, TopError
    <3> QED  BY <1>6, <2>4, <3>1, <3>2
  <2>5. \/ UNCHANGED <<phase, result>> /\ shown' \in {shown, "running"}
           /\ frames' \in {[frames EXCEPT ![e] = Front(@)], [frames EXCEPT ![e] = Append(Front(@), Finally("none"))]}
        \/ Last(frames[e]).err # "none" /\ Raised(e, Last(frames[e]).err, phase)
    BY <1>9, RaisedIs DEF LeaveTry
  <2> QED  BY <2>3, <2>4, <2>5
<1>10. ASSUME CheckLimits(e) \/ CheckStep(e) PROVE Goal
  BY <1>4, <1>5, <1>6, <1>7, <1>10, LimitsTell, RaisedIs DEF CheckLimits, CheckStep, Goes
<1>11. ASSUME ToolFails(e) \/ NodeFails(e) \/ Collect(e) \/ Yield(e) PROVE Goal
  BY <1>5, <1>6, <1>7, <1>11, RaisedIs DEF ToolFails, NodeFails, Collect, Yield, Synced
<1>12. ASSUME ChargeTurn(e) \/ CountStep(e) \/ Evaluate(e) \/ ToolReturns(e) PROVE Goal
  BY <1>4, <1>5, <1>12 DEF ChargeTurn, CountStep, Evaluate, ToolReturns, Goes, Synced, task, own
<1> QED  BY <1>8, <1>9, <1>10, <1>11, <1>12 DEF Nodes, Goal

\* Dropping a block brings no error.
LEMMA DropsErrors ==
  ASSUME TypeOK, NEW e \in Executor, NEW sum, Drops(e, sum), ErrorsOfBlocks
  PROVE  ErrorsOfBlocks'
<1>1. \A d \in Executor : block'[d] \in {block[d], NoBlock}
  BY DEF Drops, TypeOK
<1>2. NoBlock.err = "none"
  BY DEF NoBlock
<1> QED  BY <1>1, <1>2 DEF ErrorsOfBlocks

\* Dropped branches have no error.
LEMMA DroppedErrors ==
  ASSUME TypeOK, NEW e \in Executor
  PROVE  Dropped(e) \in [Executor -> Phase] /\ \A d \in Executor : Dropped(e)[d] \in {phase[d], "gone"}
BY DroppedIs

\* Who closes pages waits for nobody any more.
LEMMA ClosingAlone ==
  ASSUME TypeOK, KidsInv, NEW e \in Executor, phase[e] = "closing"
  PROVE  Live(e) = {}
<1> SUFFICES ASSUME NEW b \in block[e].branches, phase[b] \in Running PROVE FALSE
  BY DEF Live
<1>1. b \in Kids(e) /\ b \notin orphans
  BY DEF KidsInv
<1> QED  BY <1>1 DEF KidsInv, Waits

\* The steps of a block.
LEMMA BlocksTask ==
  ASSUME TreeInv, TaskInv, NEW e \in Executor, Blocks(e)
  PROVE  TaskStep /\ (token' \/ (ErrorsOfRuns' /\ ErrorsOfBlocks'))
<1>t. TypeOK /\ KidsInv /\ AtRest /\ (~token => ErrorsOfRuns /\ ErrorsOfBlocks)
  BY DEF TreeInv, TaskInv
<1>1. phase[e] \in Running /\ token' = token
  BY DEF Blocks, EnterParallel, OpenBranch, OpenFails, BranchEnds, AbortLands, JoinFailed, AllJoined,
     ClosePage, FinishParallel, Node, Ready, task, Running
<1>2. (result = "none" \/ orphans # {}) /\ (e = Main => result = "none")
  BY <1>t, <1>1, AfterTheResult
<1> DEFINE Goal == TaskStep /\ (token \/ (ErrorsOfRuns' /\ ErrorsOfBlocks'))
<1> SUFFICES Goal
  BY <1>1
<1>d. Dropped(e) \in [Executor -> Phase] /\ \A d \in Executor : Dropped(e)[d] \in {phase[d], "gone"}
  BY <1>t, DroppedErrors
<1>s. ASSUME UNCHANGED <<shown, result>>, orphans \subseteq orphans' PROVE TaskStep
  BY <1>1, <1>2, <1>s, LoseTask
<1>f. ASSUME UNCHANGED block PROVE ErrorsOfBlocks => ErrorsOfBlocks'
  BY <1>f DEF ErrorsOfBlocks
<1>p. ASSUME UNCHANGED frames, NEW x \in Executor, NEW p, p # "cancelled",
             phase' \in {[phase EXCEPT ![x] = p], [Dropped(e) EXCEPT ![x] = p]}
      PROVE  ErrorsOfRuns => ErrorsOfRuns'
  <2>1. \A d \in Executor : phase'[d] \in {phase[d], "gone", p}
    BY <1>t, <1>d, <1>p DEF TypeOK
  <2> QED  BY <1>p, <2>1 DEF ErrorsOfRuns
<1>g. ASSUME NEW x \in Executor, Forgets(x), \A d \in Executor : phase'[d] \in {phase[d], "gone", "done"}
      PROVE  ErrorsOfRuns => ErrorsOfRuns'
  <2>1. ErrorsOfRuns => \A d \in Executor : phase'[d] # "cancelled"
    BY <1>g DEF ErrorsOfRuns
  <2> QED  BY <1>t, <1>g, <2>1, EmptyFrames DEF Forgets
<1>r. ASSUME NEW err \in Error, Raise(e, err, Dropped(e)), ~token => err # "cancelled",
             NEW sum, Drops(e, sum)
      PROVE  Goal
  <2>1. TaskStep
    BY <1>1, <1>2, <1>r, RaiseTask DEF Drops
  <2>2. ~token => ErrorsOfRuns'
    BY <1>t, <1>d, <1>r, RaiseErrors, RaisedIs
  <2>3. ~token => ErrorsOfBlocks'
    BY <1>t, <1>r, DropsErrors
  <2> QED  BY <2>1, <2>2, <2>3
<1> HIDE DEF Goal
<1>4. ASSUME EnterParallel(e) PROVE Goal
  <2>1. /\ UNCHANGED <<frames, block, shown, result, orphans>> /\ phase' = [phase EXCEPT ![e] = "opening"]
    BY <1>4 DEF EnterParallel, Goes, Node, task
  <2> QED  BY <1>t, <1>s, <1>f, <1>p, <2>1 DEF Goal
<1>5. ASSUME OpenBranch(e) PROVE Goal
  <2>1. PICK b \in Fresh(e), next \in {"opening", "joining"} : Opens(e, b, next)
    BY <1>5, OpenedIs
  <2>2. /\ UNCHANGED <<frames, shown, result, orphans>>
        /\ phase' = [phase EXCEPT ![b] = "ready", ![e] = next]
        /\ block' = [block EXCEPT ![e].branches = @ \cup {b}, ![e].opened = Append(@, NewIndex)]
    BY <2>1 DEF Opens, own, task
  <2>3. \A d \in Executor : block'[d].err = block[d].err
    BY <1>t, <2>2 DEF TypeOK
  <2>4. \A d \in Executor : phase'[d] \in {phase[d], "ready", next}
    BY <1>t, <2>2 DEF TypeOK
  <2>5. ErrorsOfBlocks => ErrorsOfBlocks'
    BY <2>3 DEF ErrorsOfBlocks
  <2>6. ErrorsOfRuns => ErrorsOfRuns'
    BY <2>2, <2>4 DEF ErrorsOfRuns
  <2> QED  BY <1>t, <1>s, <2>2, <2>5, <2>6 DEF Goal
<1>6. ASSUME OpenFails(e) PROVE Goal
  <2>1. "tool" \in Error /\ "tool" # "cancelled"
    BY Limits
  <2> QED  BY <1>6, <1>r, <2>1 DEF OpenFails
<1>7. ASSUME BranchEnds(e) PROVE Goal
  <2>1. /\ UNCHANGED <<block, shown, result, orphans>> /\ Forgets(e)
        /\ \E p \in {"gone", "done"} : phase' = [phase EXCEPT ![e] = p]
    BY <1>7 DEF BranchEnds, Goes, task
  <2>2. \A d \in Executor : phase'[d] \in {phase[d], "gone", "done"}
    BY <1>t, <2>1 DEF TypeOK
  <2> QED  BY <1>t, <1>s, <1>f, <1>g, <2>1, <2>2 DEF Goal
<1>8. ASSUME AbortLands(e) PROVE Goal
  <2>1. /\ UNCHANGED <<shown, result>> /\ Forgets(e) /\ Drops(e, 0)
        /\ phase' = [Dropped(e) EXCEPT ![e] = "gone"]
    BY <1>8 DEF AbortLands, task
  <2>2. \A d \in Executor : phase'[d] \in {phase[d], "gone", "done"}
    BY <1>d, <2>1
  <2>3. orphans \subseteq orphans'
    BY <2>1 DEF Drops
  <2> QED  BY <1>t, <1>s, <1>g, <2>1, <2>2, <2>3, DropsErrors DEF Goal
<1>9. ASSUME NEW b \in Branch, JoinFailed(e, b) PROVE Goal
  <2>1. b \in Executor
    BY DEF Branch
  <2>2. /\ UNCHANGED <<shown, result, orphans>> /\ Forgets(b) /\ phase' = [phase EXCEPT ![b] = "gone"]
    BY <1>9 DEF JoinFailed, task, Goes
  <2>3. \A d \in Executor : phase'[d] \in {phase[d], "gone", "done"}
    BY <1>t, <2>2 DEF TypeOK
  <2>4. \A d \in Executor : block'[d].err \in {block[d].err, phase[b]}
    BY <1>t, <1>9 DEF JoinFailed, TypeOK
  <2>5. ErrorsOfRuns /\ ErrorsOfBlocks => ErrorsOfBlocks'
    BY <2>1, <2>4 DEF ErrorsOfRuns, ErrorsOfBlocks
  <2> QED  BY <1>t, <1>s, <1>g, <2>1, <2>2, <2>3, <2>5 DEF Goal
<1>10. ASSUME AllJoined(e) PROVE Goal
  <2>1. /\ UNCHANGED <<frames, block, shown, result, orphans>> /\ phase' = [phase EXCEPT ![e] = "closing"]
    BY <1>10 DEF AllJoined, Goes, own, task
  <2> QED  BY <1>t, <1>s, <1>f, <1>p, <2>1 DEF Goal
<1>11. ASSUME ClosePage(e) PROVE Goal
  <2>1. UNCHANGED <<phase, frames, shown, result, orphans>>
    BY <1>11 DEF ClosePage, own, task
  <2>2. \A d \in Executor : block'[d].err \in {block[d].err, "tool"}
    BY <1>t, <1>11, PageClosed
  <2>3. ErrorsOfBlocks => ErrorsOfBlocks'
    BY <2>2 DEF ErrorsOfBlocks
  <2> QED  BY <1>t, <1>s, <2>1, <2>3 DEF Goal, ErrorsOfRuns
<1>12. ASSUME FinishParallel(e) PROVE Goal
  <2>1. PICK sum : Drops(e, sum)
    BY <1>12 DEF FinishParallel
  <2>2. orphans' = orphans
    BY <1>t, <1>12, <2>1, ClosingAlone DEF Drops, FinishParallel
  <2>3. ASSUME UNCHANGED <<frames, result>>, shown' \in {shown, "running"}, phase' = [Dropped(e) EXCEPT ![e] = "ready"]
        PROVE  Goal
    <3>1. TaskStep
      BY <1>1, <1>2, <2>2, <2>3, SyncTask
    <3> QED  BY <1>t, <1>p, <2>1, <2>3, <3>1, DropsErrors DEF Goal
  <2>4. ASSUME block[e].err # "none", Raise(e, block[e].err, Dropped(e)) PROVE Goal
    <3>1. block[e].err \in Error /\ (ErrorsOfBlocks => block[e].err # "cancelled")
      BY <1>t, <2>4 DEF TypeOK, ErrorsOfBlocks
    <3> QED  BY <1>t, <1>r, <2>1, <2>4, <3>1
  <2> QED  BY <1>12, <2>3, <2>4 DEF FinishParallel
<1> QED  BY <1>4, <1>5, <1>6, <1>7, <1>8, <1>9, <1>10, <1>11, <1>12 DEF Blocks

\* Other than by a step of its own the main executor does not start again.
LEMMA ResultAtRest ==
  ASSUME TreeInv, AtRest, NEW e \in Executor, Nodes(e) \/ Blocks(e)
  PROVE  AtRest'
<1>t. TypeOK /\ KidsInv /\ Main \in Executor
  BY AllBelowMain DEF TreeInv
<1>1. phase[e] \in Running
  BY DEF Nodes, CheckLimits, ChargeTurn, CountStep, CheckStep, Evaluate, ToolReturns, ToolFails,
     NodeFails, Collect, Yield, EnterTry, LeaveTry, Blocks, EnterParallel, OpenBranch, OpenFails,
     BranchEnds, AbortLands, JoinFailed, AllJoined, ClosePage, FinishParallel, Node, Ready, Running
<1>2. result' = result \/ (e = Main /\ \E ph : phase' = [ph EXCEPT ![Main] = "idle"])
  <2> DEFINE Goal == result' = result \/ (e = Main /\ \E ph : phase' = [ph EXCEPT ![Main] = "idle"])
  <2>1. ASSUME NEW err, NEW ph, Raised(e, err, ph) PROVE Goal
    BY <2>1 DEF Raised, RaiseFrom
  <2>2. ASSUME UNCHANGED result PROVE Goal
    BY <2>2
  <2> HIDE DEF Goal
  <2>3. Nodes(e) => Goal
    BY <2>1, <2>2, RaisedIs DEF Nodes, CheckLimits, ChargeTurn, CountStep, CheckStep, Evaluate, ToolReturns, ToolFails,
     NodeFails, Collect, Yield, EnterTry, LeaveTry, task, Synced
  <2>4. Blocks(e) => Goal
    BY <2>1, <2>2, RaisedIs DEF Blocks, EnterParallel, OpenBranch, OpenFails,
     BranchEnds, AbortLands, JoinFailed, AllJoined, ClosePage, FinishParallel, task
  <2> QED  BY <2>3, <2>4 DEF Goal
<1>3. CASE result' # "none" /\ result' = result
  <2>1. e # Main /\ phase[Main] \notin Running
    BY <1>1, <1>3 DEF AtRest
  <2>2. ASSUME StepOf(e) PROVE AtRest'
    BY <1>t, <2>1, <2>2 DEF StepOf, AtRest
  <2>3. ASSUME OpenBranch(e) PROVE AtRest'
    <3>1. PICK b \in Fresh(e), next \in {"opening", "joining"} : Opens(e, b, next)
      BY <2>3, OpenedIs
    <3>2. phase' = [phase EXCEPT ![b] = "ready", ![e] = next] /\ b # Main
      BY <3>1 DEF Opens, Fresh, Kids, Under, Branch
    <3>3. phase'[Main] = phase[Main]
      BY <1>t, <2>1, <3>2 DEF TypeOK
    <3> QED  BY <2>1, <3>3 DEF AtRest
  <2> QED  BY <1>t, <2>2, <2>3, NodesKeep, BlocksKeep
<1>4. CASE result' # result
  <2>1. e = Main /\ \E ph : phase' = [ph EXCEPT ![Main] = "idle"]
    BY <1>2, <1>4
  <2>2. phase' \in [Executor -> Phase]
    <3>1. Nodes(e) => TypeOK'
      BY <1>t, NodesType
    <3>2. Blocks(e) => TypeOK'
      BY <1>t, BlocksType
    <3> QED  BY <3>1, <3>2 DEF TypeOK
  <2>3. phase'[Main] = "idle"
    BY <1>t, <2>1, <2>2
  <2> QED  BY <2>3 DEF AtRest, Running
<1> QED  BY <1>3, <1>4 DEF AtRest

\* At the start nobody runs and nothing has failed.
LEMMA TaskStarts == Init => Task!Init /\ TaskInv
<1>1. Len(<< >>) = 0 /\ 1..0 = {}
  OBVIOUS
<1> QED  BY <1>1 DEF Init, Task!Init, TaskInv, AtRest, ErrorsOfRuns, ErrorsOfBlocks, NoBlock

\* Every step is a step of the task or leaves it alone.
LEMMA TaskMoves == TreeInv /\ TaskInv /\ [Next]_vars => TaskInv' /\ TaskStep
<1> SUFFICES ASSUME TreeInv, TaskInv, [Next]_vars PROVE TaskInv' /\ TaskStep
  OBVIOUS
<1>t. phase \in [Executor -> Phase] /\ Main \in Executor
  BY AllBelowMain DEF TreeInv, TypeOK
<1>1. ASSUME NEW e \in Executor, Nodes(e) \/ Blocks(e) PROVE TaskInv' /\ TaskStep
  BY <1>1, NodesTask, BlocksTask, ResultAtRest DEF TaskInv
<1>e. ASSUME UNCHANGED <<frames, block>>, NEW p, p # "cancelled", phase' = [phase EXCEPT ![Main] = p]
      PROVE  ErrorsOfRuns /\ ErrorsOfBlocks => ErrorsOfRuns' /\ ErrorsOfBlocks'
  <2>1. \A d \in Executor : phase'[d] \in {phase[d], p}
    BY <1>t, <1>e
  <2> QED  BY <1>e, <2>1 DEF ErrorsOfRuns, ErrorsOfBlocks
<1>2. CASE Start
  <2>1. /\ result = "none" /\ result' = result /\ token' = token /\ shown' = "running"
        /\ UNCHANGED <<frames, block, orphans>> /\ phase' = [phase EXCEPT ![Main] = "ready"]
    BY <1>2 DEF Start, Synced, own, Goes
  <2>2. TaskStep
    BY <2>1, SyncTask
  <2> QED  BY <1>e, <2>1, <2>2 DEF TaskInv, AtRest
<1>3. CASE ScriptEnds
  <2>1. /\ phase[Main] = "ready" /\ phase' = [phase EXCEPT ![Main] = "idle"]
        /\ result' = "completed" /\ shown' = "completed" /\ token' = token
        /\ UNCHANGED <<frames, block, orphans>>
    BY <1>3 DEF ScriptEnds, Ready, Goes, own
  <2>2. result = "none"
    BY <2>1 DEF TaskInv, AtRest, Running
  <2>3. TaskStep
    BY <2>1, <2>2 DEF TaskStep, Task!Next, Task!End, Task!Result
  <2>4. phase'[Main] \notin Running
    BY <1>t, <2>1 DEF Running
  <2> QED  BY <1>e, <2>1, <2>3, <2>4 DEF TaskInv, AtRest
<1>4. CASE Cancel
  <2>1. token' = TRUE /\ shown' = "cancelled" /\ UNCHANGED <<phase, result, orphans>>
    BY <1>4 DEF Cancel, own
  <2>2. TaskStep
    BY <2>1 DEF TaskStep, Task!Next, Task!Cancel
  <2> QED  BY <2>1, <2>2 DEF TaskInv, AtRest
<1>5. CASE Expire \/ UNCHANGED vars
  <2>1. UNCHANGED <<token, shown, result, phase, frames, block, orphans>>
    BY <1>5 DEF Expire, vars, own, task
  <2> QED  BY <2>1 DEF TaskInv, AtRest, TaskStep, ErrorsOfRuns, ErrorsOfBlocks
<1> QED  BY <1>1, <1>2, <1>3, <1>4, <1>5 DEF Next, Moves

\* With the result, the main executor has come to rest.
LEMMA TaskHolds == Spec => []TaskInv
BY TaskStarts, TaskMoves, TreeHolds, PTL DEF Spec

\* Token, status and result move as a task's do: what ScriptManager relies on
\* holds for every script.
THEOREM ScriptIsATask == Spec => ImplementsTask
BY TaskStarts, TaskMoves, TaskHolds, TreeHolds, PTL DEF Spec, ImplementsTask, TaskStep, Task!Spec

-----------------------------------------------------------------------------
(* The pages, when blocks do not nest *)

Flat == \A b \in Branch : Under(b) = {}

InBlock == {"opening", "joining", "closing"}
On(e) == index[e] < Len(pages) /\ pages[index[e] + 1] = e
\* Who needs a page: the main executor to the end, a branch while it runs and
\* somebody waits for it.
Needs(e) == IF e = Main THEN result = "none" ELSE e \notin orphans /\ phase[e] \in Running

\* The pages of a block come behind that of the main executor, which alone has one.
BlockBehind ==
  /\ \A b \in Branch : phase[b] \notin InBlock
  /\ IF phase[Main] \in InBlock
     THEN \A n \in 1..Len(block[Main].opened) : block[Main].opened[n] > index[Main]
     ELSE block[Main].opened = << >>

TabInv == BlockBehind /\ \A e \in Executor : Needs(e) => On(e)

\* What TabInv rests on.
Base == TreeInv /\ AtRest

\* More pages, and the same owners of those there were.
LEMMA MoreTabs ==
  ASSUME TypeOK, \A e \in Executor : Needs(e) => On(e), NEW ps \in MorePages, pages' = ps,
         \A e \in Executor : Needs(e)' => Needs(e) /\ index'[e] = index[e]
  PROVE  \A e \in Executor : Needs(e)' => On(e)'
<1> SUFFICES ASSUME NEW e \in Executor, Needs(e)' PROVE On(e)'
  OBVIOUS
<1>1. On(e) /\ index'[e] = index[e] /\ index[e] \in Nat /\ Len(pages) \in Nat
  BY DEF TypeOK
<1>2. index[e] + 1 \in 1..Len(pages) /\ pages[index[e] + 1] = e
  BY <1>1 DEF On
<1>3. Len(ps) \in Nat /\ Len(ps) >= Len(pages) /\ \A i \in 1..Len(pages) : ps[i] = pages[i]
  <2>1. ps \in Seq(Executor \cup {Stray})
    BY MoreTypes
  <2>2. Len(ps) \in Nat
    BY <2>1
  <2> QED  BY <2>2, MoreTypes
<1> QED  BY <1>1, <1>2, <1>3 DEF On

\* A page more for somebody.
LEMMA NewTab ==
  ASSUME TypeOK, \A e \in Executor : Needs(e) => On(e), NEW b \in Executor,
         \A e \in Executor \ {b} : Needs(e)' => Needs(e),
         pages' = Append(pages, b), index' = [index EXCEPT ![b] = NewIndex]
  PROVE  \A e \in Executor : Needs(e)' => On(e)'
<1> SUFFICES ASSUME NEW e \in Executor, Needs(e)' PROVE On(e)'
  OBVIOUS
<1>1. pages \in Seq(Executor \cup {Stray}) /\ Len(pages) \in Nat /\ index[e] \in Nat
  BY DEF TypeOK
<1>2. Len(pages') = Len(pages) + 1 /\ pages'[Len(pages) + 1] = b /\ \A i \in 1..Len(pages) : pages'[i] = pages[i]
  BY <1>1
<1>3. CASE e = b
  <2>1. index'[e] = Len(pages)
    BY <1>3 DEF TypeOK, NewIndex
  <2> QED  BY <1>1, <1>2, <1>3, <2>1 DEF On
<1>4. CASE e # b
  <2>1. index'[e] = index[e] /\ On(e)
    BY <1>4 DEF TypeOK
  <2> QED  BY <1>1, <1>2, <2>1 DEF On
<1> QED  BY <1>3, <1>4

\* The result stays.
LEMMA ResultStays ==
  ASSUME NEW e \in Executor, Nodes(e) \/ Blocks(e)
  PROVE  result' = "none" => result = "none"
<1> DEFINE Goal == result' = "none" => result = "none"
<1>1. ASSUME NEW err, NEW ph, Raised(e, err, ph) PROVE Goal
  BY <1>1 DEF Raised, RaiseFrom
<1>2. ASSUME UNCHANGED result PROVE Goal
  BY <1>2
<1> HIDE DEF Goal
<1>3. Nodes(e) => Goal
  BY <1>1, <1>2, RaisedIs DEF Nodes, CheckLimits, ChargeTurn, CountStep, CheckStep, Evaluate, ToolReturns, ToolFails,
     NodeFails, Collect, Yield, EnterTry, LeaveTry, task, Synced
<1>4. Blocks(e) => Goal
  BY <1>1, <1>2, RaisedIs DEF Blocks, EnterParallel, OpenBranch, OpenFails,
     BranchEnds, AbortLands, JoinFailed, AllJoined, ClosePage, FinishParallel, task
<1> QED  BY <1>3, <1>4 DEF Goal

\* The steps of one executor.
LEMMA NodesTabs ==
  ASSUME Base, TabInv, NEW e \in Executor, Nodes(e)
  PROVE  TabInv'
<1>t. TypeOK /\ Main \in Executor
  BY AllBelowMain DEF Base, TreeInv
<1>1. phase[e] \in {"ready", "counted", "calling"} /\ block' = block /\ orphans' = orphans
  BY <1>t, NodesMove
<1>2. PICK p \in {"ready", "counted", "calling", "gone"} \cup Error \cup (IF e = Main THEN {"idle"} ELSE {}) :
         phase' = [phase EXCEPT ![e] = p]
  BY <1>t, NodesMove
<1>3. phase'[e] \notin InBlock /\ \A d \in Executor : d # e => phase'[d] = phase[d]
  BY <1>2, <1>t DEF TypeOK, InBlock, Error, Fatal
<1>5. \A d \in Executor : Needs(d)' => Needs(d)
  BY <1>1, <1>3, ResultStays DEF Needs, Running
<1>6. \A d \in Executor : d # e => index'[d] = index[d]
  BY <1>t DEF Nodes, CheckLimits, ChargeTurn, CountStep, CheckStep, Evaluate, ToolReturns, ToolFails,
         NodeFails, Collect, Yield, EnterTry, LeaveTry, TypeOK
<1>7. BlockBehind'
  <2>1. \A b \in Branch : phase'[b] \notin InBlock
    BY <1>3 DEF TabInv, BlockBehind, Branch
  <2>2. CASE e = Main
    <3>1. phase[Main] \notin InBlock /\ phase'[Main] \notin InBlock
      BY <1>1, <1>3, <2>2 DEF InBlock
    <3> QED  BY <1>1, <2>1, <3>1 DEF TabInv, BlockBehind
  <2>3. CASE e # Main
    <3>1. phase'[Main] = phase[Main] /\ index'[Main] = index[Main]
      BY <1>t, <1>3, <1>6, <2>3
    <3> QED  BY <1>1, <2>1, <3>1 DEF TabInv, BlockBehind
  <2> QED  BY <2>2, <2>3
<1>8. CASE index' = index /\ pages' \in MorePages
  BY <1>5, <1>7, <1>8, <1>t, MoreTabs DEF TabInv
<1>9. CASE pages' = Append(pages, e) /\ index' = [index EXCEPT ![e] = NewIndex]
  BY <1>5, <1>7, <1>9, <1>t, NewTab DEF TabInv
<1> QED  BY <1>8, <1>9 DEF Nodes, CheckLimits, ChargeTurn, CountStep, CheckStep, Evaluate, ToolReturns, ToolFails,
         NodeFails, Collect, Yield, EnterTry, LeaveTry, MorePages

\* The steps of a block, which is that of the main executor.
LEMMA BlocksTabs ==
  ASSUME Flat, Base, TabInv, NEW e \in Executor, Blocks(e)
  PROVE  TabInv'
<1>t. TypeOK /\ KidsInv /\ Main \in Executor /\ Under(Main) = Branch /\ Main \notin Branch /\ Branch \subseteq Executor
  BY AllBelowMain DEF Base, TreeInv, Branch
<1>s. SUFFICES BlockBehind' /\ \A d \in Executor : Needs(d)' => On(d)'
  BY DEF TabInv
<1>b. phase[e] \in InBlock => e = Main
  BY DEF TabInv, BlockBehind, Branch
<1>o. block[Main].opened \in Seq(Nat) /\ index[Main] \in Nat /\ Len(pages) \in Nat
  BY <1>t DEF TypeOK
<1>m. phase[e] \in InBlock => On(Main)
  BY <1>b, <1>t DEF TabInv, Needs, Base, AtRest, InBlock, Running
<1>e. \A d \in Executor : Dropped(e)[d] = phase[d] \/ (Dropped(e)[d] = "gone" /\ phase[d] \notin Running)
  BY <1>t, DroppedIs
<1>d. Dropped(e) \in [Executor -> Phase]
  BY <1>t, DroppedIs
\* A step that opens no page and closes none.
<1>k. ASSUME pages' \in MorePages, orphans \subseteq orphans',
             NEW p, NEW x \in Executor,
             phase' \in {[phase EXCEPT ![x] = p], [Dropped(e) EXCEPT ![x] = p]},
             p \in Running => phase[x] \in Running,
             \A d \in Executor : d # x => index'[d] = index[d], p \in Running \/ x = Main => index'[x] = index[x]
      PROVE  \A d \in Executor : Needs(d)' => On(d)'
  <2>1. phase'[x] = p /\ \A d \in Executor : d # x => (phase'[d] \in Running => phase[d] \in Running)
    BY <1>t, <1>e, <1>d, <1>k DEF TypeOK, Running
  <2>2. \A d \in Executor : Needs(d)' => Needs(d) /\ index'[d] = index[d]
    BY <1>k, <1>t, <2>1, ResultStays DEF Needs
  <2> QED  BY <1>k, <1>t, <2>2, MoreTabs DEF TabInv
<1>n. pages \in MorePages
  BY DEF MorePages
<1>1. CASE EnterParallel(e)
  <2>1. /\ Fresh(e) # {} /\ UNCHANGED <<index, pages, orphans, block>> /\ phase[e] = "ready"
        /\ phase' = [phase EXCEPT ![e] = "opening"]
    BY <1>1, <1>t DEF EnterParallel, task, Goes, Node, Ready, TypeOK
  <2>2. e = Main
    BY <2>1 DEF Flat, Branch, Kids, Fresh
  <2>3. phase'[e] = "opening" /\ \A d \in Executor : d # e => phase'[d] = phase[d]
    BY <2>1, <1>t DEF TypeOK
  <2>4. \A d \in Executor : Needs(d)' => On(d)'
    BY <1>k, <1>n, <2>1 DEF Running
  <2>5. 1..Len(<< >>) = {}
    OBVIOUS
  <2>6. BlockBehind'
    BY <1>t, <2>1, <2>2, <2>3, <2>5 DEF TabInv, BlockBehind, InBlock
  <2> QED  BY <2>4, <2>6
<1>2. CASE OpenBranch(e)
  <2>1. PICK b \in Fresh(e), next \in {"opening", "joining"} : Opens(e, b, next)
    BY <1>2, OpenedIs
  <2>2. /\ phase[e] = "opening" /\ pages' = Append(pages, b) /\ index' = [index EXCEPT ![b] = NewIndex]
        /\ result' = result /\ orphans' = orphans
        /\ block' = [block EXCEPT ![e].branches = @ \cup {b}, ![e].opened = Append(@, NewIndex)]
        /\ phase' = [phase EXCEPT ![b] = "ready", ![e] = next]
    BY <2>1, OpenedIs, <1>2 DEF Opens, task, own
  <2>3. e = Main
    BY <1>b, <2>2 DEF InBlock
  <2>4. b \in Executor /\ b \in Branch /\ b # Main
    BY <1>t DEF Fresh, Kids, Under
  <2>5. phase'[b] = "ready" /\ phase'[Main] \in InBlock /\ \A d \in Executor : d # b /\ d # Main => phase'[d] = phase[d]
    BY <1>t, <2>2, <2>3, <2>4 DEF TypeOK, InBlock
  <2>6. \A d \in Executor \ {b} : Needs(d)' => Needs(d)
    BY <2>2, <2>5 DEF Needs
  <2>7. block'[Main].opened = Append(block[Main].opened, Len(pages)) /\ index'[Main] = index[Main]
    BY <1>t, <2>2, <2>3, <2>4 DEF TypeOK, NewIndex
  <2>8. \A i \in 1..Len(block'[Main].opened) : block'[Main].opened[i] > index'[Main]
    <3>1. \A i \in 1..Len(block[Main].opened) : block[Main].opened[i] > index[Main]
      BY <2>2, <2>3 DEF TabInv, BlockBehind, InBlock
    <3>2. Len(pages) > index[Main]
      BY <1>m, <1>o, <2>2 DEF On, InBlock
    <3> QED  BY <1>o, <2>7, <3>1, <3>2
  <2>9. BlockBehind'
    BY <1>t, <2>5, <2>8 DEF TabInv, BlockBehind, InBlock
  <2> QED  BY <1>t, <2>2, <2>4, <2>6, <2>9, NewTab DEF TabInv
<1>3. CASE OpenFails(e) \/ FinishParallel(e)
  <2>1. e = Main
    BY <1>3, <1>b DEF OpenFails, FinishParallel, InBlock
  <2>2. PICK p \in {"ready", "gone"} \cup Error \cup {"idle"} : phase' = [Dropped(Main) EXCEPT ![Main] = p]
    <3>1. block[Main].err # "none" => block[Main].err \in Error
      BY <1>t, ErrorsAre
    <3>2. CASE OpenFails(Main)
      BY <1>t, <3>2, Limits, RaiseIs, RaisedIs DEF OpenFails
    <3>3. CASE FinishParallel(Main)
      BY <1>t, <3>1, <3>3, RaiseIs, RaisedIs DEF FinishParallel
    <3> QED  BY <1>3, <2>1, <3>2, <3>3
  <2>3. p \notin InBlock /\ (p \in Running => p = "ready")
    BY DEF InBlock, Running, Error, Fatal
  <2>4. index' = index /\ pages' \in MorePages /\ orphans \subseteq orphans' /\ phase[Main] \in Running
    BY <1>3, <1>n, <2>1 DEF OpenFails, FinishParallel, Drops, Running
  <2>5. \A d \in Executor : Needs(d)' => On(d)'
    BY <1>k, <1>t, <2>1, <2>2, <2>4
  <2>6. block'[Main] = NoBlock
    BY <1>3, <1>t, <2>1 DEF OpenFails, FinishParallel, Drops, TypeOK
  <2>7. phase'[Main] = p /\ \A d \in Branch : phase'[d] \notin InBlock
    BY <1>d, <1>e, <1>t, <2>1, <2>2 DEF TabInv, BlockBehind, InBlock
  <2>8. BlockBehind'
    BY <2>3, <2>6, <2>7 DEF BlockBehind, NoBlock
  <2> QED  BY <2>5, <2>8
<1>4. CASE BranchEnds(e)
  <2>1. PICK p \in {"gone", "done"} : phase' = [phase EXCEPT ![e] = p]
    BY <1>4 DEF BranchEnds, Goes
  <2>2. e # Main /\ UNCHANGED <<pages, orphans, block>> /\ \A d \in Executor : d # e => index'[d] = index[d]
    BY <1>4, <1>t DEF BranchEnds, Forgets, TypeOK
  <2>3. p \notin Running /\ p \notin InBlock
    BY DEF Running, InBlock
  <2>4. \A d \in Executor : Needs(d)' => On(d)'
    BY <1>k, <1>n, <2>1, <2>2, <2>3
  <2>5. phase'[Main] = phase[Main] /\ index'[Main] = index[Main] /\ \A d \in Branch : phase'[d] \notin InBlock
    BY <1>t, <2>1, <2>2, <2>3 DEF TypeOK, TabInv, BlockBehind
  <2>6. BlockBehind'
    BY <2>2, <2>5 DEF TabInv, BlockBehind
  <2> QED  BY <2>4, <2>6
<1>5. CASE AbortLands(e)
  <2>1. /\ e \in Branch /\ Drops(e, 0) /\ Forgets(e) /\ pages' \in MorePages
        /\ phase' = [Dropped(e) EXCEPT ![e] = "gone"]
    BY <1>5, <1>n, <1>t DEF AbortLands, TypeOK
  <2>2. /\ \A d \in Executor : d # e => index'[d] = index[d]
        /\ orphans \subseteq orphans' /\ block'[Main] = block[Main]
    BY <1>t, <2>1 DEF Forgets, Drops, TypeOK
  <2>3. \A d \in Executor : Needs(d)' => On(d)'
    BY <1>k, <1>t, <2>1, <2>2 DEF Running
  <2>4. Main \notin block[e].branches
    BY <1>t DEF TypeOK
  <2>5. phase'[Main] = phase[Main] /\ index'[Main] = index[Main] /\ \A d \in Branch : phase'[d] \notin InBlock
    <3>1. Dropped(e)[Main] = phase[Main]
      BY <1>t, <2>4, DroppedIs
    <3> QED  BY <1>d, <1>e, <1>t, <2>1, <2>2, <3>1 DEF TabInv, BlockBehind, InBlock
  <2>6. BlockBehind'
    BY <2>2, <2>5 DEF TabInv, BlockBehind
  <2> QED  BY <2>3, <2>6
<1>6. ASSUME NEW b \in Branch, JoinFailed(e, b) PROVE TabInv'
  <2>1. /\ e = Main /\ b # Main /\ b \in Executor /\ UNCHANGED <<pages, orphans>> /\ phase' = [phase EXCEPT ![b] = "gone"]
        /\ \A d \in Executor : d # b => index'[d] = index[d]
    BY <1>6, <1>b, <1>t DEF JoinFailed, Goes, Forgets, InBlock, TypeOK
  <2>2. block'[Main].opened = block[Main].opened
    <3> DEFINE rec == [block[Main] EXCEPT !.err = phase[b]]
    <3>1. block[Main] \in [branches : SUBSET Branch, opened : Seq(Nat), err : Error \cup {"none"}]
      BY <1>t DEF TypeOK
    <3>2. rec.opened = block[Main].opened
      BY <3>1
    <3> HIDE DEF rec
    <3>3. block' = block \/ block' = [block EXCEPT ![Main] = rec]
      BY <1>6, <2>1 DEF JoinFailed, rec
    <3> QED  BY <1>t, <3>2, <3>3 DEF TypeOK
  <2>3. \A d \in Executor : Needs(d)' => On(d)'
    BY <1>k, <1>n, <2>1 DEF Running
  <2>4. phase'[Main] = phase[Main] /\ index'[Main] = index[Main] /\ \A d \in Branch : phase'[d] \notin InBlock
    BY <1>t, <2>1 DEF TypeOK, TabInv, BlockBehind, InBlock
  <2>5. BlockBehind'
    BY <2>2, <2>4 DEF TabInv, BlockBehind
  <2> QED  BY <2>3, <2>5 DEF TabInv
<1>7. CASE AllJoined(e)
  <2>1. /\ e = Main /\ UNCHANGED <<index, pages, orphans, block>> /\ phase[e] = "joining"
        /\ phase' = [phase EXCEPT ![e] = "closing"]
    BY <1>7, <1>b DEF AllJoined, InBlock, own, Goes
  <2>2. \A d \in Executor : Needs(d)' => On(d)'
    BY <1>k, <1>n, <2>1 DEF Running
  <2>3. phase'[Main] = "closing" /\ \A d \in Executor : d # Main => phase'[d] = phase[d]
    BY <1>t, <2>1 DEF TypeOK
  <2>4. BlockBehind'
    BY <1>t, <2>1, <2>3 DEF TabInv, BlockBehind, InBlock
  <2> QED  BY <2>2, <2>4
<1>8. CASE ClosePage(e)
  <2> DEFINE i == Head(block[Main].opened)
  <2>1. e = Main /\ UNCHANGED <<index, phase, orphans>> /\ phase[Main] = "closing" /\ block[Main].opened # << >>
    BY <1>8, <1>b DEF ClosePage, InBlock, own
  <2>2. block'[Main].opened = Tail(block[Main].opened)
    BY <1>8, <1>t, <2>1, PageClosed
  <2>3. \A n \in 1..Len(block[Main].opened) : block[Main].opened[n] > index[Main]
    BY <2>1 DEF TabInv, BlockBehind, InBlock
  <2>4. i > index[Main] /\ i \in Nat
    BY <1>o, <2>1, <2>3
  <2>5. \A n \in 1..Len(block'[Main].opened) : block'[Main].opened[n] > index'[Main]
    <3>1. \A n \in 1..Len(Tail(block[Main].opened)) :
             n + 1 \in 1..Len(block[Main].opened) /\ Tail(block[Main].opened)[n] = block[Main].opened[n + 1]
      BY <1>o, <2>1
    <3> QED  BY <2>1, <2>2, <2>3, <3>1
  <2>6. BlockBehind'
    BY <2>1, <2>5 DEF TabInv, BlockBehind, InBlock
  <2>7. \A d \in Executor : Needs(d)' => d = Main
    <3> SUFFICES ASSUME NEW d \in Branch, Needs(d)' PROVE FALSE
      BY DEF Branch
    <3>1. phase[d] \in Running /\ d \notin orphans
      BY <1>t, <2>1 DEF Needs
    <3>2. d \in Kids(Main)
      <4>1. PICK k \in Kids(Main) : d = k \/ d \in Under(k)
        BY <1>t, ByAKid
      <4>2. k \in Branch
        BY DEF Kids, Under
      <4> QED  BY <4>1, <4>2 DEF Flat
    <3> QED  BY <1>t, <2>1, <3>1, <3>2 DEF KidsInv, Waits
  <2>8. On(Main)'
    <3>1. pages' = pages \/ (i < Len(pages) /\ pages' = RemoveAt(pages, i + 1))
      BY <1>8, <2>1 DEF ClosePage
    <3>2. CASE pages' = pages
      BY <1>m, <2>1, <3>2 DEF On, InBlock
    <3>3. CASE i < Len(pages) /\ pages' = RemoveAt(pages, i + 1)
      <4> HIDE DEF i
      <4>1. Len(pages') = Len(pages) - 1 /\ \A j \in 1..i : pages'[j] = pages[j]
        BY <1>t, <2>4, <3>3, RemovedIs
      <4>2. index[Main] + 1 \in 1..i /\ index[Main] < Len(pages) - 1
        BY <1>o, <2>4, <3>3
      <4>3. pages'[index[Main] + 1] = Main
        BY <1>m, <2>1, <4>1, <4>2 DEF On, InBlock
      <4> QED  BY <2>1, <4>1, <4>2, <4>3 DEF On
    <3> QED  BY <3>1, <3>2, <3>3
  <2> QED  BY <2>6, <2>7, <2>8
<1> QED  BY <1>1, <1>2, <1>3, <1>4, <1>5, <1>6, <1>7, <1>8 DEF Blocks, TabInv

\* The invariant always holds.
LEMMA TabsHold ==
  ASSUME Flat
  PROVE  Spec => [](Base /\ TabInv)
<1>1. Init => TabInv
  <2> SUFFICES ASSUME Init PROVE TabInv
    OBVIOUS
  <2>1. Main \in Executor /\ \A e \in Executor : phase[e] = "idle" /\ index[e] = 0 /\ block[e].opened = << >>
    BY AllBelowMain DEF Init, NoBlock
  <2>2. Len(pages) = 1 /\ pages[0 + 1] = Main
    BY DEF Init
  <2> QED  BY <2>1, <2>2 DEF TabInv, BlockBehind, Needs, On, InBlock, Running, Branch
<1>2. Base /\ TabInv /\ [Next]_vars => TabInv'
  <2> SUFFICES ASSUME Base, TabInv, [Next]_vars PROVE TabInv'
    OBVIOUS
  <2>t. phase \in [Executor -> Phase] /\ Main \in Executor
    BY AllBelowMain DEF Base, TreeInv, TypeOK
  <2>1. ASSUME NEW e \in Executor, Nodes(e) \/ Blocks(e) PROVE TabInv'
    BY <2>1, NodesTabs, BlocksTabs
  <2>2. ASSUME UNCHANGED <<index, pages, block, orphans>>, result' = "none" => result = "none",
               \A b \in Branch : phase'[b] = phase[b],
               phase'[Main] = phase[Main] \/ (phase[Main] \notin InBlock /\ phase'[Main] \notin InBlock)
        PROVE  TabInv'
    BY <2>2 DEF TabInv, BlockBehind, Needs, On, Branch
  <2>3. CASE Start \/ ScriptEnds
    <3>1. /\ UNCHANGED <<index, pages, block, orphans>> /\ (result' = "none" => result = "none")
          /\ phase[Main] \in {"idle", "ready"}
          /\ phase' \in {[phase EXCEPT ![Main] = "ready"], [phase EXCEPT ![Main] = "idle"]}
      BY <2>3 DEF Start, ScriptEnds, Goes, Synced, own, Ready
    <3>2. (\A b \in Branch : phase'[b] = phase[b]) /\ phase'[Main] \in {"ready", "idle"}
      BY <2>t, <3>1 DEF Branch
    <3> QED  BY <2>2, <3>1, <3>2 DEF InBlock
  <2>4. CASE Cancel \/ Expire \/ UNCHANGED vars
    <3>1. UNCHANGED <<phase, index, pages, block, orphans, result>>
      BY <2>4 DEF Cancel, Expire, vars, task, own
    <3> QED  BY <2>2, <3>1
  <2> QED  BY <2>1, <2>3, <2>4 DEF Next, Moves
<1>3. Spec => []Base
  BY TaskHolds, TreeHolds, PTL DEF Base, TaskInv
<1> QED  BY <1>1, <1>2, <1>3, PTL DEF Spec

\* As long as no block is inside another, every executor that somebody waits for
\* stays on its own page: branches' pages come behind the main one, and are closed
\* when no branch needs one.
THEOREM FlatScriptsKeepTheirTabs ==
  ASSUME Flat
  PROVE  Spec => []OnOwnTab
<1>1. Base /\ TabInv => OnOwnTab
  BY DEF Base, AtRest, TabInv, Needs, On, OnOwnTab
<1> QED  BY <1>1, TabsHold, PTL

-----------------------------------------------------------------------------
(* Sums *)

\* Every set of natural numbers that is not empty has a least member.
LEMMA Least ==
  ASSUME NEW T \in SUBSET Nat, T # {}
  PROVE  \E m \in T : \A k \in T : m <= k
  <1> DEFINE R == {p \in Nat \X Nat : p[1] < p[2]}
  <1>1. IsWellFoundedOn(R, Nat)
    BY NatLessThanWellFounded DEF OpToRel
  <1>2. \A x, y \in T : y < x => <<y, x>> \in R
    OBVIOUS
  <1> HIDE DEF R
  <1>3. PICK m \in T : \A k \in T : <<k, m>> \notin R
    BY <1>1, WFMin
  <1>4. \A k \in T : ~ (k < m)
    BY <1>2, <1>3
  <1>5. \A k \in T : k \in Nat /\ m \in Nat
    OBVIOUS
  <1> QED BY <1>4, <1>5

Total(f, S) == MapThenSumSet(LAMBDA e : f[e], S)

\* g adds up f over the sets in D.
AddsUp(f, g, D) ==
  \A s \in D : g[s] = IF s = {} THEN 0 ELSE f[CHOOSE x \in s : TRUE] + g[s \ {CHOOSE x \in s : TRUE}]

\* The sets of up to n members.
UpTo(S, n) == {s \in SUBSET S : Cardinality(s) <= n}

LEMMA SmallerSet ==
  ASSUME NEW S, IsFiniteSet(S), NEW s \in SUBSET S, NEW x \in s
  PROVE  /\ IsFiniteSet(s) /\ Cardinality(s) \in Nat
         /\ IsFiniteSet(s \ {x}) /\ Cardinality(s \ {x}) \in Nat
         /\ Cardinality(s) = Cardinality(s \ {x}) + 1
  <1>1. IsFiniteSet(s) /\ Cardinality(s) \in Nat
    BY FS_Subset, FS_CardinalityType
  <1>2. IsFiniteSet(s \ {x}) /\ Cardinality(s \ {x}) = Cardinality(s) - 1
    BY <1>1, FS_RemoveElement
  <1>3. Cardinality(s \ {x}) \in Nat
    BY <1>2, FS_CardinalityType
  <1> QED BY <1>1, <1>2, <1>3

\* Over a finite set there is a sum.
LEMMA SumUpTo ==
  ASSUME NEW S, IsFiniteSet(S), NEW f, \A x \in S : f[x] \in Nat, NEW n \in Nat
  PROVE  \E g \in [UpTo(S, n) -> Nat] : AddsUp(f, g, UpTo(S, n))
  <1> DEFINE Good(k) == \E g \in [UpTo(S, k) -> Nat] : AddsUp(f, g, UpTo(S, k))
             T == {k \in Nat : ~Good(k)}
  <1>1. Good(0)
    <2>1. \A s \in UpTo(S, 0) : s = {}
      <3> SUFFICES ASSUME NEW s \in UpTo(S, 0) PROVE s = {}
        OBVIOUS
      <3>1. s \in SUBSET S /\ Cardinality(s) <= 0
        BY DEF UpTo
      <3>2. IsFiniteSet(s) /\ Cardinality(s) \in Nat
        BY <3>1, FS_Subset, FS_CardinalityType
      <3> QED BY <3>1, <3>2, FS_EmptySet
    <2> DEFINE g == [s \in UpTo(S, 0) |-> 0]
    <2>2. g \in [UpTo(S, 0) -> Nat] /\ AddsUp(f, g, UpTo(S, 0))
      BY <2>1 DEF AddsUp
    <2> QED BY <2>2
  <1>2. ASSUME NEW k \in Nat, Good(k) PROVE Good(k + 1)
    <2>1. PICK g \in [UpTo(S, k) -> Nat] : AddsUp(f, g, UpTo(S, k))
      BY <1>2
    <2> DEFINE h == [s \in UpTo(S, k + 1) |->
                       IF s = {} THEN 0 ELSE f[CHOOSE x \in s : TRUE] + g[s \ {CHOOSE x \in s : TRUE}]]
    <2>2. \A s \in UpTo(S, k + 1) : s # {} =>
            (CHOOSE x \in s : TRUE) \in S /\ s \ {CHOOSE x \in s : TRUE} \in UpTo(S, k)
      <3> SUFFICES ASSUME NEW s \in UpTo(S, k + 1), s # {}
                   PROVE  (CHOOSE x \in s : TRUE) \in S /\ s \ {CHOOSE x \in s : TRUE} \in UpTo(S, k)
        OBVIOUS
      <3> DEFINE y == CHOOSE x \in s : TRUE
      <3>1. y \in s
        OBVIOUS
      <3>2. s \in SUBSET S /\ Cardinality(s) <= k + 1
        BY DEF UpTo
      <3> HIDE DEF y
      <3>3. Cardinality(s) = Cardinality(s \ {y}) + 1 /\ Cardinality(s \ {y}) \in Nat
        BY <3>1, <3>2, SmallerSet
      <3>4. y \in S /\ s \ {y} \in UpTo(S, k)
        BY <3>1, <3>2, <3>3 DEF UpTo
      <3> QED BY <3>4 DEF y
    <2>3. h \in [UpTo(S, k + 1) -> Nat]
      <3>1. \A s \in UpTo(S, k + 1) : s # {} =>
              f[CHOOSE x \in s : TRUE] \in Nat /\ g[s \ {CHOOSE x \in s : TRUE}] \in Nat
        BY <2>1, <2>2
      <3>2. \A s \in UpTo(S, k + 1) :
              (IF s = {} THEN 0 ELSE f[CHOOSE x \in s : TRUE] + g[s \ {CHOOSE x \in s : TRUE}]) \in Nat
        BY <3>1
      <3> QED BY <3>2, Zenon
    <2>4. \A s \in UpTo(S, k) : s \in UpTo(S, k + 1) /\ h[s] = g[s]
      <3>1. \A s \in UpTo(S, k) : s \in UpTo(S, k + 1)
        BY FS_Subset, FS_CardinalityType DEF UpTo
      <3> QED BY <2>1, <3>1 DEF AddsUp
    <2>5. \A s \in UpTo(S, k + 1) : s # {} => h[s \ {CHOOSE x \in s : TRUE}] = g[s \ {CHOOSE x \in s : TRUE}]
      BY <2>2, <2>4
    <2>6. AddsUp(f, h, UpTo(S, k + 1))
      <3>1. \A s \in UpTo(S, k + 1) :
              h[s] = IF s = {} THEN 0 ELSE f[CHOOSE x \in s : TRUE] + g[s \ {CHOOSE x \in s : TRUE}]
        OBVIOUS
      <3> HIDE DEF h
      <3> QED BY <2>5, <3>1 DEF AddsUp
    <2> HIDE DEF h
    <2> QED BY <2>3, <2>6
  <1>3. T = {}
    <2> SUFFICES ASSUME T # {} PROVE FALSE
      OBVIOUS
    <2>1. PICK m \in T : \A k \in T : m <= k
      <3>1. T \in SUBSET Nat
        OBVIOUS
      <3> HIDE DEF T
      <3> QED BY <3>1, Least
    <2>2. m # 0 /\ m \in Nat /\ ~Good(m)
      BY <1>1
    <2> HIDE DEF Good
    <2>3. m - 1 \in Nat /\ m - 1 \notin T
      BY <2>1, <2>2
    <2>4. Good(m - 1)
      BY <2>3
    <2>5. Good((m - 1) + 1) /\ (m - 1) + 1 = m
      BY <1>2, <2>2, <2>3, <2>4
    <2> QED BY <2>2, <2>5
  <1> HIDE DEF Good
  <1>4. Good(n)
    BY <1>3
  <1> QED BY <1>4 DEF Good

\* A set of subsets of a finite set has a smallest member.
LEMMA SmallestSet ==
  ASSUME NEW S, IsFiniteSet(S), NEW B \in SUBSET SUBSET S, B # {}
  PROVE  \E s \in B : \A t \in B : Cardinality(s) <= Cardinality(t)
  <1>1. \A s \in B : Cardinality(s) \in Nat
    BY FS_Subset, FS_CardinalityType
  <1> DEFINE T == {Cardinality(s) : s \in B}
  <1>2. T \in SUBSET Nat /\ T # {}
    BY <1>1
  <1>3. PICK m \in T : \A k \in T : m <= k
    <2> HIDE DEF T
    <2> QED BY <1>2, Least
  <1> QED BY <1>3

\* Two sums over the same sets are the same.
LEMMA SameSum ==
  ASSUME NEW S, IsFiniteSet(S), NEW f, NEW g, NEW h,
         AddsUp(f, g, SUBSET S), AddsUp(f, h, SUBSET S)
  PROVE  \A s \in SUBSET S : g[s] = h[s]
  <1> DEFINE B == {s \in SUBSET S : g[s] # h[s]}
  <1> SUFFICES ASSUME B # {} PROVE FALSE
    OBVIOUS
  <1>1. PICK s \in B : \A t \in B : Cardinality(s) <= Cardinality(t)
    <2>1. B \in SUBSET SUBSET S
      OBVIOUS
    <2> HIDE DEF B
    <2> QED BY <2>1, SmallestSet
  <1>2. s \in SUBSET S /\ g[s] # h[s]
    OBVIOUS
  <1>3. s # {}
    BY <1>2 DEF AddsUp
  <1> DEFINE y == CHOOSE x \in s : TRUE
  <1>4. y \in s
    BY <1>3
  <1>5. g[s] = f[y] + g[s \ {y}] /\ h[s] = f[y] + h[s \ {y}]
    BY <1>2, <1>3 DEF AddsUp
  <1> HIDE DEF y
  <1>6. Cardinality(s) = Cardinality(s \ {y}) + 1 /\ Cardinality(s \ {y}) \in Nat
    BY <1>2, <1>4, SmallerSet
  <1>7. s \ {y} \notin B
    <2>1. ~ Cardinality(s) <= Cardinality(s \ {y})
      BY <1>6
    <2> HIDE DEF B
    <2> QED BY <1>1, <2>1
  <1>8. g[s \ {y}] = h[s \ {y}]
    BY <1>2, <1>7
  <1> QED BY <1>2, <1>5, <1>8

\* In a sum, any member may be the first.
LEMMA AnyFirst ==
  ASSUME NEW S, IsFiniteSet(S), NEW f, \A x \in S : f[x] \in Nat,
         NEW g \in [SUBSET S -> Nat], AddsUp(f, g, SUBSET S)
  PROVE  \A s \in SUBSET S : \A x \in s : g[s] = f[x] + g[s \ {x}]
  <1> DEFINE B == {s \in SUBSET S : \E x \in s : g[s] # f[x] + g[s \ {x}]}
  <1> SUFFICES ASSUME NEW r \in SUBSET S, NEW z \in r, g[r] # f[z] + g[r \ {z}] PROVE FALSE
    OBVIOUS
  <1>0. r \in B
    OBVIOUS
  <1>1. PICK s \in B : \A t \in B : Cardinality(s) <= Cardinality(t)
    <2>1. B \in SUBSET SUBSET S
      OBVIOUS
    <2> HIDE DEF B
    <2> QED BY <1>0, <2>1, SmallestSet
  <1>2. s \in SUBSET S
    OBVIOUS
  <1>3. PICK x \in s : g[s] # f[x] + g[s \ {x}]
    OBVIOUS
  <1> DEFINE y == CHOOSE v \in s : TRUE
  <1>4. y \in s
    BY <1>3
  <1>5. g[s] = f[y] + g[s \ {y}]
    BY <1>2, <1>3 DEF AddsUp
  <1> HIDE DEF y
  <1>6. x # y
    BY <1>3, <1>5
  <1>7. \A v \in s : /\ Cardinality(s) = Cardinality(s \ {v}) + 1 /\ Cardinality(s \ {v}) \in Nat
                     /\ s \ {v} \in SUBSET S
    BY <1>2, SmallerSet
  <1>8. s \ {x} \notin B /\ s \ {y} \notin B
    BY <1>1, <1>3, <1>4, <1>7
  <1>9. g[s \ {y}] = f[x] + g[(s \ {y}) \ {x}]
    BY <1>3, <1>6, <1>7, <1>8, <1>4
  <1>10. g[s \ {x}] = f[y] + g[(s \ {x}) \ {y}]
    BY <1>3, <1>6, <1>7, <1>8, <1>4
  <1>11. (s \ {x}) \ {y} = (s \ {y}) \ {x} /\ (s \ {x}) \ {y} \in SUBSET S
    BY <1>2
  <1>12. f[x] \in Nat /\ f[y] \in Nat /\ g[(s \ {y}) \ {x}] \in Nat
    BY <1>2, <1>3, <1>4, <1>11
  <1>13. g[s \ {y}] = f[x] + g[(s \ {y}) \ {x}] /\ g[s \ {x}] = f[y] + g[(s \ {y}) \ {x}]
    BY <1>9, <1>10, <1>11
  <1> QED BY <1>3, <1>5, <1>12, <1>13

\* What Total is.
LEMMA TotalAddsUp ==
  ASSUME NEW S, IsFiniteSet(S), NEW f, \A x \in S : f[x] \in Nat
  PROVE  \E g \in [SUBSET S -> Nat] : AddsUp(f, g, SUBSET S) /\ Total(f, S) = g[S]
  <1> DEFINE sum(g) == [s \in SUBSET S |-> IF s = {} THEN 0 ELSE LET x == CHOOSE x \in s : TRUE IN f[x] + g[s \ {x}]]
             it == CHOOSE g : g = sum(g)
  <1>1. PICK g \in [SUBSET S -> Nat] : AddsUp(f, g, SUBSET S)
    <2>1. Cardinality(S) \in Nat
      BY FS_CardinalityType
    <2>2. UpTo(S, Cardinality(S)) = SUBSET S
      BY FS_Subset DEF UpTo
    <2>3. \E g \in [UpTo(S, Cardinality(S)) -> Nat] : AddsUp(f, g, UpTo(S, Cardinality(S)))
      BY <2>1, SumUpTo
    <2> QED BY <2>2, <2>3
  <1>2. g = sum(g)
    BY <1>1 DEF AddsUp
  <1>3. it = sum(it)
    <2> HIDE DEF sum
    <2> QED BY <1>2
  <1>4. AddsUp(f, it, SUBSET S)
    <2> HIDE DEF it
    <2>1. \A s \in SUBSET S : it[s] = sum(it)[s]
      <3> HIDE DEF sum
      <3> QED BY <1>3
    <2> QED BY <2>1 DEF AddsUp
  <1>5. Total(f, S) = it[S]
    BY DEF Total, MapThenSumSet, MapThenFoldSet
  <1> HIDE DEF it
  <1>6. it[S] = g[S]
    BY <1>1, <1>4, SameSum
  <1> QED BY <1>1, <1>5, <1>6

\* The sum over no members.
LEMMA TotalOfNone == ASSUME NEW f PROVE Total(f, {}) = 0
  <1>1. IsFiniteSet({})
    BY FS_EmptySet
  <1>2. \E g \in [SUBSET {} -> Nat] : AddsUp(f, g, SUBSET {}) /\ Total(f, {}) = g[{}]
    BY <1>1, TotalAddsUp
  <1> QED BY <1>2 DEF AddsUp

\* The sum over some, any of which may be taken out.
LEMMA TotalIs ==
  ASSUME NEW S, IsFiniteSet(S), NEW f, \A x \in S : f[x] \in Nat
  PROVE  Total(f, S) \in Nat /\ \A x \in S : Total(f, S) = f[x] + Total(f, S \ {x})
  <1>1. PICK g \in [SUBSET S -> Nat] : AddsUp(f, g, SUBSET S) /\ Total(f, S) = g[S]
    BY TotalAddsUp
  <1>2. ASSUME NEW x \in S PROVE Total(f, S) = f[x] + Total(f, S \ {x})
    <2> DEFINE R == S \ {x}
    <2>1. IsFiniteSet(R) /\ \A y \in R : f[y] \in Nat
      BY FS_Subset
    <2>2. PICK h \in [SUBSET R -> Nat] : AddsUp(f, h, SUBSET R) /\ Total(f, R) = h[R]
      <3> HIDE DEF R
      <3> QED BY <2>1, TotalAddsUp
    <2>3. AddsUp(f, g, SUBSET R)
      BY <1>1 DEF AddsUp
    <2>4. g[R] = h[R]
      <3> HIDE DEF R
      <3> QED BY <2>1, <2>2, <2>3, SameSum
    <2>5. g[S] = f[x] + g[R]
      BY <1>1, AnyFirst
    <2> QED BY <1>1, <2>2, <2>4, <2>5
  <1> QED BY <1>1, <1>2

\* A sum grows with its parts.
LEMMA TotalGrows ==
  ASSUME NEW S, IsFiniteSet(S), NEW f, NEW g, \A x \in S : f[x] \in Nat /\ g[x] \in Nat /\ f[x] <= g[x]
  PROVE  Total(f, S) <= Total(g, S)
  <1> DEFINE B == {s \in SUBSET S : ~ Total(f, s) <= Total(g, s)}
  <1> SUFFICES ASSUME B # {} PROVE FALSE
    OBVIOUS
  <1>1. PICK s \in B : \A t \in B : Cardinality(s) <= Cardinality(t)
    <2>1. B \in SUBSET SUBSET S
      OBVIOUS
    <2> HIDE DEF B
    <2> QED BY <2>1, SmallestSet
  <1>2. s \in SUBSET S /\ ~ Total(f, s) <= Total(g, s)
    OBVIOUS
  <1>3. PICK x \in s : TRUE
    BY <1>2, TotalOfNone
  <1>4. /\ IsFiniteSet(s) /\ IsFiniteSet(s \ {x}) /\ Cardinality(s \ {x}) \in Nat
        /\ Cardinality(s) = Cardinality(s \ {x}) + 1
    BY <1>2, <1>3, SmallerSet
  <1>5. Total(f, s \ {x}) <= Total(g, s \ {x})
    <2>1. s \ {x} \in SUBSET S /\ ~ Cardinality(s) <= Cardinality(s \ {x})
      BY <1>2, <1>4
    <2>2. s \ {x} \notin B
      <3> HIDE DEF B
      <3> QED BY <1>1, <2>1
    <2> QED BY <2>1, <2>2
  <1>6. /\ Total(f, s) = f[x] + Total(f, s \ {x}) /\ Total(f, s \ {x}) \in Nat
        /\ Total(g, s) = g[x] + Total(g, s \ {x}) /\ Total(g, s \ {x}) \in Nat
    BY <1>2, <1>3, <1>4, TotalIs
  <1>7. f[x] \in Nat /\ g[x] \in Nat /\ f[x] <= g[x]
    BY <1>2, <1>3
  <1> QED BY <1>2, <1>5, <1>6, <1>7

\* Part of a sum is at most the sum.
LEMMA TotalOfPart ==
  ASSUME NEW S, IsFiniteSet(S), NEW R \in SUBSET S, NEW f, \A x \in S : f[x] \in Nat
  PROVE  Total(f, R) <= Total(f, S)
  <1> DEFINE B == {s \in SUBSET S : R \subseteq s /\ ~ Total(f, R) <= Total(f, s)}
  <1> SUFFICES ASSUME B # {} PROVE FALSE
    OBVIOUS
  <1>1. PICK s \in B : \A t \in B : Cardinality(s) <= Cardinality(t)
    <2>1. B \in SUBSET SUBSET S
      OBVIOUS
    <2> HIDE DEF B
    <2> QED BY <2>1, SmallestSet
  <1>2. s \in SUBSET S /\ R \subseteq s /\ ~ Total(f, R) <= Total(f, s)
    OBVIOUS
  <1>3. IsFiniteSet(R) /\ Total(f, R) \in Nat
    <2>1. IsFiniteSet(R)
      BY FS_Subset
    <2> QED BY <2>1, TotalIs
  <1>4. PICK x \in s \ R : TRUE
    BY <1>2, <1>3
  <1>5. /\ IsFiniteSet(s) /\ IsFiniteSet(s \ {x}) /\ Cardinality(s \ {x}) \in Nat
        /\ Cardinality(s) = Cardinality(s \ {x}) + 1
    BY <1>2, <1>4, SmallerSet
  <1>6. Total(f, R) <= Total(f, s \ {x})
    BY <1>1, <1>2, <1>4, <1>5
  <1>7. Total(f, s) = f[x] + Total(f, s \ {x}) /\ Total(f, s \ {x}) \in Nat /\ f[x] \in Nat
    BY <1>2, <1>4, <1>5, TotalIs
  <1> QED BY <1>2, <1>3, <1>6, <1>7

-----------------------------------------------------------------------------
(* The budget of output, when blocks do not nest *)

\* The bytes a block began with cover what the main executor holds, and what its
\* branches hold besides is reserved too.
BudgetInv ==
  /\ kept \in [Executor -> Nat] /\ snap \in [Executor -> Nat]
  /\ bytes \in Nat /\ bytes <= MaxBytes
  /\ \A b \in Branch : phase[b] = "idle" => kept[b] = 0
  /\ IF phase[Main] \in InBlock
     THEN kept[Main] <= snap[Main] /\ snap[Main] + Total(kept, block[Main].branches) <= bytes
     ELSE kept[Main] <= bytes /\ block[Main].branches = {}

\* The branches of a block are finitely many, and none is the main executor.
LEMMA BranchesAre ==
  ASSUME TypeOK
  PROVE  /\ IsFiniteSet(block[Main].branches) /\ Main \notin block[Main].branches
         /\ block[Main].branches \subseteq Executor /\ Main \in Executor
<1>1. Main \in Executor /\ block[Main].branches \subseteq Branch
  BY AllBelowMain DEF TypeOK
<1> QED  BY <1>1, FS_Subset, ScriptAssumption DEF Branch

\* A step that leaves the block's branches alone, and of what is held takes away.
LEMMA BudgetKept ==
  ASSUME TypeOK, BudgetInv, kept' \in [Executor -> Nat], snap' \in [Executor -> Nat],
         bytes' \in Nat, bytes <= bytes', bytes' <= MaxBytes,
         \A x \in Executor : kept'[x] <= kept[x], snap'[Main] = snap[Main],
         block'[Main].branches = block[Main].branches,
         \A b \in Branch : phase'[b] = "idle" => phase[b] = "idle",
         phase'[Main] \in InBlock <=> phase[Main] \in InBlock
  PROVE  BudgetInv'
<1>1. /\ IsFiniteSet(block[Main].branches) /\ block[Main].branches \subseteq Executor /\ Main \in Executor
  BY BranchesAre
<1>2. \A b \in Branch : phase'[b] = "idle" => kept'[b] = 0
  BY DEF BudgetInv, Branch
<1>3. CASE phase[Main] \in InBlock
  <2> DEFINE B == block[Main].branches
  <2>1. kept[Main] <= snap[Main] /\ snap[Main] + Total(kept, B) <= bytes
    BY <1>3 DEF BudgetInv
  <2>2. /\ \A x \in Executor : kept[x] \in Nat /\ kept'[x] \in Nat
        /\ snap[Main] \in Nat /\ bytes \in Nat
    BY <1>1 DEF BudgetInv
  <2> HIDE DEF B
  <2>3. Total(kept, B) \in Nat /\ Total(kept', B) \in Nat /\ Total(kept', B) <= Total(kept, B)
    BY <1>1, <2>2, TotalIs, TotalGrows DEF B
  <2>4. kept'[Main] <= snap'[Main] /\ snap'[Main] + Total(kept', B) <= bytes'
    BY <1>1, <2>1, <2>2, <2>3
  <2>5. snap'[Main] + Total(kept, block[Main].branches)' <= bytes'
    BY <2>4 DEF B
  <2> QED  BY <1>2, <1>3, <2>4, <2>5 DEF BudgetInv
<1>4. CASE phase[Main] \notin InBlock
  <2>1. kept[Main] <= bytes /\ block'[Main].branches = {} /\ kept[Main] \in Nat /\ kept'[Main] \in Nat /\ bytes \in Nat
    BY <1>1, <1>4 DEF BudgetInv
  <2>2. kept'[Main] <= bytes'
    BY <1>1, <2>1
  <2> QED  BY <1>2, <1>4, <2>1, <2>2 DEF BudgetInv
<1> QED  BY <1>3, <1>4

\* A step that ends the block, with sum for the main executor.
LEMMA BudgetAfter ==
  ASSUME TypeOK, BudgetInv, NEW sum \in Nat, Drops(Main, sum), sum <= bytes', bytes' \in Nat, bytes' <= MaxBytes,
         phase'[Main] \notin InBlock, \A b \in Branch : phase'[b] = "idle" => phase[b] = "idle"
  PROVE  BudgetInv'
<1>1. Main \in Executor /\ Main \notin block[Main].branches
  BY BranchesAre
<1>2. /\ kept' \in [Executor -> Nat] /\ snap' \in [Executor -> Nat] /\ kept'[Main] = sum
      /\ \A x \in Branch : kept'[x] \in {0, kept[x]} /\ block'[Main].branches = {}
  BY <1>1 DEF Drops, NoBlock, BudgetInv, TypeOK, Branch
<1>3. block'[Main].branches = {}
  BY <1>1 DEF Drops, NoBlock, TypeOK
<1>4. \A b \in Branch : phase'[b] = "idle" => kept'[b] = 0
  BY <1>2 DEF BudgetInv
<1> QED  BY <1>2, <1>3, <1>4 DEF BudgetInv

\* The steps of one executor.
LEMMA NodesBudget ==
  ASSUME TypeOK, BudgetInv, NEW e \in Executor, Nodes(e)
  PROVE  BudgetInv'
<1>1. phase[e] \in {"ready", "counted", "calling"} /\ block' = block
  BY NodesMove
<1>2. PICK p \in {"ready", "counted", "calling", "gone"} \cup Error \cup (IF e = Main THEN {"idle"} ELSE {}) :
         phase' = [phase EXCEPT ![e] = p]
  BY NodesMove
<1>3. /\ \A b \in Branch : phase'[b] = "idle" => phase[b] = "idle"
      /\ phase'[Main] \in InBlock <=> phase[Main] \in InBlock
  <2>1. phase'[e] = p /\ \A x \in Executor : x # e => phase'[x] = phase[x]
    BY <1>2 DEF TypeOK
  <2>2. p \notin InBlock /\ (p = "idle" => e = Main) /\ phase[e] \notin InBlock
    BY <1>1 DEF InBlock, Error, Fatal
  <2> QED  BY <2>1, <2>2, AllBelowMain DEF Branch
<1>4. /\ bytes \in Nat /\ MaxBytes \in Nat /\ bytes <= MaxBytes /\ Sizes \subseteq Nat
      /\ kept \in [Executor -> Nat] /\ snap \in [Executor -> Nat] /\ Main \in Executor
  BY ScriptAssumption, AllBelowMain DEF BudgetInv
<1>5. ASSUME UNCHANGED <<kept, snap>>, bytes' \in Nat, bytes <= bytes', bytes' <= MaxBytes PROVE BudgetInv'
  <2>1. \A x \in Executor : kept'[x] <= kept[x]
    BY <1>4, <1>5
  <2> QED  BY <1>1, <1>3, <1>4, <1>5, <2>1, BudgetKept
<1>6. CASE UNCHANGED output
  BY <1>4, <1>5, <1>6 DEF output
<1>7. CASE Yield(e)
  <2>1. UNCHANGED <<kept, snap>> /\ (bytes' = bytes \/ \E n \in Sizes : Fits(n) /\ bytes' = bytes + n)
    BY <1>7 DEF Yield
  <2> QED  BY <1>4, <1>5, <2>1 DEF Fits
<1>8. CASE Collect(e)
  <2>1. CASE UNCHANGED <<kept, bytes>>
    BY <1>4, <1>5, <1>8, <2>1 DEF Collect
  <2>2. ASSUME NEW n \in Sizes, Fits(n), bytes' = bytes + n,
               kept' = IF e \in orphans THEN kept ELSE [kept EXCEPT ![e] = @ + n]
        PROVE  BudgetInv'
    <3>1. UNCHANGED snap /\ n \in Nat /\ bytes' \in Nat /\ bytes <= bytes' /\ bytes' <= MaxBytes
      BY <1>4, <1>8, <2>2 DEF Collect, Fits
    <3>2. CASE kept' = kept
      BY <1>5, <3>1, <3>2
    <3>3. CASE kept' = [kept EXCEPT ![e] = @ + n]
      <4>1. kept' \in [Executor -> Nat] /\ kept'[e] = kept[e] + n /\ \A x \in Executor : x # e => kept'[x] = kept[x]
        BY <1>4, <3>1, <3>3
      <4>2. \A b \in Branch : phase'[b] = "idle" => kept'[b] = 0
        <5>1. phase'[e] = "idle" => e = Main
          BY <1>1, <1>3 DEF Branch
        <5> QED  BY <1>3, <4>1, <5>1 DEF BudgetInv, Branch
      <4>3. CASE phase[Main] \notin InBlock
        <5>1. kept[Main] <= bytes /\ kept[Main] \in Nat /\ block'[Main].branches = {}
          BY <1>1, <1>4, <4>3 DEF BudgetInv
        <5>2. kept'[Main] <= bytes'
          BY <1>4, <2>2, <3>1, <4>1, <5>1
        <5> QED  BY <1>3, <1>4, <3>1, <4>1, <4>2, <4>3, <5>1, <5>2 DEF BudgetInv
      <4>4. CASE phase[Main] \in InBlock
        <5> DEFINE B == block[Main].branches
        <5>1. e # Main
          BY <1>1, <4>4 DEF InBlock
        <5>2. kept'[Main] <= snap'[Main] /\ snap[Main] + Total(kept, B) <= bytes /\ snap[Main] \in Nat
          BY <1>4, <3>1, <4>1, <4>4, <5>1 DEF BudgetInv
        <5>3. IsFiniteSet(B) /\ B \subseteq Executor
          BY BranchesAre
        <5> HIDE DEF B
        <5>4. \A x \in B : kept[x] \in Nat /\ kept'[x] \in Nat
          BY <1>4, <4>1, <5>3
        <5>5. Total(kept, B) \in Nat /\ Total(kept', B) \in Nat
          BY <5>3, <5>4, TotalIs
        <5>6. Total(kept', B) <= Total(kept, B) + n
          <6>1. CASE e \notin B
            <7>1. \A x \in B : kept'[x] <= kept[x]
              BY <4>1, <5>3, <5>4, <6>1
            <7>2. Total(kept', B) <= Total(kept, B)
              BY <5>3, <5>4, <7>1, TotalGrows
            <7> QED  BY <3>1, <5>5, <7>2
          <6>2. CASE e \in B
            <7> DEFINE R == B \ {e}
            <7>1. IsFiniteSet(R) /\ \A x \in R : kept[x] \in Nat /\ kept'[x] \in Nat /\ kept'[x] <= kept[x]
              BY <4>1, <5>3, <5>4, FS_Subset
            <7>2. /\ Total(kept, B) = kept[e] + Total(kept, R)
                  /\ Total(kept', B) = kept'[e] + Total(kept', R)
              BY <5>3, <5>4, <6>2, TotalIs
            <7> HIDE DEF R
            <7>3. /\ Total(kept', R) <= Total(kept, R)
                  /\ Total(kept, R) \in Nat /\ Total(kept', R) \in Nat
              BY <7>1, TotalGrows, TotalIs
            <7> QED  BY <3>1, <4>1, <5>4, <6>2, <7>2, <7>3
          <6> QED  BY <6>1, <6>2
        <5>7. snap'[Main] + Total(kept', B) <= bytes'
          BY <1>4, <2>2, <3>1, <5>2, <5>5, <5>6
        <5>8. snap'[Main] + Total(kept, block[Main].branches)' <= bytes'
          BY <1>1, <5>7 DEF B
        <5> QED  BY <1>3, <1>4, <3>1, <4>1, <4>2, <4>4, <5>2, <5>8 DEF BudgetInv
      <4> QED  BY <4>3, <4>4
    <3> QED  BY <2>2, <3>2, <3>3
  <2> QED  BY <1>8, <2>1, <2>2 DEF Collect
<1> QED  BY <1>6, <1>7, <1>8 DEF Nodes, CheckLimits, ChargeTurn, CountStep, CheckStep, Evaluate, ToolReturns,
         ToolFails, NodeFails, EnterTry, LeaveTry

\* The steps of a block, which is that of the main executor.
LEMMA BlocksBudget ==
  ASSUME Flat, Base, TabInv, BudgetInv, NEW e \in Executor, Blocks(e)
  PROVE  BudgetInv'
<1>t. TypeOK /\ KidsInv /\ Main \in Executor /\ Main \notin Branch /\ Branch \subseteq Executor
  BY AllBelowMain DEF Base, TreeInv, Branch
<1>b. phase[e] \in InBlock => e = Main
  BY DEF TabInv, BlockBehind, Branch
<1>n. /\ bytes \in Nat /\ MaxBytes \in Nat /\ bytes <= MaxBytes
      /\ kept \in [Executor -> Nat] /\ snap \in [Executor -> Nat]
      /\ \A x \in Executor : kept[x] <= kept[x]
  BY ScriptAssumption DEF BudgetInv
<1>a. /\ IsFiniteSet(block[Main].branches) /\ Main \notin block[Main].branches
      /\ block[Main].branches \subseteq Executor
  BY <1>t, BranchesAre
<1>i. \A b \in Branch : phase'[b] = "idle" => phase[b] = "idle"
  <2>1. CASE OpenBranch(e)
    <3>1. PICK b \in Fresh(e), next \in {"opening", "joining"} : Opens(e, b, next)
      BY <2>1, OpenedIs
    <3>2. phase' = [phase EXCEPT ![b] = "ready", ![e] = next] /\ phase[b] = "idle"
      BY <3>1 DEF Opens, Fresh
    <3> QED  BY <1>t, <3>2 DEF TypeOK
  <2>2. CASE ~OpenBranch(e)
    <3>1. StepOf(e)
      BY <1>t, <2>2, BlocksKeep
    <3>2. "idle" \notin Running
      BY DEF Running
    <3> QED  BY <1>t, <3>1, <3>2 DEF StepOf
  <2> QED  BY <2>1, <2>2
<1>k. ASSUME UNCHANGED output, block'[Main].branches = block[Main].branches,
             phase'[Main] \in InBlock <=> phase[Main] \in InBlock
      PROVE  BudgetInv'
  BY <1>i, <1>k, <1>n, <1>t, BudgetKept DEF output
<1>1. CASE EnterParallel(e)
  <2>1. /\ Fresh(e) # {} /\ phase[e] = "ready" /\ phase' = [phase EXCEPT ![e] = "opening"]
        /\ snap' = [snap EXCEPT ![e] = bytes] /\ UNCHANGED <<block, kept, bytes>>
    BY <1>1 DEF EnterParallel, Node, Ready, Goes
  <2>2. e = Main
    BY <2>1 DEF Flat, Branch, Kids, Fresh
  <2>3. kept[Main] <= bytes /\ block[Main].branches = {}
    BY <2>1, <2>2 DEF BudgetInv, InBlock
  <2>4. snap' \in [Executor -> Nat] /\ snap'[Main] = bytes /\ phase'[Main] = "opening"
    BY <1>n, <1>t, <2>1, <2>2 DEF TypeOK
  <2>5. snap'[Main] + Total(kept', {}) <= bytes'
    BY <1>n, <2>1, <2>4, TotalOfNone
  <2>6. snap'[Main] + Total(kept, block[Main].branches)' <= bytes'
    BY <2>1, <2>3, <2>5
  <2> QED  BY <1>i, <1>n, <2>1, <2>3, <2>4, <2>6 DEF BudgetInv, InBlock
<1>2. CASE OpenBranch(e)
  <2>1. PICK b \in Fresh(e), next \in {"opening", "joining"} : Opens(e, b, next)
    BY <1>2, OpenedIs
  <2>2. /\ phase[e] = "opening" /\ phase[b] = "idle" /\ UNCHANGED <<kept, snap, bytes>>
        /\ block' = [block EXCEPT ![e].branches = @ \cup {b}, ![e].opened = Append(@, NewIndex)]
        /\ phase' = [phase EXCEPT ![b] = "ready", ![e] = next]
    BY <1>2, <2>1, OpenedIs DEF Opens, Fresh, output
  <2>3. e = Main
    BY <1>b, <2>2 DEF InBlock
  <2>4. b \in Executor /\ b \in Branch /\ b # Main /\ kept[b] = 0
    BY <1>t, <2>2 DEF Fresh, Kids, Under, BudgetInv
  <2> DEFINE B == block[Main].branches
             C == B \cup {b}
  <2>5. phase'[Main] \in InBlock /\ block'[Main].branches = C
    BY <1>t, <2>2, <2>3, <2>4 DEF TypeOK, InBlock
  <2>6. kept[Main] <= snap[Main] /\ snap[Main] + Total(kept, B) <= bytes
    BY <2>2, <2>3 DEF BudgetInv, InBlock
  <2>7. Total(kept, C) = Total(kept, B)
    <3>1. CASE b \in B
      <4>1. C = B
        BY <3>1
      <4> HIDE DEF B, C
      <4> QED  BY <4>1
    <3>2. CASE b \notin B
      <4>1. IsFiniteSet(C) /\ C \subseteq Executor /\ C \ {b} = B /\ b \in C
        BY <1>a, <2>4, <3>2, FS_AddElement
      <4> HIDE DEF B, C
      <4>2. /\ Total(kept, C) = kept[b] + Total(kept, C \ {b})
        BY <1>n, <4>1, TotalIs
      <4>3. Total(kept, B) \in Nat
        BY <1>a, <1>n, TotalIs DEF B
      <4> QED  BY <2>4, <4>1, <4>2, <4>3
    <3> QED  BY <3>1, <3>2
  <2> HIDE DEF B, C
  <2>8. snap'[Main] + Total(kept, block[Main].branches)' <= bytes'
    BY <2>2, <2>5, <2>6, <2>7
  <2> QED  BY <1>i, <1>n, <2>2, <2>5, <2>6, <2>8 DEF BudgetInv
<1>3. CASE OpenFails(e)
  <2>1. e = Main /\ Drops(Main, kept[Main]) /\ bytes' = bytes /\ phase[Main] \in InBlock
    BY <1>3, <1>b DEF OpenFails, InBlock
  <2>2. phase'[Main] \notin InBlock
    <3>1. PICK p \in {"ready", "gone"} \cup Error \cup {"idle"} : phase' = [Dropped(Main) EXCEPT ![Main] = p]
      BY <1>3, <1>t, <2>1, Limits, RaiseIs, RaisedIs DEF OpenFails
    <3> QED  BY <1>t, <3>1, DroppedIs DEF InBlock, Error, Fatal
  <2>3. kept[Main] <= bytes /\ kept[Main] \in Nat
    <3>1. /\ kept[Main] <= snap[Main] /\ snap[Main] + Total(kept, block[Main].branches) <= bytes
          /\ snap[Main] \in Nat /\ kept[Main] \in Nat
      BY <1>n, <1>t, <2>1 DEF BudgetInv
    <3>2. Total(kept, block[Main].branches) \in Nat
      BY <1>a, <1>n, TotalIs
    <3> QED  BY <1>n, <3>1, <3>2
  <2> QED  BY <1>i, <1>n, <1>t, <2>1, <2>2, <2>3, BudgetAfter
<1>4. CASE BranchEnds(e)
  <2>1. e # Main /\ UNCHANGED <<output, block>> /\ \E p : phase' = [phase EXCEPT ![e] = p]
    BY <1>4 DEF BranchEnds, Goes
  <2>2. phase'[Main] = phase[Main]
    BY <1>t, <2>1 DEF TypeOK
  <2> QED  BY <1>k, <2>1, <2>2
<1>5. CASE AbortLands(e)
  <2>1. e \in Branch /\ Drops(e, 0) /\ bytes' = bytes /\ phase' = [Dropped(e) EXCEPT ![e] = "gone"]
    BY <1>5, <1>t DEF AbortLands, TypeOK
  <2>2. e # Main /\ Main \notin block[e].branches
    BY <1>t, <2>1 DEF TypeOK
  <2>3. phase'[Main] = phase[Main]
    <3>1. Dropped(e)[Main] = phase[Main] /\ Dropped(e) \in [Executor -> Phase]
      BY <1>t, <2>2, DroppedIs
    <3> QED  BY <1>t, <2>1, <2>2, <3>1
  <2>4. /\ kept' \in [Executor -> Nat] /\ snap' \in [Executor -> Nat] /\ snap'[Main] = snap[Main]
        /\ \A x \in Executor : kept'[x] <= kept[x]
        /\ block'[Main].branches = block[Main].branches
    <3>1. /\ kept' = [x \in Executor |-> IF x = e THEN 0 ELSE IF x \in block[e].branches THEN 0 ELSE kept[x]]
          /\ snap' = [snap EXCEPT ![e] = 0] /\ block' = [block EXCEPT ![e] = NoBlock]
      BY <2>1 DEF Drops
    <3>2. \A x \in Executor : kept'[x] \in {0, kept[x]} /\ kept[x] \in Nat
      BY <1>n, <3>1
    <3>3. \A x \in Executor : kept'[x] <= kept[x] /\ kept'[x] \in Nat
      BY <3>2
    <3>4. kept' \in [Executor -> Nat]
      BY <3>1, <3>3
    <3>5. snap' \in [Executor -> Nat] /\ snap'[Main] = snap[Main] /\ block'[Main] = block[Main]
      BY <1>n, <1>t, <2>2, <3>1 DEF TypeOK
    <3> QED  BY <3>3, <3>4, <3>5
  <2> QED  BY <1>i, <1>n, <1>t, <2>1, <2>3, <2>4, BudgetKept
<1>6. ASSUME NEW b \in Branch, JoinFailed(e, b) PROVE BudgetInv'
  <2>1. /\ e = Main /\ phase' = [phase EXCEPT ![b] = "gone"] /\ b # Main
        /\ kept' = [kept EXCEPT ![b] = 0] /\ UNCHANGED <<snap, bytes>>
    BY <1>6, <1>b, <1>t DEF JoinFailed, Goes, InBlock
  <2>2. block'[Main].branches = block[Main].branches
    <3> DEFINE rec == [block[Main] EXCEPT !.err = phase[b]]
    <3>1. block[Main] \in [branches : SUBSET Branch, opened : Seq(Nat), err : Error \cup {"none"}]
      BY <1>t DEF TypeOK
    <3>2. rec.branches = block[Main].branches
      BY <3>1
    <3> HIDE DEF rec
    <3>3. block' = block \/ block' = [block EXCEPT ![Main] = rec]
      BY <1>6, <2>1 DEF JoinFailed, rec
    <3> QED  BY <1>t, <3>2, <3>3 DEF TypeOK
  <2>3. phase'[Main] = phase[Main]
    BY <1>t, <2>1 DEF TypeOK
  <2>4. kept' \in [Executor -> Nat] /\ \A x \in Executor : kept'[x] <= kept[x]
    <3>1. \A x \in Executor : kept'[x] = IF x = b THEN 0 ELSE kept[x]
      BY <1>n, <2>1
    <3>2. \A x \in Executor : kept[x] \in Nat
      BY <1>n
    <3>3. kept' \in [Executor -> Nat]
      BY <1>n, <2>1
    <3> QED  BY <3>1, <3>2, <3>3
  <2> QED  BY <1>i, <1>n, <1>t, <2>1, <2>2, <2>3, <2>4, BudgetKept
<1>7. CASE AllJoined(e)
  <2>1. /\ e = Main /\ UNCHANGED <<output, block>> /\ phase[e] = "joining"
        /\ phase' = [phase EXCEPT ![e] = "closing"]
    BY <1>7, <1>b DEF AllJoined, InBlock, Goes
  <2>2. phase'[Main] \in InBlock /\ phase[Main] \in InBlock
    BY <1>t, <2>1 DEF TypeOK, InBlock
  <2> QED  BY <1>k, <2>1, <2>2
<1>8. CASE ClosePage(e)
  <2>1. block'[Main].branches = block[Main].branches
    BY <1>8, <1>t, PageClosed
  <2>2. UNCHANGED <<output, phase>>
    BY <1>8 DEF ClosePage
  <2> QED  BY <1>k, <2>1, <2>2
<1>9. CASE FinishParallel(e)
  <2> DEFINE B == block[Main].branches
             D == {b \in B : phase[b] = "done"}
             merged == Total(kept, D)
  <2>1. e = Main /\ phase[Main] \in InBlock
    BY <1>9, <1>b DEF FinishParallel, InBlock
  <2>2. Drops(Main, kept[Main] + merged) /\ bytes' \in {bytes, snap[Main] + merged}
    BY <1>9, <2>1 DEF FinishParallel, Reset, Total
  <2>3. phase'[Main] \notin InBlock
    <3>1. block[Main].err # "none" => block[Main].err \in Error
      BY <1>t, ErrorsAre
    <3>2. PICK p \in {"ready", "gone"} \cup Error \cup {"idle"} : phase' = [Dropped(Main) EXCEPT ![Main] = p]
      BY <1>9, <1>t, <2>1, <3>1, RaiseIs, RaisedIs DEF FinishParallel
    <3> QED  BY <1>t, <3>2, DroppedIs DEF InBlock, Error, Fatal
  <2>4. D \in SUBSET B /\ IsFiniteSet(D) /\ IsFiniteSet(B) /\ B \subseteq Executor
    BY <1>a, FS_Subset
  <2>5. kept[Main] <= snap[Main] /\ snap[Main] + Total(kept, B) <= bytes /\ kept[Main] \in Nat /\ snap[Main] \in Nat
    BY <1>n, <1>t, <2>1 DEF BudgetInv
  <2>6. merged \in Nat /\ Total(kept, B) \in Nat /\ merged <= Total(kept, B)
    <3> HIDE DEF B, D
    <3> QED  BY <1>n, <2>4, TotalIs, TotalOfPart
  <2> HIDE DEF merged, B
  <2>7. kept[Main] + merged \in Nat /\ kept[Main] + merged <= bytes' /\ bytes' \in Nat /\ bytes' <= MaxBytes
    BY <1>n, <2>2, <2>5, <2>6
  <2> QED  BY <1>i, <1>t, <2>2, <2>3, <2>7, BudgetAfter
<1> QED  BY <1>1, <1>2, <1>3, <1>4, <1>5, <1>6, <1>7, <1>8, <1>9 DEF Blocks

\* With no block inside a block, however the branches' collecting, failing and
\* merging interleave, a script holds no more extracted data than the shared
\* counter has reserved, and that is never more than max_output_bytes.
THEOREM FlatScriptsStayInBudget ==
  ASSUME Flat
  PROVE  Spec => []ExtractedWithinBudget
<1>1. Init => BudgetInv
  <2> SUFFICES ASSUME Init PROVE BudgetInv
    OBVIOUS
  <2>1. Main \in Executor /\ MaxBytes \in Nat
    BY AllBelowMain, ScriptAssumption
  <2>2. /\ kept \in [Executor -> Nat] /\ snap \in [Executor -> Nat] /\ bytes = 0
        /\ \A x \in Executor : kept[x] = 0 /\ phase[x] = "idle" /\ block[x].branches = {}
    BY DEF Init, NoBlock
  <2> QED  BY <2>1, <2>2 DEF BudgetInv, InBlock, Branch
<1>2. Base /\ TabInv /\ BudgetInv /\ [Next]_vars => BudgetInv'
  <2> SUFFICES ASSUME Base, TabInv, BudgetInv, [Next]_vars PROVE BudgetInv'
    OBVIOUS
  <2>t. TypeOK /\ Main \in Executor /\ phase \in [Executor -> Phase]
    BY AllBelowMain DEF Base, TreeInv, TypeOK
  <2>1. ASSUME NEW e \in Executor, Nodes(e) \/ Blocks(e) PROVE BudgetInv'
    BY <2>1, <2>t, NodesBudget, BlocksBudget
  <2>2. ASSUME UNCHANGED <<output, block>>, \A b \in Branch : phase'[b] = phase[b],
               phase'[Main] = phase[Main] \/ (phase[Main] \notin InBlock /\ phase'[Main] \notin InBlock)
        PROVE  BudgetInv'
    <3>1. kept \in [Executor -> Nat] /\ snap \in [Executor -> Nat] /\ bytes \in Nat /\ bytes <= MaxBytes
      BY DEF BudgetInv
    <3>2. \A x \in Executor : kept'[x] <= kept[x]
      BY <2>2, <3>1 DEF output
    <3> QED  BY <2>2, <2>t, <3>1, <3>2, BudgetKept DEF output
  <2>3. CASE Start \/ ScriptEnds
    <3>1. /\ UNCHANGED <<output, block>> /\ phase[Main] \in {"idle", "ready"}
          /\ phase' \in {[phase EXCEPT ![Main] = "ready"], [phase EXCEPT ![Main] = "idle"]}
      BY <2>3 DEF Start, ScriptEnds, Goes, Ready
    <3>2. (\A b \in Branch : phase'[b] = phase[b]) /\ phase'[Main] \in {"ready", "idle"}
      BY <2>t, <3>1 DEF Branch
    <3> QED  BY <2>2, <3>1, <3>2 DEF InBlock
  <2>4. CASE Cancel \/ Expire \/ UNCHANGED vars
    <3>1. UNCHANGED <<phase, output, block>>
      BY <2>4 DEF Cancel, Expire, vars
    <3> QED  BY <2>2, <3>1
  <2> QED  BY <2>1, <2>3, <2>4 DEF Next, Moves
<1>3. Base /\ TabInv /\ BudgetInv => ExtractedWithinBudget
  <2> SUFFICES ASSUME Base, TabInv, BudgetInv PROVE ExtractedWithinBudget
    OBVIOUS
  <2> DEFINE B == block[Main].branches
             All == {Main} \cup UNION {block[e].branches : e \in Executor}
  <2>1. /\ IsFiniteSet(B) /\ Main \notin B /\ B \subseteq Executor /\ Main \in Executor
    BY BranchesAre DEF Base, TreeInv
  <2>2. \A e \in Branch : block[e].branches = {}
    BY DEF Flat, Base, TreeInv, KidsInv, Kids, Branch
  <2>3. All = {Main} \cup B
    BY <2>1, <2>2 DEF Branch
  <2>4. Extracted = Total(kept, All)
    BY DEF Extracted, Total
  <2>5. /\ kept \in [Executor -> Nat] /\ snap \in [Executor -> Nat] /\ bytes \in Nat /\ bytes <= MaxBytes
    BY DEF BudgetInv
  <2>6. IsFiniteSet(All) /\ All \ {Main} = B /\ Main \in All /\ \A x \in All : kept[x] \in Nat
    BY <2>1, <2>3, <2>5, FS_AddElement
  <2>7. Total(kept, B) \in Nat
    <3> HIDE DEF B
    <3> QED  BY <2>1, <2>5, TotalIs
  <2>8. Total(kept, All) = kept[Main] + Total(kept, B)
    <3> HIDE DEF All, B
    <3> QED  BY <2>6, TotalIs
  <2>9. kept[Main] + Total(kept, B) <= bytes
    <3>1. CASE phase[Main] \in InBlock
      <4>1. kept[Main] <= snap[Main] /\ snap[Main] + Total(kept, B) <= bytes /\ kept[Main] \in Nat /\ snap[Main] \in Nat
        BY <2>1, <2>5, <3>1 DEF BudgetInv
      <4> HIDE DEF B
      <4> QED  BY <2>5, <2>7, <4>1
    <3>2. CASE phase[Main] \notin InBlock
      <4>1. kept[Main] <= bytes /\ B = {} /\ kept[Main] \in Nat
        BY <2>1, <2>5, <3>2 DEF BudgetInv
      <4> HIDE DEF B
      <4> QED  BY <2>5, <4>1, TotalOfNone
    <3> QED  BY <3>1, <3>2
  <2> HIDE DEF B, All
  <2> QED  BY <2>4, <2>5, <2>8, <2>9 DEF ExtractedWithinBudget
<1> QED  BY <1>1, <1>2, <1>3, TabsHold, PTL DEF Spec
=============================================================================
