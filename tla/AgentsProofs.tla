---------------------------- MODULE AgentsProofs ----------------------------
(***************************************************************************)
(* Theorems about what an agent is told.  Of its children, for every tree  *)
(* and all limits: a live parent accounts for each child exactly once,     *)
(* items come from children that finished, and no slot is left to a child  *)
(* that neither runs nor is tracked.  Of its own tool calls: guidance      *)
(* reaches the prompt.  Of its page: no event is lost or doubled, and a    *)
(* listing shows what the last action began.                               *)
(***************************************************************************)
EXTENDS AgentTreeProofs, MCAgents

-----------------------------------------------------------------------------
(* The children. *)

Reported(a) == {blocks[a][i].child : i \in DOMAIN blocks[a]}

\* What the running tool holds and has not reported yet.
Unreported(a) == IF phase[a] = "cleanup" THEN ToSet(Tail(held[a])) ELSE ToSet(held[a])

\* Nothing but its own end, or the user, makes an agent lose a child.
Answers(a) == Alive(a) /\ (a # Root \/ interrupts = 0)

\* A block stands for one spawned child of the agent's own, which it no longer
\* keeps; what a tool holds it holds once.
Blocks(a) ==
  /\ \A i, j \in DOMAIN blocks[a] : blocks[a][i].child = blocks[a][j].child => i = j
  /\ \A i, j \in DOMAIN held[a] : held[a][i] = held[a][j] => i = j
  /\ \A c \in Reported(a) : c \in Child /\ Parent[c] = a
  /\ (children[a] \cup Unreported(a)) \cap Reported(a) = {}
  /\ phase[a] = "cleanup" => Head(held[a]) \in Reported(a)
  /\ \A c \in Reported(a) \cup children[a] : task[c] # "none"
  /\ phase[a] \in {"waiting", "cleanup"} => \A c \in ToSet(held[a]) : task[c] # "none"

\* Where each child of an agent is that answers for it.
Accounts(a) ==
  Answers(a) =>
    \A c \in Child : Parent[c] = a =>
      /\ task[c] # "none" => c \in Tracked(a) \cup Reported(a)
      /\ status[c] = "active" => c \in Tracked(a)

Items(a) ==
  \A i \in DOMAIN blocks[a] : blocks[a][i].items =>
    /\ task[blocks[a][i].child] = "ok"
    /\ snap[blocks[a][i].child] = "completed"

Books(a) == Blocks(a) /\ Accounts(a) /\ Items(a)

\* An agent forks only once it is spawned, a failed fork gives one slot back, and
\* the root's flag is the user's.
Order ==
  /\ \A c \in Child : status[c] # "absent" => task[Parent[c]] # "none"
  /\ \A a \in Agent : phase[a] = "releasing" => ToSet(held[a]) = {Head(held[a])}
  /\ control[Root] = "set" => interrupts # 0

\* The inductive invariant.
BookInv == TrackInv /\ Order /\ \A a \in Agent : Books(a)

-----------------------------------------------------------------------------
(* What the steps of others leave alone. *)

\* A step of somebody else, seen by agent b.
Still(b) ==
  /\ children'[b] = children[b] /\ held'[b] = held[b] /\ blocks'[b] = blocks[b]
  /\ phase'[b] = phase[b] \/ {phase[b], phase'[b]} \cap {"waiting", "cleanup"} = {}
  /\ Answers(b)' => Answers(b)

\* A step that takes no slot for child c and neither starts it nor hides its end.
Calm(c) ==
  /\ task'[c] = "none" <=> task[c] = "none"
  /\ status'[c] = "active" => status[c] = "active"
  /\ task[c] = "ok" => task'[c] = "ok" /\ (snap[c] = "completed" => snap'[c] = "completed")

LEMMA BooksStill ==
  ASSUME Shape, NEW b \in Agent, Books(b), Still(b),
         \A c \in Child : Parent[c] = b => Calm(c)
  PROVE  Books(b)'
  <1>1. children'[b] = children[b] /\ held'[b] = held[b] /\ blocks'[b] = blocks[b]
    BY DEF Still
  <1>2. Reported(b)' = Reported(b) /\ Tracked(b)' = Tracked(b)
        /\ Unreported(b)' = Unreported(b)
    BY <1>1 DEF Reported, Tracked, Unreported, Still
  <1>3. \A c \in Tracked(b) \cup Reported(b) : c \in Child /\ Parent[c] = b /\ Calm(c)
    BY TrackedChild DEF Books, Blocks
  <1>4. Blocks(b)'
    <2>1. phase'[b] \in {"waiting", "cleanup"} => phase'[b] = phase[b]
      BY DEF Still
    <2>2. \A c \in Reported(b) \cup children[b] : task'[c] # "none"
      BY <1>3 DEF Books, Blocks, Calm, Tracked
    <2>3. phase'[b] \in {"waiting", "cleanup"} => \A c \in ToSet(held[b]) : task'[c] # "none"
      BY <1>3, <2>1 DEF Books, Blocks, Calm, Tracked
    <2> QED BY <1>1, <1>2, <2>1, <2>2, <2>3 DEF Books, Blocks
  <1>5. Accounts(b)'
    BY <1>2 DEF Books, Accounts, Calm, Still
  <1>6. Items(b)'
    <2> SUFFICES ASSUME NEW i \in DOMAIN blocks[b], blocks[b][i].items
                 PROVE  /\ task'[blocks[b][i].child] = "ok"
                        /\ snap'[blocks[b][i].child] = "completed"
      BY <1>1 DEF Items
    <2>1. blocks[b][i].child \in Reported(b)
      BY DEF Reported
    <2> QED BY <1>3, <2>1 DEF Books, Items, Calm
  <1> QED BY <1>4, <1>5, <1>6 DEF Books

\* A step of agent a: what is left to show is about a.
LEMMA BooksKept ==
  ASSUME BookInv, NEW a \in Agent, Books(a)',
         \A b \in Agent : b # a => Still(b),
         \A c \in Child : Parent[c] # a => Calm(c)
  PROVE  \A b \in Agent : Books(b)'
  BY BooksStill DEF BookInv, TrackInv, GuardInv

\* A step that changes nobody's books.
LEMMA BooksQuiet ==
  ASSUME BookInv, \A b \in Agent : Still(b), \A c \in Child : Calm(c)
  PROVE  \A b \in Agent : Books(b)'
  BY BooksStill DEF BookInv, TrackInv, GuardInv

\* Steps that leave tasks, handles and blocks alone, and take no slot.
LEMMA IdleBooks ==
  ASSUME BookInv, UNCHANGED <<task, children, held, blocks>>, interrupts' \in {interrupts, interrupts + 1},
         \A b \in Agent :
           phase'[b] = phase[b] \/ {phase[b], phase'[b]} \cap {"waiting", "cleanup"} = {},
         \A c \in Child : status'[c] = "active" => status[c] = "active",
         \A c \in Child : task[c] = "ok" /\ snap[c] = "completed" => snap'[c] = "completed"
  PROVE  \A b \in Agent : Books(b)'
  <1>1. interrupts' = 0 => interrupts = 0
    BY DEF BookInv, TrackInv, GuardInv, Shape, TypeOK
  <1>2. \A b \in Agent : Still(b)
    BY <1>1 DEF Still, Answers, Alive
  <1>3. \A c \in Child : Calm(c)
    BY DEF Calm
  <1> QED BY <1>2, <1>3, BooksQuiet

\* An agent that hears of a turn hides no finished child.
LEMMA HeardCalm ==
  ASSUME TypeOK, NEW a \in Agent, NEW c \in Child, snap[c] = "completed"
  PROVE  Heard(a)[c] = "completed"
  BY DEF Heard, TypeOK, Child

LEMMA ForkBooks ==
  ASSUME BookInv, NEW a \in Agent, Fork(a)
  PROVE  \A b \in Agent : Books(b)'
  <1> USE DEF BookInv, TrackInv, GuardInv, Shape
  <1>s. interrupts' = interrupts /\ blocks' = blocks /\ a \in Agent
    BY DEF Fork, ForkRefused, ForkConflict, ForkReserved, SetupFails, ReleaseSlot, SpawnChild
  <1>r. \A c \in Child : Registered(a)[c] = "active" => status[c] = "active"
    BY DEF Registered, Fork, ForkRefused, ForkConflict, ForkReserved, SetupFails, ReleaseSlot,
       SpawnChild, Thinking, CanStep, Idle, Dormant, Child, TypeOK
  <1>1. CASE ForkRefused(a)
    BY <1>1, <1>s, <1>r, HeardCalm, IdleBooks DEF ForkRefused
  <1>2. ASSUME NEW s \in ForkScopes, ForkConflict(a, s) PROVE \A b \in Agent : Books(b)'
    <2>1. NextChildId(a) \in Child
      BY <1>2, NextChildFacts DEF ForkConflict
    <2>2. \A c \in Child : status'[c] = "active" => status[c] = "active"
      BY <1>2, <1>r, <2>1, RegisteredType DEF ForkConflict, Child
    <2> QED BY <1>2, <1>s, <2>2, HeardCalm, IdleBooks DEF ForkConflict
  <1>3. ASSUME NEW s \in ForkScopes, ForkReserved(a, s) PROVE \A b \in Agent : Books(b)'
    <2> DEFINE n == NextChildId(a)
    <2>1. n \in Child /\ Parent[n] = a /\ status[n] = "absent" /\ task[n] = "none"
      BY <1>3, NextChildFacts DEF ForkReserved, Child, Idle, Dormant
    <2>2. /\ held'[a] = <<n>> /\ held[a] = << >> /\ phase[a] = "thinking" /\ phase'[a] = "setup"
          /\ UNCHANGED <<task, children>> /\ snap' = Heard(a)
      BY <1>3 DEF ForkReserved, Thinking, HeldShape, TypeOK, Busy
    <2>3. \A b \in Agent : b # a => Still(b)
      BY <1>3, <1>s, <2>2 DEF ForkReserved, TypeOK, Still, Answers, Alive
    <2>4. \A c \in Child : c # n /\ status'[c] = "active" => status[c] = "active"
      BY <1>3, <1>r, <2>1, RegisteredType DEF ForkReserved
    <2>5. \A c \in Child : Parent[c] # a => Calm(c)
      BY <2>1, <2>2, <2>4, HeardCalm DEF Calm
    <2>6. Tracked(a)' = children[a] \cup {n} /\ Tracked(a) = children[a]
          /\ Unreported(a)' = {n} /\ Reported(a)' = Reported(a)
      BY <1>s, <2>2, SingletonSeq, EmptyHeld DEF Tracked, Unreported, Reported
    <2>7. Blocks(a)'
      <3>1. n \notin Reported(a)
        BY <2>1 DEF Books, Blocks
      <3>2. \A i, j \in DOMAIN held'[a] : held'[a][i] = held'[a][j] => i = j
        BY <2>2
      <3> QED BY <1>s, <2>2, <2>6, <3>1, <3>2 DEF Books, Blocks
    <2>8. Accounts(a)'
      <3>1. Answers(a)' => Answers(a)
        BY <1>s, <2>2 DEF Answers, Alive
      <3> QED BY <2>2, <2>4, <2>6, <3>1 DEF Books, Accounts
    <2>9. Items(a)'
      <3>1. \A i \in DOMAIN blocks[a] : blocks[a][i].child \in Child
        BY DEF Books, Blocks, Reported
      <3> QED BY <1>s, <2>2, <3>1, HeardCalm DEF Books, Items
    <2> QED BY <2>3, <2>5, <2>7, <2>8, <2>9, BooksKept DEF Books
  <1>4. CASE SetupFails(a)
    <2>1. \A b \in Agent :
            phase'[b] = phase[b] \/ {phase[b], phase'[b]} \cap {"waiting", "cleanup"} = {}
      BY <1>4 DEF SetupFails, TypeOK
    <2> QED BY <1>4, <1>s, <2>1, IdleBooks DEF SetupFails
  <1>5. CASE ReleaseSlot(a)
    <2> DEFINE n == Head(held[a])
    <2>1. n \in Child /\ n \in Agent /\ Parent[n] = a /\ task[n] = "none" /\ status[n] # "absent"
      BY <1>5, HeadTracked DEF ReleaseSlot, Busy, Idle, SetupFresh, Child
    <2>2. /\ held'[a] = << >> /\ phase[a] = "releasing" /\ phase'[a] = "thinking"
          /\ UNCHANGED <<task, children, snap>> /\ status' = [status EXCEPT ![n] = "done"]
      BY <1>5, <2>1 DEF ReleaseSlot, TypeOK, MarkDone
    <2>3. \A b \in Agent : b # a => Still(b)
      BY <1>5, <1>s, <2>2 DEF ReleaseSlot, TypeOK, Still, Answers, Alive
    <2>4. \A c \in Child : status'[c] = "active" => status[c] = "active" /\ c # n
      BY <2>1, <2>2 DEF TypeOK
    <2>5. \A c \in Child : Parent[c] # a => Calm(c)
      BY <2>2, <2>4 DEF Calm
    <2>6. ToSet(held[a]) = {n}
      BY <2>2 DEF Order
    <2>7. Tracked(a)' = children[a] /\ Tracked(a) = children[a] \cup {n}
          /\ Unreported(a)' = {} /\ Reported(a)' = Reported(a)
      BY <1>s, <2>2, <2>6, EmptyHeld DEF Tracked, Unreported, Reported
    <2>8. Blocks(a)'
      BY <1>s, <2>2, <2>7 DEF Books, Blocks
    <2>9. Accounts(a)'
      <3>1. Answers(a)' => Answers(a)
        BY <1>s, <2>2 DEF Answers, Alive
      <3> QED BY <2>1, <2>2, <2>4, <2>7, <3>1 DEF Books, Accounts
    <2>10. Items(a)'
      BY <1>s, <2>2 DEF Books, Items
    <2> QED BY <2>3, <2>5, <2>8, <2>9, <2>10, BooksKept DEF Books
  <1>6. CASE SpawnChild(a)
    <2>0. PICK n \in Child : n = Head(held[a])
      BY <1>6, HeadTracked DEF SpawnChild, Busy
    <2>1. /\ n \in Agent /\ n # a /\ Parent[n] = a /\ ToSet(held[a]) = {n}
          /\ task[n] = "none"
      BY <1>6, <2>0, HeadTracked, ParentDiffers
         DEF SpawnChild, Busy, Owned, SetupSingle, Child, Idle, SetupFresh
    <2>2. /\ children'[a] = children[a] \cup {n} /\ held'[a] = << >> /\ phase[a] = "setup"
          /\ phase'[a] = "thinking" /\ status' = status /\ task'[n] = "running"
      BY <1>6, <2>0, <2>1 DEF SpawnChild, TypeOK
    <2>3. \A c \in Agent : c # n => task'[c] = task[c] /\ snap'[c] = snap[c]
      BY <1>6, <2>0 DEF SpawnChild, TypeOK
    <2>4. \A b \in Agent : b # a /\ b # n => Still(b)
      BY <1>6, <1>s, <2>0, <2>1, <2>3 DEF SpawnChild, TypeOK, Still, Answers, Alive
    <2>5. \A c \in Child : c # n => Calm(c)
      BY <2>2, <2>3 DEF Calm, Child
    <2>6. /\ children'[n] = children[n] /\ held'[n] = held[n] /\ blocks'[n] = blocks[n]
          /\ phase'[n] = "thinking" /\ phase[n] = "none"
      BY <1>6, <1>s, <2>0, <2>1, <2>2 DEF SpawnChild, TypeOK, Idle, Dormant
    <2>7. \A c \in Child : Parent[c] = n => status[c] = "absent" /\ task[c] = "none" /\ c # n
      BY <2>1, ParentDiffers DEF Order, Idle, Dormant, Child
    <2>8. Books(n)'
      <3>0. Blocks(n) /\ Reported(n)' = Reported(n)
        BY <2>1, <2>6 DEF Books, Reported
      <3>1. Reported(n) = {} /\ Reported(n)' = {} /\ DOMAIN blocks[n] = {}
        <4>1. \A c \in Reported(n) : c \in Child /\ Parent[c] = n /\ task[c] # "none"
          BY <3>0 DEF Blocks
        <4>2. Reported(n) = {}
          BY <4>1, <2>7
        <4>3. DOMAIN blocks[n] = {}
          BY <4>2 DEF Reported
        <4> QED BY <3>0, <4>2, <4>3
      <3>2. children[n] = {}
        BY <2>1, <2>7, TrackedChild DEF Tracked
      <3>3. Blocks(n)' /\ Items(n)'
        BY <2>1, <2>6, <3>1, <3>2 DEF Books, Blocks, Items
      <3>4. \A c \in Child : Parent[c] = n => task'[c] = "none" /\ status'[c] # "active"
        BY <2>2, <2>3, <2>7 DEF Child
      <3>5. Accounts(n)'
        BY <3>4 DEF Accounts
      <3> QED BY <3>3, <3>5 DEF Books
    <2>9. Tracked(a)' = Tracked(a) /\ Tracked(a) = children[a] \cup {n}
          /\ Unreported(a) = {n} /\ Unreported(a)' = {} /\ Reported(a)' = Reported(a)
      BY <1>s, <2>1, <2>2, EmptyHeld DEF Tracked, Unreported, Reported
    <2>10. n \notin Reported(a)
      BY <2>9 DEF Books, Blocks
    <2>11. Blocks(a)'
      <3>1. \A c \in Reported(a) \cup children[a] \cup {n} : task'[c] # "none"
        BY <2>1, <2>2, <2>3, TrackedChild DEF Books, Blocks, Child, Tracked
      <3> QED BY <1>s, <2>2, <2>9, <2>10, <3>1 DEF Books, Blocks
    <2>12. Accounts(a)'
      <3>1. Answers(a)' => Answers(a)
        BY <1>s, <2>1, <2>3 DEF Answers, Alive
      <3> QED BY <2>1, <2>2, <2>3, <2>9, <3>1 DEF Books, Accounts, Child
    <2>13. Items(a)'
      <3>1. \A i \in DOMAIN blocks[a] : blocks[a][i].child \in Reported(a)
        BY DEF Reported
      <3> QED BY <1>s, <2>3, <2>10, <3>1 DEF Books, Blocks, Items, Child
    <2>14. ASSUME NEW b \in Agent PROVE Books(b)'
      <3>1. Books(a)'
        BY <2>11, <2>12, <2>13 DEF Books
      <3>2. CASE b # a /\ b # n
        <4>1. Still(b) /\ \A c \in Child : Parent[c] = b => Calm(c)
          BY <3>2, <2>1, <2>4, <2>5
        <4> QED BY <4>1, BooksStill
      <3> QED BY <2>8, <3>1, <3>2
    <2> QED BY <2>14
  <1> QED BY <1>1, <1>2, <1>3, <1>4, <1>5, <1>6 DEF Fork
\* A wait takes each child up once.
LEMMA WaitOrderOnce ==
  ASSUME NEW S, IsFiniteSet(S), NEW q \in WaitOrders(S), NEW i \in DOMAIN q, NEW j \in DOMAIN q,
         q[i] = q[j]
  PROVE  i = j
  BY DEF WaitOrders

\* What follows the head of a sequence without repetitions is not the head.
LEMMA TailApart ==
  ASSUME NEW S, NEW q \in Seq(S), q # << >>,
         \A i, j \in DOMAIN q : q[i] = q[j] => i = j
  PROVE  /\ Head(q) \notin ToSet(Tail(q))
         /\ \A i, j \in DOMAIN Tail(q) : Tail(q)[i] = Tail(q)[j] => i = j
  <1>1. Head(q) = q[1] /\ Len(q) \in Nat \ {0} /\ Tail(q) \in Seq(S) /\ DOMAIN q = 1 .. Len(q)
    BY HeadTailProperties, EmptySeq, LenProperties
  <1>2. DOMAIN Tail(q) = 1 .. Len(q) - 1 /\ \A i \in 1 .. Len(q) - 1 : Tail(q)[i] = q[i + 1]
    BY HeadTailProperties, LenProperties
  <1>3. Head(q) \notin ToSet(Tail(q))
    BY <1>1, <1>2 DEF ToSet
  <1>4. \A i, j \in DOMAIN Tail(q) : Tail(q)[i] = Tail(q)[j] => i = j
    BY <1>1, <1>2
  <1> QED BY <1>3, <1>4

\* Pushing a block.
LEMMA PushedBlock ==
  ASSUME TypeOK, NEW a \in Agent, NEW b \in Block,
         blocks' = [blocks EXCEPT ![a] = Append(@, b)]
  PROVE  /\ Len(blocks[a]) \in Nat
         /\ DOMAIN blocks[a] = 1 .. Len(blocks[a])
         /\ DOMAIN blocks'[a] = 1 .. Len(blocks[a]) + 1
         /\ \A i \in 1 .. Len(blocks[a]) : blocks'[a][i] = blocks[a][i]
         /\ blocks'[a][Len(blocks[a]) + 1] = b
         /\ Reported(a)' = Reported(a) \cup {b.child}
  <1>1. blocks[a] \in Seq(Block) /\ blocks'[a] = Append(blocks[a], b)
    BY DEF TypeOK
  <1>2. /\ Len(blocks[a]) \in Nat /\ DOMAIN blocks[a] = 1 .. Len(blocks[a])
        /\ DOMAIN blocks'[a] = 1 .. Len(blocks[a]) + 1
        /\ \A i \in 1 .. Len(blocks[a]) : blocks'[a][i] = blocks[a][i]
        /\ blocks'[a][Len(blocks[a]) + 1] = b
    BY <1>1, LenProperties, AppendProperties
  <1>3. Reported(a)' = Reported(a) \cup {b.child}
    <2>1. Reported(a)' = {blocks'[a][i].child : i \in 1 .. Len(blocks[a]) + 1}
      BY <1>2 DEF Reported
    <2>2. Reported(a) = {blocks[a][i].child : i \in 1 .. Len(blocks[a])}
      BY <1>2 DEF Reported
    <2>3. \A i \in 1 .. Len(blocks[a]) + 1 : i \in 1 .. Len(blocks[a]) \/ i = Len(blocks[a]) + 1
      BY <1>2
    <2> QED BY <1>2, <2>1, <2>2, <2>3
  <1> QED BY <1>2, <1>3

\* A pushed block is that of a child without one.
LEMMA PushedOnce ==
  ASSUME TypeOK, NEW a \in Agent, NEW b \in Block, Blocks(a), b.child \notin Reported(a),
         blocks' = [blocks EXCEPT ![a] = Append(@, b)]
  PROVE  \A i, j \in DOMAIN blocks'[a] : blocks'[a][i].child = blocks'[a][j].child => i = j
  <1>1. \A i \in 1 .. Len(blocks[a]) : blocks'[a][i].child \in Reported(a)
    BY PushedBlock DEF Reported
  <1> QED BY <1>1, PushedBlock DEF Blocks

LEMMA WaitBooks ==
  ASSUME BookInv, NEW a \in Agent, Wait(a)
  PROVE  \A b \in Agent : Books(b)'
  <1> USE DEF BookInv, TrackInv, GuardInv, Shape
  <1>s. interrupts' = interrupts /\ task' = task
    BY DEF Wait, WaitBegin, CollectFinished, CleanupFinished, WaitDeadline
  <1>a. Answers(a)' => Answers(a)
    BY <1>s DEF Answers, Alive
  <1>1. ASSUME NEW q \in WaitOrders(children[a]), WaitBegin(a, q) PROVE \A b \in Agent : Books(b)'
    <2>1. /\ held'[a] = q /\ held[a] = << >> /\ children'[a] = children[a] \ ToSet(q)
          /\ phase[a] = "thinking" /\ phase'[a] = "waiting" /\ status' = status
          /\ blocks' = blocks /\ snap' = Heard(a)
      BY <1>1 DEF WaitBegin, Thinking, HeldShape, TypeOK, Busy
    <2>2. ToSet(q) \subseteq children[a]
      BY WaitOrderType DEF FiniteChildren
    <2>3. \A b \in Agent : b # a => Still(b)
      BY <1>1, <1>s, <2>1 DEF WaitBegin, TypeOK, Still, Answers, Alive
    <2>4. \A c \in Child : Calm(c)
      BY <1>s, <2>1, HeardCalm DEF Calm
    <2>5. Tracked(a)' = Tracked(a) /\ Tracked(a) = children[a]
          /\ Unreported(a)' = ToSet(q) /\ Reported(a)' = Reported(a)
      BY <2>1, <2>2, EmptyHeld DEF Tracked, Unreported, Reported
    <2>6. Blocks(a)'
      <3>1. \A i, j \in DOMAIN held'[a] : held'[a][i] = held'[a][j] => i = j
        BY <2>1, WaitOrderOnce DEF FiniteChildren
      <3> QED BY <1>s, <2>1, <2>2, <2>5, <3>1 DEF Books, Blocks
    <2>7. Accounts(a)'
      BY <1>s, <1>a, <2>1, <2>5 DEF Books, Accounts
    <2>8. Items(a)'
      <3>1. \A i \in DOMAIN blocks[a] : blocks[a][i].child \in Child
        BY DEF Books, Blocks, Reported
      <3> QED BY <1>s, <2>1, <3>1, HeardCalm DEF Books, Items
    <2> QED BY <2>3, <2>4, <2>6, <2>7, <2>8, BooksKept DEF Books
  <1>2. CASE CollectFinished(a)
    <2>0. PICK c \in Child : c = Head(held[a])
      BY <1>2, HeadTracked DEF CollectFinished, Busy
    <2> DEFINE b == [child |-> c, items |-> task[c] = "ok"]
    <2>1. /\ UNCHANGED <<status, children, held>> /\ phase[a] = "waiting" /\ phase'[a] = "cleanup"
          /\ task[c] \in Ended /\ blocks' = [blocks EXCEPT ![a] = Append(@, b)]
          /\ snap' = [snap EXCEPT ![c] = IF task[c] = "ok" THEN "completed" ELSE "failed"]
      BY <1>2, <2>0 DEF CollectFinished, TypeOK
    <2>2. Parent[c] = a /\ c \in ToSet(held[a]) /\ ToSet(held[a]) = {c} \cup ToSet(Tail(held[a]))
      BY <2>0, <2>1, HeadTracked DEF Busy
    <2>3. \A d \in Agent : d # a => Still(d)
      BY <1>2, <1>s, <2>1 DEF CollectFinished, TypeOK, Still, Answers, Alive
    <2>4. \A d \in Child : Parent[d] # a => Calm(d)
      BY <1>s, <2>1, <2>2 DEF Calm, TypeOK
    <2>5. c \notin Reported(a) /\ c \notin ToSet(Tail(held[a]))
      <3>1. held[a] \in Seq(Child) /\ held[a] # << >>
        BY <2>1, HeadTracked DEF Busy
      <3> QED BY <2>0, <2>1, <2>2, <3>1, TailApart DEF Books, Blocks, Unreported
    <2>6. b \in Block
      BY DEF Block
    <2>7. Tracked(a)' = Tracked(a) /\ Unreported(a) = ToSet(held[a])
          /\ Unreported(a)' = ToSet(Tail(held[a])) /\ Reported(a)' = Reported(a) \cup {c}
      BY <2>1, <2>6, PushedBlock DEF Tracked, Unreported
    <2>8. Blocks(a)'
      <3>1. \A i, j \in DOMAIN blocks'[a] : blocks'[a][i].child = blocks'[a][j].child => i = j
        BY <2>1, <2>5, <2>6, PushedOnce DEF Books
      <3>2. c \notin children[a]
        BY <2>2 DEF Holding, HeldApart
      <3>3. task[c] # "none"
        BY <2>1 DEF Ended
      <3> QED BY <1>s, <2>0, <2>1, <2>2, <2>5, <2>7, <3>1, <3>2, <3>3 DEF Books, Blocks
    <2>9. Accounts(a)'
      BY <1>s, <1>a, <2>1, <2>7 DEF Books, Accounts
    <2>10. Items(a)'
      <3>1. \A i \in 1 .. Len(blocks[a]) : blocks[a][i].child \in Child \ {c}
        BY <2>5, <2>6, <2>1, PushedBlock DEF Books, Blocks, Reported
      <3>2. \A i \in DOMAIN blocks'[a] : i \in 1 .. Len(blocks[a]) \/ i = Len(blocks[a]) + 1
        BY <2>1, <2>6, PushedBlock
      <3> SUFFICES ASSUME NEW i \in DOMAIN blocks'[a], blocks'[a][i].items
                   PROVE  /\ task[blocks'[a][i].child] = "ok"
                          /\ snap'[blocks'[a][i].child] = "completed"
        BY <1>s DEF Items
      <3>3. CASE i \in 1 .. Len(blocks[a])
        <4>1. blocks'[a][i] = blocks[a][i] /\ i \in DOMAIN blocks[a]
          BY <2>1, <2>6, <3>3, PushedBlock
        <4> QED BY <2>1, <3>1, <3>3, <4>1 DEF Books, Items, TypeOK, Child
      <3>4. CASE i = Len(blocks[a]) + 1
        <4>1. blocks'[a][i] = b
          BY <2>1, <2>6, <3>4, PushedBlock
        <4>2. b.child = c /\ b.items = (task[c] = "ok")
          OBVIOUS
        <4>3. task[c] = "ok" => snap'[c] = "completed"
          BY <2>1 DEF TypeOK, Child
        <4> HIDE DEF b
        <4> QED BY <4>1, <4>2, <4>3
      <3> QED BY <3>2, <3>3, <3>4
    <2> QED BY <2>3, <2>4, <2>8, <2>9, <2>10, BooksKept DEF Books
  <1>3. CASE CleanupFinished(a)
    <2>0. PICK c \in Child : c = Head(held[a])
      BY <1>3, HeadTracked DEF CleanupFinished, Busy
    <2>1. /\ UNCHANGED <<children, blocks, snap>> /\ held'[a] = Tail(held[a])
          /\ phase[a] = "cleanup" /\ phase'[a] \in {"waiting", "thinking"}
          /\ status' = MarkDone(status, c)
      BY <1>3, <2>0 DEF CleanupFinished, TypeOK
    <2>2. /\ Parent[c] = a /\ c \in ToSet(held[a]) /\ status[c] # "absent" /\ c \in Agent
          /\ ToSet(held[a]) = {c} \cup ToSet(Tail(held[a]))
      BY <2>0, <2>1, HeadTracked DEF Busy, Child
    <2>3. \A d \in Agent : d # a => Still(d)
      BY <1>3, <1>s, <2>1 DEF CleanupFinished, TypeOK, Still, Answers, Alive
    <2>4. \A d \in Child : status'[d] = "active" => status[d] = "active" /\ d # c
      BY <2>1, <2>2 DEF MarkDone, TypeOK
    <2>5. \A d \in Child : Calm(d)
      BY <1>s, <2>1, <2>4 DEF Calm
    <2>6. held[a] \in Seq(Child) /\ held[a] # << >> /\ c \in Reported(a)
      BY <2>0, <2>1, HeadTracked DEF Busy, Books, Blocks
    <2>7. Tracked(a) = children[a] \cup {c} \cup ToSet(Tail(held[a]))
          /\ Tracked(a)' = children[a] \cup ToSet(Tail(held[a]))
          /\ Unreported(a) = ToSet(Tail(held[a]))
          /\ Unreported(a)' = ToSet(Tail(held[a])) /\ Reported(a)' = Reported(a)
      BY <2>1, <2>2 DEF Tracked, Unreported, Reported
    <2>8. Blocks(a)'
      <3>1. \A i, j \in DOMAIN held'[a] : held'[a][i] = held'[a][j] => i = j
        BY <2>1, <2>6, TailApart DEF Books, Blocks
      <3>2. phase'[a] # "cleanup"
        BY <2>1
      <3>3. \A d \in ToSet(held'[a]) : task[d] # "none"
        BY <2>1, <2>2 DEF Books, Blocks
      <3> QED BY <1>s, <2>1, <2>7, <3>1, <3>2, <3>3 DEF Books, Blocks
    <2>9. Accounts(a)'
      BY <1>s, <1>a, <2>4, <2>6, <2>7 DEF Books, Accounts
    <2>10. Items(a)'
      BY <1>s, <2>1 DEF Books, Items
    <2> QED BY <2>3, <2>5, <2>8, <2>9, <2>10, BooksKept DEF Books
  <1>4. CASE WaitDeadline(a)
    <2>1. /\ children'[a] = children[a] \cup ToSet(held[a]) /\ held'[a] = << >>
          /\ phase[a] = "waiting" /\ phase'[a] = "thinking" /\ UNCHANGED <<status, blocks, snap>>
      BY <1>4 DEF WaitDeadline, TypeOK
    <2>2. \A d \in Agent : d # a => Still(d)
      BY <1>4, <1>s, <2>1 DEF WaitDeadline, TypeOK, Still, Answers, Alive
    <2>3. \A d \in Child : Calm(d)
      BY <1>s, <2>1 DEF Calm
    <2>4. Tracked(a)' = Tracked(a) /\ Unreported(a) = ToSet(held[a]) /\ Unreported(a)' = {}
          /\ Reported(a)' = Reported(a)
      BY <2>1, EmptyHeld DEF Tracked, Unreported, Reported
    <2>5. Blocks(a)'
      BY <1>s, <2>1, <2>4 DEF Books, Blocks
    <2>6. Accounts(a)'
      BY <1>s, <1>a, <2>1, <2>4 DEF Books, Accounts
    <2>7. Items(a)'
      BY <1>s, <2>1 DEF Books, Items
    <2> QED BY <2>2, <2>3, <2>5, <2>6, <2>7, BooksKept DEF Books
  <1> QED BY <1>1, <1>2, <1>3, <1>4 DEF Wait
LEMMA CancelBooks ==
  ASSUME BookInv, NEW a \in Agent, Cancel(a)
  PROVE  \A b \in Agent : Books(b)'
  <1> USE DEF BookInv, TrackInv, GuardInv, Shape
  <1>s. interrupts' = interrupts
    BY DEF Cancel, CancelTracked, CancelUntracked
  <1>1. ASSUME NEW c \in Child, CancelTracked(a, c) PROVE \A b \in Agent : Books(b)'
    <2> DEFINE b == [child |-> c, items |-> FALSE]
    <2>1. /\ children'[a] = children[a] \ {c} /\ held'[a] = <<c>> /\ held[a] = << >>
          /\ phase[a] = "thinking" /\ phase'[a] = "cleanup" /\ c \in children[a]
          /\ status' = status /\ task' = Aborted({c})
          /\ blocks' = [blocks EXCEPT ![a] = Append(@, b)]
          /\ snap' = [Heard(a) EXCEPT ![c] = "cancelled"]
      BY <1>1 DEF CancelTracked, Thinking, HeldShape, TypeOK, Busy
    <2>2. Parent[c] = a /\ c # a
      BY <2>1, TrackedChild, ParentDiffers DEF Tracked
    <2>3. \A d \in Agent : /\ task'[d] = "none" <=> task[d] = "none"
                           /\ task[d] = "ok" => task'[d] = "ok"
                           /\ Alive(d)' => Alive(d)
      BY <2>1 DEF Aborted, Alive
    <2>4. \A d \in Agent : d # a => Still(d)
      BY <1>1, <1>s, <2>1, <2>3 DEF CancelTracked, TypeOK, Still, Answers
    <2>5. \A d \in Child : d # c => Calm(d)
      BY <2>1, <2>3, HeardCalm, HeardType DEF Calm, Child
    <2>6. b \in Block /\ b.child = c /\ ~b.items
      BY DEF Block
    <2> HIDE DEF b
    <2>7. c \notin Reported(a) /\ ToSet(held'[a]) = {c} /\ Head(held'[a]) = c
      BY <2>1, SingletonSeq DEF Books, Blocks
    <2>8. /\ Tracked(a)' = Tracked(a) /\ Unreported(a)' = {} /\ Reported(a)' = Reported(a) \cup {c}
      <3>1. ToSet(Tail(held'[a])) = {}
        BY <2>1, EmptyHeld
      <3>2. Tracked(a)' = Tracked(a)
        BY <2>1, <2>7, EmptyHeld DEF Tracked
      <3>3. Reported(a)' = Reported(a) \cup {c}
        BY <2>1, <2>6, PushedBlock
      <3> QED BY <2>1, <3>1, <3>2, <3>3 DEF Unreported
    <2>9. Blocks(a)'
      <3>1. \A i, j \in DOMAIN blocks'[a] : blocks'[a][i].child = blocks'[a][j].child => i = j
        BY <2>1, <2>6, <2>7, PushedOnce DEF Books
      <3>2. \A i, j \in DOMAIN held'[a] : held'[a][i] = held'[a][j] => i = j
        BY <2>1
      <3>3. \A d \in Reported(a) \cup children[a] : d \in Child /\ Parent[d] = a /\ task'[d] # "none"
        BY <2>3, TrackedChild DEF Books, Blocks, Child, Tracked
      <3>4. (children'[a] \cup Unreported(a)') \cap Reported(a)' = {}
        BY <2>1, <2>8 DEF Books, Blocks
      <3>5. \A d \in Reported(a)' \cup children'[a] \cup ToSet(held'[a]) :
              d \in Child /\ Parent[d] = a /\ task'[d] # "none"
        BY <2>1, <2>7, <2>8, <3>3
      <3> QED BY <2>7, <2>8, <3>1, <3>2, <3>4, <3>5 DEF Blocks
    <2>10. Accounts(a)'
      <3>1. Answers(a)' => Answers(a)
        BY <1>s, <2>3 DEF Answers
      <3> QED BY <2>1, <2>3, <2>8, <3>1 DEF Books, Accounts, Child
    <2>11. Items(a)'
      <3> SUFFICES ASSUME NEW i \in DOMAIN blocks'[a], blocks'[a][i].items
                   PROVE  /\ task'[blocks'[a][i].child] = "ok"
                          /\ snap'[blocks'[a][i].child] = "completed"
        BY DEF Items
      <3>0. blocks'[a][Len(blocks[a]) + 1] = b
        BY <2>1, <2>6, PushedBlock
      <3>1. i # Len(blocks[a]) + 1
        BY <2>6, <3>0
      <3>2. i \in DOMAIN blocks[a] /\ blocks'[a][i] = blocks[a][i]
        BY <2>1, <2>6, <3>1, PushedBlock
      <3>3. blocks[a][i].child \in Child \ {c}
        BY <2>7, <3>2 DEF Books, Blocks, Reported
      <3> QED BY <2>5, <3>2, <3>3 DEF Books, Items, Calm
    <2>12. \A d \in Child : Parent[d] # a => Calm(d)
      BY <2>2, <2>5
    <2> QED BY <2>4, <2>9, <2>10, <2>11, <2>12, BooksKept DEF Books
  <1>2. ASSUME NEW c \in Child, CancelUntracked(a, c) PROVE \A b \in Agent : Books(b)'
    BY <1>2, HeardCalm, IdleBooks DEF CancelUntracked
  <1> QED BY <1>1, <1>2 DEF Cancel

\* An agent's value is dropped: it answers for nobody any more.
LEMMA DropBooks ==
  ASSUME BookInv, NEW a \in Agent, NEW end \in Ended, DropAgent(a, end),
         CanStep(a) \/ task[a] = "aborting",
         status' = status \/ status' = MarkDone(status, a)
  PROVE  \A b \in Agent : Books(b)'
  <1> USE DEF BookInv, TrackInv, GuardInv, Shape
  <1>1. /\ children'[a] = {} /\ held'[a] = << >> /\ phase'[a] = "gone" /\ UNCHANGED <<blocks, snap>>
        /\ interrupts' = interrupts
    BY DEF DropAgent, TypeOK
  <1>2. \A d \in Agent : /\ task'[d] = "none" <=> task[d] = "none"
                         /\ task[d] = "ok" => task'[d] = "ok"
                         /\ Alive(d)' => Alive(d) /\ d # a
    BY DEF DropAgent, Aborted, Alive, Ended, CanStep, TypeOK
  <1>3. \A d \in Agent : d # a => Still(d)
    BY <1>1, <1>2 DEF DropAgent, TypeOK, Still, Answers
  <1>4. \A d \in Child : Calm(d)
    BY <1>1, <1>2 DEF Calm, MarkDone, TypeOK, Child
  <1>5. Reported(a)' = Reported(a) /\ Unreported(a)' = {}
    BY <1>1, EmptyHeld DEF Reported, Unreported
  <1>6. Blocks(a)'
    BY <1>1, <1>4, <1>5 DEF Books, Blocks, Calm
  <1>7. Accounts(a)'
    BY <1>2 DEF Accounts, Answers
  <1>8. Items(a)'
    <2>1. \A i \in DOMAIN blocks[a] : blocks[a][i].child \in Child
      BY DEF Books, Blocks, Reported
    <2> QED BY <1>1, <1>4, <2>1 DEF Books, Items, Calm
  <1> QED BY <1>3, <1>4, <1>6, <1>7, <1>8, BooksKept DEF Books

LEMMA EndBooks ==
  ASSUME BookInv, NEW a \in Agent, End(a)
  PROVE  \A b \in Agent : Books(b)'
  <1> USE DEF BookInv, TrackInv, GuardInv, Shape
  <1>1. CASE OtherTool(a)
    BY <1>1, HeardCalm, IdleBooks DEF OtherTool
  <1>2. ASSUME NEW ok \in BOOLEAN, TurnEnds(a, ok) PROVE \A b \in Agent : Books(b)'
    <2>1. \A b \in Agent :
            phase'[b] = phase[b] \/ {phase[b], phase'[b]} \cap {"waiting", "cleanup"} = {}
      BY <1>2 DEF TurnEnds, Thinking, TypeOK
    <2>2. \A c \in Child : task[c] = "ok" /\ snap[c] = "completed" => snap'[c] = "completed"
      BY <1>2, HeardCalm DEF TurnEnds, Thinking, CanStep, TypeOK, Child
    <2> QED BY <1>2, <2>1, <2>2, IdleBooks DEF TurnEnds
  <1>3. CASE RunReturns(a)
    <2>1. PICK end \in Ended : DropAgent(a, end)
      BY <1>3 DEF RunReturns, Ended
    <2> QED BY <1>3, <2>1, DropBooks DEF RunReturns
  <1>4. CASE Panics(a) \/ AbortLands(a)
    BY <1>4, DropBooks DEF Panics, AbortLands, Ended, Thinking
  <1> QED BY <1>1, <1>2, <1>3, <1>4 DEF End

LEMMA InterruptBooks ==
  ASSUME BookInv, Interrupt
  PROVE  \A b \in Agent : Books(b)'
  <1> USE DEF BookInv, TrackInv, GuardInv, Shape
  <1>0. Root \in Agent
    BY TreeAssumption
  <1>1. CASE UserCancels \/ TurnInterrupted
    BY <1>1, IdleBooks DEF UserCancels, TurnInterrupted
  <1>2. CASE ToolInterrupted
    <2>1. /\ held'[Root] = << >> /\ phase'[Root] = "thinking"
          /\ UNCHANGED <<status, task, children, blocks, snap, interrupts>>
      BY <1>0, <1>2 DEF ToolInterrupted, TypeOK
    <2>2. \A b \in Agent : b # Root => Still(b)
      BY <1>2, <2>1 DEF ToolInterrupted, TypeOK, Still, Answers, Alive
    <2>3. \A c \in Child : Calm(c)
      BY <2>1 DEF Calm
    <2>4. Reported(Root)' = Reported(Root) /\ Unreported(Root)' = {}
      BY <2>1, EmptyHeld DEF Reported, Unreported
    <2>5. Blocks(Root)'
      BY <1>0, <2>1, <2>4 DEF Books, Blocks
    <2>6. Accounts(Root)'
      BY <1>2, <2>1 DEF ToolInterrupted, Order, Accounts, Answers
    <2>7. Items(Root)'
      BY <1>0, <2>1 DEF Books, Items
    <2> QED BY <1>0, <2>2, <2>3, <2>5, <2>6, <2>7, BooksKept DEF Books
  <1> QED BY <1>1, <1>2 DEF Interrupt
-----------------------------------------------------------------------------
(* The invariant. *)

LEMMA OrderStep ==
  ASSUME BookInv, [Next]_vars
  PROVE  Order'
  <1> USE DEF BookInv, TrackInv, GuardInv, Shape
  <1>0. Root \in Agent
    BY TreeAssumption
  <1>k. Order => \A c \in Child : Parent[c] \in Agent /\ (status[c] # "absent" => task[Parent[c]] # "none")
    BY ParentDiffers DEF Order
  <1>1. ASSUME NEW a \in Agent, Fork(a) PROVE Order'
    <2>1. interrupts' = interrupts /\ task[a] # "none"
      BY <1>1 DEF Fork, ForkRefused, ForkConflict, ForkReserved, SetupFails, ReleaseSlot, SpawnChild,
         Thinking, CanStep
    <2>2. \A c \in Agent : task[c] # "none" => task'[c] # "none"
      BY <1>1 DEF Fork, ForkRefused, ForkConflict, ForkReserved, SetupFails, ReleaseSlot, SpawnChild, TypeOK
    <2>3. control'[Root] = "set" => control[Root] = "set"
      BY <1>0, <1>1 DEF Fork, ForkRefused, ForkConflict, ForkReserved, SetupFails, ReleaseSlot,
         SpawnChild, TypeOK
    <2>4. \A c \in Child : status[c] = "absent" /\ status'[c] # "absent" => Parent[c] = a
      <3>1. \A c \in Child : Registered(a)[c] = status[c]
        BY <2>1 DEF Registered, Idle, Dormant, TypeOK, Child
      <3>2. FreshIds(a) # {} => NextChildId(a) \in Child /\ Parent[NextChildId(a)] = a
        BY NextChildFacts
      <3>3. \A c \in Child : MarkDone(status, Head(held[a]))[c] # "absent" => status[c] # "absent"
        BY DEF MarkDone, TypeOK, Child
      <3>4. ASSUME NEW s \in ForkScopes, ForkConflict(a, s) \/ ForkReserved(a, s)
            PROVE  \A c \in Child : status[c] = "absent" /\ status'[c] # "absent" => Parent[c] = a
        BY <3>1, <3>2, <3>4, RegisteredType DEF ForkConflict, ForkReserved, Child
      <3>5. CASE ForkRefused(a) \/ SetupFails(a) \/ ReleaseSlot(a) \/ SpawnChild(a)
        BY <3>1, <3>3, <3>5 DEF ForkRefused, SetupFails, ReleaseSlot, SpawnChild
      <3> QED BY <1>1, <3>4, <3>5 DEF Fork
    <2>5. \A b \in Agent : phase'[b] = "releasing" =>
            phase[b] \in {"setup", "releasing"} /\ held'[b] = held[b]
      <3>1. CASE SetupFails(a)
        BY <3>1 DEF SetupFails, TypeOK
      <3>2. CASE ReleaseSlot(a) \/ SpawnChild(a)
        BY <3>2 DEF ReleaseSlot, SpawnChild, TypeOK
      <3>3. ASSUME NEW s \in ForkScopes, ForkReserved(a, s)
            PROVE  \A b \in Agent : phase'[b] = "releasing" => phase[b] = "releasing" /\ held'[b] = held[b]
        BY <3>3 DEF ForkReserved, TypeOK
      <3>4. CASE ForkRefused(a) \/ \E s \in ForkScopes : ForkConflict(a, s)
        BY <3>4 DEF ForkRefused, ForkConflict
      <3> QED BY <1>1, <3>1, <3>2, <3>3, <3>4 DEF Fork
    <2> QED BY <1>k, <2>1, <2>2, <2>3, <2>4, <2>5 DEF Order, Owned, SetupSingle
  <1>2. ASSUME NEW a \in Agent, Wait(a) \/ Cancel(a) \/ End(a) PROVE Order'
    <2>1. \A c \in Child : status'[c] # "absent" => status[c] # "absent"
      <3>1. \A c \in Child : \A d : MarkDone(status, d)[c] # "absent" => status[c] # "absent"
        BY DEF MarkDone, TypeOK, Child
      <3> QED BY <1>2, <3>1
              DEF Wait, WaitBegin, CollectFinished, CleanupFinished, WaitDeadline, Cancel, CancelTracked,
                  CancelUntracked, End, OtherTool, TurnEnds, RunReturns, Panics, AbortLands
    <2>2. \A c \in Agent : task[c] # "none" => task'[c] # "none"
      <3>1. CASE Wait(a)
        BY <3>1 DEF Wait, WaitBegin, CollectFinished, CleanupFinished, WaitDeadline
      <3>2. CASE Cancel(a)
        BY <3>2 DEF Cancel, CancelTracked, CancelUntracked, Aborted
      <3>3. CASE End(a)
        BY <3>3 DEF End, OtherTool, TurnEnds, RunReturns, Panics, AbortLands, DropAgent, Aborted, TypeOK
      <3> QED BY <1>2, <3>1, <3>2, <3>3
    <2>3. \A b \in Agent : phase'[b] = "releasing" => phase[b] = "releasing" /\ held'[b] = held[b]
      <3>1. CASE Wait(a)
        BY <3>1 DEF Wait, WaitBegin, CollectFinished, CleanupFinished, WaitDeadline, TypeOK
      <3>2. CASE Cancel(a)
        BY <3>2 DEF Cancel, CancelTracked, CancelUntracked, TypeOK
      <3>3. CASE End(a)
        BY <3>3 DEF End, OtherTool, TurnEnds, RunReturns, Panics, AbortLands, DropAgent, TypeOK
      <3> QED BY <1>2, <3>1, <3>2, <3>3
    <2>4. interrupts' = interrupts /\ (control'[Root] = "set" => control[Root] = "set")
      <3>1. CASE Wait(a)
        BY <1>0, <3>1 DEF Wait, WaitBegin, CollectFinished, CleanupFinished, WaitDeadline, TypeOK
      <3>2. CASE Cancel(a)
        BY <1>0, <3>2 DEF Cancel, CancelTracked, CancelUntracked, CancelRequested, Child
      <3>3. CASE End(a)
        BY <3>3 DEF End, OtherTool, TurnEnds, RunReturns, Panics, AbortLands, DropAgent
      <3> QED BY <1>2, <3>1, <3>2, <3>3
    <2> QED BY <1>k, <2>1, <2>2, <2>3, <2>4 DEF Order
  <1>3. CASE Interrupt
    <2>1. /\ UNCHANGED <<status, task>>
          /\ \A b \in Agent : phase'[b] = "releasing" => phase[b] = "releasing" /\ held'[b] = held[b]
          /\ control'[Root] = "set" => interrupts' # 0
      BY <1>0, <1>3 DEF Interrupt, UserCancels, ToolInterrupted, TurnInterrupted, TypeOK, Order
    <2> QED BY <2>1 DEF Order
  <1>4. CASE UNCHANGED vars
    BY <1>4 DEF vars, Order
  <1> QED BY <1>1, <1>2, <1>3, <1>4 DEF Next, Quiescent

LEMMA BookInvInit == ASSUME Init PROVE BookInv
  <1>1. TrackInv
    BY TrackInvInit
  <1>2. Order
    BY TreeAssumption DEF Init, Order, Child
  <1>3. ASSUME NEW a \in Agent PROVE Books(a)
    <2>1. DOMAIN blocks[a] = {} /\ DOMAIN held[a] = {} /\ Reported(a) = {}
      BY DEF Init, Reported
    <2> QED BY <2>1 DEF Init, Books, Blocks, Accounts, Items, Child
  <1> QED BY <1>1, <1>2, <1>3 DEF BookInv

LEMMA BookInvStep ==
  ASSUME BookInv, [Next]_vars
  PROVE  BookInv'
  <1>1. TrackInv'
    BY TrackInvStep DEF BookInv
  <1>2. Order'
    BY OrderStep
  <1>3. CASE UNCHANGED vars
    <2>1. \A b \in Agent : Still(b)
      BY <1>3 DEF vars, Still, Answers, Alive
    <2>2. \A c \in Child : Calm(c)
      BY <1>3 DEF vars, Calm
    <2> QED BY <1>1, <1>2, <2>1, <2>2, BooksQuiet DEF BookInv
  <1>4. ASSUME NEW a \in Agent, Fork(a) \/ Wait(a) \/ Cancel(a) \/ End(a) PROVE BookInv'
    <2>1. \A b \in Agent : Books(b)'
      BY <1>4, ForkBooks, WaitBooks, CancelBooks, EndBooks
    <2> QED BY <1>1, <1>2, <2>1 DEF BookInv
  <1>5. CASE Interrupt
    BY <1>1, <1>2, <1>5, InterruptBooks DEF BookInv
  <1> QED BY <1>3, <1>4, <1>5 DEF Next, Quiescent

-----------------------------------------------------------------------------
(* The theorems. *)

LEMMA BooksHold == Spec => []BookInv
  BY BookInvInit, BookInvStep, PTL DEF Spec

\* A live parent holds each child it ever spawned or has pushed one block for
\* it, never both kinds twice; only the user's interrupt of the root makes it
\* lose one (fork.rs wait and cancel).
THEOREM EachChildOnce == Spec => []ChildAccounting
  <1>1. BookInv => ChildAccounting
    <2> SUFFICES ASSUME BookInv, NEW c \in Child
                 PROVE  /\ Cardinality(BlocksOf(Parent[c], c)) <= 1
                        /\ c \in children[Parent[c]] => BlocksOf(Parent[c], c) = {}
                        /\ task[c] # "none" /\ Alive(Parent[c]) /\ (Parent[c] # Root \/ interrupts = 0)
                             => c \in Tracked(Parent[c]) \/ BlocksOf(Parent[c], c) # {}
      BY DEF ChildAccounting
    <2>1. PICK p \in Agent : p = Parent[c] /\ Books(p)
      BY ParentDiffers DEF BookInv
    <2>2. BlocksOf(p, c) # {} <=> c \in Reported(p)
      BY DEF BlocksOf, Reported
    <2>3. BlocksOf(p, c) = {} \/ \E i : BlocksOf(p, c) = {i}
      BY <2>1 DEF BlocksOf, Books, Blocks
    <2>4. Cardinality(BlocksOf(p, c)) \in {0, 1}
      <3>1. CASE BlocksOf(p, c) = {}
        BY <3>1, FS_EmptySet
      <3>2. ASSUME NEW i, BlocksOf(p, c) = {i} PROVE Cardinality(BlocksOf(p, c)) = 1
        BY <3>2, FS_Singleton
      <3> QED BY <2>3, <3>1, <3>2
    <2> QED BY <2>1, <2>2, <2>4 DEF Books, Blocks, Accounts, Answers
  <1> QED BY <1>1, BooksHold, PTL

\* Items are collected only from children that ended well and are shown as
\* completed, and no slot of a live parent is lost (fork.rs wait and setup,
\* manager.rs mark_done).
THEOREM ChildrenAreCounted == Spec => []ChildrenCounted
  <1>1. BookInv => ChildrenCounted
    <2> SUFFICES ASSUME BookInv PROVE ItemsFromFinished /\ SlotsAccounted
      BY DEF ChildrenCounted
    <2>1. ItemsFromFinished
      BY DEF BookInv, Books, Items, ItemsFromFinished
    <2>2. SlotsAccounted
      BY ParentDiffers DEF BookInv, Books, Accounts, Answers, SlotsAccounted
    <2> QED BY <2>1, <2>2
  <1> QED BY <1>1, BooksHold, PTL
-----------------------------------------------------------------------------
(* The tool calls of one agent (Calls). *)

\* The guidance of the next request.
Coming == IF slot = None THEN prompt ELSE slot

\* What the last call that ran found is in it, before the response is over too, and so
\* is an alert that no later call wrote over.
Told ==
  /\ linked /\ ran =>
       /\ repeats >= Threshold \/ still >= Threshold => "nudge" \in Coming
       /\ Calls!Warned => "warning" \in Coming
  /\ alert = "stands" => "alert" \in Coming

\* An entry shows the page it is keyed by, unless it was taken of another one.
Filed ==
  cache # None => \A k \in DOMAIN cache : k[2] \notin blind => cache[k] = k[2]

Shown == answer # None /\ known \notin blind => answer = known

\* The inductive invariant.
CallInv == Told /\ Filed /\ Shown

\* Guards speak in turn, and a later one takes the place of planning only.
LEMMA GuidanceHas ==
  /\ Calls!Guidance \in SUBSET Calls!Note
  /\ Calls!Looping => "nudge" \in Calls!Guidance
  /\ Calls!Warned => "warning" \in Calls!Guidance
  /\ Calls!Alerts => "alert" \in Calls!Guidance
  <1> DEFINE nudge == IF Calls!Looping THEN {"nudge"} ELSE {}
             plan == IF Interval = 0 THEN {}
                     ELSE IF step' = 0 THEN {"checkpoint"} ELSE {"onestep"}
             rate == IF text \notin {"low", "sure"} THEN {}
                     ELSE IF Calls!Alerts THEN {"rate", "alert"} ELSE {"rate"}
             warning == IF Calls!Warned THEN {"warning"} ELSE {}
  <1>1. nudge \in SUBSET Calls!Note /\ (Calls!Looping => "nudge" \in nudge)
    BY DEF Calls!Note
  <1>2. plan \in SUBSET Calls!Note
    BY DEF Calls!Note, Calls!Planning
  <1>3. rate \in SUBSET Calls!Note /\ (Calls!Alerts => "alert" \in rate)
    BY DEF Calls!Note, Calls!Planning, Calls!Alerts
  <1>4. warning \in SUBSET Calls!Note /\ (Calls!Warned => "warning" \in warning)
    BY DEF Calls!Note
  <1>5. \A S, T \in SUBSET Calls!Note :
          /\ Calls!Merged(S, T) \in SUBSET Calls!Note /\ T \subseteq Calls!Merged(S, T)
          /\ "nudge" \in S => "nudge" \in Calls!Merged(S, T)
          /\ "alert" \in S => "alert" \in Calls!Merged(S, T)
    BY DEF Calls!Merged, Calls!Planning
  <1>6. Calls!Guidance = Calls!Merged(Calls!Merged(Calls!Merged(nudge, plan), rate), warning)
    BY DEF Calls!Guidance
  <1> HIDE DEF nudge, plan, rate, warning
  <1>7. Calls!Merged(nudge, plan) \in SUBSET Calls!Note
        /\ (Calls!Looping => "nudge" \in Calls!Merged(nudge, plan))
    BY <1>1, <1>2, <1>5
  <1>8. Calls!Merged(Calls!Merged(nudge, plan), rate) \in SUBSET Calls!Note
        /\ (Calls!Looping => "nudge" \in Calls!Merged(Calls!Merged(nudge, plan), rate))
        /\ (Calls!Alerts => "alert" \in Calls!Merged(Calls!Merged(nudge, plan), rate))
    BY <1>3, <1>5, <1>7
  <1> QED BY <1>4, <1>5, <1>6, <1>8

\* The steps that leave guidance and verdicts alone.
LEMMA SameTold ==
  ASSUME Told, UNCHANGED <<linked, mode, spent, ran, alert, repeats, still, slot, prompt>>
  PROVE  Told'
  BY DEF Told, Coming, Calls!Warned, Calls!Blocked, Calls!Cost

\* Entries go, none comes and no page changes its name.
LEMMA FewerFiled ==
  ASSUME Filed, blind' = blind,
         \/ cache' = cache
         \/ cache' = << >>
         \/ \E k : cache' = [x \in DOMAIN cache \ {k} |-> cache[x]] /\ cache # None
  PROVE  Filed'
  <1>1. CASE cache' = cache
    BY <1>1 DEF Filed
  <1>2. CASE cache' = << >>
    BY <1>2 DEF Filed
  <1>3. ASSUME NEW k, cache' = [x \in DOMAIN cache \ {k} |-> cache[x]], cache # None PROVE Filed'
    BY <1>3 DEF Filed
  <1> QED BY <1>1, <1>2, <1>3

LEMMA CallStep ==
  ASSUME CallInv, Calls!Next
  PROVE  CallInv'
  <1> USE DEF CallInv
  <1>1. ASSUME NEW n \in 0 .. MaxBatch, NEW rating \in {"low", "sure", "plain"},
               Calls!Request(n, rating)
        PROVE  CallInv'
    BY <1>1 DEF Calls!Request, Calls!site, Told, Filed, Shown
  <1>2. CASE Calls!Fails
    <2>1. Told'
      BY <1>2, SameTold DEF Calls!Fails, Calls!Begins, Calls!mind
    <2>2. Filed'
      BY <1>2, FewerFiled DEF Calls!Fails, Calls!Opened
    <2> QED BY <1>2, <2>1, <2>2 DEF Calls!Fails, Shown
  <1>3. ASSUME NEW t \in Calls!Tool, Calls!FromCache(t) PROVE CallInv'
    <2>1. Told'
      BY <1>3, SameTold DEF Calls!FromCache, Calls!Begins, Calls!mind
    <2>2. Filed'
      BY <1>3 DEF Calls!FromCache, Filed
    <2>3. Shown'
      BY <1>3 DEF Calls!FromCache, Calls!Hit, Filed, Shown
    <2> QED BY <2>1, <2>2, <2>3
  <1>4. ASSUME NEW t \in Calls!Tool, Calls!Runs(t) PROVE CallInv'
    <2>1. Told'
      <3>1. /\ UNCHANGED <<linked, mode, spent, prompt>>
            /\ slot' = IF Calls!Guidance = {} THEN slot ELSE Calls!Guidance
            /\ alert' = CASE Calls!Alerts -> "stands"
                          [] Calls!Guidance # {} /\ alert = "stands" -> "over"
                          [] OTHER -> alert
        BY <1>4 DEF Calls!Runs, Calls!Begins
      <3>2. Calls!Warned' <=> Calls!Warned
        BY <3>1 DEF Calls!Warned, Calls!Blocked, Calls!Cost
      <3>3. repeats' >= Threshold \/ still' >= Threshold => Calls!Looping
        BY DEF Calls!Looping
      <3>4. Calls!Guidance # {} => Coming' = Calls!Guidance
        BY <3>1, GuidanceHas, NoneAssumption DEF Coming
      <3>5. alert' = "stands" => "alert" \in Coming'
        <4>1. CASE Calls!Alerts
          BY <3>4, <4>1, GuidanceHas
        <4>2. CASE ~Calls!Alerts /\ Calls!Guidance # {}
          BY <3>1, <4>2
        <4>3. CASE ~Calls!Alerts /\ Calls!Guidance = {}
          BY <3>1, <4>3 DEF Told, Coming
        <4> QED BY <4>1, <4>2, <4>3
      <3>6. linked' /\ ran' =>
              /\ repeats' >= Threshold \/ still' >= Threshold => "nudge" \in Coming'
              /\ Calls!Warned' => "warning" \in Coming'
        BY <3>2, <3>3, <3>4, GuidanceHas
      <3> QED BY <3>5, <3>6 DEF Told
    <2>2. Filed'
      <3> DEFINE key == <<t, known'>>
      <3>1. Calls!Opened(t) \in {<< >>, cache} /\ Calls!Stores(t)
        BY <1>4 DEF Calls!Runs, Calls!Opened
      <3>2. ASSUME cache' = Calls!Opened(t), blind' = blind PROVE Filed'
        BY <3>1, <3>2, FewerFiled
      <3>3. ASSUME Calls!Opened(t) # None,
                   cache' = [x \in DOMAIN Calls!Opened(t) \cup {key} |->
                              IF x = key THEN page' ELSE Calls!Opened(t)[x]],
                   blind' = IF known' # page' THEN blind \cup {known'} ELSE blind
            PROVE  Filed'
        <4> SUFFICES ASSUME NEW k \in DOMAIN cache', k[2] \notin blind'
                     PROVE  cache'[k] = k[2]
          BY DEF Filed
        <4>1. CASE k = key
          BY <3>3, <4>1
        <4>2. CASE k # key
          <5>1. k \in DOMAIN Calls!Opened(t) /\ cache'[k] = Calls!Opened(t)[k] /\ k[2] \notin blind
            BY <3>3, <4>2
          <5> QED BY <3>1, <3>3, <5>1 DEF Filed
        <4> QED BY <4>1, <4>2
      <3> QED BY <3>1, <3>2, <3>3 DEF Calls!Stores, Calls!Keyed
    <2>3. Shown'
      BY <1>4 DEF Calls!Runs, Shown
    <2> QED BY <2>1, <2>2, <2>3
  <1>5. ASSUME NEW k \in Calls!Cacheable \X Page, Calls!Expires(k) PROVE CallInv'
    <2>1. Told'
      BY <1>5, SameTold DEF Calls!Expires, Calls!mind
    <2>2. Filed'
      BY <1>5, FewerFiled DEF Calls!Expires
    <2> QED BY <1>5, <2>1, <2>2 DEF Calls!Expires, Shown
  <1>6. CASE Calls!Changes
    <2>1. Told'
      BY <1>6, SameTold DEF Calls!Changes, Calls!mind
    <2> QED BY <1>6, <2>1 DEF Calls!Changes, Filed, Shown
  <1> QED BY <1>1, <1>2, <1>3, <1>4, <1>5, <1>6 DEF Calls!Next

\* In AgentsSpec the calls move or stay.
LEMMA CallsHold == AgentsSpec => []CallInv
  <1>1. AgentsInit => CallInv
    BY DEF AgentsInit, Calls!Init, CallInv, Told, Filed, Shown
  <1>2. CallInv /\ UNCHANGED calls => CallInv'
    BY SameTold DEF calls, CallInv, Filed, Shown
  <1>3. CallInv /\ [AgentsNext]_<<part, vars, calls, seen>> => CallInv'
    BY <1>2, CallStep DEF AgentsNext
  <1> QED BY <1>1, <1>3, PTL DEF AgentsSpec

\* The nudge and the warning of the last call of a response that ran, and an alert over
\* low ratings that no later call wrote over, are in the prompt of the next request, and
\* an answer from the cache shows the page it is keyed by, unless that page was cached
\* unseen (agent/src/implementation/mod.rs execute, action_cache.rs).
THEOREM ModelIsToldTheTruth == AgentsSpec => []ModelIsTold
  <1>1. CallInv => ModelIsTold
    BY DEF CallInv, Told, Shown, Coming, ModelIsTold, Calls!GuidanceReaches, Calls!AnswerShowsPage
  <1> QED BY <1>1, CallsHold, PTL

-----------------------------------------------------------------------------
(* What two agents observe of their pages (Seen). *)

EventKind == {"net", "ws", "log"}
EventState == {"pending", "ended"}
Happening == [page : Watcher, kind : EventKind, state : EventState]
EventRec == [kind : EventKind, id : Nat, state : EventState, seq : Nat]

Deed == [at : {"acting", "counted"}, clear : BOOLEAN, fresh : SUBSET Nat, new : Nat]

SeenTypes ==
  /\ live \subseteq Watcher /\ counter \in Nat /\ currentSeq \in Nat
  /\ happened \in Seq(Happening)
  /\ buffer \in [Watcher -> Seq(EventRec)] /\ store \in [Watcher -> Seq(EventRec)]
  /\ printed \in [Watcher -> Seq(Nat)]
  /\ open \in [Watcher -> SUBSET [id : Nat, seq : Nat]]
  /\ since \in [Watcher -> SUBSET Nat]
  /\ clear \in [Watcher -> BOOLEAN]
  /\ doing \in [Watcher -> {Seen!Idle} \cup Deed]

\* An agent that was not forked has seen nothing.
Unborn ==
  \A a \in Watcher \ live :
    buffer[a] = << >> /\ store[a] = << >> /\ printed[a] = << >> /\ open[a] = {}
    /\ doing[a] = Seen!Idle /\ since[a] = {}

\* What has begun stays, and what has ended too.
Grown(h, g) ==
  /\ Len(h) <= Len(g)
  /\ \A i \in 1 .. Len(h) :
       /\ g[i].page = h[i].page /\ g[i].kind = h[i].kind
       /\ h[i].state = "ended" => g[i].state = "ended"

\* The events E are of page a, and "ended" is said of what has ended.
Genuine(h, a, E) ==
  \A e \in E :
    /\ e.id \in 1 .. Len(h) /\ h[e.id].page = a /\ h[e.id].kind = e.kind
    /\ e.state = "ended" => h[e.id].state = "ended"

\* Only the end of a request comes after its beginning.
Follows(e, f) == e.id = f.id => e.state = "pending" /\ f.state = "ended"
InOrder(q) == \A i, j \in 1 .. Len(q) : i < j => Follows(q[i], q[j])
Before(E, F) == \A e \in E, f \in F : Follows(e, f)

Events(a) == ToSet(store[a]) \cup ToSet(buffer[a])

Timely(a) ==
  /\ Genuine(happened, a, Events(a))
  /\ InOrder(store[a]) /\ InOrder(buffer[a]) /\ Before(ToSet(store[a]), ToSet(buffer[a]))

\* A request under way has not ended.
Underway(a) ==
  \A r \in open[a] :
    /\ r.id \in 1 .. Len(happened)
    /\ happened[r.id] = [page |-> a, kind |-> "net", state |-> "pending"]
    /\ \A s \in open[a] : s.id = r.id => s = r

\* What a page has printed has not been drained.
Undrained(a) ==
  /\ \A p \in ToSet(printed[a]) :
       /\ p \in 1 .. Len(happened)
       /\ happened[p] = [page |-> a, kind |-> "log", state |-> "ended"]
       /\ \A e \in Events(a) : e.id # p
  /\ \A i, j \in 1 .. Len(printed[a]) : printed[a][i] = printed[a][j] => i = j

Names(E) == {Seen!Named(e) : e \in E}

\* Where each event is.
Found(i) ==
  \/ [id |-> i, state |-> happened[i].state] \in Names(Events(happened[i].page)) \cup gone
  \/ i \in muted \cup ToSet(printed[happened[i].page])

Placed ==
  /\ \A i \in 1 .. Len(happened) : Found(i)
  /\ \A i \in muted : i \in 1 .. Len(happened) /\ happened[i].kind = "log"

\* The inductive invariant of what is where.
PageInv ==
  SeenTypes /\ Unborn /\ Placed
  /\ \A a \in Watcher : Timely(a) /\ Underway(a) /\ Undrained(a)

\* No event of request i is dated before d.
Dated(a, i, d) ==
  /\ \A e \in Events(a) : e.id = i => e.seq >= d
  /\ \A r \in open[a] : r.id = i => r.seq >= d

Requests(a, I) ==
  \A i \in I : i \in 1 .. Len(happened) /\ happened[i].page = a /\ happened[i].kind = "net"

NobodyCounts == \A b \in live : doing[b].at # "counted"

\* An action nobody else counted in.
Acting(a) ==
  \/ doing[a] = Seen!Idle
  \/ /\ Requests(a, doing[a].fresh)
     /\ doing[a].clear =>
          IF doing[a].at = "acting"
          THEN /\ currentSeq = counter /\ NobodyCounts
               /\ \A i \in doing[a].fresh : Dated(a, i, counter)
          ELSE /\ currentSeq + 1 = counter /\ doing[a].new = counter
               /\ \A b \in live \ {a} : doing[b].at # "counted"
               /\ \A i \in doing[a].fresh : Dated(a, i, counter - 1)

Listed(a) ==
  /\ Requests(a, since[a])
  /\ clear[a] =>
       /\ counter # 0 /\ counter <= currentSeq + 1 /\ NobodyCounts
       /\ \A i \in since[a] : Dated(a, i, counter - 1)

\* The inductive invariant of what is dated how.
DateInv == \A a \in Watcher : Acting(a) /\ Listed(a)

-----------------------------------------------------------------------------
(* Sequences of events. *)

LEMMA ElementsOf ==
  ASSUME NEW S, NEW q \in Seq(S)
  PROVE  ToSet(q) = {q[i] : i \in 1 .. Len(q)} /\ ToSet(q) \subseteq S /\ Len(q) \in Nat
  BY LenProperties DEF ToSet

LEMMA EmptyIs == Len(<< >>) = 0 /\ ToSet(<< >>) = {}
  BY DEF ToSet

LEMMA ConcatIs ==
  ASSUME NEW S, NEW q \in Seq(S), NEW r \in Seq(S)
  PROVE  q \o r \in Seq(S) /\ ToSet(q \o r) = ToSet(q) \cup ToSet(r)
  <1>1. /\ q \o r \in Seq(S) /\ Len(q \o r) = Len(q) + Len(r) /\ Len(q) \in Nat /\ Len(r) \in Nat
        /\ \A i \in 1 .. Len(q) + Len(r) :
             (q \o r)[i] = IF i <= Len(q) THEN q[i] ELSE r[i - Len(q)]
    BY ConcatProperties, LenProperties
  <1>e. /\ ToSet(q) = {q[i] : i \in 1 .. Len(q)} /\ ToSet(r) = {r[i] : i \in 1 .. Len(r)}
        /\ ToSet(q \o r) = {(q \o r)[i] : i \in 1 .. Len(q \o r)}
    BY <1>1, ElementsOf
  <1>2. ToSet(q \o r) \subseteq ToSet(q) \cup ToSet(r)
    <2> SUFFICES ASSUME NEW i \in 1 .. Len(q) + Len(r) PROVE (q \o r)[i] \in ToSet(q) \cup ToSet(r)
      BY <1>1, <1>e
    <2>1. CASE i <= Len(q)
      BY <1>1, <2>1, <1>e
    <2>2. CASE i > Len(q)
      <3>1. i - Len(q) \in 1 .. Len(r)
        BY <1>1, <2>2
      <3> QED BY <1>1, <2>2, <3>1, <1>e
    <2> QED BY <1>1, <2>1, <2>2
  <1>3. ToSet(q) \subseteq ToSet(q \o r)
    <2> SUFFICES ASSUME NEW i \in 1 .. Len(q) PROVE q[i] \in ToSet(q \o r)
      BY <1>e
    <2>1. i \in 1 .. Len(q \o r) /\ (q \o r)[i] = q[i]
      BY <1>1
    <2> QED BY <1>1, <2>1, <1>e
  <1>4. ToSet(r) \subseteq ToSet(q \o r)
    <2> SUFFICES ASSUME NEW i \in 1 .. Len(r) PROVE r[i] \in ToSet(q \o r)
      BY <1>e
    <2>1. i + Len(q) \in 1 .. Len(q \o r) /\ (q \o r)[i + Len(q)] = r[i]
      BY <1>1
    <2> QED BY <1>1, <2>1, <1>e
  <1> QED BY <1>1, <1>2, <1>3, <1>4

LEMMA ConcatInOrder ==
  ASSUME NEW S, NEW q \in Seq(S), NEW r \in Seq(S), InOrder(q), InOrder(r),
         Before(ToSet(q), ToSet(r))
  PROVE  InOrder(q \o r)
  <1>1. /\ Len(q \o r) = Len(q) + Len(r) /\ Len(q) \in Nat /\ Len(r) \in Nat
        /\ \A i \in 1 .. Len(q) + Len(r) :
             (q \o r)[i] = IF i <= Len(q) THEN q[i] ELSE r[i - Len(q)]
    BY ConcatProperties, LenProperties
  <1>e. ToSet(q) = {q[i] : i \in 1 .. Len(q)} /\ ToSet(r) = {r[i] : i \in 1 .. Len(r)}
    BY <1>1, ElementsOf
  <1> SUFFICES ASSUME NEW i \in 1 .. Len(q) + Len(r), NEW j \in 1 .. Len(q) + Len(r), i < j
               PROVE  Follows((q \o r)[i], (q \o r)[j])
    BY <1>1 DEF InOrder
  <1>2. CASE j <= Len(q)
    BY <1>1, <1>2 DEF InOrder
  <1>3. CASE i > Len(q)
    <2>1. i - Len(q) \in 1 .. Len(r) /\ j - Len(q) \in 1 .. Len(r) /\ i - Len(q) < j - Len(q)
      BY <1>1, <1>3
    <2> QED BY <1>1, <1>3, <2>1 DEF InOrder
  <1>4. CASE i <= Len(q) /\ j > Len(q)
    <2>1. j - Len(q) \in 1 .. Len(r) /\ i \in 1 .. Len(q)
      BY <1>1, <1>4
    <2>2. (q \o r)[i] \in ToSet(q) /\ (q \o r)[j] \in ToSet(r)
      BY <1>1, <1>4, <1>e, <2>1
    <2> QED BY <2>2 DEF Before
  <1> QED BY <1>1, <1>2, <1>3, <1>4

LEMMA ConcatBefore ==
  ASSUME NEW E, NEW F, NEW G
  PROVE  /\ Before(E, F \cup G) <=> Before(E, F) /\ Before(E, G)
         /\ Before(E \cup F, G) <=> Before(E, G) /\ Before(F, G)
  BY DEF Before

\* The oldest events make room, and the others stay as they are.
LEMMA KeptIs ==
  ASSUME NEW q \in Seq(EventRec)
  PROVE  /\ Seen!Kept(q) \in Seq(EventRec) /\ ToSet(Seen!Kept(q)) \subseteq ToSet(q)
         /\ Names(ToSet(q)) \subseteq Names(ToSet(Seen!Kept(q))) \cup Seen!PushedOut(q)
         /\ InOrder(q) => InOrder(Seen!Kept(q))
  <1>0. Len(q) \in Nat /\ Capacity \in Nat
    BY LenProperties, SeenAssumption
  <1>1. CASE Len(q) <= Capacity
    BY <1>0, <1>1 DEF Seen!Kept
  <1>2. CASE Len(q) > Capacity
    <2> DEFINE d == Len(q) - Capacity
               k == SubSeq(q, d + 1, Len(q))
    <2>1. d \in Nat /\ d >= 1 /\ d <= Len(q) /\ Seen!Kept(q) = k
      BY <1>0, <1>2 DEF Seen!Kept
    <2>2. k \in Seq(EventRec) /\ Len(k) = Capacity /\ \A i \in 1 .. Capacity : k[i] = q[i + d]
      <3>1. \A i \in d + 1 .. Len(q) : q[i] \in EventRec
        BY <1>0, <2>1, ElementOfSeq
      <3> HIDE DEF k
      <3>2. /\ k \in Seq(EventRec) /\ Len(k) = IF d + 1 <= Len(q) THEN Len(q) - (d + 1) + 1 ELSE 0
            /\ \A i \in 1 .. Len(q) - (d + 1) + 1 : k[i] = q[d + 1 + i - 1]
        BY <1>0, <2>1, <3>1, SubSeqProperties DEF k
      <3> QED BY <1>0, <1>2, <3>2
    <2> HIDE DEF k
    <2>3. \A i \in 1 .. Capacity : i + d \in 1 .. Len(q)
      BY <1>0, <2>1
    <2>4. ToSet(k) \subseteq ToSet(q)
      BY <2>2, <2>3, ElementsOf
    <2>5. InOrder(q) => InOrder(k)
      <3> SUFFICES ASSUME InOrder(q), NEW i \in 1 .. Capacity, NEW j \in 1 .. Capacity, i < j
                   PROVE  Follows(k[i], k[j])
        BY <2>2 DEF InOrder
      <3>1. i + d < j + d
        BY <1>0, <2>1
      <3> QED BY <2>2, <2>3, <3>1 DEF InOrder
    <2>6. Names(ToSet(q)) \subseteq Names(ToSet(k)) \cup Seen!PushedOut(q)
      <3> SUFFICES ASSUME NEW i \in 1 .. Len(q)
                   PROVE  Seen!Named(q[i]) \in Names(ToSet(k)) \cup Seen!PushedOut(q)
        BY ElementsOf DEF Names
      <3>1. CASE i <= d
        BY <1>0, <2>1, <3>1 DEF Seen!PushedOut
      <3>2. CASE i > d
        <4>1. i - d \in 1 .. Capacity /\ k[i - d] = q[i]
          BY <1>0, <2>1, <2>2, <3>2
        <4>2. q[i] \in ToSet(k)
          BY <2>2, <4>1, ElementsOf
        <4> QED BY <4>2 DEF Names
      <3> QED BY <1>0, <2>1, <3>1, <3>2
    <2> QED BY <2>1, <2>2, <2>4, <2>5, <2>6
  <1> QED BY <1>0, <1>1, <1>2
-----------------------------------------------------------------------------
(* The parts of a step. *)

LEMMA HappenedIs ==
  ASSUME SeenTypes
  PROVE  /\ Len(happened) \in Nat /\ Seen!Number = Len(happened) + 1
         /\ \A i \in 1 .. Len(happened) :
              /\ happened[i] \in Happening /\ happened[i].page \in Watcher
              /\ happened[i].kind \in EventKind /\ happened[i].state \in EventState
  <1>1. Len(happened) \in Nat /\ \A i \in 1 .. Len(happened) : happened[i] \in Happening
    BY LenProperties, ElementOfSeq DEF SeenTypes
  <1> QED BY <1>1 DEF Seen!Number, Happening

\* Something begins.
LEMMA BeginsIs ==
  ASSUME SeenTypes, NEW a \in Watcher, NEW k \in EventKind, NEW s \in EventState,
         Seen!Begins(a, k, s)
  PROVE  /\ happened' \in Seq(Happening) /\ Len(happened') = Len(happened) + 1
         /\ \A i \in 1 .. Len(happened) : happened'[i] = happened[i]
         /\ happened'[Len(happened) + 1] = [page |-> a, kind |-> k, state |-> s]
         /\ Grown(happened, happened') /\ a \in live
  <1>1. [page |-> a, kind |-> k, state |-> s] \in Happening
    BY DEF Happening
  <1>2. /\ happened' \in Seq(Happening) /\ Len(happened') = Len(happened) + 1
        /\ \A i \in 1 .. Len(happened) : happened'[i] = happened[i]
        /\ happened'[Len(happened) + 1] = [page |-> a, kind |-> k, state |-> s]
    BY <1>1, AppendProperties DEF Seen!Begins, SeenTypes
  <1> QED BY <1>2, HappenedIs DEF Grown, Seen!Begins

LEMMA GenuineGrown ==
  ASSUME NEW h, NEW g, NEW a, NEW E, Len(h) \in Nat, Len(g) \in Nat, Grown(h, g), Genuine(h, a, E)
  PROVE  Genuine(g, a, E)
  BY DEF Grown, Genuine

\* A page whose buffer and whose past a step leaves alone.
LEMMA OtherPage ==
  ASSUME PageInv, Grown(happened, happened'), Len(happened') \in Nat, NEW b \in Watcher,
         buffer'[b] = buffer[b], store'[b] = store[b], printed'[b] = printed[b],
         \A i \in 1 .. Len(happened) : happened[i].page = b => happened'[i] = happened[i]
  PROVE  /\ Timely(b)' /\ Undrained(b)' /\ Events(b)' = Events(b)
         /\ open'[b] = open[b] => Underway(b)'
  <1> USE DEF PageInv
  <1>1. Events(b)' = Events(b)
    BY DEF Events
  <1>2. Len(happened) \in Nat
    BY HappenedIs
  <1>3. Timely(b)'
    <2>1. Genuine(happened', b, Events(b))
      BY <1>2, GenuineGrown DEF Timely
    <2> QED BY <1>1, <2>1 DEF Timely
  <1>4. \A i \in 1 .. Len(happened) : i \in 1 .. Len(happened')
    BY <1>2 DEF Grown
  <1>5. open'[b] = open[b] => Underway(b)'
    BY <1>4 DEF Underway
  <1>6. Undrained(b)'
    <2>1. Undrained(b) /\ printed'[b] = printed[b]
      OBVIOUS
    <2>2. \A p \in ToSet(printed[b]) :
            p \in 1 .. Len(happened') /\ happened'[p] = [page |-> b, kind |-> "log", state |-> "ended"]
      BY <1>4, <2>1 DEF Undrained
    <2> HIDE DEF PageInv
    <2> QED BY <1>1, <2>1, <2>2 DEF Undrained
  <1> QED BY <1>1, <1>3, <1>5, <1>6

\* An event that stays what it is stays where it is, or moves on.
LEMMA FoundKept ==
  ASSUME PageInv, NEW i \in 1 .. Len(happened), NEW a \in Watcher, happened[i].page = a,
         happened'[i] = happened[i], gone \subseteq gone', muted \subseteq muted',
         Names(Events(a)) \subseteq Names(Events(a)') \cup gone',
         \A p \in ToSet(printed[a]) :
           p \in ToSet(printed'[a])
             \/ [id |-> p, state |-> "ended"] \in Names(Events(a)') \cup gone'
  PROVE  Found(i)'
  <1>1. Found(i)
    BY DEF PageInv, Placed
  <1>2. CASE [id |-> i, state |-> happened[i].state] \in Names(Events(a)) \cup gone \/ i \in muted
    BY <1>2 DEF Found, Events
  <1>3. CASE i \in ToSet(printed[a])
    <2>1. happened[i].state = "ended"
      <3>1. Undrained(a)
        BY DEF PageInv
      <3>2. happened[i] = [page |-> a, kind |-> "log", state |-> "ended"]
        BY <1>3, <3>1 DEF Undrained
      <3> QED BY <3>2
    <2>2. \/ i \in ToSet(printed'[a])
          \/ [id |-> i, state |-> happened'[i].state] \in Names(Events(a)') \cup gone'
      BY <1>3, <2>1
    <2> QED BY <2>2 DEF Found, Events
  <1> QED BY <1>1, <1>2, <1>3 DEF Found

\* New events in the buffer of a page.
LEMMA BuffersIs ==
  ASSUME PageInv, NEW a \in Watcher, NEW events \in Seq(EventRec), Seen!Buffers(a, events),
         store' = store, InOrder(events), Before(Events(a), ToSet(events))
  PROVE  /\ buffer' \in [Watcher -> Seq(EventRec)]
         /\ \A b \in Watcher : b # a => buffer'[b] = buffer[b]
         /\ InOrder(store'[a]) /\ InOrder(buffer'[a]) /\ Before(ToSet(store'[a]), ToSet(buffer'[a]))
         /\ Events(a)' \subseteq Events(a) \cup ToSet(events)
         /\ Names(Events(a)) \subseteq Names(Events(a)') \cup gone'
         /\ Names(ToSet(events)) \subseteq Names(Events(a)') \cup gone'
         /\ gone \subseteq gone'
  <1> DEFINE q == buffer[a] \o events
             k == Seen!Kept(q)
  <1>1. buffer[a] \in Seq(EventRec) /\ store[a] \in Seq(EventRec)
    BY DEF PageInv, SeenTypes
  <1>2. q \in Seq(EventRec) /\ ToSet(q) = ToSet(buffer[a]) \cup ToSet(events)
    BY <1>1, ConcatIs
  <1>3. InOrder(q)
    <2>1. Before(ToSet(buffer[a]), ToSet(events))
      BY ConcatBefore DEF Events
    <2>2. InOrder(buffer[a])
      BY DEF PageInv, Timely
    <2> QED BY <1>1, <2>1, <2>2, ConcatInOrder
  <1>4. Before(ToSet(store[a]), ToSet(q))
    <2>1. Before(ToSet(store[a]), ToSet(buffer[a]))
      BY DEF PageInv, Timely
    <2>2. Before(ToSet(store[a]), ToSet(events))
      BY ConcatBefore DEF Events
    <2> HIDE DEF q
    <2> QED BY <1>2, <2>1, <2>2 DEF Before
  <1>5. /\ buffer' = [buffer EXCEPT ![a] = k]
        /\ gone' = gone \cup Seen!PushedOut(q)
    BY DEF Seen!Buffers
  <1> HIDE DEF q
  <1>6. /\ k \in Seq(EventRec) /\ ToSet(k) \subseteq ToSet(q) /\ InOrder(k)
        /\ Names(ToSet(q)) \subseteq Names(ToSet(k)) \cup Seen!PushedOut(q)
    BY <1>2, <1>3, KeptIs
  <1> HIDE DEF k
  <1>7. buffer' \in [Watcher -> Seq(EventRec)] /\ buffer'[a] = k
        /\ \A b \in Watcher : b # a => buffer'[b] = buffer[b]
    BY <1>5, <1>6 DEF PageInv, SeenTypes
  <1>8. Events(a)' = ToSet(store[a]) \cup ToSet(k)
    BY <1>7 DEF Events
  <1>9. Before(ToSet(store[a]), ToSet(k))
    BY <1>4, <1>6 DEF Before
  <1>10. \A E, F : Names(E \cup F) = Names(E) \cup Names(F)
    BY DEF Names
  <1>11. Names(Events(a)) \subseteq Names(Events(a)') \cup gone'
         /\ Names(ToSet(events)) \subseteq Names(Events(a)') \cup gone'
    <2>1. Names(Events(a)) = Names(ToSet(store[a])) \cup Names(ToSet(buffer[a]))
          /\ Names(Events(a)') = Names(ToSet(store[a])) \cup Names(ToSet(k))
          /\ Names(ToSet(q)) = Names(ToSet(buffer[a])) \cup Names(ToSet(events))
      BY <1>2, <1>8, <1>10 DEF Events
    <2> QED BY <1>5, <1>6, <2>1
  <1> QED BY <1>2, <1>5, <1>6, <1>7, <1>8, <1>9, <1>11 DEF PageInv, Timely, Events
-----------------------------------------------------------------------------
(* The pages. *)

\* A new event of a kind that is buffered.
LEMMA EventBegins ==
  ASSUME PageInv, NEW a \in Watcher, NEW k \in {"net", "ws"}, NEW s \in EventState,
         Seen!Begins(a, k, s), store' = store, printed' = printed,
         Seen!Buffers(a, <<Seen!Event(k, Seen!Number, s, currentSeq)>>)
  PROVE  /\ buffer' \in [Watcher -> Seq(EventRec)]
         /\ \A b \in Watcher : Timely(b)' /\ Undrained(b)'
         /\ \A b \in Watcher : b # a => buffer'[b] = buffer[b]
         /\ \A i \in 1 .. Len(happened') : muted' = muted => Found(i)'
         /\ Events(a)' \subseteq Events(a) \cup {Seen!Event(k, Seen!Number, s, currentSeq)}
  <1> DEFINE n == Len(happened) + 1
             e == Seen!Event(k, n, s, currentSeq)
             events == <<e>>
  <1>n. n = Seen!Number /\ n \in Nat /\ Len(happened) \in Nat
    BY HappenedIs DEF PageInv
  <1>1. /\ happened' \in Seq(Happening) /\ Len(happened') = n
        /\ \A i \in 1 .. Len(happened) : happened'[i] = happened[i]
        /\ happened'[n] = [page |-> a, kind |-> k, state |-> s]
        /\ Grown(happened, happened') /\ a \in live
    BY BeginsIs DEF PageInv, EventKind
  <1>2. e \in EventRec /\ e.id = n /\ e.kind = k /\ e.state = s
    BY <1>n DEF Seen!Event, EventRec, EventKind, PageInv, SeenTypes
  <1> HIDE DEF e
  <1>3. events \in Seq(EventRec) /\ ToSet(events) = {e} /\ InOrder(events)
    BY <1>2 DEF ToSet, InOrder
  <1>4. \A f \in Events(a) : f.id # n
    BY <1>n DEF PageInv, Timely, Genuine
  <1>5. Before(Events(a), ToSet(events))
    BY <1>2, <1>3, <1>4 DEF Before, Follows
  <1>6. Seen!Buffers(a, events)
    BY <1>n DEF e
  <1> HIDE DEF events
  <1>7. /\ buffer' \in [Watcher -> Seq(EventRec)]
        /\ \A b \in Watcher : b # a => buffer'[b] = buffer[b]
        /\ InOrder(store'[a]) /\ InOrder(buffer'[a]) /\ Before(ToSet(store'[a]), ToSet(buffer'[a]))
        /\ Events(a)' \subseteq Events(a) \cup ToSet(events)
        /\ Names(Events(a)) \subseteq Names(Events(a)') \cup gone'
        /\ Names(ToSet(events)) \subseteq Names(Events(a)') \cup gone'
        /\ gone \subseteq gone'
    BY <1>3, <1>5, <1>6, BuffersIs
  <1>8. Timely(a)'
    <2>1. Genuine(happened', a, Events(a))
      BY <1>1, <1>n, GenuineGrown DEF PageInv, Timely
    <2>2. Genuine(happened', a, {e})
      BY <1>1, <1>2, <1>n DEF Genuine
    <2> QED BY <1>3, <1>7, <2>1, <2>2 DEF Timely, Genuine
  <1>9. Undrained(a)'
    <2>1. Undrained(a) /\ printed'[a] = printed[a]
      BY DEF PageInv
    <2>2. \A p \in ToSet(printed[a]) :
            /\ p \in 1 .. Len(happened') /\ p # n
            /\ happened'[p] = [page |-> a, kind |-> "log", state |-> "ended"]
      BY <1>1, <1>n, <2>1 DEF Undrained
    <2> QED BY <1>2, <1>3, <1>7, <2>1, <2>2 DEF Undrained
  <1>10. ASSUME NEW b \in Watcher, b # a PROVE Timely(b)' /\ Undrained(b)'
    <2>1. \A i \in 1 .. Len(happened) : happened[i].page = b => happened'[i] = happened[i]
      BY <1>1
    <2>2. buffer'[b] = buffer[b] /\ store'[b] = store[b] /\ printed'[b] = printed[b]
      BY <1>7, <1>10
    <2> QED BY <1>1, <1>n, <2>1, <2>2, OtherPage
  <1>11. ASSUME NEW i \in 1 .. Len(happened'), muted' = muted PROVE Found(i)'
    <2>1. CASE i = n
      <3>1. happened'[i].page = a /\ happened'[i].state = s
        BY <1>1, <2>1
      <3>2. Seen!Named(e) = [id |-> i, state |-> s]
        BY <1>2, <2>1 DEF Seen!Named
      <3>3. Seen!Named(e) \in Names(Events(a)') \cup gone'
        BY <1>3, <1>7 DEF Names
      <3> QED BY <3>1, <3>2, <3>3 DEF Found, Events
    <2>2. CASE i \in 1 .. Len(happened)
      <3>1. PICK b \in Watcher : happened[i].page = b
        BY <2>2, HappenedIs DEF PageInv
      <3>2. Names(Events(b)) \subseteq Names(Events(b)') \cup gone'
        <4>1. CASE b = a
          BY <1>7, <4>1 DEF Events
        <4>2. CASE b # a
          <5>1. Events(b)' = Events(b)
            BY <1>7, <3>1, <4>2 DEF Events
          <5> QED BY <5>1
        <4> QED BY <4>1, <4>2
      <3>3. happened'[i] = happened[i]
        BY <1>1, <2>2
      <3> QED BY <1>7, <1>11, <2>2, <3>1, <3>2, <3>3, FoundKept
    <2> QED BY <1>1, <1>n, <2>1, <2>2
  <1> QED BY <1>3, <1>7, <1>8, <1>9, <1>10, <1>11, <1>n DEF e

\* A step of page a: the others stay as they are.
LEMMA PagesStep ==
  ASSUME PageInv, NEW a \in live, live' = live, SeenTypes', Grown(happened, happened'),
         \A b \in Watcher \ {a} :
           /\ buffer'[b] = buffer[b] /\ store'[b] = store[b] /\ printed'[b] = printed[b]
           /\ open'[b] = open[b] /\ since'[b] = since[b]
           /\ doing[b] = Seen!Idle => doing'[b] = Seen!Idle,
         \A i \in 1 .. Len(happened) : happened[i].page # a => happened'[i] = happened[i],
         Timely(a)', Underway(a)', Undrained(a)', Placed'
  PROVE  PageInv'
  <1>1. Len(happened') \in Nat
    BY LenProperties DEF SeenTypes
  <1>2. ASSUME NEW b \in Watcher, b # a PROVE Timely(b)' /\ Underway(b)' /\ Undrained(b)'
    <2>1. \A i \in 1 .. Len(happened) : happened[i].page = b => happened'[i] = happened[i]
      BY <1>2
    <2>2. /\ buffer'[b] = buffer[b] /\ store'[b] = store[b] /\ printed'[b] = printed[b]
          /\ open'[b] = open[b]
      BY <1>2
    <2> QED BY <1>1, <2>1, <2>2, OtherPage
  <1>3. Unborn'
    <2> SUFFICES ASSUME NEW b \in Watcher \ live
                 PROVE  /\ buffer'[b] = << >> /\ store'[b] = << >> /\ printed'[b] = << >>
                        /\ open'[b] = {} /\ doing'[b] = Seen!Idle /\ since'[b] = {}
      BY DEF Unborn, Seen!Idle
    <2>1. b \in Watcher \ {a}
      OBVIOUS
    <2>2. /\ buffer[b] = << >> /\ store[b] = << >> /\ printed[b] = << >>
          /\ open[b] = {} /\ doing[b] = Seen!Idle /\ since[b] = {}
      BY DEF PageInv, Unborn
    <2> QED BY <2>1, <2>2
  <1> QED BY <1>2, <1>3 DEF PageInv

\* An action's record while its agent does not idle.
LEMMA DeedIs ==
  ASSUME SeenTypes, NEW a \in Watcher
  PROVE  /\ doing[a] # Seen!Idle =>
              /\ doing[a] \in Deed /\ doing[a].at \in {"acting", "counted"}
              /\ doing[a].clear \in BOOLEAN /\ doing[a].fresh \in SUBSET Nat /\ doing[a].new \in Nat
         /\ doing[a].at \in {"acting", "counted"} => doing[a] # Seen!Idle
  BY DEF SeenTypes, Deed, Seen!Idle

LEMMA RequestBeginsStep ==
  ASSUME PageInv, NEW a \in Watcher, Seen!RequestBegins(a)
  PROVE  PageInv'
  <1> DEFINE n == Seen!Number
             e == Seen!Event("net", n, "pending", currentSeq)
  <1>0. SeenTypes /\ Seen!Begins(a, "net", "pending") /\ Seen!Buffers(a, <<e>>)
        /\ store' = store /\ printed' = printed /\ muted' = muted
    BY DEF Seen!RequestBegins, PageInv
  <1>n. n = Len(happened) + 1 /\ n \in Nat /\ Len(happened) \in Nat
    BY <1>0, HappenedIs
  <1>1. /\ happened' \in Seq(Happening) /\ Len(happened') = n
        /\ \A i \in 1 .. Len(happened) : happened'[i] = happened[i]
        /\ happened'[n] = [page |-> a, kind |-> "net", state |-> "pending"]
        /\ Grown(happened, happened') /\ a \in live
    BY <1>0, <1>n, BeginsIs DEF EventKind, EventState
  <1>2. /\ buffer' \in [Watcher -> Seq(EventRec)]
        /\ \A b \in Watcher : Timely(b)' /\ Undrained(b)'
        /\ \A b \in Watcher : b # a => buffer'[b] = buffer[b]
        /\ \A i \in 1 .. Len(happened') : Found(i)'
    BY <1>0, EventBegins DEF EventState
  <1> HIDE DEF n, e
  <1>3. /\ open' = [open EXCEPT ![a] = @ \cup {[id |-> n, seq |-> currentSeq]}]
        /\ since' = [since EXCEPT ![a] = @ \cup {n}]
        /\ doing' = IF doing[a] = Seen!Idle THEN doing
                    ELSE [doing EXCEPT ![a].fresh = @ \cup {n}]
        /\ UNCHANGED <<live, counter, currentSeq, printed, attached, store, muted, clear>>
    BY DEF Seen!RequestBegins, n
  <1>4. doing' \in [Watcher -> {Seen!Idle} \cup Deed]
        /\ \A b \in Watcher : b # a => doing'[b] = doing[b]
    <2>1. CASE doing[a] = Seen!Idle
      BY <1>0, <1>3, <2>1 DEF SeenTypes
    <2>2. CASE doing[a] # Seen!Idle
      <3>1. doing[a] \in Deed /\ doing' = [doing EXCEPT ![a].fresh = @ \cup {n}]
        BY <1>0, <1>3, <2>2, DeedIs
      <3>2. [doing[a] EXCEPT !.fresh = @ \cup {n}] \in Deed
        BY <1>n, <3>1 DEF Deed
      <3> QED BY <1>0, <3>1, <3>2 DEF SeenTypes
    <2> QED BY <2>1, <2>2
  <1>5. SeenTypes'
    <2>1. [id |-> n, seq |-> currentSeq] \in [id : Nat, seq : Nat]
      BY <1>0, <1>n DEF SeenTypes
    <2>2. open' \in [Watcher -> SUBSET [id : Nat, seq : Nat]]
      BY <1>0, <1>3, <2>1 DEF SeenTypes
    <2>3. since' \in [Watcher -> SUBSET Nat]
      BY <1>0, <1>3, <1>n DEF SeenTypes
    <2> QED BY <1>0, <1>1, <1>2, <1>3, <1>4, <2>2, <2>3 DEF SeenTypes, Seen!Idle
  <1>6. Underway(a)'
    <2>1. Underway(a) /\ open'[a] = open[a] \cup {[id |-> n, seq |-> currentSeq]}
      BY <1>3 DEF PageInv, SeenTypes
    <2>2. \A r \in open[a] : /\ r.id \in 1 .. n /\ r.id # n
                             /\ happened'[r.id] = [page |-> a, kind |-> "net", state |-> "pending"]
      BY <1>1, <1>n, <2>1 DEF Underway
    <2> QED BY <1>1, <1>n, <2>1, <2>2 DEF Underway
  <1>7. Placed'
    BY <1>0, <1>1, <1>2, <1>n DEF PageInv, Placed
  <1>8. \A b \in Watcher \ {a} :
           /\ buffer'[b] = buffer[b] /\ store'[b] = store[b] /\ printed'[b] = printed[b]
           /\ open'[b] = open[b] /\ since'[b] = since[b] /\ doing'[b] = doing[b]
    BY <1>0, <1>2, <1>3, <1>4 DEF SeenTypes
  <1> QED BY <1>1, <1>2, <1>3, <1>5, <1>6, <1>7, <1>8, PagesStep

LEMMA FramePassesStep ==
  ASSUME PageInv, NEW a \in Watcher, Seen!FramePasses(a)
  PROVE  PageInv'
  <1>0. SeenTypes /\ Seen!Begins(a, "ws", "ended")
        /\ Seen!Buffers(a, <<Seen!Event("ws", Seen!Number, "ended", currentSeq)>>)
        /\ UNCHANGED <<live, counter, currentSeq, printed, attached, open, store, doing,
                       muted, since, clear>>
    BY DEF Seen!FramePasses, Seen!page, PageInv
  <1>1. /\ happened' \in Seq(Happening) /\ Len(happened') = Len(happened) + 1
        /\ \A i \in 1 .. Len(happened) : happened'[i] = happened[i]
        /\ Grown(happened, happened') /\ a \in live /\ Len(happened) \in Nat
    BY <1>0, BeginsIs, HappenedIs DEF EventKind, EventState
  <1>2. /\ buffer' \in [Watcher -> Seq(EventRec)]
        /\ \A b \in Watcher : Timely(b)' /\ Undrained(b)'
        /\ \A b \in Watcher : b # a => buffer'[b] = buffer[b]
        /\ \A i \in 1 .. Len(happened') : Found(i)'
    BY <1>0, EventBegins DEF EventState
  <1>3. SeenTypes'
    BY <1>0, <1>1, <1>2 DEF SeenTypes, Seen!Idle
  <1>4. Underway(a)'
    <2>1. Underway(a) /\ open'[a] = open[a]
      BY <1>0 DEF PageInv
    <2>2. \A i \in 1 .. Len(happened) : i \in 1 .. Len(happened') /\ happened'[i] = happened[i]
      BY <1>1
    <2> QED BY <2>1, <2>2 DEF Underway
  <1>5. Placed'
    BY <1>0, <1>1, <1>2 DEF PageInv, Placed
  <1>6. \A b \in Watcher \ {a} :
           /\ buffer'[b] = buffer[b] /\ store'[b] = store[b] /\ printed'[b] = printed[b]
           /\ open'[b] = open[b] /\ since'[b] = since[b] /\ doing'[b] = doing[b]
    BY <1>0, <1>2
  <1> QED BY <1>0, <1>1, <1>2, <1>3, <1>4, <1>5, <1>6, PagesStep

LEMMA PrintsStep ==
  ASSUME PageInv, NEW a \in Watcher, Seen!Prints(a)
  PROVE  PageInv'
  <1> DEFINE n == Seen!Number
  <1>0. SeenTypes /\ Seen!Begins(a, "log", "ended")
        /\ UNCHANGED <<live, counter, currentSeq, buffer, attached, open, store, doing,
                       gone, since, clear>>
    BY DEF Seen!Prints, PageInv
  <1>n. n = Len(happened) + 1 /\ n \in Nat /\ Len(happened) \in Nat
    BY <1>0, HappenedIs
  <1>1. /\ happened' \in Seq(Happening) /\ Len(happened') = n
        /\ \A i \in 1 .. Len(happened) : happened'[i] = happened[i]
        /\ happened'[n] = [page |-> a, kind |-> "log", state |-> "ended"]
        /\ Grown(happened, happened') /\ a \in live
    BY <1>0, <1>n, BeginsIs DEF EventKind, EventState
  <1>2. \/ printed' = [printed EXCEPT ![a] = Append(@, n)] /\ muted' = muted
        \/ muted' = muted \cup {n} /\ printed' = printed
    BY DEF Seen!Prints
  <1> HIDE DEF n
  <1>3. /\ printed' \in [Watcher -> Seq(Nat)] /\ \A b \in Watcher : b # a => printed'[b] = printed[b]
        /\ ToSet(printed[a]) \subseteq ToSet(printed'[a])
        /\ ToSet(printed'[a]) \subseteq ToSet(printed[a]) \cup {n}
        /\ n \in ToSet(printed'[a]) \/ n \in muted'
        /\ n \in ToSet(printed[a])
           \/ ((\A i, j \in 1 .. Len(printed[a]) : printed[a][i] = printed[a][j] => i = j)
                => \A i, j \in 1 .. Len(printed'[a]) : printed'[a][i] = printed'[a][j] => i = j)
    <2>1. printed[a] \in Seq(Nat) /\ printed \in [Watcher -> Seq(Nat)]
      BY <1>0 DEF SeenTypes
    <2>2. CASE printed' = [printed EXCEPT ![a] = Append(@, n)]
      <3> DEFINE p == printed[a]
                 q == Append(p, n)
      <3>1. /\ q \in Seq(Nat) /\ Len(q) = Len(p) + 1 /\ Len(p) \in Nat
            /\ \A i \in 1 .. Len(p) : q[i] = p[i]
            /\ q[Len(p) + 1] = n
        BY <1>n, <2>1, AppendProperties, LenProperties
      <3>2. /\ printed' \in [Watcher -> Seq(Nat)] /\ printed'[a] = q
            /\ \A b \in Watcher : b # a => printed'[b] = printed[b]
        BY <2>1, <2>2, <3>1
      <3> HIDE DEF q
      <3>3. ToSet(q) = {q[i] : i \in 1 .. Len(q)} /\ ToSet(p) = {p[i] : i \in 1 .. Len(p)}
        BY <2>1, <3>1, ElementsOf
      <3> HIDE DEF p
      <3>6. 1 .. Len(q) = (1 .. Len(p)) \cup {Len(p) + 1}
        BY <3>1
      <3>4. ToSet(q) = ToSet(p) \cup {n}
        <4>1. \A i \in 1 .. Len(q) : q[i] \in ToSet(p) \cup {n}
          BY <3>1, <3>3, <3>6
        <4>2. \A i \in 1 .. Len(p) : p[i] \in ToSet(q)
          BY <3>1, <3>3, <3>6
        <4>3. n \in ToSet(q)
          BY <3>1, <3>3, <3>6
        <4> QED BY <3>3, <4>1, <4>2, <4>3
      <3>5. ASSUME n \notin ToSet(p), \A i, j \in 1 .. Len(p) : p[i] = p[j] => i = j,
                   NEW i \in 1 .. Len(q), NEW j \in 1 .. Len(q), q[i] = q[j]
            PROVE  i = j
        <4>1. \A k \in 1 .. Len(p) : q[k] # n
          BY <3>1, <3>3, <3>5
        <4>2. CASE i = Len(p) + 1 \/ j = Len(p) + 1
          BY <3>1, <3>5, <3>6, <4>1, <4>2
        <4>3. CASE i \in 1 .. Len(p) /\ j \in 1 .. Len(p)
          BY <3>1, <3>5, <4>3
        <4> QED BY <3>6, <4>2, <4>3
      <3> QED BY <3>2, <3>4, <3>5 DEF p
    <2>3. CASE printed' = printed /\ muted' = muted \cup {n}
      BY <2>1, <2>3
    <2> QED BY <1>2, <2>2, <2>3
  <1>4. muted \subseteq muted' /\ muted' \subseteq muted \cup {n} /\ gone' = gone
    BY <1>0, <1>2
  <1>5. SeenTypes'
    BY <1>0, <1>1, <1>3 DEF SeenTypes, Seen!Idle
  <1>6. Events(a)' = Events(a)
    BY <1>0 DEF Events
  <1>7. Timely(a)'
    <2>1. Genuine(happened', a, Events(a))
      BY <1>1, <1>n, GenuineGrown DEF PageInv, Timely
    <2>2. /\ InOrder(store[a]) /\ InOrder(buffer[a]) /\ Before(ToSet(store[a]), ToSet(buffer[a]))
          /\ store' = store /\ buffer' = buffer
      BY <1>0 DEF PageInv, Timely
    <2> QED BY <1>6, <2>1, <2>2 DEF Timely
  <1>8. Underway(a)'
    <2>1. Underway(a) /\ open'[a] = open[a]
      BY <1>0 DEF PageInv
    <2>2. \A i \in 1 .. Len(happened) : i \in 1 .. Len(happened') /\ happened'[i] = happened[i]
      BY <1>1, <1>n
    <2> QED BY <2>1, <2>2 DEF Underway
  <1>9. Undrained(a)'
    <2>1. Undrained(a)
      BY DEF PageInv
    <2>2. \A e \in Events(a) : e.id # n
      BY <1>n DEF PageInv, Timely, Genuine
    <2>3. \A p \in ToSet(printed[a]) :
            /\ p \in 1 .. n /\ p # n /\ \A e \in Events(a) : e.id # p
            /\ happened'[p] = [page |-> a, kind |-> "log", state |-> "ended"]
      BY <1>1, <1>n, <2>1 DEF Undrained
    <2>4. \A p \in ToSet(printed'[a]) :
            /\ p \in 1 .. Len(happened') /\ \A e \in Events(a) : e.id # p
            /\ happened'[p] = [page |-> a, kind |-> "log", state |-> "ended"]
      BY <1>1, <1>3, <1>n, <2>2, <2>3
    <2>5. \A i, j \in 1 .. Len(printed'[a]) : printed'[a][i] = printed'[a][j] => i = j
      BY <1>3, <2>1, <2>3 DEF Undrained
    <2> QED BY <1>6, <2>4, <2>5 DEF Undrained
  <1>10. ASSUME NEW i \in 1 .. Len(happened') PROVE Found(i)'
    <2>1. CASE i = n
      <3>1. happened'[i].page = a
        BY <1>1, <2>1
      <3> QED BY <1>3, <2>1, <3>1 DEF Found
    <2>2. CASE i \in 1 .. Len(happened)
      <3>1. PICK b \in Watcher : happened[i].page = b
        BY <1>0, <2>2, HappenedIs
      <3>2. Events(b)' = Events(b) /\ ToSet(printed[b]) \subseteq ToSet(printed'[b])
        BY <1>0, <1>3, <3>1 DEF Events
      <3>3. happened'[i] = happened[i]
        BY <1>1, <2>2
      <3> QED BY <1>4, <2>2, <3>1, <3>2, <3>3, FoundKept
    <2> QED BY <1>1, <1>n, <2>1, <2>2
  <1>11. Placed'
    <2>1. \A i \in muted : i \in 1 .. n /\ happened'[i].kind = "log"
      BY <1>1, <1>n DEF PageInv, Placed
    <2>2. happened'[n].kind = "log" /\ n \in 1 .. Len(happened')
      BY <1>1, <1>n
    <2> QED BY <1>1, <1>4, <1>10, <2>1, <2>2 DEF Placed
  <1>12. \A b \in Watcher \ {a} :
           /\ buffer'[b] = buffer[b] /\ store'[b] = store[b] /\ printed'[b] = printed[b]
           /\ open'[b] = open[b] /\ since'[b] = since[b] /\ doing'[b] = doing[b]
    BY <1>0, <1>3
  <1> QED BY <1>0, <1>1, <1>5, <1>7, <1>8, <1>9, <1>11, <1>12, PagesStep

\* A request finishes or fails.
LEMMA RequestEndsStep ==
  ASSUME PageInv, NEW a \in Watcher, Seen!RequestEnds(a)
  PROVE  PageInv'
  <1>1. PICK r \in open[a] :
          /\ open' = [open EXCEPT ![a] = @ \ {r}]
          /\ happened' = [happened EXCEPT ![r.id].state = "ended"]
          /\ Seen!Buffers(a, <<Seen!Event("net", r.id, "ended", r.seq)>>)
          /\ UNCHANGED <<live, counter, currentSeq, printed, attached, store, doing,
                         muted, since, clear>>
    BY DEF Seen!RequestEnds
  <1> DEFINE n == r.id
             e == Seen!Event("net", n, "ended", r.seq)
             events == <<e>>
  <1>0. SeenTypes /\ Underway(a) /\ Undrained(a) /\ Timely(a)
    BY DEF PageInv
  <1>2. /\ n \in 1 .. Len(happened) /\ n \in Nat /\ r.seq \in Nat /\ Len(happened) \in Nat
        /\ happened[n] = [page |-> a, kind |-> "net", state |-> "pending"]
        /\ \A s \in open[a] : s.id = n => s = r
    BY <1>0, HappenedIs DEF Underway, SeenTypes
  <1>3. a \in live
    BY <1>1 DEF PageInv, Unborn
  <1>4. e \in EventRec /\ e.id = n /\ e.kind = "net" /\ e.state = "ended"
    BY <1>2 DEF Seen!Event, EventRec, EventKind, EventState
  <1>b. Seen!Buffers(a, events)
    BY <1>1
  <1> HIDE DEF e, n
  <1>5. events \in Seq(EventRec) /\ ToSet(events) = {e} /\ InOrder(events)
    BY <1>4 DEF ToSet, InOrder
  <1> HIDE DEF events
  <1>6. /\ happened' \in Seq(Happening) /\ Len(happened') = Len(happened)
        /\ \A i \in 1 .. Len(happened) : i # n => happened'[i] = happened[i]
        /\ happened'[n] = [page |-> a, kind |-> "net", state |-> "ended"]
    <2>1. happened' = [happened EXCEPT ![n] = [page |-> a, kind |-> "net", state |-> "ended"]]
      <3>1. happened' = [happened EXCEPT ![n] = [happened[n] EXCEPT !.state = "ended"]]
        BY <1>1 DEF n
      <3>2. [happened[n] EXCEPT !.state = "ended"] = [page |-> a, kind |-> "net", state |-> "ended"]
        BY <1>2
      <3> QED BY <3>1, <3>2
    <2>2. [page |-> a, kind |-> "net", state |-> "ended"] \in Happening
      BY DEF Happening, EventKind, EventState
    <2> QED BY <1>0, <1>2, <2>1, <2>2, ExceptSeq DEF SeenTypes
  <1>7. Grown(happened, happened')
    BY <1>2, <1>6 DEF Grown
  <1>8. Before(Events(a), ToSet(events))
    <2> SUFFICES ASSUME NEW f \in Events(a), f.id = n PROVE f.state = "pending"
      BY <1>4, <1>5 DEF Before, Follows
    <2>1. f \in EventRec
      <3>1. buffer[a] \in Seq(EventRec) /\ store[a] \in Seq(EventRec)
        BY <1>0 DEF SeenTypes
      <3> QED BY <3>1, ElementsOf DEF Events
    <2>2. f.state \in {"pending", "ended"}
      BY <2>1 DEF EventRec, EventState
    <2>3. f.state # "ended"
      BY <1>0, <1>2 DEF Timely, Genuine
    <2> QED BY <2>2, <2>3
  <1>9. /\ buffer' \in [Watcher -> Seq(EventRec)]
        /\ \A b \in Watcher : b # a => buffer'[b] = buffer[b]
        /\ InOrder(store'[a]) /\ InOrder(buffer'[a]) /\ Before(ToSet(store'[a]), ToSet(buffer'[a]))
        /\ Events(a)' \subseteq Events(a) \cup ToSet(events)
        /\ Names(Events(a)) \subseteq Names(Events(a)') \cup gone'
        /\ Names(ToSet(events)) \subseteq Names(Events(a)') \cup gone'
        /\ gone \subseteq gone'
    BY <1>1, <1>5, <1>8, <1>b, BuffersIs
  <1>10. SeenTypes'
    <2>1. open' \in [Watcher -> SUBSET [id : Nat, seq : Nat]]
      BY <1>0, <1>1 DEF SeenTypes
    <2> QED BY <1>0, <1>1, <1>6, <1>9, <2>1 DEF SeenTypes, Seen!Idle
  <1>11. Timely(a)'
    <2>1. Genuine(happened', a, Events(a))
      BY <1>0, <1>2, <1>6, <1>7, GenuineGrown DEF Timely
    <2>2. Genuine(happened', a, {e})
      BY <1>2, <1>4, <1>6 DEF Genuine
    <2> QED BY <1>5, <1>9, <2>1, <2>2 DEF Timely, Genuine
  <1>12. Underway(a)'
    <2>1. open'[a] = open[a] \ {r}
      BY <1>0, <1>1 DEF SeenTypes
    <2>2. \A s \in open'[a] : /\ s.id \in 1 .. Len(happened') /\ s \in open[a]
                              /\ happened'[s.id] = [page |-> a, kind |-> "net", state |-> "pending"]
      BY <1>0, <1>2, <1>6, <2>1 DEF Underway
    <2> QED BY <1>0, <2>2 DEF Underway
  <1>13. Undrained(a)'
    <2>1. printed'[a] = printed[a]
      BY <1>1
    <2>2. \A p \in ToSet(printed[a]) :
            /\ p \in 1 .. Len(happened') /\ p # n
            /\ happened'[p] = [page |-> a, kind |-> "log", state |-> "ended"]
      BY <1>0, <1>2, <1>6 DEF Undrained
    <2>3. \A p \in ToSet(printed[a]) : \A f \in Events(a)' : f.id # p
      BY <1>0, <1>4, <1>5, <1>9, <2>2 DEF Undrained
    <2> QED BY <1>0, <2>1, <2>2, <2>3 DEF Undrained
  <1>14. ASSUME NEW i \in 1 .. Len(happened') PROVE Found(i)'
    <2>1. CASE i = n
      <3>1. happened'[i].page = a /\ happened'[i].state = "ended"
        BY <1>6, <2>1
      <3>2. Seen!Named(e) = [id |-> i, state |-> "ended"]
        BY <1>4, <2>1 DEF Seen!Named
      <3>3. Seen!Named(e) \in Names(Events(a)') \cup gone'
        BY <1>5, <1>9 DEF Names
      <3> QED BY <3>1, <3>2, <3>3 DEF Found, Events
    <2>2. CASE i # n
      <3>1. PICK b \in Watcher : happened[i].page = b
        BY <1>0, <1>6, HappenedIs
      <3>2. Names(Events(b)) \subseteq Names(Events(b)') \cup gone'
        <4>1. CASE b = a
          BY <1>9, <4>1 DEF Events
        <4>2. CASE b # a
          <5>1. Events(b)' = Events(b)
            BY <1>1, <1>9, <3>1, <4>2 DEF Events
          <5> QED BY <5>1
        <4> QED BY <4>1, <4>2
      <3>3. happened'[i] = happened[i] /\ i \in 1 .. Len(happened)
        BY <1>6, <2>2
      <3>4. printed' = printed /\ muted' = muted
        BY <1>1
      <3> QED BY <1>9, <3>1, <3>2, <3>3, <3>4, FoundKept
    <2> QED BY <2>1, <2>2
  <1>15. Placed'
    <2>1. \A i \in muted : i \in 1 .. Len(happened') /\ happened'[i].kind = "log"
      BY <1>2, <1>6 DEF PageInv, Placed
    <2>2. muted' = muted
      BY <1>1
    <2> QED BY <1>14, <2>1, <2>2 DEF Placed
  <1>16. \A b \in Watcher \ {a} :
           /\ buffer'[b] = buffer[b] /\ store'[b] = store[b] /\ printed'[b] = printed[b]
           /\ open'[b] = open[b] /\ since'[b] = since[b] /\ doing'[b] = doing[b]
    BY <1>0, <1>1, <1>9 DEF SeenTypes
  <1>17. \A i \in 1 .. Len(happened) : happened[i].page # a => happened'[i] = happened[i]
    BY <1>2, <1>6
  <1> QED BY <1>1, <1>3, <1>7, <1>10, <1>11, <1>12, <1>13, <1>15, <1>16, <1>17, PagesStep

\* What the page has printed, as events.
LEMMA DrainedIs ==
  ASSUME PageInv, NEW a \in Watcher
  PROVE  /\ Seen!Drained(a) \in Seq(EventRec)
         /\ InOrder(Seen!Drained(a)) /\ Before(Events(a), ToSet(Seen!Drained(a)))
         /\ Genuine(happened, a, ToSet(Seen!Drained(a)))
         /\ \A p \in ToSet(printed[a]) :
              [id |-> p, state |-> "ended"] \in Names(ToSet(Seen!Drained(a)))
  <1> DEFINE d == Seen!Drained(a)
             p == printed[a]
  <1>1. p \in Seq(Nat) /\ Len(p) \in Nat /\ currentSeq \in Nat /\ ToSet(p) = {p[i] : i \in 1 .. Len(p)}
    BY ElementsOf DEF PageInv, SeenTypes
  <1>2. Undrained(a)
    BY DEF PageInv
  <1>3. d = [i \in 1 .. Len(p) |-> Seen!Event("log", p[i], "ended", currentSeq)]
    BY DEF Seen!Drained
  <1>4. \A i \in 1 .. Len(p) : p[i] \in Nat /\ p[i] \in ToSet(p)
    BY <1>1
  <1>5. \A i \in 1 .. Len(p) : Seen!Event("log", p[i], "ended", currentSeq) \in EventRec
    BY <1>1, <1>4 DEF Seen!Event, EventRec, EventKind, EventState
  <1>6. d \in Seq(EventRec) /\ Len(d) = Len(p)
        /\ \A i \in 1 .. Len(p) : d[i].id = p[i] /\ d[i].kind = "log" /\ d[i].state = "ended"
    <2>1. d \in [1 .. Len(p) -> EventRec]
      BY <1>3, <1>5
    <2>2. d \in Seq(EventRec) /\ Len(d) = Len(p)
      BY <1>1, <2>1, SeqDef, LenProperties
    <2>3. \A i \in 1 .. Len(p) : d[i].id = p[i] /\ d[i].kind = "log" /\ d[i].state = "ended"
      BY <1>3 DEF Seen!Event
    <2> QED BY <2>2, <2>3
  <1> HIDE DEF d
  <1>7. ToSet(d) = {d[i] : i \in 1 .. Len(p)}
    BY <1>6, ElementsOf
  <1>8. InOrder(d)
    <2> SUFFICES ASSUME NEW i \in 1 .. Len(p), NEW j \in 1 .. Len(p), i < j, d[i].id = d[j].id
                 PROVE  FALSE
      BY <1>6 DEF InOrder, Follows
    <2>1. p[i] = p[j]
      BY <1>6
    <2>2. i = j
      BY <1>2, <2>1 DEF Undrained
    <2> QED BY <2>2
  <1>9. Before(Events(a), ToSet(d))
    <2> SUFFICES ASSUME NEW e \in Events(a), NEW i \in 1 .. Len(p), e.id = d[i].id PROVE FALSE
      BY <1>7 DEF Before, Follows
    <2> QED BY <1>2, <1>4, <1>6 DEF Undrained
  <1>10. Genuine(happened, a, ToSet(d))
    <2> SUFFICES ASSUME NEW i \in 1 .. Len(p)
                 PROVE  /\ d[i].id \in 1 .. Len(happened) /\ happened[d[i].id].page = a
                        /\ happened[d[i].id].kind = d[i].kind
                        /\ happened[d[i].id].state = "ended"
      BY <1>7 DEF Genuine
    <2>1. happened[p[i]] = [page |-> a, kind |-> "log", state |-> "ended"] /\ p[i] \in 1 .. Len(happened)
      BY <1>2, <1>4 DEF Undrained
    <2> QED BY <1>6, <2>1
  <1>11. ASSUME NEW x \in ToSet(p) PROVE [id |-> x, state |-> "ended"] \in Names(ToSet(d))
    <2>1. PICK i \in 1 .. Len(p) : x = p[i]
      BY <1>1
    <2>2. d[i] \in ToSet(d) /\ Seen!Named(d[i]) = [id |-> x, state |-> "ended"]
      BY <1>6, <1>7, <2>1 DEF Seen!Named
    <2> QED BY <2>2 DEF Names
  <1> QED BY <1>6, <1>8, <1>9, <1>10, <1>11 DEF d

\* Nothing begins or ends: what may have moved.
LEMMA NothingHappens ==
  ASSUME PageInv, NEW a \in live, live' = live, SeenTypes',
         happened' = happened, muted' = muted, gone \subseteq gone',
         \A b \in Watcher \ {a} :
           /\ buffer'[b] = buffer[b] /\ store'[b] = store[b] /\ printed'[b] = printed[b]
           /\ open'[b] = open[b] /\ since'[b] = since[b]
           /\ doing[b] = Seen!Idle => doing'[b] = Seen!Idle,
         open'[a] \subseteq open[a], ToSet(printed'[a]) = {}, Len(printed'[a]) = 0, Timely(a)',
         Names(Events(a)) \subseteq Names(Events(a)') \cup gone',
         \A p \in ToSet(printed[a]) : [id |-> p, state |-> "ended"] \in Names(Events(a)') \cup gone'
  PROVE  PageInv'
  <1>0. SeenTypes /\ Underway(a) /\ Undrained(a) /\ Grown(happened, happened') /\ a \in Watcher
    BY HappenedIs DEF PageInv, Grown, SeenTypes
  <1>1. Underway(a)'
    BY <1>0 DEF Underway
  <1>2. Undrained(a)'
    BY DEF Undrained
  <1>3. ASSUME NEW i \in 1 .. Len(happened) PROVE Found(i)'
    <2>1. PICK b \in Watcher : happened[i].page = b
      BY <1>0, HappenedIs
    <2>2. happened'[i] = happened[i] /\ muted \subseteq muted'
      OBVIOUS
    <2>3. CASE b = a
      <3>1. Names(Events(b)) \subseteq Names(Events(b)') \cup gone'
        BY <2>3 DEF Events
      <3>2. \A p \in ToSet(printed[b]) : [id |-> p, state |-> "ended"] \in Names(Events(b)') \cup gone'
        BY <2>3 DEF Events
      <3> QED BY <2>1, <2>2, <3>1, <3>2, FoundKept
    <2>4. CASE b # a
      <3>1. Events(b)' = Events(b) /\ printed'[b] = printed[b]
        BY <2>4 DEF Events
      <3> QED BY <2>1, <2>2, <3>1, FoundKept
    <2> QED BY <2>3, <2>4
  <1>4. Placed'
    BY <1>3 DEF PageInv, Placed
  <1> QED BY <1>0, <1>1, <1>2, <1>4, PagesStep

LEMMA LeavesDocumentStep ==
  ASSUME PageInv, NEW a \in Watcher, Seen!LeavesDocument(a)
  PROVE  PageInv'
  <1>0. /\ SeenTypes /\ Timely(a) /\ a \in live
        /\ printed' = [printed EXCEPT ![a] = << >>]
        /\ UNCHANGED <<live, counter, currentSeq, open, store, doing, happened, muted, since, clear>>
    BY DEF PageInv, Seen!LeavesDocument, Seen!OnPage
  <1>1. /\ printed' \in [Watcher -> Seq(Nat)] /\ printed'[a] = << >>
        /\ \A b \in Watcher \ {a} : printed'[b] = printed[b]
    BY <1>0 DEF SeenTypes
  <1>2. ToSet(printed'[a]) = {} /\ Len(printed'[a]) = 0
    BY <1>1, EmptyIs
  <1>3. CASE Seen!Buffers(a, Seen!Drained(a))
    <2>1. /\ Seen!Drained(a) \in Seq(EventRec)
          /\ InOrder(Seen!Drained(a)) /\ Before(Events(a), ToSet(Seen!Drained(a)))
          /\ Genuine(happened, a, ToSet(Seen!Drained(a)))
          /\ \A p \in ToSet(printed[a]) :
               [id |-> p, state |-> "ended"] \in Names(ToSet(Seen!Drained(a)))
      BY DrainedIs
    <2>2. /\ buffer' \in [Watcher -> Seq(EventRec)]
          /\ \A b \in Watcher : b # a => buffer'[b] = buffer[b]
          /\ InOrder(store'[a]) /\ InOrder(buffer'[a]) /\ Before(ToSet(store'[a]), ToSet(buffer'[a]))
          /\ Events(a)' \subseteq Events(a) \cup ToSet(Seen!Drained(a))
          /\ Names(Events(a)) \subseteq Names(Events(a)') \cup gone'
          /\ Names(ToSet(Seen!Drained(a))) \subseteq Names(Events(a)') \cup gone'
          /\ gone \subseteq gone'
      BY <1>0, <1>3, <2>1, BuffersIs
    <2>3. Timely(a)'
      BY <1>0, <2>1, <2>2 DEF Timely, Genuine
    <2>4. SeenTypes'
      BY <1>0, <1>1, <2>2 DEF SeenTypes, Seen!Idle
    <2>5. \A p \in ToSet(printed[a]) : [id |-> p, state |-> "ended"] \in Names(Events(a)') \cup gone'
      BY <2>1, <2>2
    <2>6. \A b \in Watcher \ {a} :
            /\ buffer'[b] = buffer[b] /\ store'[b] = store[b] /\ printed'[b] = printed[b]
            /\ open'[b] = open[b] /\ since'[b] = since[b] /\ doing'[b] = doing[b]
      BY <1>0, <1>1, <2>2
    <2> QED BY <1>0, <1>2, <2>2, <2>3, <2>4, <2>5, <2>6, NothingHappens
  <1>4. CASE /\ gone' = gone \cup {[id |-> printed[a][i], state |-> "ended"] : i \in 1 .. Len(printed[a])}
             /\ buffer' = buffer
    <2>1. Events(a)' = Events(a)
      BY <1>0, <1>4 DEF Events
    <2>2. Timely(a)'
      BY <1>0, <1>4, <2>1 DEF Timely
    <2>3. SeenTypes'
      BY <1>0, <1>1, <1>4 DEF SeenTypes, Seen!Idle
    <2>4. ASSUME NEW p \in ToSet(printed[a]) PROVE [id |-> p, state |-> "ended"] \in gone'
      <3>1. printed[a] \in Seq(Nat)
        BY <1>0 DEF SeenTypes
      <3>2. PICK i \in 1 .. Len(printed[a]) : p = printed[a][i]
        BY <3>1, ElementsOf
      <3> QED BY <1>4, <3>2
    <2>5. gone \subseteq gone' /\ \A b \in Watcher \ {a} :
            /\ buffer'[b] = buffer[b] /\ store'[b] = store[b] /\ printed'[b] = printed[b]
            /\ open'[b] = open[b] /\ since'[b] = since[b] /\ doing'[b] = doing[b]
      BY <1>0, <1>1, <1>4
    <2> QED BY <1>0, <1>2, <2>1, <2>2, <2>3, <2>4, <2>5, NothingHappens
  <1> QED BY <1>3, <1>4 DEF Seen!LeavesDocument, Seen!OnPage

\* An agent polls its page.
LEMMA PollsStep ==
  ASSUME PageInv, NEW a \in Watcher, Seen!Polls(a)
  PROVE  PageInv'
  <1> DEFINE d == Seen!Drained(a)
             all == buffer[a] \o d
             k == Seen!Kept(all)
  <1>0. /\ SeenTypes /\ Timely(a) /\ a \in live
        /\ \/ /\ store' = [store EXCEPT ![a] = store[a] \o k]
              /\ gone' = gone \cup Seen!PushedOut(all)
           \/ /\ gone' = gone \cup {Seen!Named(all[i]) : i \in 1 .. Len(all)}
              /\ store' = store
        /\ buffer' = [buffer EXCEPT ![a] = << >>]
        /\ printed' = [printed EXCEPT ![a] = << >>]
        /\ UNCHANGED <<live, counter, currentSeq, open, doing, happened, muted, since, clear>>
    BY DEF PageInv, Seen!Polls, Seen!Ingested
  <1>1. /\ d \in Seq(EventRec) /\ InOrder(d) /\ Before(Events(a), ToSet(d))
        /\ Genuine(happened, a, ToSet(d))
        /\ \A p \in ToSet(printed[a]) : [id |-> p, state |-> "ended"] \in Names(ToSet(d))
    BY DrainedIs
  <1> HIDE DEF d
  <1>2. buffer[a] \in Seq(EventRec) /\ store[a] \in Seq(EventRec)
    BY <1>0 DEF SeenTypes
  <1>3. /\ all \in Seq(EventRec) /\ ToSet(all) = ToSet(buffer[a]) \cup ToSet(d)
        /\ ToSet(all) = {all[i] : i \in 1 .. Len(all)}
    <2>1. all \in Seq(EventRec) /\ ToSet(all) = ToSet(buffer[a]) \cup ToSet(d)
      BY <1>1, <1>2, ConcatIs
    <2> HIDE DEF all
    <2> QED BY <2>1, ElementsOf
  <1>4. InOrder(all)
    <2>1. Before(ToSet(buffer[a]), ToSet(d))
      BY <1>1, ConcatBefore DEF Events
    <2> QED BY <1>0, <1>1, <1>2, <2>1, ConcatInOrder DEF Timely
  <1> HIDE DEF all
  <1>5. Before(ToSet(store[a]), ToSet(all))
    <2>1. Before(ToSet(store[a]), ToSet(d)) /\ Before(ToSet(store[a]), ToSet(buffer[a]))
      BY <1>0, <1>1, ConcatBefore DEF Events, Timely
    <2> QED BY <1>3, <2>1 DEF Before
  <1>6. /\ k \in Seq(EventRec) /\ ToSet(k) \subseteq ToSet(all) /\ InOrder(k)
        /\ Names(ToSet(all)) \subseteq Names(ToSet(k)) \cup Seen!PushedOut(all)
    BY <1>3, <1>4, KeptIs
  <1> HIDE DEF k
  <1>7. Genuine(happened, a, ToSet(store[a])) /\ Genuine(happened, a, ToSet(all))
    BY <1>0, <1>1, <1>3 DEF Timely, Genuine, Events
  <1>8. /\ buffer' \in [Watcher -> Seq(EventRec)] /\ buffer'[a] = << >>
        /\ printed' \in [Watcher -> Seq(Nat)] /\ printed'[a] = << >>
        /\ \A b \in Watcher \ {a} : buffer'[b] = buffer[b] /\ printed'[b] = printed[b]
    BY <1>0 DEF SeenTypes
  <1>9. /\ ToSet(printed'[a]) = {} /\ Len(printed'[a]) = 0
        /\ ToSet(buffer'[a]) = {} /\ Len(buffer'[a]) = 0
    BY <1>8, EmptyIs
  <1>10. \A E, F : Names(E \cup F) = Names(E) \cup Names(F)
    BY DEF Names
  <1>11. /\ store' \in [Watcher -> Seq(EventRec)]
         /\ \A b \in Watcher \ {a} : store'[b] = store[b]
         /\ InOrder(store'[a]) /\ Genuine(happened, a, ToSet(store'[a]))
         /\ Names(ToSet(store[a])) \subseteq Names(ToSet(store'[a])) \cup gone'
         /\ Names(ToSet(all)) \subseteq Names(ToSet(store'[a])) \cup gone'
         /\ gone \subseteq gone'
    <2>1. CASE /\ store' = [store EXCEPT ![a] = store[a] \o k]
               /\ gone' = gone \cup Seen!PushedOut(all)
      <3> DEFINE q == store[a] \o k
      <3>1. q \in Seq(EventRec) /\ ToSet(q) = ToSet(store[a]) \cup ToSet(k)
        BY <1>2, <1>6, ConcatIs
      <3>2. InOrder(q)
        <4>1. Before(ToSet(store[a]), ToSet(k))
          BY <1>5, <1>6 DEF Before
        <4> QED BY <1>0, <1>2, <1>6, <4>1, ConcatInOrder DEF Timely
      <3> HIDE DEF q
      <3>3. /\ store' \in [Watcher -> Seq(EventRec)] /\ store'[a] = q
            /\ \A b \in Watcher \ {a} : store'[b] = store[b]
        BY <1>0, <2>1, <3>1 DEF SeenTypes, q
      <3>4. Names(ToSet(q)) = Names(ToSet(store[a])) \cup Names(ToSet(k))
        BY <1>10, <3>1
      <3>5. Genuine(happened, a, ToSet(q))
        BY <1>6, <1>7, <3>1 DEF Genuine
      <3> QED BY <1>6, <2>1, <3>2, <3>3, <3>4, <3>5
    <2>2. CASE /\ gone' = gone \cup {Seen!Named(all[i]) : i \in 1 .. Len(all)}
               /\ store' = store
      <3>1. Names(ToSet(all)) \subseteq gone'
        BY <1>3, <2>2 DEF Names
      <3> QED BY <1>0, <1>2, <1>7, <2>2, <3>1 DEF SeenTypes, Timely
    <2> QED BY <1>0, <2>1, <2>2
  <1>12. Events(a)' = ToSet(store'[a])
    BY <1>9 DEF Events
  <1>13. Timely(a)'
    <2>1. InOrder(buffer'[a]) /\ Before(ToSet(store'[a]), ToSet(buffer'[a]))
      BY <1>9 DEF InOrder, Before
    <2> QED BY <1>0, <1>11, <1>12, <2>1 DEF Timely
  <1>14. Names(Events(a)) \subseteq Names(Events(a)') \cup gone'
    <2>1. Names(Events(a)) = Names(ToSet(store[a])) \cup Names(ToSet(buffer[a]))
      BY <1>10 DEF Events
    <2>2. Names(ToSet(all)) = Names(ToSet(buffer[a])) \cup Names(ToSet(d))
      BY <1>3, <1>10
    <2> QED BY <1>11, <1>12, <2>1, <2>2
  <1>15. \A p \in ToSet(printed[a]) : [id |-> p, state |-> "ended"] \in Names(Events(a)') \cup gone'
    <2>1. Names(ToSet(all)) = Names(ToSet(buffer[a])) \cup Names(ToSet(d))
      BY <1>3, <1>10
    <2> QED BY <1>1, <1>11, <1>12, <2>1
  <1>16. SeenTypes'
    BY <1>0, <1>8, <1>11 DEF SeenTypes, Seen!Idle
  <1>17. \A b \in Watcher \ {a} :
            /\ buffer'[b] = buffer[b] /\ store'[b] = store[b] /\ printed'[b] = printed[b]
            /\ open'[b] = open[b] /\ since'[b] = since[b] /\ doing'[b] = doing[b]
    BY <1>0, <1>8, <1>11
  <1> QED BY <1>0, <1>9, <1>11, <1>13, <1>14, <1>15, <1>16, <1>17, NothingHappens

\* A device is set: every agent's buffer and document are emptied at once.
LEMMA SetsDeviceStep ==
  ASSUME PageInv, NEW a \in Watcher, Seen!SetsDevice(a)
  PROVE  PageInv'
  <1>0. PICK late \in SUBSET UNION {open[b] : b \in Watcher} :
          /\ open' = [b \in Watcher |-> open[b] \cap late]
          /\ gone' = gone \cup UNION {Seen!Within(b) \cup Seen!OnPage(b) \cup
                                      {[id |-> q.id, state |-> "ended"] : q \in open[b] \ late} :
                                      b \in Watcher}
          /\ buffer' = [b \in Watcher |-> << >>]
          /\ printed' = [b \in Watcher |-> << >>]
          /\ UNCHANGED <<live, counter, currentSeq, store, doing, happened, muted, since, clear>>
    BY DEF Seen!SetsDevice
  <1>1. SeenTypes
    BY DEF PageInv
  <1>2. SeenTypes'
    <2>1. << >> \in Seq(EventRec) /\ << >> \in Seq(Nat)
      BY EmptySeq
    <2>2. buffer' \in [Watcher -> Seq(EventRec)] /\ printed' \in [Watcher -> Seq(Nat)]
      BY <1>0, <2>1
    <2>3. open' \in [Watcher -> SUBSET [id : Nat, seq : Nat]]
      BY <1>0, <1>1 DEF SeenTypes
    <2> QED BY <1>0, <1>1, <2>2, <2>3 DEF SeenTypes, Seen!Idle
  <1>3. ASSUME NEW b \in Watcher
        PROVE  /\ buffer'[b] = << >> /\ printed'[b] = << >> /\ open'[b] \subseteq open[b]
               /\ ToSet(buffer'[b]) = {} /\ Len(buffer'[b]) = 0
               /\ ToSet(printed'[b]) = {} /\ Len(printed'[b]) = 0
               /\ Events(b)' = ToSet(store[b]) /\ store'[b] = store[b]
    <2>1. buffer'[b] = << >> /\ printed'[b] = << >> /\ open'[b] \subseteq open[b] /\ store'[b] = store[b]
      BY <1>0
    <2>2. ToSet(buffer'[b]) = {} /\ Len(buffer'[b]) = 0 /\ ToSet(printed'[b]) = {} /\ Len(printed'[b]) = 0
      BY <2>1, EmptyIs
    <2> QED BY <2>1, <2>2 DEF Events
  <1>4. ASSUME NEW b \in Watcher PROVE Timely(b)' /\ Underway(b)' /\ Undrained(b)'
    <2>1. Timely(b) /\ Underway(b)
      BY DEF PageInv
    <2>2. InOrder(buffer'[b]) /\ Before(ToSet(store[b]), ToSet(buffer'[b])) /\ InOrder(store[b])
      BY <1>3, <2>1 DEF InOrder, Before, Timely
    <2>3. Genuine(happened, b, ToSet(store[b]))
      BY <2>1 DEF Timely, Genuine, Events
    <2>4. Timely(b)'
      BY <1>0, <1>3, <2>2, <2>3 DEF Timely
    <2>5. Underway(b)'
      BY <1>0, <1>3, <2>1 DEF Underway
    <2>6. Undrained(b)'
      BY <1>3 DEF Undrained
    <2> QED BY <2>4, <2>5, <2>6
  <1>5. ASSUME NEW b \in Watcher
        PROVE  /\ Names(Events(b)) \subseteq Names(Events(b)') \cup gone'
               /\ \A p \in ToSet(printed[b]) : [id |-> p, state |-> "ended"] \in Names(Events(b)') \cup gone'
    <2>1. buffer[b] \in Seq(EventRec) /\ printed[b] \in Seq(Nat)
      BY <1>1 DEF SeenTypes
    <2>2. Seen!Within(b) \subseteq gone' /\ Seen!OnPage(b) \subseteq gone'
      BY <1>0
    <2>3. Names(ToSet(buffer[b])) \subseteq gone'
      <3>1. ToSet(buffer[b]) = {buffer[b][i] : i \in 1 .. Len(buffer[b])}
        BY <2>1, ElementsOf
      <3> QED BY <2>2, <3>1 DEF Names, Seen!Within
    <2>4. Names(Events(b)) \subseteq Names(Events(b)') \cup gone'
      BY <1>3, <2>3 DEF Names, Events
    <2>5. ASSUME NEW p \in ToSet(printed[b]) PROVE [id |-> p, state |-> "ended"] \in gone'
      <3>1. PICK i \in 1 .. Len(printed[b]) : p = printed[b][i]
        BY <2>1, ElementsOf
      <3> QED BY <2>2, <3>1 DEF Seen!OnPage
    <2> QED BY <2>4, <2>5
  <1>6. ASSUME NEW i \in 1 .. Len(happened) PROVE Found(i)'
    <2>1. PICK b \in Watcher : happened[i].page = b
      BY <1>1, HappenedIs
    <2>2. happened' = happened /\ happened'[i] = happened[i] /\ muted \subseteq muted' /\ gone \subseteq gone'
      BY <1>0
    <2> QED BY <1>5, <2>1, <2>2, FoundKept
  <1>7. Placed'
    BY <1>0, <1>6 DEF PageInv, Placed
  <1>8. Unborn'
    <2> SUFFICES ASSUME NEW b \in Watcher \ live
                 PROVE  /\ buffer'[b] = << >> /\ store'[b] = << >> /\ printed'[b] = << >>
                        /\ open'[b] = {} /\ doing'[b] = Seen!Idle /\ since'[b] = {}
      BY <1>0 DEF Unborn, Seen!Idle
    <2>1. store[b] = << >> /\ open[b] = {} /\ doing[b] = Seen!Idle /\ since[b] = {}
      BY DEF PageInv, Unborn
    <2> QED BY <1>0, <1>3, <2>1
  <1> QED BY <1>2, <1>4, <1>7, <1>8 DEF PageInv

\* Actions that count leave the pages as they are.
LEMMA PagesAsTheyAre ==
  ASSUME PageInv, NEW a \in live, SeenTypes',
         UNCHANGED <<live, buffer, printed, open, store, happened, gone, muted>>,
         \A b \in Watcher \ {a} :
           since'[b] = since[b] /\ (doing[b] = Seen!Idle => doing'[b] = Seen!Idle)
  PROVE  PageInv'
  <1>0. SeenTypes /\ Grown(happened, happened') /\ a \in Watcher
    BY HappenedIs DEF PageInv, Grown, SeenTypes
  <1>1. \A b \in Watcher : Events(b)' = Events(b)
    BY DEF Events
  <1>2. \A b \in Watcher : Timely(b)' /\ Underway(b)' /\ Undrained(b)'
    BY <1>1 DEF PageInv, Timely, Underway, Undrained
  <1>3. Placed'
    BY DEF PageInv, Placed, Found, Events
  <1> QED BY <1>0, <1>2, <1>3, PagesStep

LEMMA ActionBeginsStep ==
  ASSUME PageInv, NEW a \in Watcher, Seen!ActionBegins(a)
  PROVE  PageInv'
  <1>0. /\ SeenTypes /\ a \in live
        /\ doing' = [doing EXCEPT ![a] = [at |-> "acting", clear |-> Seen!InSync, fresh |-> {}, new |-> 0]]
        /\ UNCHANGED <<live, counter, currentSeq, buffer, printed, open, store,
                       happened, gone, muted, since, clear>>
    BY DEF PageInv, Seen!ActionBegins, Seen!page, Seen!ghosts
  <1>1. [at |-> "acting", clear |-> Seen!InSync, fresh |-> {}, new |-> 0] \in Deed
    BY DEF Deed, Seen!InSync
  <1>2. doing' \in [Watcher -> {Seen!Idle} \cup Deed] /\ \A b \in Watcher \ {a} : doing'[b] = doing[b]
    BY <1>0, <1>1 DEF SeenTypes
  <1>3. SeenTypes'
    BY <1>0, <1>2 DEF SeenTypes, Seen!Idle
  <1> QED BY <1>0, <1>2, <1>3, PagesAsTheyAre

LEMMA ActionFailsStep ==
  ASSUME PageInv, NEW a \in Watcher, Seen!ActionFails(a)
  PROVE  PageInv'
  <1>0. /\ SeenTypes
        /\ doing' = [doing EXCEPT ![a] = Seen!Idle] /\ doing[a].at = "acting"
        /\ UNCHANGED <<live, counter, currentSeq, buffer, printed, open, store,
                       happened, gone, muted, since, clear>>
    BY DEF PageInv, Seen!ActionFails, Seen!page, Seen!ghosts
  <1>1. a \in live
    BY <1>0, DeedIs DEF PageInv, Unborn
  <1>2. doing' \in [Watcher -> {Seen!Idle} \cup Deed] /\ \A b \in Watcher \ {a} : doing'[b] = doing[b]
    BY <1>0 DEF SeenTypes
  <1>3. SeenTypes'
    BY <1>0, <1>2 DEF SeenTypes, Seen!Idle
  <1> QED BY <1>0, <1>1, <1>2, <1>3, PagesAsTheyAre

LEMMA CountsStep ==
  ASSUME PageInv, NEW a \in Watcher, Seen!Counts(a)
  PROVE  PageInv'
  <1>0. /\ SeenTypes /\ doing[a].at = "acting" /\ counter' = counter + 1
        /\ doing' = [b \in Watcher |->
                 IF b = a THEN [at |-> "counted", clear |-> doing[a].clear,
                                fresh |-> doing[a].fresh, new |-> counter + 1]
                 ELSE IF doing[b] = Seen!Idle THEN Seen!Idle ELSE [doing[b] EXCEPT !.clear = FALSE]]
        /\ clear' = [b \in Watcher |-> FALSE]
        /\ UNCHANGED <<live, currentSeq, buffer, printed, open, store,
                       happened, gone, muted, since>>
    BY DEF PageInv, Seen!Counts, Seen!page
  <1>1. a \in live /\ doing[a] \in Deed
    BY <1>0, DeedIs DEF PageInv, Unborn
  <1>2. ASSUME NEW b \in Watcher PROVE doing'[b] \in {Seen!Idle} \cup Deed
    <2>1. CASE b = a
      <3>1. /\ doing[a].clear \in BOOLEAN /\ doing[a].fresh \in SUBSET Nat /\ counter + 1 \in Nat
        BY <1>0, <1>1, DeedIs DEF SeenTypes
      <3>2. [at |-> "counted", clear |-> doing[a].clear, fresh |-> doing[a].fresh,
             new |-> counter + 1] \in Deed
        BY <3>1 DEF Deed
      <3> QED BY <1>0, <2>1, <3>2
    <2>2. CASE b # a /\ doing[b] = Seen!Idle
      BY <1>0, <2>2
    <2>3. CASE b # a /\ doing[b] # Seen!Idle
      <3>1. doing[b] \in Deed
        BY <1>0, <2>3, DeedIs
      <3>2. [doing[b] EXCEPT !.clear = FALSE] \in Deed
        BY <3>1 DEF Deed
      <3> QED BY <1>0, <2>3, <3>2
    <2> QED BY <2>1, <2>2, <2>3
  <1>3. doing' \in [Watcher -> {Seen!Idle} \cup Deed]
    BY <1>0, <1>2
  <1>4. SeenTypes'
    BY <1>0, <1>3 DEF SeenTypes, Seen!Idle
  <1>5. \A b \in Watcher \ {a} : doing[b] = Seen!Idle => doing'[b] = Seen!Idle
    BY <1>0
  <1> QED BY <1>0, <1>1, <1>4, <1>5, PagesAsTheyAre

LEMMA SetsSeqStep ==
  ASSUME PageInv, NEW a \in Watcher, Seen!SetsSeq(a)
  PROVE  PageInv'
  <1>0. /\ SeenTypes /\ doing[a].at = "counted"
        /\ currentSeq' \in {doing[a].new, currentSeq}
        /\ clear' = [clear EXCEPT ![a] = doing[a].clear]
        /\ since' = [since EXCEPT ![a] = doing[a].fresh]
        /\ doing' = [doing EXCEPT ![a] = Seen!Idle]
        /\ UNCHANGED <<live, counter, buffer, printed, open, store, happened, gone, muted>>
    BY DEF PageInv, Seen!SetsSeq, Seen!page
  <1>1. /\ a \in live /\ doing[a].clear \in BOOLEAN /\ doing[a].fresh \in SUBSET Nat
        /\ doing[a].new \in Nat
    BY <1>0, DeedIs DEF PageInv, Unborn
  <1>2. doing' \in [Watcher -> {Seen!Idle} \cup Deed] /\ \A b \in Watcher \ {a} : doing'[b] = doing[b]
    BY <1>0 DEF SeenTypes
  <1>3. SeenTypes'
    <2>1. since' \in [Watcher -> SUBSET Nat] /\ \A b \in Watcher \ {a} : since'[b] = since[b]
      BY <1>0, <1>1 DEF SeenTypes
    <2>2. clear' \in [Watcher -> BOOLEAN] /\ currentSeq' \in Nat
      BY <1>0, <1>1 DEF SeenTypes
    <2> QED BY <1>0, <1>2, <2>1, <2>2 DEF SeenTypes, Seen!Idle
  <1>4. \A b \in Watcher \ {a} : since'[b] = since[b]
    BY <1>0 DEF SeenTypes
  <1> QED BY <1>0, <1>1, <1>2, <1>3, <1>4, PagesAsTheyAre

LEMMA PageInvInit == AgentsInit => PageInv
  <1> SUFFICES ASSUME AgentsInit PROVE PageInv
    OBVIOUS
  <1>0. Seen!Init /\ FirstWatcher \in Watcher
    BY SeenAssumption DEF AgentsInit
  <1>1. << >> \in Seq(EventRec) /\ << >> \in Seq(Nat) /\ << >> \in Seq(Happening)
    BY EmptySeq
  <1>2. SeenTypes
    BY <1>0, <1>1 DEF Seen!Init, SeenTypes
  <1>3. Unborn /\ Placed
    BY <1>0, EmptyIs DEF Seen!Init, Unborn, Placed
  <1>4. ASSUME NEW a \in Watcher PROVE Timely(a) /\ Underway(a) /\ Undrained(a)
    <2>1. buffer[a] = << >> /\ store[a] = << >> /\ printed[a] = << >> /\ open[a] = {}
      BY <1>0 DEF Seen!Init
    <2>2. Events(a) = {}
      BY <2>1, EmptyIs DEF Events
    <2>3. Timely(a)
      BY <2>1, <2>2, EmptyIs DEF Timely, Genuine, InOrder, Before
    <2>4. Underway(a) /\ Undrained(a)
      BY <2>1, EmptyIs DEF Underway, Undrained
    <2> QED BY <2>3, <2>4
  <1> QED BY <1>2, <1>3, <1>4 DEF PageInv

LEMMA PageInvStep == PageInv /\ [AgentsNext]_<<part, vars, calls, seen>> => PageInv'
  <1> SUFFICES ASSUME PageInv, [AgentsNext]_<<part, vars, calls, seen>> PROVE PageInv'
    OBVIOUS
  <1>1. CASE UNCHANGED seen
    BY <1>1 DEF seen, PageInv, SeenTypes, Unborn, Placed, Found, Timely, Underway, Undrained, Events,
              Seen!Idle
  <1>2. CASE Seen!Next
    <2> PICK a \in Watcher :
          \/ Seen!RequestBegins(a) \/ Seen!RequestEnds(a) \/ Seen!FramePasses(a) \/ Seen!Prints(a)
          \/ Seen!LeavesDocument(a) \/ Seen!ActionBegins(a) \/ Seen!ActionFails(a) \/ Seen!Counts(a)
          \/ Seen!SetsSeq(a) \/ Seen!SetsDevice(a) \/ Seen!Polls(a)
      BY <1>2 DEF Seen!Next
    <2> QED BY RequestBeginsStep, RequestEndsStep, FramePassesStep, PrintsStep, LeavesDocumentStep,
               ActionBeginsStep, ActionFailsStep, CountsStep, SetsSeqStep, SetsDeviceStep, PollsStep
  <1> QED BY <1>1, <1>2 DEF AgentsNext

LEMMA PageInvHolds == AgentsSpec => []PageInv
  BY PageInvInit, PageInvStep, PTL DEF AgentsSpec

LEMMA NothingLostOrDoubled == PageInv => EveryEventOnce
  <1> SUFFICES ASSUME PageInv PROVE Seen!EveryEventOnce
    BY DEF EveryEventOnce
  <1>0. SeenTypes
    BY DEF PageInv
  <1>1. ASSUME NEW i \in 1 .. Len(happened)
        PROVE  LET e == [id |-> i, state |-> happened[i].state]
                   a == happened[i].page
               IN e \in Seen!InStore(a) \cup Seen!Within(a) \cup gone \/ i \in muted
                  \/ \E j \in 1 .. Len(printed[a]) : printed[a][j] = i
    <2>1. PICK a \in Watcher : happened[i].page = a
      BY <1>0, HappenedIs
    <2>2. store[a] \in Seq(EventRec) /\ buffer[a] \in Seq(EventRec) /\ printed[a] \in Seq(Nat)
      BY <1>0 DEF SeenTypes
    <2>3. /\ ToSet(store[a]) = {store[a][j] : j \in 1 .. Len(store[a])}
          /\ ToSet(buffer[a]) = {buffer[a][j] : j \in 1 .. Len(buffer[a])}
          /\ ToSet(printed[a]) = {printed[a][j] : j \in 1 .. Len(printed[a])}
      BY <2>2, ElementsOf
    <2>4. Names(Events(a)) = Seen!InStore(a) \cup Seen!Within(a)
      BY <2>3 DEF Names, Events, Seen!InStore, Seen!Within
    <2>5. Found(i)
      BY DEF PageInv, Placed
    <2> QED BY <2>1, <2>3, <2>4, <2>5 DEF Found
  <1>2. ASSUME NEW a \in Watcher
        PROVE  LET q == store[a] \o buffer[a]
               IN \A i \in 1 .. Len(q) :
                    /\ happened[q[i].id].page = a
                    /\ \A j \in i + 1 .. Len(q) : Seen!Named(q[i]) # Seen!Named(q[j])
    <2> DEFINE q == store[a] \o buffer[a]
    <2>1. store[a] \in Seq(EventRec) /\ buffer[a] \in Seq(EventRec) /\ Timely(a)
      BY <1>0 DEF SeenTypes, PageInv
    <2>2. InOrder(q) /\ q \in Seq(EventRec) /\ ToSet(q) = Events(a)
      BY <2>1, ConcatInOrder, ConcatIs DEF Timely, Events
    <2> HIDE DEF q
    <2>3. Len(q) \in Nat /\ \A i \in 1 .. Len(q) : q[i] \in Events(a)
      BY <2>2, ElementsOf
    <2>4. \A i \in 1 .. Len(q) : happened[q[i].id].page = a
      BY <2>1, <2>3 DEF Timely, Genuine
    <2>5. ASSUME NEW i \in 1 .. Len(q), NEW j \in i + 1 .. Len(q), Seen!Named(q[i]) = Seen!Named(q[j])
          PROVE  FALSE
      <3>1. q[i].id = q[j].id /\ q[i].state = q[j].state
        BY <2>5 DEF Seen!Named
      <3>2. i < j /\ j \in 1 .. Len(q)
        BY <2>3
      <3>3. Follows(q[i], q[j])
        BY <2>2, <3>2 DEF InOrder
      <3> QED BY <3>1, <3>3 DEF Follows
    <2> QED BY <2>4, <2>5 DEF q
  <1> QED BY <1>1, <1>2 DEF Seen!EveryEventOnce

\* Between the page and the agent whose page it is no event is lost, doubled or
\* given to another agent, whatever the pages do and however the agents poll,
\* count and move on (bridge_script.rs, state.rs, observation.rs).
THEOREM NoEventLostOrDoubled == AgentsSpec => []EveryEventOnce
  BY PageInvHolds, NothingLostOrDoubled, PTL

-----------------------------------------------------------------------------
(* The dates. *)

\* Page a comes to hold events of new or other kinds only, or later ones.
Later(a) ==
  \A e \in Events(a)' \ Events(a) :
    \/ e.id \notin 1 .. Len(happened) \/ happened[e.id].kind # "net"
    \/ \E r \in open[a] : r.id = e.id /\ e.seq = r.seq

LEMMA BuffersHolds ==
  ASSUME SeenTypes, NEW a \in Watcher, NEW events \in Seq(EventRec), Seen!Buffers(a, events)
  PROVE  /\ ToSet(buffer'[a]) \subseteq ToSet(buffer[a]) \cup ToSet(events)
         /\ \A b \in Watcher : b # a => buffer'[b] = buffer[b]
  <1> DEFINE q == buffer[a] \o events
             k == Seen!Kept(q)
  <1>1. buffer[a] \in Seq(EventRec)
    BY DEF SeenTypes
  <1>2. q \in Seq(EventRec) /\ ToSet(q) = ToSet(buffer[a]) \cup ToSet(events)
    BY <1>1, ConcatIs
  <1>3. buffer' = [buffer EXCEPT ![a] = k]
    BY DEF Seen!Buffers
  <1> HIDE DEF q
  <1>4. ToSet(k) \subseteq ToSet(q)
    BY <1>2, KeptIs
  <1> HIDE DEF k
  <1> QED BY <1>2, <1>3, <1>4 DEF SeenTypes

LEMMA OneEvent ==
  ASSUME NEW e \in EventRec
  PROVE  <<e>> \in Seq(EventRec) /\ ToSet(<<e>>) = {e}
  BY DEF ToSet

LEMMA DatedKept ==
  ASSUME NEW a \in Watcher, Later(a), NEW i \in 1 .. Len(happened), happened[i].kind = "net",
         \A r \in open'[a] : r.id = i => r \in open[a], NEW d, Dated(a, i, d)
  PROVE  Dated(a, i, d)'
  <1>1. ASSUME NEW e \in Events(a)', e.id = i PROVE e.seq >= d
    <2>1. CASE e \in Events(a)
      BY <1>1, <2>1 DEF Dated
    <2>2. CASE e \notin Events(a)
      <3>1. PICK r \in open[a] : r.id = e.id /\ e.seq = r.seq
        BY <1>1, <2>2 DEF Later
      <3> QED BY <1>1, <3>1 DEF Dated
    <2> QED BY <2>1, <2>2
  <1>2. \A r \in open'[a] : r.id = i => r.seq >= d
    BY DEF Dated
  <1> QED BY <1>1, <1>2 DEF Dated

LEMMA RequestsKept ==
  ASSUME Grown(happened, happened'), Len(happened) \in Nat, Len(happened') \in Nat,
         NEW a, NEW I, Requests(a, I)
  PROVE  Requests(a, I)'
  BY DEF Grown, Requests

\* Nothing counts: the dates of agent b stay good.
LEMMA DatesStill ==
  ASSUME SeenTypes, SeenTypes', DateInv, Grown(happened, happened'),
         UNCHANGED <<live, counter, currentSeq, clear>>,
         \A b \in Watcher : doing'[b].at = doing[b].at,
         NEW b \in Watcher, Later(b), doing'[b] = doing[b], since'[b] = since[b],
         \A r \in open'[b] : r.id \in 1 .. Len(happened) => r \in open[b]
  PROVE  Acting(b)' /\ Listed(b)'
  <1>1. Len(happened) \in Nat /\ Len(happened') \in Nat
    BY LenProperties DEF SeenTypes
  <1>2. ASSUME NEW I, Requests(b, I), NEW d, \A i \in I : Dated(b, i, d)
        PROVE  \A i \in I : Dated(b, i, d)'
    <2> TAKE i \in I
    <2>1. i \in 1 .. Len(happened) /\ happened[i].kind = "net" /\ Dated(b, i, d)
      BY <1>2 DEF Requests
    <2> QED BY <2>1, DatedKept
  <1>3. \A I : Requests(b, I) => Requests(b, I)'
    BY <1>1, RequestsKept
  <1>4. (NobodyCounts => NobodyCounts') /\ live \subseteq Watcher
    BY DEF NobodyCounts, SeenTypes
  <1>c. PICK c \in Nat : counter = c /\ counter' = c
    BY DEF SeenTypes
  <1>d. ASSUME NEW I, Requests(b, I), \A i \in I : Dated(b, i, counter)
        PROVE  \A i \in I : Dated(b, i, counter)'
    <2>1. \A i \in I : Dated(b, i, c)
      BY <1>c, <1>d DEF Dated
    <2>2. \A i \in I : Dated(b, i, c)'
      BY <1>2, <1>d, <2>1
    <2> QED BY <1>c, <2>2 DEF Dated
  <1>e. ASSUME NEW I, Requests(b, I), \A i \in I : Dated(b, i, counter - 1)
        PROVE  \A i \in I : Dated(b, i, counter - 1)'
    <2>1. \A i \in I : Dated(b, i, c - 1)
      BY <1>c, <1>e DEF Dated
    <2>2. \A i \in I : Dated(b, i, c - 1)'
      BY <1>2, <1>e, <2>1
    <2> QED BY <1>c, <2>2 DEF Dated
  <1>5. Acting(b)'
    <2>1. Acting(b)
      BY DEF DateInv
    <2>2. CASE doing[b] = Seen!Idle
      BY <2>2 DEF Acting, Seen!Idle
    <2>3. CASE doing[b] # Seen!Idle
      <3> DEFINE I == doing[b].fresh
      <3>1. Requests(b, I)'
        BY <1>3, <2>1, <2>3 DEF Acting
      <3>2. CASE doing[b].clear /\ doing[b].at = "acting"
        <4>1. currentSeq = counter /\ NobodyCounts /\ Requests(b, I)
              /\ \A i \in I : Dated(b, i, counter)
          BY <2>1, <2>3, <3>2 DEF Acting
        <4>2. \A i \in I : Dated(b, i, counter)'
          BY <1>d, <4>1
        <4> QED BY <1>4, <3>1, <3>2, <4>1, <4>2 DEF Acting
      <3>3. CASE doing[b].clear /\ doing[b].at # "acting"
        <4>1. /\ currentSeq + 1 = counter /\ doing[b].new = counter /\ Requests(b, I)
              /\ \A f \in live \ {b} : doing[f].at # "counted"
              /\ \A i \in I : Dated(b, i, counter - 1)
          BY <2>1, <2>3, <3>3 DEF Acting
        <4>2. \A i \in I : Dated(b, i, counter - 1)'
          BY <1>e, <4>1
        <4>3. \A f \in live' \ {b} : doing'[f].at # "counted"
          BY <1>4, <4>1
        <4> QED BY <3>1, <3>3, <4>1, <4>2, <4>3 DEF Acting
      <3>4. CASE ~doing[b].clear
        BY <3>1, <3>4 DEF Acting
      <3> QED BY <3>2, <3>3, <3>4
    <2> QED BY <2>2, <2>3
  <1>6. Listed(b)'
    <2>1. Listed(b)
      BY DEF DateInv
    <2>2. Requests(b, since[b])'
      BY <1>3, <2>1 DEF Listed
    <2>3. CASE clear[b]
      <3>1. /\ counter # 0 /\ counter <= currentSeq + 1 /\ NobodyCounts /\ Requests(b, since[b])
            /\ \A i \in since[b] : Dated(b, i, counter - 1)
        BY <2>1, <2>3 DEF Listed
      <3>2. \A i \in since[b] : Dated(b, i, counter - 1)'
        BY <1>e, <3>1
      <3> QED BY <1>4, <2>2, <3>1, <3>2 DEF Listed
    <2>4. CASE ~clear[b]
      BY <2>2, <2>4 DEF Listed
    <2> QED BY <2>3, <2>4
  <1> QED BY <1>5, <1>6

\* A step of page a that no agent has a part in.
LEMMA DatesOfPage ==
  ASSUME PageInv, PageInv', DateInv, Grown(happened, happened'), NEW a \in Watcher, Later(a),
         UNCHANGED <<live, counter, currentSeq, clear, doing, since>>,
         \A b \in Watcher : open'[b] \subseteq open[b],
         \A b \in Watcher \ {a} : buffer'[b] = buffer[b] /\ store'[b] = store[b]
  PROVE  DateInv'
  <1> SUFFICES ASSUME NEW b \in Watcher PROVE Acting(b)' /\ Listed(b)'
    BY DEF DateInv
  <1>0. SeenTypes /\ SeenTypes'
    BY DEF PageInv
  <1>1. Later(b)
    <2>1. CASE b = a
      BY <2>1
    <2>2. CASE b # a
      <3>1. Events(b)' = Events(b)
        BY <2>2 DEF Events
      <3> QED BY <3>1 DEF Later
    <2> QED BY <2>1, <2>2
  <1>2. \A r \in open'[b] : r \in open[b]
    OBVIOUS
  <1>3. \A c \in Watcher : doing'[c].at = doing[c].at
    OBVIOUS
  <1>4. doing'[b] = doing[b] /\ since'[b] = since[b]
    OBVIOUS
  <1> QED BY <1>0, <1>1, <1>2, <1>3, <1>4, DatesStill

LEMMA RequestEndsDates ==
  ASSUME PageInv, PageInv', DateInv, NEW a \in Watcher, Seen!RequestEnds(a)
  PROVE  DateInv'
  <1>1. PICK r \in open[a] :
          /\ open' = [open EXCEPT ![a] = @ \ {r}]
          /\ happened' = [happened EXCEPT ![r.id].state = "ended"]
          /\ Seen!Buffers(a, <<Seen!Event("net", r.id, "ended", r.seq)>>)
          /\ UNCHANGED <<live, counter, currentSeq, printed, attached, store, doing,
                         muted, since, clear>>
    BY DEF Seen!RequestEnds
  <1>0. SeenTypes /\ Underway(a)
    BY DEF PageInv
  <1>2. /\ r.id \in 1 .. Len(happened) /\ r.id \in Nat /\ Len(happened) \in Nat /\ r.seq \in Nat
        /\ happened[r.id] = [page |-> a, kind |-> "net", state |-> "pending"]
    BY <1>0, HappenedIs DEF Underway, SeenTypes
  <1>3. Grown(happened, happened')
    <2>1. happened' = [happened EXCEPT ![r.id] = [happened[r.id] EXCEPT !.state = "ended"]]
      BY <1>1
    <2>2. [happened[r.id] EXCEPT !.state = "ended"] = [page |-> a, kind |-> "net", state |-> "ended"]
      BY <1>2
    <2>3. [page |-> a, kind |-> "net", state |-> "ended"] \in Happening
      BY DEF Happening, EventKind, EventState
    <2>4. /\ Len(happened') = Len(happened)
          /\ \A i \in 1 .. Len(happened) : i # r.id => happened'[i] = happened[i]
          /\ happened'[r.id] = [page |-> a, kind |-> "net", state |-> "ended"]
      BY <1>0, <1>2, <2>1, <2>2, <2>3, ExceptSeq DEF SeenTypes
    <2> QED BY <1>2, <2>4 DEF Grown
  <1> DEFINE e == Seen!Event("net", r.id, "ended", r.seq)
  <1>4. e \in EventRec /\ e.id = r.id /\ e.seq = r.seq
    BY <1>2 DEF Seen!Event, EventRec, EventKind, EventState
  <1>5. ToSet(buffer'[a]) \subseteq ToSet(buffer[a]) \cup {e}
        /\ \A b \in Watcher : b # a => buffer'[b] = buffer[b]
    <2>1. Seen!Buffers(a, <<e>>)
      BY <1>1
    <2> HIDE DEF e
    <2> QED BY <1>0, <1>4, <2>1, OneEvent, BuffersHolds
  <1> HIDE DEF e
  <1>6. Later(a)
    <2>1. \A f \in Events(a)' \ Events(a) : f = e
      BY <1>1, <1>5 DEF Events
    <2> QED BY <1>4, <2>1 DEF Later
  <1>7. \A b \in Watcher : open'[b] \subseteq open[b]
    BY <1>0, <1>1 DEF SeenTypes
  <1> QED BY <1>1, <1>3, <1>5, <1>6, <1>7, DatesOfPage

LEMMA FramePassesDates ==
  ASSUME PageInv, PageInv', DateInv, NEW a \in Watcher, Seen!FramePasses(a)
  PROVE  DateInv'
  <1> DEFINE e == Seen!Event("ws", Seen!Number, "ended", currentSeq)
  <1>0. SeenTypes /\ Seen!Begins(a, "ws", "ended") /\ Seen!Buffers(a, <<e>>)
        /\ UNCHANGED <<live, counter, currentSeq, printed, attached, open, store, doing,
                       muted, since, clear>>
    BY DEF Seen!FramePasses, Seen!page, PageInv
  <1>n. Seen!Number = Len(happened) + 1 /\ Len(happened) \in Nat
    BY <1>0, HappenedIs
  <1>1. Grown(happened, happened')
    BY <1>0, BeginsIs DEF EventKind, EventState
  <1>2. e \in EventRec /\ e.id = Len(happened) + 1
    BY <1>0, <1>n DEF Seen!Event, EventRec, EventKind, EventState, SeenTypes
  <1>3. ToSet(buffer'[a]) \subseteq ToSet(buffer[a]) \cup {e}
        /\ \A b \in Watcher : b # a => buffer'[b] = buffer[b]
    <2>1. Seen!Buffers(a, <<e>>)
      BY <1>0
    <2> HIDE DEF e
    <2> QED BY <1>0, <1>2, <2>1, OneEvent, BuffersHolds
  <1> HIDE DEF e
  <1>4. Later(a)
    <2>1. \A f \in Events(a)' \ Events(a) : f = e
      BY <1>0, <1>3 DEF Events
    <2> QED BY <1>2, <1>n, <2>1 DEF Later
  <1> QED BY <1>0, <1>1, <1>3, <1>4, DatesOfPage

LEMMA PrintsDates ==
  ASSUME PageInv, PageInv', DateInv, NEW a \in Watcher, Seen!Prints(a)
  PROVE  DateInv'
  <1>0. SeenTypes /\ Seen!Begins(a, "log", "ended")
        /\ UNCHANGED <<live, counter, currentSeq, buffer, attached, open, store, doing,
                       gone, since, clear>>
    BY DEF Seen!Prints, PageInv
  <1>1. Grown(happened, happened')
    BY <1>0, BeginsIs DEF EventKind, EventState
  <1>2. Later(a)
    BY <1>0 DEF Later, Events
  <1> QED BY <1>0, <1>1, <1>2, DatesOfPage

\* A page's messages are not requests.
LEMMA DrainedLater ==
  ASSUME PageInv, NEW a \in Watcher, Events(a)' \subseteq Events(a) \cup ToSet(Seen!Drained(a))
  PROVE  Later(a)
  <1>1. Genuine(happened, a, ToSet(Seen!Drained(a)))
    BY DrainedIs
  <1>2. \A e \in ToSet(Seen!Drained(a)) : e.kind = "log"
    <2>1. Seen!Drained(a) \in Seq(EventRec)
      BY DrainedIs
    <2>2. printed[a] \in Seq(Nat) /\ Len(printed[a]) \in Nat
      BY LenProperties DEF PageInv, SeenTypes
    <2>3. DOMAIN Seen!Drained(a) = 1 .. Len(printed[a])
          /\ \A i \in 1 .. Len(printed[a]) : Seen!Drained(a)[i].kind = "log"
      BY DEF Seen!Drained, Seen!Event
    <2>4. DOMAIN Seen!Drained(a) = 1 .. Len(Seen!Drained(a))
      BY <2>1, LenProperties
    <2> QED BY <2>1, <2>3, <2>4, ElementsOf
  <1> QED BY <1>1, <1>2 DEF Later, Genuine

LEMMA LeavesDocumentDates ==
  ASSUME PageInv, PageInv', DateInv, NEW a \in Watcher, Seen!LeavesDocument(a)
  PROVE  DateInv'
  <1>0. SeenTypes
        /\ UNCHANGED <<live, counter, currentSeq, open, store, doing, happened, muted, since, clear>>
    BY DEF PageInv, Seen!LeavesDocument, Seen!OnPage
  <1>1. /\ \A b \in Watcher : b # a => buffer'[b] = buffer[b]
        /\ ToSet(buffer'[a]) \subseteq ToSet(buffer[a]) \cup ToSet(Seen!Drained(a))
    <2>1. CASE Seen!Buffers(a, Seen!Drained(a))
      BY <1>0, <2>1, DrainedIs, BuffersHolds
    <2>2. CASE buffer' = buffer
      BY <2>2
    <2> QED BY <2>1, <2>2 DEF Seen!LeavesDocument
  <1>2. Later(a)
    BY <1>0, <1>1, DrainedLater DEF Events
  <1>3. Grown(happened, happened')
    BY <1>0, HappenedIs DEF Grown
  <1> QED BY <1>0, <1>1, <1>2, <1>3, DatesOfPage

LEMMA PollsDates ==
  ASSUME PageInv, PageInv', DateInv, NEW a \in Watcher, Seen!Polls(a)
  PROVE  DateInv'
  <1> DEFINE d == Seen!Drained(a)
             all == buffer[a] \o d
             k == Seen!Kept(all)
  <1>0. /\ SeenTypes
        /\ store' = [store EXCEPT ![a] = store[a] \o k] \/ store' = store
        /\ buffer' = [buffer EXCEPT ![a] = << >>]
        /\ UNCHANGED <<live, counter, currentSeq, open, doing, happened, muted, since, clear>>
    BY DEF PageInv, Seen!Polls, Seen!Ingested
  <1>1. d \in Seq(EventRec)
    BY DrainedIs
  <1> HIDE DEF d
  <1>2. buffer[a] \in Seq(EventRec) /\ store[a] \in Seq(EventRec)
    BY <1>0 DEF SeenTypes
  <1>3. all \in Seq(EventRec) /\ ToSet(all) = ToSet(buffer[a]) \cup ToSet(d)
    BY <1>1, <1>2, ConcatIs
  <1> HIDE DEF all
  <1>4. k \in Seq(EventRec) /\ ToSet(k) \subseteq ToSet(all)
    BY <1>3, KeptIs
  <1> HIDE DEF k
  <1>5. ToSet(store'[a]) \subseteq ToSet(store[a]) \cup ToSet(k)
        /\ \A b \in Watcher \ {a} : store'[b] = store[b]
    <2>1. ToSet(store[a] \o k) = ToSet(store[a]) \cup ToSet(k)
      BY <1>2, <1>4, ConcatIs
    <2>2. CASE store' = [store EXCEPT ![a] = store[a] \o k]
      <3>1. store'[a] = store[a] \o k
        BY <1>0, <2>2 DEF SeenTypes
      <3> QED BY <2>1, <2>2, <3>1
    <2> QED BY <1>0, <2>2
  <1>6. buffer'[a] = << >> /\ \A b \in Watcher \ {a} : buffer'[b] = buffer[b]
    BY <1>0 DEF SeenTypes
  <1>7. Events(a)' \subseteq Events(a) \cup ToSet(Seen!Drained(a))
    <2>1. ToSet(buffer'[a]) = {}
      BY <1>6, EmptyIs
    <2> QED BY <1>3, <1>4, <1>5, <2>1 DEF Events, d
  <1>8. Later(a)
    BY <1>7, DrainedLater
  <1>9. Grown(happened, happened')
    BY <1>0, HappenedIs DEF Grown
  <1> QED BY <1>0, <1>5, <1>6, <1>8, <1>9, DatesOfPage

LEMMA SetsDeviceDates ==
  ASSUME PageInv, PageInv', DateInv, NEW a \in Watcher, Seen!SetsDevice(a)
  PROVE  DateInv'
  <1>0. /\ SeenTypes /\ SeenTypes'
        /\ buffer' = [b \in Watcher |-> << >>]
        /\ \A b \in Watcher : open'[b] \subseteq open[b]
        /\ UNCHANGED <<live, counter, currentSeq, store, doing, happened, muted, since, clear>>
    BY DEF PageInv, Seen!SetsDevice
  <1>1. Grown(happened, happened')
    BY <1>0, HappenedIs DEF Grown
  <1>2. ASSUME NEW b \in Watcher PROVE Acting(b)' /\ Listed(b)'
    <2>1. ToSet(buffer'[b]) = {}
      BY <1>0, EmptyIs
    <2>2. Later(b)
      BY <1>0, <2>1 DEF Later, Events
    <2>3. \A r \in open'[b] : r \in open[b]
      BY <1>0
    <2>4. \A c \in Watcher : doing'[c].at = doing[c].at
      BY <1>0
    <2>5. doing'[b] = doing[b] /\ since'[b] = since[b]
      BY <1>0
    <2> QED BY <1>0, <1>1, <2>2, <2>3, <2>4, <2>5, DatesStill
  <1> QED BY <1>2 DEF DateInv

LEMMA RequestBeginsDates ==
  ASSUME PageInv, PageInv', DateInv, NEW a \in Watcher, Seen!RequestBegins(a)
  PROVE  DateInv'
  <1>n. PICK n \in Nat : n = Seen!Number /\ n = Len(happened) + 1 /\ Len(happened) \in Nat
                         /\ counter \in Nat /\ currentSeq \in Nat
    BY HappenedIs DEF PageInv, SeenTypes
  <1>e. PICK e \in EventRec : /\ e = Seen!Event("net", n, "pending", currentSeq)
                              /\ e.id = n /\ e.seq = currentSeq
    <2> DEFINE f == Seen!Event("net", n, "pending", currentSeq)
    <2>1. f \in EventRec /\ f.id = n /\ f.seq = currentSeq
      BY <1>n DEF Seen!Event, EventRec, EventKind, EventState
    <2> QED BY <2>1
  <1>r. PICK r \in [id : Nat, seq : Nat] :
          r = [id |-> n, seq |-> currentSeq] /\ r.id = n /\ r.seq = currentSeq
    <2> DEFINE f == [id |-> n, seq |-> currentSeq]
    <2>1. f \in [id : Nat, seq : Nat] /\ f.id = n /\ f.seq = currentSeq
      BY <1>n
    <2> QED BY <2>1
  <1>0. /\ SeenTypes /\ SeenTypes' /\ Seen!Begins(a, "net", "pending") /\ Seen!Buffers(a, <<e>>)
        /\ open' = [open EXCEPT ![a] = @ \cup {r}]
        /\ since' = [since EXCEPT ![a] = @ \cup {n}]
        /\ doing' = IF doing[a] = Seen!Idle THEN doing
                    ELSE [doing EXCEPT ![a].fresh = @ \cup {n}]
        /\ UNCHANGED <<live, counter, currentSeq, printed, attached, store, muted, clear>>
    BY <1>n, <1>e, <1>r DEF Seen!RequestBegins, PageInv
  <1>1. /\ Len(happened') = n /\ Grown(happened, happened') /\ a \in live
        /\ happened'[n] = [page |-> a, kind |-> "net", state |-> "pending"]
    BY <1>0, <1>n, BeginsIs DEF EventKind, EventState
  <1>3. ToSet(buffer'[a]) \subseteq ToSet(buffer[a]) \cup {e}
        /\ \A b \in Watcher : b # a => buffer'[b] = buffer[b]
    BY <1>0, OneEvent, BuffersHolds
  <1>4. Events(a)' \subseteq Events(a) \cup {e}
    BY <1>0, <1>3 DEF Events
  <1>5. open'[a] = open[a] \cup {r} /\ since'[a] = since[a] \cup {n}
        /\ \A b \in Watcher \ {a} : open'[b] = open[b] /\ since'[b] = since[b]
    BY <1>0 DEF SeenTypes
  <1>6. /\ \A b \in Watcher \ {a} : doing'[b] = doing[b]
        /\ doing[a] = Seen!Idle => doing'[a] = doing[a]
        /\ doing[a] # Seen!Idle =>
             /\ doing'[a] # Seen!Idle
             /\ doing'[a].at = doing[a].at /\ doing'[a].clear = doing[a].clear
             /\ doing'[a].new = doing[a].new /\ doing'[a].fresh = doing[a].fresh \cup {n}
    <2>1. CASE doing[a] = Seen!Idle
      BY <1>0, <2>1
    <2>2. CASE doing[a] # Seen!Idle
      <3>1. doing[a] \in Deed /\ doing' = [doing EXCEPT ![a] = [doing[a] EXCEPT !.fresh = @ \cup {n}]]
        BY <1>0, <2>2, DeedIs
      <3>2. /\ [doing[a] EXCEPT !.fresh = @ \cup {n}]
                = [at |-> doing[a].at, clear |-> doing[a].clear,
                   fresh |-> doing[a].fresh \cup {n}, new |-> doing[a].new]
        BY <3>1 DEF Deed
      <3>3. /\ doing'[a] = [at |-> doing[a].at, clear |-> doing[a].clear,
                            fresh |-> doing[a].fresh \cup {n}, new |-> doing[a].new]
            /\ \A b \in Watcher \ {a} : doing'[b] = doing[b]
        BY <1>0, <3>1, <3>2 DEF SeenTypes
      <3>4. doing'[a].at \in {"acting", "counted"}
        BY <3>1, <3>3 DEF Deed
      <3> QED BY <2>2, <3>3, <3>4 DEF Seen!Idle
    <2> QED BY <2>1, <2>2
  <1>7. \A b \in Watcher : doing'[b].at = doing[b].at
    BY <1>6
  <1>8. ASSUME NEW b \in Watcher, b # a PROVE Acting(b)' /\ Listed(b)'
    <2>1. Events(b)' = Events(b)
      BY <1>0, <1>3, <1>8 DEF Events
    <2>2. Later(b)
      BY <2>1 DEF Later
    <2>3. doing'[b] = doing[b] /\ since'[b] = since[b] /\ open'[b] = open[b]
      BY <1>5, <1>6, <1>8
    <2> QED BY <1>0, <1>1, <1>7, <2>2, <2>3, DatesStill
  <1>9. ASSUME NEW I, Requests(a, I) PROVE Requests(a, I \cup {n})'
    <2>1. Requests(a, I)'
      BY <1>1, <1>9, <1>n, RequestsKept
    <2> QED BY <1>1, <1>n, <2>1 DEF Requests
  <1>10. ASSUME NEW i \in 1 .. Len(happened), NEW d, Dated(a, i, d) PROVE Dated(a, i, d)'
    <2>1. \A f \in Events(a)' : f.id = i => f.seq >= d
      BY <1>e, <1>4, <1>10, <1>n DEF Dated
    <2>2. \A s \in open'[a] : s.id = i => s.seq >= d
      BY <1>5, <1>r, <1>10, <1>n DEF Dated
    <2> QED BY <2>1, <2>2 DEF Dated
  <1>11. ASSUME NEW d \in Int, d <= currentSeq PROVE Dated(a, n, d)'
    <2>1. \A f \in Events(a) : f.id # n
      BY <1>n DEF PageInv, Timely, Genuine
    <2>2. \A s \in open[a] : s.id # n
      <3>1. Underway(a)
        BY DEF PageInv
      <3> QED BY <1>n, <3>1 DEF Underway
    <2>3. \A f \in Events(a)' : f.id = n => f.seq >= d
      BY <1>e, <1>4, <1>11, <1>n, <2>1
    <2>4. \A s \in open'[a] : s.id = n => s.seq >= d
      BY <1>5, <1>r, <1>11, <1>n, <2>2
    <2> QED BY <2>3, <2>4 DEF Dated
  <1>12. ASSUME NEW I, Requests(a, I), NEW d \in Int, d <= currentSeq, \A i \in I : Dated(a, i, d)
         PROVE  \A i \in I \cup {n} : Dated(a, i, d)'
    <2> TAKE i \in I \cup {n}
    <2>1. CASE i = n
      BY <1>11, <1>12, <2>1
    <2>2. CASE i \in I
      <3>1. i \in 1 .. Len(happened) /\ Dated(a, i, d)
        BY <1>12, <2>2 DEF Requests
      <3> QED BY <1>10, <3>1
    <2> QED BY <2>1, <2>2
  <1>c. PICK c \in Nat : counter = c /\ counter' = c
    BY <1>0, <1>n
  <1>13. ASSUME NEW I, Requests(a, I), counter <= currentSeq, \A i \in I : Dated(a, i, counter)
         PROVE  \A i \in I \cup {n} : Dated(a, i, counter)'
    <2>1. c \in Int /\ c <= currentSeq /\ \A i \in I : Dated(a, i, c)
      BY <1>13, <1>c DEF Dated
    <2>2. \A i \in I \cup {n} : Dated(a, i, c)'
      BY <1>12, <1>13, <2>1
    <2> QED BY <1>c, <2>2 DEF Dated
  <1>14. ASSUME NEW I, Requests(a, I), counter <= currentSeq + 1, \A i \in I : Dated(a, i, counter - 1)
         PROVE  \A i \in I \cup {n} : Dated(a, i, counter - 1)'
    <2>1. c - 1 \in Int /\ c - 1 <= currentSeq /\ \A i \in I : Dated(a, i, c - 1)
      BY <1>14, <1>c, <1>n DEF Dated
    <2>2. \A i \in I \cup {n} : Dated(a, i, c - 1)'
      BY <1>12, <1>14, <2>1
    <2> QED BY <1>c, <2>2 DEF Dated
  <1>15. (NobodyCounts => NobodyCounts') /\ live \subseteq Watcher
    BY <1>0, <1>7 DEF NobodyCounts, SeenTypes
  <1>16. Acting(a)'
    <2>1. Acting(a)
      BY DEF DateInv
    <2>2. CASE doing[a] = Seen!Idle
      BY <1>6, <2>2 DEF Acting, Seen!Idle
    <2>3. CASE doing[a] # Seen!Idle
      <3>0. PICK I : I = doing[a].fresh /\ I \cup {n} = doing'[a].fresh
        BY <1>6, <2>3
      <3>1. Requests(a, I) /\ Requests(a, I \cup {n})'
        BY <1>9, <2>1, <2>3, <3>0 DEF Acting
      <3>2. Requests(a, doing[a].fresh)'
        BY <3>0, <3>1 DEF Requests
      <3>3. CASE doing[a].clear /\ doing[a].at = "acting"
        <4>1. currentSeq = counter /\ NobodyCounts /\ \A i \in I : Dated(a, i, counter)
          BY <2>1, <2>3, <3>0, <3>3 DEF Acting
        <4>2. \A i \in I \cup {n} : Dated(a, i, counter)'
          BY <1>13, <1>n, <3>1, <4>1
        <4> QED BY <1>0, <1>6, <1>15, <2>3, <3>0, <3>2, <3>3, <4>1, <4>2 DEF Acting
      <3>4. CASE doing[a].clear /\ doing[a].at # "acting"
        <4>1. /\ currentSeq + 1 = counter /\ doing[a].new = counter
              /\ \A f \in live \ {a} : doing[f].at # "counted"
              /\ \A i \in I : Dated(a, i, counter - 1)
          BY <2>1, <2>3, <3>0, <3>4 DEF Acting
        <4>2. \A i \in I \cup {n} : Dated(a, i, counter - 1)'
          BY <1>14, <1>n, <3>1, <4>1
        <4>3. \A f \in live' \ {a} : doing'[f].at # "counted"
          BY <1>0, <1>7, <1>15, <4>1
        <4> QED BY <1>0, <1>6, <2>3, <3>0, <3>2, <3>4, <4>1, <4>2, <4>3 DEF Acting
      <3>5. CASE ~doing[a].clear
        BY <1>6, <2>3, <3>2, <3>5 DEF Acting
      <3> QED BY <3>3, <3>4, <3>5
    <2> QED BY <2>2, <2>3
  <1>17. Listed(a)'
    <2>1. Listed(a)
      BY DEF DateInv
    <2>2. PICK I : I = since[a] /\ I \cup {n} = since'[a]
      BY <1>5
    <2>3. Requests(a, I) /\ Requests(a, I \cup {n})'
      BY <1>9, <2>1, <2>2 DEF Listed
    <2>4. Requests(a, since[a])'
      BY <2>2, <2>3 DEF Requests
    <2>5. CASE clear[a]
      <3>1. /\ counter # 0 /\ counter <= currentSeq + 1 /\ NobodyCounts
            /\ \A i \in I : Dated(a, i, counter - 1)
        BY <2>1, <2>2, <2>5 DEF Listed
      <3>2. \A i \in I \cup {n} : Dated(a, i, counter - 1)'
        BY <1>14, <2>3, <3>1
      <3> QED BY <1>0, <1>15, <2>2, <2>4, <3>1, <3>2 DEF Listed
    <2>6. CASE ~clear[a]
      BY <1>0, <2>4, <2>6 DEF Listed
    <2> QED BY <2>5, <2>6
  <1> QED BY <1>8, <1>16, <1>17 DEF DateInv

\* While an agent is between counting and telling the child, nobody else's
\* action or listing is clear.
LEMMA OneCounts ==
  ASSUME SeenTypes, DateInv, NEW a \in live, doing[a].at = "counted",
         NEW b \in Watcher, b # a
  PROVE  ~clear[b] /\ (doing[b] = Seen!Idle \/ ~doing[b].clear)
  <1>1. Acting(b) /\ Listed(b)
    BY DEF DateInv
  <1>2. ~NobodyCounts
    BY DEF NobodyCounts
  <1>3. a \in live \ {b}
    OBVIOUS
  <1> QED BY <1>1, <1>2, <1>3 DEF Acting, Listed

LEMMA ActionBeginsDates ==
  ASSUME PageInv, PageInv', DateInv, NEW a \in Watcher, Seen!ActionBegins(a)
  PROVE  DateInv'
  <1> DEFINE D == [at |-> "acting", clear |-> Seen!InSync, fresh |-> {}, new |-> 0]
  <1>0. /\ SeenTypes /\ a \in live /\ SeenTypes' /\ doing[a] = Seen!Idle
        /\ doing' = [doing EXCEPT ![a] = D]
        /\ UNCHANGED <<live, counter, currentSeq, buffer, printed, open, store,
                       happened, gone, muted, since, clear>>
    BY DEF PageInv, Seen!ActionBegins, Seen!page, Seen!ghosts
  <1>1. D.at = "acting" /\ D.clear = Seen!InSync /\ D.fresh = {}
    OBVIOUS
  <1> HIDE DEF D
  <1>2. doing'[a] = D /\ \A b \in Watcher \ {a} : doing'[b] = doing[b]
    BY <1>0 DEF SeenTypes
  <1>3. \A b \in Watcher : doing[b].at # "counted" => doing'[b].at # "counted"
    BY <1>1, <1>2
  <1>4. (NobodyCounts => NobodyCounts') /\ live \subseteq Watcher
    BY <1>0, <1>3 DEF NobodyCounts, SeenTypes
  <1>5. Acting(a)'
    <2>1. doing'[a].fresh = {} /\ doing'[a].at = "acting"
      BY <1>1, <1>2
    <2>2. doing'[a].clear => currentSeq' = counter' /\ NobodyCounts'
      <3>1. doing'[a].clear => currentSeq = counter /\ NobodyCounts
        BY <1>1, <1>2 DEF Seen!InSync, NobodyCounts
      <3> QED BY <1>0, <1>4, <3>1
    <2> QED BY <2>1, <2>2 DEF Acting, Requests
  <1>6. \A b \in Watcher : \A I, d : Requests(b, I)' = Requests(b, I) /\ Dated(b, I, d)' = Dated(b, I, d)
    BY <1>0 DEF Requests, Dated, Events
  <1>7. ASSUME NEW b \in Watcher, b # a PROVE Acting(b)'
    <2>1. Acting(b) /\ doing'[b] = doing[b]
      BY <1>2, <1>7 DEF DateInv
    <2>2. (\A f \in live \ {b} : doing[f].at # "counted")
            => \A f \in live' \ {b} : doing'[f].at # "counted"
      BY <1>0, <1>3, <1>4
    <2> QED BY <1>0, <1>4, <2>1, <2>2 DEF Acting, Requests, Dated, Events, Seen!Idle
  <1>8. ASSUME NEW b \in Watcher PROVE Listed(b)'
    <2>1. Listed(b)
      BY DEF DateInv
    <2> QED BY <1>0, <1>4, <2>1 DEF Listed, Requests, Dated, Events
  <1> QED BY <1>5, <1>7, <1>8 DEF DateInv

LEMMA ActionFailsDates ==
  ASSUME PageInv, PageInv', DateInv, NEW a \in Watcher, Seen!ActionFails(a)
  PROVE  DateInv'
  <1>0. /\ SeenTypes /\ SeenTypes'
        /\ doing' = [doing EXCEPT ![a] = Seen!Idle] /\ doing[a].at = "acting"
        /\ UNCHANGED <<live, counter, currentSeq, buffer, printed, open, store,
                       happened, gone, muted, since, clear>>
    BY DEF PageInv, Seen!ActionFails, Seen!page, Seen!ghosts
  <1>2. doing'[a] = Seen!Idle /\ \A b \in Watcher \ {a} : doing'[b] = doing[b]
    BY <1>0 DEF SeenTypes
  <1>3. \A b \in Watcher : doing[b].at # "counted" => doing'[b].at # "counted"
    BY <1>2 DEF Seen!Idle
  <1>4. (NobodyCounts => NobodyCounts') /\ live \subseteq Watcher
    BY <1>0, <1>3 DEF NobodyCounts, SeenTypes
  <1>5. Acting(a)'
    BY <1>2 DEF Acting, Seen!Idle
  <1>7. ASSUME NEW b \in Watcher, b # a PROVE Acting(b)'
    <2>1. Acting(b) /\ doing'[b] = doing[b]
      BY <1>2, <1>7 DEF DateInv
    <2>2. (\A f \in live \ {b} : doing[f].at # "counted")
            => \A f \in live' \ {b} : doing'[f].at # "counted"
      BY <1>0, <1>3, <1>4
    <2> QED BY <1>0, <1>4, <2>1, <2>2 DEF Acting, Requests, Dated, Events, Seen!Idle
  <1>8. ASSUME NEW b \in Watcher PROVE Listed(b)'
    <2>1. Listed(b)
      BY DEF DateInv
    <2> QED BY <1>0, <1>4, <2>1 DEF Listed, Requests, Dated, Events
  <1> QED BY <1>5, <1>7, <1>8 DEF DateInv

LEMMA CountsDates ==
  ASSUME PageInv, PageInv', DateInv, NEW a \in Watcher, Seen!Counts(a)
  PROVE  DateInv'
  <1>0. /\ SeenTypes /\ SeenTypes' /\ doing[a].at = "acting" /\ counter' = counter + 1
        /\ doing' = [b \in Watcher |->
                 IF b = a THEN [at |-> "counted", clear |-> doing[a].clear,
                                fresh |-> doing[a].fresh, new |-> counter + 1]
                 ELSE IF doing[b] = Seen!Idle THEN Seen!Idle ELSE [doing[b] EXCEPT !.clear = FALSE]]
        /\ clear' = [b \in Watcher |-> FALSE]
        /\ UNCHANGED <<live, currentSeq, buffer, printed, open, store,
                       happened, gone, muted, since>>
    BY DEF PageInv, Seen!Counts, Seen!page
  <1>1. counter \in Nat /\ currentSeq \in Nat /\ live \subseteq Watcher
    BY <1>0 DEF SeenTypes
  <1>2. /\ doing'[a].at = "counted" /\ doing'[a].clear = doing[a].clear
        /\ doing'[a].fresh = doing[a].fresh /\ doing'[a].new = counter + 1
    BY <1>0
  <1>3. ASSUME NEW b \in Watcher, b # a
        PROVE  /\ doing'[b] = Seen!Idle \/ (~doing'[b].clear /\ doing'[b].fresh = doing[b].fresh)
               /\ doing'[b] = Seen!Idle \/ doing[b] # Seen!Idle
               /\ doing'[b].at = doing[b].at
    <2>1. CASE doing[b] = Seen!Idle
      BY <1>0, <1>3, <2>1
    <2>2. CASE doing[b] # Seen!Idle
      <3>1. doing[b] \in Deed
        BY <1>0, <2>2, DeedIs
      <3>2. doing'[b] = [doing[b] EXCEPT !.clear = FALSE]
        BY <1>0, <1>3, <2>2
      <3>3. doing'[b].at = doing[b].at /\ doing'[b].fresh = doing[b].fresh
        BY <3>1, <3>2 DEF Deed
      <3>4. doing'[b].clear = FALSE
        BY <3>1, <3>2 DEF Deed
      <3> QED BY <2>2, <3>3, <3>4
    <2> QED BY <2>1, <2>2
  <1>4. Acting(a)'
    <2>1. Acting(a) /\ doing[a] # Seen!Idle
      BY <1>0 DEF DateInv, Seen!Idle
    <2>2. Requests(a, doing[a].fresh)'
      BY <1>0, <1>2, <2>1 DEF Acting, Requests
    <2>3. CASE doing[a].clear
      <3>1. /\ currentSeq = counter /\ NobodyCounts
            /\ \A i \in doing[a].fresh : Dated(a, i, counter)
        BY <1>0, <2>1, <2>3 DEF Acting
      <3>2. \A f \in live' \ {a} : doing'[f].at # "counted"
        BY <1>0, <1>1, <1>3, <3>1 DEF NobodyCounts
      <3>3. \A i \in doing'[a].fresh : Dated(a, i, counter - 1)'
        BY <1>0, <1>1, <1>2, <3>1 DEF Dated, Events
      <3> QED BY <1>0, <1>1, <1>2, <2>2, <3>1, <3>2, <3>3 DEF Acting
    <2>4. CASE ~doing[a].clear
      BY <1>2, <2>2, <2>4 DEF Acting
    <2> QED BY <2>3, <2>4
  <1>5. ASSUME NEW b \in Watcher, b # a PROVE Acting(b)'
    <2>1. Acting(b)
      BY DEF DateInv
    <2>2. CASE doing'[b] = Seen!Idle
      BY <2>2 DEF Acting, Seen!Idle
    <2>3. CASE doing'[b] # Seen!Idle
      <3>1. ~doing'[b].clear /\ doing'[b].fresh = doing[b].fresh /\ doing[b] # Seen!Idle
        BY <1>3, <1>5, <2>3
      <3>2. Requests(b, doing[b].fresh)
        BY <2>1, <3>1 DEF Acting
      <3>3. Requests(b, doing[b].fresh)'
        BY <1>0, <3>1, <3>2 DEF Requests
      <3> QED BY <3>1, <3>3 DEF Acting
    <2> QED BY <2>2, <2>3
  <1>6. ASSUME NEW b \in Watcher PROVE Listed(b)'
    <2>1. Listed(b) /\ ~clear'[b]
      BY <1>0 DEF DateInv
    <2> QED BY <1>0, <2>1 DEF Listed, Requests
  <1> QED BY <1>4, <1>5, <1>6 DEF DateInv

LEMMA SetsSeqDates ==
  ASSUME PageInv, PageInv', DateInv, NEW a \in Watcher, Seen!SetsSeq(a)
  PROVE  DateInv'
  <1>0. /\ SeenTypes /\ SeenTypes' /\ doing[a].at = "counted"
        /\ currentSeq' \in {doing[a].new, currentSeq}
        /\ clear' = [clear EXCEPT ![a] = doing[a].clear]
        /\ since' = [since EXCEPT ![a] = doing[a].fresh]
        /\ doing' = [doing EXCEPT ![a] = Seen!Idle]
        /\ UNCHANGED <<live, counter, buffer, printed, open, store, happened, gone, muted>>
    BY DEF PageInv, Seen!SetsSeq, Seen!page
  <1>1. /\ a \in live /\ live \subseteq Watcher /\ doing[a] # Seen!Idle
        /\ doing[a].clear \in BOOLEAN /\ doing[a].fresh \in SUBSET Nat
    BY <1>0, DeedIs DEF PageInv, Unborn, SeenTypes
  <1>2. /\ doing'[a] = Seen!Idle /\ clear'[a] = doing[a].clear /\ since'[a] = doing[a].fresh
        /\ \A b \in Watcher \ {a} :
             doing'[b] = doing[b] /\ clear'[b] = clear[b] /\ since'[b] = since[b]
    BY <1>0 DEF SeenTypes
  <1>3. ASSUME NEW b \in Watcher, b # a PROVE Acting(b)' /\ Listed(b)'
    <2>1. Acting(b) /\ Listed(b) /\ ~clear[b] /\ (doing[b] = Seen!Idle \/ ~doing[b].clear)
      BY <1>0, <1>1, <1>3, OneCounts DEF DateInv
    <2>2. doing'[b] = doing[b] /\ clear'[b] = clear[b] /\ since'[b] = since[b]
      BY <1>2, <1>3
    <2>3. Listed(b)'
      BY <1>0, <2>1, <2>2 DEF Listed, Requests
    <2>4. Acting(b)'
      BY <1>0, <2>1, <2>2 DEF Acting, Requests, Seen!Idle
    <2> QED BY <2>3, <2>4
  <1>4. Acting(a)'
    BY <1>2 DEF Acting, Seen!Idle
  <1>5. Listed(a)'
    <2>1. Acting(a)
      BY DEF DateInv
    <2>2. Requests(a, since[a])'
      BY <1>0, <1>1, <1>2, <2>1 DEF Acting, Requests
    <2>3. CASE doing[a].clear
      <3>1. /\ currentSeq + 1 = counter /\ doing[a].new = counter
            /\ \A b \in live \ {a} : doing[b].at # "counted"
            /\ \A i \in doing[a].fresh : Dated(a, i, counter - 1)
        BY <1>0, <1>1, <2>1, <2>3 DEF Acting
      <3>2. counter' # 0 /\ counter' <= currentSeq' + 1
        <4>1. counter \in Nat /\ currentSeq \in Nat /\ counter' = counter
          BY <1>0 DEF SeenTypes
        <4>2. currentSeq' = counter \/ currentSeq' = currentSeq
          BY <1>0, <3>1
        <4> QED BY <3>1, <4>1, <4>2
      <3>3. NobodyCounts'
        BY <1>0, <1>1, <1>2, <3>1 DEF NobodyCounts, Seen!Idle
      <3>4. \A i \in since'[a] : Dated(a, i, counter - 1)'
        BY <1>0, <1>2, <3>1 DEF Dated, Events
      <3> QED BY <2>2, <3>2, <3>3, <3>4 DEF Listed
    <2>4. CASE ~doing[a].clear
      BY <1>2, <2>2, <2>4 DEF Listed
    <2> QED BY <2>3, <2>4
  <1> QED BY <1>3, <1>4, <1>5 DEF DateInv

LEMMA DateInvInit == AgentsInit => DateInv
  <1> SUFFICES ASSUME AgentsInit PROVE DateInv
    OBVIOUS
  <1>1. \A a \in Watcher : doing[a] = Seen!Idle /\ since[a] = {} /\ ~clear[a]
    BY DEF AgentsInit, Seen!Init
  <1> QED BY <1>1 DEF DateInv, Acting, Listed, Requests

LEMMA DateInvStep ==
  PageInv /\ PageInv' /\ DateInv /\ [AgentsNext]_<<part, vars, calls, seen>> => DateInv'
  <1> SUFFICES ASSUME PageInv, PageInv', DateInv, [AgentsNext]_<<part, vars, calls, seen>>
               PROVE  DateInv'
    OBVIOUS
  <1>1. CASE UNCHANGED seen
    <2>1. UNCHANGED <<live, counter, currentSeq, buffer, store, open, doing, happened, since, clear>>
      BY <1>1 DEF seen
    <2>2. UNCHANGED NobodyCounts
      BY <2>1 DEF NobodyCounts
    <2>3. \A a \in Watcher : Acting(a)' /\ Listed(a)'
      BY <2>1, <2>2 DEF DateInv, Acting, Listed, Requests, Dated, Events, Seen!Idle
    <2> QED BY <2>3 DEF DateInv
  <1>2. CASE Seen!Next
    <2> PICK a \in Watcher :
          \/ Seen!RequestBegins(a) \/ Seen!RequestEnds(a) \/ Seen!FramePasses(a) \/ Seen!Prints(a)
          \/ Seen!LeavesDocument(a) \/ Seen!ActionBegins(a) \/ Seen!ActionFails(a) \/ Seen!Counts(a)
          \/ Seen!SetsSeq(a) \/ Seen!SetsDevice(a) \/ Seen!Polls(a)
      BY <1>2 DEF Seen!Next
    <2> QED BY RequestBeginsDates, RequestEndsDates, FramePassesDates, PrintsDates,
               LeavesDocumentDates, ActionBeginsDates, ActionFailsDates, CountsDates, SetsSeqDates,
               SetsDeviceDates, PollsDates
  <1> QED BY <1>1, <1>2 DEF AgentsNext

LEMMA DateInvHolds == AgentsSpec => []DateInv
  BY PageInvHolds, DateInvInit, DateInvStep, PTL DEF AgentsSpec

LEMMA ListingCovers == PageInv /\ DateInv => LastCoversAction
  <1> SUFFICES ASSUME PageInv, DateInv, NEW a \in live, doing[a] = Seen!Idle, clear[a],
                      NEW i \in since[a], [id |-> i, state |-> happened[i].state] \notin gone
               PROVE  \E e \in Seen!Rows(a) : e.id = i /\ e.state = happened[i].state
    BY DEF LastCoversAction, Seen!LastCoversAction
  <1>0. SeenTypes /\ a \in Watcher /\ Timely(a) /\ Undrained(a) /\ Listed(a)
    BY DEF PageInv, DateInv, SeenTypes
  <1>1. /\ i \in 1 .. Len(happened) /\ happened[i].page = a /\ happened[i].kind = "net"
        /\ counter # 0 /\ Dated(a, i, counter - 1)
    BY <1>0 DEF Listed, Requests
  <1>2. [id |-> i, state |-> happened[i].state] \in Names(Events(a))
    <2>1. Found(i) /\ i \notin muted
      BY <1>1 DEF PageInv, Placed
    <2>2. i \notin ToSet(printed[a])
      <3> SUFFICES ASSUME i \in ToSet(printed[a]) PROVE FALSE
        OBVIOUS
      <3>1. happened[i] = [page |-> a, kind |-> "log", state |-> "ended"]
        BY <1>0 DEF Undrained
      <3> QED BY <1>1, <3>1
    <2> QED BY <1>1, <2>1, <2>2 DEF Found
  <1>3. PICK e \in Events(a) : [id |-> i, state |-> happened[i].state] = Seen!Named(e)
    BY <1>2 DEF Names
  <1>4. e.id = i /\ e.state = happened[i].state /\ e.kind = "net" /\ e.seq >= counter - 1
    <2>1. e.id = i /\ e.state = happened[i].state
      BY <1>3 DEF Seen!Named
    <2> QED BY <1>0, <1>1, <2>1 DEF Timely, Genuine, Dated
  <1> DEFINE q == store[a] \o buffer[a]
  <1>5. store[a] \in Seq(EventRec) /\ buffer[a] \in Seq(EventRec)
    BY <1>0 DEF SeenTypes
  <1>6. q \in Seq(EventRec) /\ ToSet(q) = Events(a) /\ InOrder(q)
    BY <1>0, <1>5, ConcatInOrder, ConcatIs DEF Timely, Events
  <1>7. Seen!Rows(a) = {q[k] : k \in {j \in Seen!Latest(q) : q[j].seq >= Seen!SinceLast}}
    BY DEF Seen!Rows
  <1> HIDE DEF q
  <1>8. PICK k \in 1 .. Len(q) : q[k] = e
    BY <1>6, ElementsOf
  <1>9. k \in Seen!Latest(q)
    <2> SUFFICES ASSUME NEW j \in 1 .. Len(q), j > k, q[j].id = e.id PROVE FALSE
      BY <1>4, <1>8 DEF Seen!Latest
    <2>1. Follows(e, q[j]) /\ q[j] \in Events(a)
      <3>1. q[j] \in Events(a) /\ k < j
        BY <1>6, <1>8, ElementsOf
      <3> QED BY <1>6, <1>8, <3>1 DEF InOrder
    <2>2. e.state = "pending" /\ q[j].state = "ended"
      BY <2>1 DEF Follows
    <2>3. happened[i].state = "ended"
      BY <1>0, <1>4, <2>1, <2>2 DEF Timely, Genuine
    <2> QED BY <1>4, <2>2, <2>3
  <1>10. Seen!SinceLast = counter - 1
    BY <1>1 DEF Seen!SinceLast
  <1> QED BY <1>4, <1>7, <1>8, <1>9, <1>10

\* A listing since the last action shows every request begun since that action
\* began, in the state it is in, as long as no other agent counted in between
\* (seq.rs increment_seq, network_activity.rs).
THEOREM ListingCoversAction == AgentsSpec => []LastCoversAction
  BY PageInvHolds, DateInvHolds, ListingCovers, PTL
=============================================================================
