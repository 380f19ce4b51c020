-------------------------- MODULE AgentTreeProofs ---------------------------
(***************************************************************************)
(* Theorems about the claim registry and the agent tree, for every tree of *)
(* ids, every set of URLs, patterns and scopes and all limits.  First what *)
(* the rules of the registry guarantee, then the tree: Shape is the        *)
(* inductive invariant about handles and phases that the rest rests on.    *)
(* Then the claims: the registry stays disjoint and is exactly what the    *)
(* live guards hold, every guard has a live owner, and the whole           *)
(* implements exclusive leases (ScopeLeases).  Last the children that run: *)
(* one that is still tracked holds its claim, so two of them never work on *)
(* clashing scopes, and every one has its slot.                            *)
(***************************************************************************)
EXTENDS AgentTree, FiniteSetTheorems, SequenceTheorems, TLAPS

-----------------------------------------------------------------------------
(* The rules of the claim registry. *)

\* The keys of a scope are keys (url_claim.rs try_claim).
LEMMA KeysOfType ==
  ASSUME NEW s \in Scope
  PROVE  KeysOf(s) \in SUBSET Key
  BY UrlAssumption DEF Scope, KeysOf, RawUrls, Key, ExactKey, PatternKey

\* A key is an exact URL or a pattern, never both, and holds what it was
\* made of (url_claim.rs ClaimKey).
LEMMA KeysDiffer ==
  /\ \A r \in Regex, x \in Url : PatternKey(r) # ExactKey(x)
  /\ \A r, q \in Regex : PatternKey(r) = PatternKey(q) => r = q
  /\ \A x, y \in Url : ExactKey(x) = ExactKey(y) => x = y
  <1>1. \A r \in Regex : PatternKey(r).kind = "pattern" /\ PatternKey(r).regex = r
    BY DEF PatternKey
  <1>2. \A x \in Url : ExactKey(x).kind = "exact" /\ ExactKey(x).url = x
    BY DEF ExactKey
  <1> QED BY <1>1, <1>2

\* Two exact keys clash only when they are equal.
LEMMA ExactClash ==
  ASSUME NEW x \in Url, NEW y \in Url, Clash(ExactKey(x), ExactKey(y))
  PROVE  x = y
  <1>1. \A r \in Regex, u \in Url : {ExactKey(x), ExactKey(y)} # {PatternKey(r), ExactKey(u)}
    BY KeysDiffer
  <1> QED BY <1>1, KeysDiffer DEF Clash

\* An exact key and a pattern clash only when the pattern matches the URL.
LEMMA MixedClash ==
  ASSUME NEW x \in Url, NEW r \in Regex,
         Clash(ExactKey(x), PatternKey(r)) \/ Clash(PatternKey(r), ExactKey(x))
  PROVE  x \in Matches[r]
  <1>1. PICK q \in Regex, u \in Url :
          {ExactKey(x), PatternKey(r)} = {PatternKey(q), ExactKey(u)} /\ u \in Matches[q]
    BY KeysDiffer DEF Clash
  <1>2. PatternKey(q) = PatternKey(r) /\ ExactKey(u) = ExactKey(x)
    BY <1>1, KeysDiffer
  <1> QED BY <1>1, <1>2, KeysDiffer

\* Two patterns clash only when they are written alike.
LEMMA PatternClash ==
  ASSUME NEW r \in Regex, NEW q \in Regex, Clash(PatternKey(r), PatternKey(q))
  PROVE  r = q
  <1>1. \A p \in Regex, u \in Url : {PatternKey(r), PatternKey(q)} # {PatternKey(p), ExactKey(u)}
    BY KeysDiffer
  <1> QED BY <1>1, KeysDiffer DEF Clash

\* The checks see every clash: a scope that passes clashes with no entry
\* (url_claim.rs check_exact, check_pattern, try_claim).
LEMMA ClaimableFree ==
  ASSUME NEW R, \A e \in R : e.key \in Key,
         NEW s \in Scope, Claimable(R, s),
         NEW e \in R, NEW k \in KeysOf(s)
  PROVE  ~Clash(k, e.key)
  <1> SUFFICES ASSUME Clash(k, e.key) PROVE FALSE
    OBVIOUS
  <1>1. CASE s.kind = "pattern"
    <2>1. s.regex \in Regex /\ k = PatternKey(s.regex)
      BY <1>1 DEF Scope, KeysOf
    <2>2. CheckPattern(R, s.regex)
      BY <1>1 DEF Claimable
    <2>3. CASE \E x \in Url : e.key = ExactKey(x)
      BY <2>1, <2>2, <2>3, MixedClash DEF CheckPattern
    <2>4. CASE \E r \in Regex : e.key = PatternKey(r)
      BY <2>1, <2>2, <2>4, PatternClash DEF CheckPattern
    <2> QED BY <2>3, <2>4 DEF Key
  <1>2. CASE s.kind # "pattern"
    <2>1. PICK u \in RawUrls(s) : k = ExactKey(Normal[u])
      BY <1>2 DEF KeysOf
    <2>2. u \in Url /\ Normal[u] \in Url
      BY <1>2, UrlAssumption DEF Scope, RawUrls
    <2>3. PICK raw : CheckExact(R, Normal[u], raw)
      BY <1>2 DEF Scope, RawUrls, Claimable
    <2>4. CASE \E x \in Url : e.key = ExactKey(x)
      BY <2>1, <2>2, <2>3, <2>4, ExactClash DEF CheckExact
    <2>5. CASE \E r \in Regex : e.key = PatternKey(r)
      BY <2>1, <2>2, <2>3, <2>5, MixedClash DEF CheckExact
    <2> QED BY <2>4, <2>5 DEF Key
  <1> QED BY <1>1, <1>2

\* The keys of one scope do not clash with each other.
LEMMA ScopeConsistent ==
  ASSUME NEW s \in Scope, NEW k \in KeysOf(s), NEW l \in KeysOf(s), Clash(k, l)
  PROVE  k = l
  <1>1. CASE s.kind = "pattern"
    BY <1>1 DEF KeysOf
  <1>2. CASE s.kind # "pattern"
    <2>1. PICK u, w \in RawUrls(s) : k = ExactKey(Normal[u]) /\ l = ExactKey(Normal[w])
      BY <1>2 DEF KeysOf
    <2>2. Normal[u] \in Url /\ Normal[w] \in Url
      BY <1>2, UrlAssumption DEF Scope, RawUrls
    <2> QED BY <2>1, <2>2, ExactClash
  <1> QED BY <1>1, <1>2

\* Clashing is symmetric.
LEMMA ClashSymmetric ==
  ASSUME NEW k, NEW l, Clash(k, l)
  PROVE  Clash(l, k)
  BY DEF Clash

\* A claim that passes keeps the registry disjoint (url_claim.rs try_claim).
LEMMA ClaimedDisjoint ==
  ASSUME NEW R, \A e \in R : e.key \in Key, Disjoint(R),
         NEW s \in Scope, Claimable(R, s), NEW o
  PROVE  Disjoint(Claimed(R, s, o))
  <1> DEFINE New == [key : KeysOf(s), owner : {o}]
  <1> SUFFICES ASSUME NEW e \in R \cup New, NEW f \in R \cup New, e # f
               PROVE  ~Clash(e.key, f.key)
    BY DEF Disjoint, Claimed
  <1>1. CASE e \in R /\ f \in R
    BY <1>1 DEF Disjoint
  <1>2. CASE e \in New /\ f \in R
    BY <1>2, ClaimableFree
  <1>3. CASE e \in R /\ f \in New
    BY <1>3, ClaimableFree, ClashSymmetric
  <1>4. CASE e \in New /\ f \in New
    <2>1. e.key # f.key
      BY <1>4
    <2> QED BY <1>4, <2>1, ScopeConsistent
  <1> QED BY <1>1, <1>2, <1>3, <1>4

\* Releasing claims keeps the registry disjoint (url_claim.rs ClaimGuard::drop).
LEMMA ReleasedDisjoint ==
  ASSUME NEW R, Disjoint(R), NEW scopes
  PROVE  Disjoint(ReleasedAll(R, scopes))
  BY DEF Disjoint, ReleasedAll

-----------------------------------------------------------------------------
(* The tree. *)

Busy == {"setup", "releasing", "waiting", "cleanup"}

\* The running tool owns handles exactly in the phases that need one.
HeldShape == \A a \in Agent : phase[a] \in Busy <=> held[a] # << >>

\* An agent only ever tracks ids of its own, which the manager knows.
Family ==
  \A a \in Agent : \A c \in Tracked(a) : Parent[c] = a /\ status[c] # "absent"

FiniteChildren == \A a \in Agent : IsFiniteSet(children[a])

Shape == TypeOK /\ HeldShape /\ Family /\ FiniteChildren

\* Nothing runs for an id before its task is spawned.
Dormant ==
  \A c \in Agent :
    /\ task[c] = "none" => phase[c] = "none"
    /\ c # Root /\ status[c] = "absent" => task[c] = "none"

\* The child a fork is setting up, or giving back, has not been spawned.
SetupFresh ==
  \A a \in Agent : phase[a] \in {"setup", "releasing"} => task[Head(held[a])] = "none"

Idle == Dormant /\ SetupFresh

-----------------------------------------------------------------------------
(* Sequences of handles. *)

LEMMA ToSetFacts ==
  ASSUME NEW S, NEW q \in Seq(S)
  PROVE  /\ ToSet(q) \subseteq S
         /\ IsFiniteSet(ToSet(q))
         /\ q = << >> => ToSet(q) = {}
  <1>1. DOMAIN q = 1 .. Len(q) /\ Len(q) \in Nat /\ q \in [1 .. Len(q) -> S]
    BY LenProperties
  <1>2. ToSet(q) \subseteq S
    BY <1>1 DEF ToSet
  <1>3. q \in Surjection(1 .. Len(q), ToSet(q))
    BY <1>1 DEF Surjection, ToSet
  <1>4. IsFiniteSet(1 .. Len(q))
    BY <1>1, FS_Interval
  <1>5. IsFiniteSet(ToSet(q))
    BY <1>3, <1>4, FS_Surjection
  <1>6. q = << >> => ToSet(q) = {}
    BY DEF ToSet
  <1> QED BY <1>2, <1>5, <1>6

LEMMA HeadFacts ==
  ASSUME NEW S, NEW q \in Seq(S), q # << >>
  PROVE  /\ Head(q) \in S
         /\ Head(q) \in ToSet(q)
         /\ Tail(q) \in Seq(S)
         /\ ToSet(q) = {Head(q)} \cup ToSet(Tail(q))
         /\ Len(q) > 1 <=> Tail(q) # << >>
  <1>1. Head(q) = q[1] /\ Len(q) \in Nat \ {0} /\ Head(q) \in S /\ Tail(q) \in Seq(S)
    BY HeadTailProperties, EmptySeq, LenProperties
  <1>2. Len(Tail(q)) = Len(q) - 1 /\ \A i \in 1 .. Len(Tail(q)) : Tail(q)[i] = q[i + 1]
    BY HeadTailProperties
  <1>3. ToSet(q) = {q[i] : i \in 1 .. Len(q)} /\ ToSet(Tail(q)) = {Tail(q)[i] : i \in 1 .. Len(Tail(q))}
    BY <1>1, LenProperties DEF ToSet
  <1>4. \A i \in 1 .. Len(q) : i = 1 \/ (i - 1 \in 1 .. Len(Tail(q)) /\ q[i] = Tail(q)[i - 1])
    BY <1>1, <1>2
  <1>5. \A i \in 1 .. Len(Tail(q)) : i + 1 \in 1 .. Len(q) /\ q[i + 1] = Tail(q)[i]
    BY <1>1, <1>2
  <1>6. 1 \in 1 .. Len(q)
    BY <1>1
  <1>7. ToSet(q) \subseteq {Head(q)} \cup ToSet(Tail(q))
    <2> SUFFICES ASSUME NEW i \in 1 .. Len(q)
                 PROVE  q[i] \in {Head(q)} \cup ToSet(Tail(q))
      BY <1>3
    <2>1. CASE i = 1
      BY <2>1, <1>1
    <2>2. CASE i # 1
      BY <2>2, <1>3, <1>4
    <2> QED BY <2>1, <2>2
  <1>8. ToSet(Tail(q)) \subseteq ToSet(q)
    BY <1>3, <1>5
  <1>9. Head(q) \in ToSet(q)
    BY <1>1, <1>3, <1>6
  <1>10. Tail(q) = << >> <=> Len(Tail(q)) = 0
    BY <1>1, EmptySeq
  <1>11. Len(q) > 1 <=> Tail(q) # << >>
    BY <1>1, <1>2, <1>10
  <1> QED BY <1>1, <1>7, <1>8, <1>9, <1>11

LEMMA SingletonSeq ==
  ASSUME NEW c
  PROVE  ToSet(<<c>>) = {c} /\ <<c>> # << >>
  BY DEF ToSet

\* The order a wait takes the children of a finite set in is a sequence of them.
LEMMA WaitOrderType ==
  ASSUME NEW S, IsFiniteSet(S), NEW q \in WaitOrders(S)
  PROVE  q \in Seq(S) /\ q # << >> /\ ToSet(q) \subseteq S
  <1>1. Cardinality(S) \in Nat
    BY FS_CardinalityType
  <1>2. PICK n \in 1 .. Cardinality(S) : q \in [1 .. n -> S]
    BY DEF WaitOrders
  <1>3. n \in Nat /\ n >= 1
    BY <1>1, <1>2
  <1>4. q \in Seq(S) /\ Len(q) = n
    BY <1>2, <1>3
  <1> QED BY <1>3, <1>4, ToSetFacts

-----------------------------------------------------------------------------
(* Shape is inductive. *)

\* The next id is one the agent has not issued (fork.rs next_child_id).
LEMMA NextChildFacts ==
  ASSUME NEW a, FreshIds(a) # {}
  PROVE  /\ NextChildId(a) \in Child
         /\ Parent[NextChildId(a)] = a
         /\ status[NextChildId(a)] = "absent"
  BY DEF NextChildId, FreshIds

\* The child a running tool works on is one of the agent's own.
LEMMA HeadTracked ==
  ASSUME Shape, NEW a \in Agent, phase[a] \in Busy
  PROVE  /\ held[a] \in Seq(Child)
         /\ held[a] # << >>
         /\ Head(held[a]) \in Child
         /\ Head(held[a]) \in ToSet(held[a])
         /\ Head(held[a]) \in Tracked(a)
         /\ Parent[Head(held[a])] = a
         /\ status[Head(held[a])] # "absent"
         /\ Tail(held[a]) \in Seq(Child)
         /\ ToSet(held[a]) = {Head(held[a])} \cup ToSet(Tail(held[a]))
         /\ Len(held[a]) > 1 <=> Tail(held[a]) # << >>
  <1>1. held[a] \in Seq(Child) /\ held[a] # << >>
    BY DEF Shape, TypeOK, HeldShape
  <1>2. /\ Head(held[a]) \in Child /\ Head(held[a]) \in ToSet(held[a])
        /\ Tail(held[a]) \in Seq(Child)
        /\ ToSet(held[a]) = {Head(held[a])} \cup ToSet(Tail(held[a]))
        /\ Len(held[a]) > 1 <=> Tail(held[a]) # << >>
    BY <1>1, HeadFacts
  <1>3. Head(held[a]) \in Tracked(a)
    BY <1>2 DEF Tracked
  <1> QED BY <1>1, <1>2, <1>3 DEF Shape, Family

LEMMA EmptyHeld == ToSet(<< >>) = {}
  BY DEF ToSet

LEMMA HeardType ==
  ASSUME TypeOK, NEW a \in Agent
  PROVE  Heard(a) \in [Agent -> Snapshot]
  BY DEF TypeOK, Heard, Snapshot

LEMMA RegisteredType ==
  ASSUME TypeOK, NEW a \in Agent
  PROVE  /\ Registered(a) \in [Agent -> Status]
         /\ \A c \in Agent : status[c] # "absent" => Registered(a)[c] = status[c]
  BY DEF TypeOK, Registered, Status

LEMMA MarkDoneType ==
  ASSUME TypeOK, NEW a \in Agent
  PROVE  /\ MarkDone(status, a) \in [Agent -> Status]
         /\ \A c \in Agent : status[c] # "absent" => MarkDone(status, a)[c] # "absent"
  BY DEF TypeOK, MarkDone, Status

LEMMA AbortedType ==
  ASSUME TypeOK, NEW S
  PROVE  Aborted(S) \in [Agent -> Task]
  BY DEF TypeOK, Aborted, Task

LEMMA CancelRequestedType ==
  ASSUME TypeOK, NEW S
  PROVE  CancelRequested(S) \in [Agent -> Control]
  BY DEF TypeOK, CancelRequested, Control

LEMMA DropGuardsType ==
  ASSUME TypeOK, NEW S, DropGuards(S)
  PROVE  /\ entries' \subseteq [key : Key, owner : Child]
         /\ guarded' \subseteq Child
  BY DEF TypeOK, DropGuards, ReleasedAll

\* An agent's task ends: it tracks nothing any more.
LEMMA DropAgentShape ==
  ASSUME Shape, NEW a \in Agent, NEW end \in Ended, DropAgent(a, end),
         status' \in [Agent -> Status],
         \A c \in Agent : status[c] # "absent" => status'[c] # "absent"
  PROVE  Shape'
  <1> USE DEF Shape
  <1>1. TypeOK'
    <2>1. task' \in [Agent -> Task]
      BY AbortedType DEF DropAgent, Task
    <2>2. << >> \in Seq(Child)
      BY EmptySeq
    <2> QED BY <2>1, <2>2, DropGuardsType DEF DropAgent, TypeOK, Phase
  <1>2. HeldShape'
    BY DEF DropAgent, HeldShape, Busy, TypeOK
  <1>3. Family'
    <2> SUFFICES ASSUME NEW b \in Agent, NEW c \in Tracked(b)'
                 PROVE  Parent[c] = b /\ status'[c] # "absent"
      BY DEF Family
    <2>1. b # a /\ c \in Tracked(b)
      BY EmptyHeld DEF DropAgent, Tracked, TypeOK
    <2>2. c \in Agent
      BY <2>1, ToSetFacts DEF Tracked, TypeOK, Child
    <2> QED BY <2>1, <2>2 DEF Family
  <1>4. FiniteChildren'
    BY FS_EmptySet DEF DropAgent, FiniteChildren, TypeOK
  <1> QED BY <1>1, <1>2, <1>3, <1>4

\* A step that moves no handle and no phase keeps the shape.
LEMMA QuietShape ==
  ASSUME Shape, TypeOK', UNCHANGED <<phase, children, held>>,
         \A c \in Agent : status[c] # "absent" => status'[c] # "absent"
  PROVE  Shape'
  <1>1. HeldShape' /\ FiniteChildren'
    BY DEF Shape, HeldShape, FiniteChildren
  <1>2. Family'
    <2> SUFFICES ASSUME NEW b \in Agent, NEW c \in Tracked(b)'
                 PROVE  Parent[c] = b /\ status'[c] # "absent"
      BY DEF Family
    <2>1. c \in Tracked(b) /\ c \in Agent
      BY ToSetFacts DEF Shape, Tracked, TypeOK, Child
    <2> QED BY <2>1 DEF Shape, Family
  <1> QED BY <1>1, <1>2 DEF Shape

\* A step of agent a that moves handles: what is left to show is about a only.
LEMMA MovingShape ==
  ASSUME Shape, TypeOK', NEW a \in Agent,
         \A b \in Agent : b # a =>
           /\ children'[b] = children[b] /\ held'[b] = held[b]
           /\ phase'[b] \in Busy <=> phase[b] \in Busy,
         phase'[a] \in Busy <=> held'[a] # << >>,
         IsFiniteSet(children'[a]),
         \A c \in Tracked(a)' : Parent[c] = a /\ status'[c] # "absent",
         \A c \in Agent : status[c] # "absent" => status'[c] # "absent"
  PROVE  Shape'
  <1>1. HeldShape' /\ FiniteChildren'
    BY DEF Shape, HeldShape, FiniteChildren
  <1>2. Family'
    <2> SUFFICES ASSUME NEW b \in Agent, NEW c \in Tracked(b)'
                 PROVE  Parent[c] = b /\ status'[c] # "absent"
      BY DEF Family
    <2>1. CASE b = a
      BY <2>1
    <2>2. CASE b # a
      <3>1. c \in Tracked(b) /\ c \in Agent
        BY <2>2, ToSetFacts DEF Shape, Tracked, TypeOK, Child
      <3> QED BY <3>1 DEF Shape, Family
    <2> QED BY <2>1, <2>2
  <1> QED BY <1>1, <1>2 DEF Shape

\* A child is not its own parent.
LEMMA ParentDiffers ==
  ASSUME NEW c \in Child
  PROVE  Parent[c] # c /\ Parent[c] \in Agent
  BY TreeAssumption DEF Child

LEMMA ShapeInit == ASSUME Init PROVE Shape
  <1> USE DEF Init
  <1>1. TypeOK
    BY TreeAssumption, LimitAssumption, EmptySeq
       DEF TypeOK, Status, Task, Phase, Snapshot, Control, Child, Key
  <1>2. HeldShape /\ FiniteChildren
    BY FS_EmptySet DEF HeldShape, FiniteChildren, Busy
  <1>3. Family
    BY EmptyHeld DEF Family, Tracked
  <1> QED BY <1>1, <1>2, <1>3 DEF Shape

LEMMA ForkShape ==
  ASSUME Shape, Idle, NEW a \in Agent, Fork(a)
  PROVE  Shape'
  <1> USE DEF Shape
  <1>1. CASE ForkRefused(a)
    <2>1. TypeOK'
      BY <1>1, HeardType, RegisteredType DEF ForkRefused, TypeOK
    <2> QED BY <1>1, <2>1, RegisteredType, QuietShape DEF ForkRefused
  <1>2. ASSUME NEW s \in ForkScopes, ForkConflict(a, s) PROVE Shape'
    <2> DEFINE c == NextChildId(a)
    <2>1. c \in Child /\ status[c] = "absent"
      BY <1>2, NextChildFacts DEF ForkConflict
    <2>2. TypeOK'
      BY <1>2, <2>1, HeardType, RegisteredType DEF ForkConflict, TypeOK, Status, Child
    <2>3. \A d \in Agent : status[d] # "absent" => status'[d] # "absent"
      BY <1>2, <2>1, RegisteredType DEF ForkConflict
    <2> QED BY <1>2, <2>2, <2>3, QuietShape DEF ForkConflict
  <1>3. ASSUME NEW s \in ForkScopes, ForkReserved(a, s) PROVE Shape'
    <2> DEFINE c == NextChildId(a)
    <2>1. c \in Child /\ Parent[c] = a /\ status[c] = "absent"
      BY <1>3, NextChildFacts DEF ForkReserved
    <2>2. s \in Scope /\ KeysOf(s) \in SUBSET Key
      BY TreeAssumption, KeysOfType
    <2>3. entries' \subseteq [key : Key, owner : Child]
      BY <1>3, <2>1, <2>2 DEF ForkReserved, Claimed, TypeOK
    <2>4. <<c>> \in Seq(Child)
      BY <2>1
    <2>5. TypeOK'
      BY <1>3, <2>1, <2>2, <2>3, <2>4, HeardType, RegisteredType
         DEF ForkReserved, TypeOK, Status, Phase, Child
    <2>6. \A d \in Agent : status[d] # "absent" => status'[d] # "absent"
      BY <1>3, <2>1, RegisteredType DEF ForkReserved
    <2>7. held'[a] = <<c>> /\ children'[a] = children[a] /\ status'[c] = "active"
          /\ phase'[a] = "setup" /\ held[a] = << >>
      BY <1>3, <2>1, RegisteredType DEF ForkReserved, TypeOK, Child, Thinking, HeldShape, Busy
    <2>8. \A d \in Tracked(a)' : Parent[d] = a /\ status'[d] # "absent"
      <3> SUFFICES ASSUME NEW d \in Tracked(a)' PROVE Parent[d] = a /\ status'[d] # "absent"
        OBVIOUS
      <3>1. d = c \/ d \in Tracked(a)
        BY <2>7, SingletonSeq DEF Tracked
      <3>2. d \in Agent
        BY <3>1, <2>1, ToSetFacts DEF Tracked, TypeOK, Child
      <3> QED BY <3>1, <3>2, <2>1, <2>6, <2>7 DEF Family
    <2>9. \A b \in Agent : b # a =>
            /\ children'[b] = children[b] /\ held'[b] = held[b] /\ phase'[b] = phase[b]
      BY <1>3 DEF ForkReserved, TypeOK
    <2> QED BY <2>5, <2>6, <2>7, <2>8, <2>9, SingletonSeq, MovingShape DEF FiniteChildren, Busy
  <1>4. CASE SetupFails(a)
    <2>1. TypeOK'
      BY <1>4, DropGuardsType DEF SetupFails, TypeOK, Phase
    <2>2. HeldShape' /\ Family' /\ FiniteChildren'
      BY <1>4 DEF SetupFails, HeldShape, Family, FiniteChildren, Tracked, TypeOK, Busy
    <2> QED BY <2>1, <2>2
  <1>5. CASE ReleaseSlot(a)
    <2> DEFINE c == Head(held[a])
    <2>1. c \in Child
      BY <1>5, HeadTracked DEF ReleaseSlot, Busy
    <2>2. TypeOK'
      BY <1>5, <2>1, MarkDoneType, EmptySeq DEF ReleaseSlot, TypeOK, Phase, Child
    <2>3. \A d \in Agent : status[d] # "absent" => status'[d] # "absent"
      BY <1>5, <2>1, MarkDoneType DEF ReleaseSlot, Child
    <2>4. \A d \in Tracked(a)' : Parent[d] = a /\ status'[d] # "absent"
      BY <1>5, <2>3, EmptyHeld DEF ReleaseSlot, Family, Tracked, TypeOK, Child
    <2> QED BY <1>5, <2>2, <2>3, <2>4, MovingShape DEF ReleaseSlot, FiniteChildren, Busy, TypeOK
  <1>6. CASE SpawnChild(a)
    <2> DEFINE c == Head(held[a])
    <2>1. c \in Child /\ Parent[c] = a /\ status[c] # "absent" /\ c \in Tracked(a) /\ c # a
      BY <1>6, HeadTracked, ParentDiffers DEF SpawnChild, Busy
    <2>2. TypeOK'
      BY <1>6, <2>1, EmptySeq DEF SpawnChild, TypeOK, Task, Phase, Snapshot, Control, Child
    <2>3. phase[c] \notin Busy /\ phase'[c] \notin Busy
      BY <1>6, <2>1 DEF SpawnChild, Idle, Dormant, SetupFresh, Busy, TypeOK, Child
    <2>4. children'[a] = children[a] \cup {c} /\ held'[a] = << >> /\ phase'[a] = "thinking"
      BY <1>6, <2>1 DEF SpawnChild, TypeOK, Child
    <2>5. \A d \in Tracked(a)' : Parent[d] = a /\ status'[d] # "absent"
      BY <1>6, <2>1, <2>4, EmptyHeld DEF SpawnChild, Family, Tracked
    <2>6. IsFiniteSet(children'[a])
      BY <2>4, FS_AddElement DEF FiniteChildren
    <2>7. \A b \in Agent : b # a =>
            /\ children'[b] = children[b] /\ held'[b] = held[b]
            /\ phase'[b] \in Busy <=> phase[b] \in Busy
      BY <1>6, <2>3 DEF SpawnChild, TypeOK
    <2> QED BY <1>6, <2>2, <2>4, <2>5, <2>6, <2>7, MovingShape DEF SpawnChild, Busy
  <1> QED BY <1>1, <1>2, <1>3, <1>4, <1>5, <1>6 DEF Fork

LEMMA WaitShape ==
  ASSUME Shape, Idle, NEW a \in Agent, Wait(a)
  PROVE  Shape'
  <1> USE DEF Shape
  <1>1. ASSUME NEW q \in WaitOrders(children[a]), WaitBegin(a, q) PROVE Shape'
    <2>1. q \in Seq(Child) /\ q # << >> /\ ToSet(q) \subseteq children[a]
      <3>1. IsFiniteSet(children[a]) /\ children[a] \in SUBSET Child
        BY DEF FiniteChildren, TypeOK
      <3>2. q \in Seq(children[a]) /\ q # << >> /\ ToSet(q) \subseteq children[a]
        BY <3>1, WaitOrderType
      <3> QED BY <3>1, <3>2, SeqMonotonic
    <2>2. TypeOK'
      BY <1>1, <2>1, HeardType DEF WaitBegin, TypeOK, Phase
    <2>3. IsFiniteSet(children'[a])
      BY <1>1, FS_Subset DEF WaitBegin, TypeOK, FiniteChildren
    <2>4. \A d \in Tracked(a)' : Parent[d] = a /\ status'[d] # "absent"
      BY <1>1, <2>1 DEF WaitBegin, Family, Tracked, TypeOK
    <2> QED BY <1>1, <2>1, <2>2, <2>3, <2>4, MovingShape DEF WaitBegin, Busy, TypeOK
  <1>2. CASE CollectFinished(a)
    <2>1. Head(held[a]) \in Child
      BY <1>2, HeadTracked DEF CollectFinished, Busy
    <2> DEFINE b == [child |-> Head(held[a]), items |-> task[Head(held[a])] = "ok"]
    <2>2. (task[Head(held[a])] = "ok") \in BOOLEAN
      OBVIOUS
    <2>3. b \in Block
      BY <2>1, <2>2 DEF Block
    <2>4. blocks' = [blocks EXCEPT ![a] = Append(@, b)]
      BY <1>2, Zenon DEF CollectFinished
    <2>5. blocks' \in [Agent -> Seq(Block)]
      <3> HIDE DEF b
      <3> QED BY <2>3, <2>4, AppendProperties DEF TypeOK
    <2>6. snap' \in [Agent -> Snapshot] /\ phase' \in [Agent -> Phase]
      BY <1>2, <2>1 DEF CollectFinished, TypeOK, Phase, Snapshot
    <2>7. TypeOK'
      BY <1>2, <2>5, <2>6 DEF CollectFinished, TypeOK
    <2>8. HeldShape' /\ Family' /\ FiniteChildren'
      BY <1>2 DEF CollectFinished, HeldShape, Family, FiniteChildren, Tracked, TypeOK, Busy
    <2> QED BY <2>7, <2>8
  <1>3. CASE CleanupFinished(a)
    <2> DEFINE c == Head(held[a])
    <2>1. /\ c \in Child /\ c \in Agent /\ Tail(held[a]) \in Seq(Child)
          /\ ToSet(held[a]) = {c} \cup ToSet(Tail(held[a]))
          /\ Len(held[a]) > 1 <=> Tail(held[a]) # << >>
      BY <1>3, HeadTracked DEF CleanupFinished, Busy, Child
    <2>2. TypeOK'
      BY <1>3, <2>1, MarkDoneType, DropGuardsType DEF CleanupFinished, TypeOK, Phase, Control
    <2>3. \A d \in Agent : status[d] # "absent" => status'[d] # "absent"
      BY <1>3, <2>1, MarkDoneType DEF CleanupFinished
    <2>4. held'[a] = Tail(held[a]) /\ children'[a] = children[a]
      BY <1>3 DEF CleanupFinished, TypeOK
    <2>5. phase'[a] \in Busy <=> held'[a] # << >>
      BY <1>3, <2>1, <2>4 DEF CleanupFinished, TypeOK, Busy
    <2>6. \A d \in Tracked(a)' : Parent[d] = a /\ status'[d] # "absent"
      <3> SUFFICES ASSUME NEW d \in Tracked(a)' PROVE Parent[d] = a /\ status'[d] # "absent"
        OBVIOUS
      <3>1. d \in Tracked(a)
        BY <2>1, <2>4 DEF Tracked
      <3>2. d \in Agent
        BY <3>1, ToSetFacts DEF Tracked, TypeOK, Child
      <3> QED BY <3>1, <3>2, <2>3 DEF Family
    <2>7. \A b \in Agent : b # a =>
            /\ children'[b] = children[b] /\ held'[b] = held[b] /\ phase'[b] = phase[b]
      BY <1>3 DEF CleanupFinished, TypeOK
    <2> QED BY <2>2, <2>3, <2>4, <2>5, <2>6, <2>7, MovingShape DEF FiniteChildren
  <1>4. CASE WaitDeadline(a)
    <2>1. ToSet(held[a]) \subseteq Child /\ IsFiniteSet(ToSet(held[a]))
      BY ToSetFacts DEF TypeOK
    <2>2. TypeOK'
      BY <1>4, <2>1, EmptySeq DEF WaitDeadline, TypeOK, Phase
    <2>3. IsFiniteSet(children'[a])
      BY <1>4, <2>1, FS_Union DEF WaitDeadline, TypeOK, FiniteChildren
    <2>4. \A d \in Tracked(a)' : Parent[d] = a /\ status'[d] # "absent"
      BY <1>4, EmptyHeld DEF WaitDeadline, Family, Tracked, TypeOK
    <2> QED BY <1>4, <2>2, <2>3, <2>4, MovingShape DEF WaitDeadline, Busy, TypeOK
  <1> QED BY <1>1, <1>2, <1>3, <1>4 DEF Wait

LEMMA CancelShape ==
  ASSUME Shape, Idle, NEW a \in Agent, Cancel(a)
  PROVE  Shape'
  <1> USE DEF Shape
  <1>1. ASSUME NEW c \in Child, CancelTracked(a, c) PROVE Shape'
    <2>1. <<c>> \in Seq(Child) /\ c \in Agent
      BY DEF Child
    <2>2. [child |-> c, items |-> FALSE] \in Block
      BY DEF Block
    <2>3. [Heard(a) EXCEPT ![c] = "cancelled"] \in [Agent -> Snapshot]
      BY HeardType DEF Snapshot
    <2>4. TypeOK'
      BY <1>1, <2>1, <2>2, <2>3, AbortedType, CancelRequestedType, DropGuardsType
         DEF CancelTracked, TypeOK, Phase
    <2>5. IsFiniteSet(children'[a])
      BY <1>1, FS_Subset DEF CancelTracked, TypeOK, FiniteChildren
    <2>6. children'[a] = children[a] \ {c} /\ held'[a] = <<c>> /\ phase'[a] = "cleanup"
      BY <1>1 DEF CancelTracked, TypeOK
    <2>7. \A d \in Tracked(a)' : Parent[d] = a /\ status'[d] # "absent"
      BY <1>1, <2>6, SingletonSeq DEF CancelTracked, Family, Tracked
    <2>8. \A b \in Agent : b # a =>
            /\ children'[b] = children[b] /\ held'[b] = held[b] /\ phase'[b] = phase[b]
      BY <1>1 DEF CancelTracked, TypeOK
    <2>9. status' = status
      BY <1>1 DEF CancelTracked
    <2> QED BY <2>4, <2>5, <2>6, <2>7, <2>8, <2>9, SingletonSeq, MovingShape DEF Busy
  <1>2. ASSUME NEW c \in Child, CancelUntracked(a, c) PROVE Shape'
    <2>1. TypeOK'
      BY <1>2, HeardType, CancelRequestedType DEF CancelUntracked, TypeOK
    <2> QED BY <1>2, <2>1, QuietShape DEF CancelUntracked
  <1> QED BY <1>1, <1>2 DEF Cancel

LEMMA EndShape ==
  ASSUME Shape, Idle, NEW a \in Agent, End(a)
  PROVE  Shape'
  <1> USE DEF Shape
  <1>1. CASE OtherTool(a)
    <2>1. TypeOK'
      BY <1>1, HeardType DEF OtherTool, TypeOK
    <2> QED BY <1>1, <2>1, QuietShape DEF OtherTool
  <1>2. ASSUME NEW ok \in BOOLEAN, TurnEnds(a, ok) PROVE Shape'
    <2>1. snap' \in [Agent -> Snapshot]
      BY <1>2, HeardType DEF TurnEnds, TypeOK, Snapshot
    <2>2. TypeOK'
      BY <1>2, <2>1 DEF TurnEnds, TypeOK, Phase
    <2>3. HeldShape' /\ Family' /\ FiniteChildren'
      BY <1>2 DEF TurnEnds, Thinking, HeldShape, Family, FiniteChildren, Tracked, TypeOK, Busy
    <2> QED BY <2>2, <2>3
  <1>3. CASE RunReturns(a)
    <2>1. PICK end \in Ended : DropAgent(a, end)
      BY <1>3 DEF RunReturns, Ended
    <2> QED BY <1>3, <2>1, MarkDoneType, DropAgentShape DEF RunReturns
  <1>4. CASE Panics(a)
    BY <1>4, DropAgentShape DEF Panics, Ended, TypeOK
  <1>5. CASE AbortLands(a)
    BY <1>5, DropAgentShape DEF AbortLands, Ended, TypeOK
  <1> QED BY <1>1, <1>2, <1>3, <1>4, <1>5 DEF End

LEMMA InterruptShape ==
  ASSUME Shape, Interrupt
  PROVE  Shape'
  <1> USE DEF Shape
  <1>0. Root \in Agent
    BY TreeAssumption
  <1>1. CASE UserCancels
    <2>1. TypeOK'
      BY <1>1, LimitAssumption, CancelRequestedType DEF UserCancels, TypeOK
    <2> QED BY <1>1, <2>1, QuietShape DEF UserCancels
  <1>2. CASE ToolInterrupted
    <2>1. TypeOK'
      BY <1>0, <1>2, DropGuardsType, EmptySeq DEF ToolInterrupted, TypeOK, Phase, Control
    <2>2. held'[Root] = << >> /\ children' = children /\ phase'[Root] = "thinking" /\ status' = status
      BY <1>0, <1>2 DEF ToolInterrupted, TypeOK
    <2>3. \A d \in Tracked(Root)' : Parent[d] = Root /\ status'[d] # "absent"
      BY <1>0, <2>2, EmptyHeld DEF Family, Tracked
    <2>4. \A b \in Agent : b # Root => held'[b] = held[b] /\ phase'[b] = phase[b]
      BY <1>2 DEF ToolInterrupted, TypeOK
    <2> QED BY <1>0, <2>1, <2>2, <2>3, <2>4, MovingShape DEF FiniteChildren, Busy
  <1>3. CASE TurnInterrupted
    <2>1. TypeOK'
      BY <1>0, <1>3 DEF TurnInterrupted, TypeOK, Control
    <2> QED BY <1>3, <2>1, QuietShape DEF TurnInterrupted
  <1> QED BY <1>1, <1>2, <1>3 DEF Interrupt

-----------------------------------------------------------------------------
(* Idle is inductive. *)

LEMMA IdleInit == ASSUME Init PROVE Idle
  BY DEF Init, Idle, Dormant, SetupFresh

\* A step that starts no task, and enters a setup only for an id whose task has
\* not been spawned, keeps everything idle that was.
LEMMA IdleKept ==
  ASSUME Idle,
         \A c \in Agent : status[c] # "absent" => status'[c] # "absent",
         \A c \in Agent : task[c] = "none" => task'[c] = "none",
         \A c \in Agent : task'[c] = "none" => task[c] = "none" /\ phase'[c] = phase[c],
         \A a \in Agent : phase'[a] \in {"setup", "releasing"} =>
           Head(held'[a]) \in Agent
             /\ \/ phase[a] \in {"setup", "releasing"} /\ held'[a] = held[a]
                \/ task[Head(held'[a])] = "none"
  PROVE  Idle'
  <1>1. Dormant'
    BY DEF Idle, Dormant
  <1>2. SetupFresh'
    BY DEF Idle, SetupFresh
  <1> QED BY <1>1, <1>2 DEF Idle

\* Aborting touches only tasks that run.
LEMMA AbortedNone ==
  ASSUME NEW S, NEW c \in Agent
  PROVE  Aborted(S)[c] = "none" <=> task[c] = "none"
  BY DEF Aborted

LEMMA HeadInAgent ==
  ASSUME Shape, NEW a \in Agent, phase[a] \in {"setup", "releasing"}
  PROVE  Head(held[a]) \in Agent
  BY HeadTracked DEF Busy, Child

\* A step that leaves tasks and phases alone, or moves one running agent from
\* one phase to another outside a setup.
LEMMA IdleQuiet ==
  ASSUME Shape, Idle, task' = task, NEW a \in Agent, task[a] # "none",
         \A c \in Agent : status[c] # "absent" => status'[c] # "absent",
         \A b \in Agent : b # a => phase'[b] = phase[b] /\ held'[b] = held[b],
         phase'[a] \notin {"setup", "releasing"}
  PROVE  Idle'
  <1>1. \A b \in Agent : phase'[b] \in {"setup", "releasing"} =>
          /\ Head(held'[b]) \in Agent
          /\ phase[b] \in {"setup", "releasing"} /\ held'[b] = held[b]
    BY HeadInAgent
  <1> QED BY <1>1, IdleKept

LEMMA DropAgentIdle ==
  ASSUME Shape, Idle, NEW a \in Agent, NEW end \in Ended, DropAgent(a, end), CanStep(a) \/ task[a] = "aborting",
         \A c \in Agent : status[c] # "absent" => status'[c] # "absent"
  PROVE  Idle'
  <1>1. \A c \in Agent : task'[c] = "none" <=> task[c] = "none"
    BY AbortedNone DEF DropAgent, CanStep, Ended, Shape, TypeOK, Aborted
  <1>2. \A b \in Agent : b # a => phase'[b] = phase[b] /\ held'[b] = held[b]
    BY DEF DropAgent, Shape, TypeOK
  <1>3. phase'[a] = "gone" /\ task[a] # "none"
    BY DEF DropAgent, CanStep, Shape, TypeOK
  <1>4. \A b \in Agent : phase'[b] \in {"setup", "releasing"} =>
          /\ Head(held'[b]) \in Agent
          /\ phase[b] \in {"setup", "releasing"} /\ held'[b] = held[b]
    BY <1>2, <1>3, HeadInAgent
  <1> QED BY <1>1, <1>2, <1>3, <1>4, IdleKept

LEMMA ForkIdle ==
  ASSUME Shape, Idle, NEW a \in Agent, Fork(a)
  PROVE  Idle'
  <1> USE DEF Shape
  <1>1. CASE ForkRefused(a)
    BY <1>1, RegisteredType, IdleQuiet DEF ForkRefused, Thinking, CanStep
  <1>2. ASSUME NEW s \in ForkScopes, ForkConflict(a, s) PROVE Idle'
    <2>1. NextChildId(a) \in Child /\ status[NextChildId(a)] = "absent"
      BY <1>2, NextChildFacts DEF ForkConflict
    <2>2. \A d \in Agent : status[d] # "absent" => status'[d] # "absent"
      BY <1>2, <2>1, RegisteredType DEF ForkConflict
    <2> QED BY <1>2, <2>2, IdleQuiet DEF ForkConflict, Thinking, CanStep
  <1>3. ASSUME NEW s \in ForkScopes, ForkReserved(a, s) PROVE Idle'
    <2> DEFINE c == NextChildId(a)
    <2>1. c \in Child /\ status[c] = "absent" /\ c \in Agent /\ c # Root
      BY <1>3, NextChildFacts DEF ForkReserved, Child
    <2>2. \A d \in Agent : status[d] # "absent" => status'[d] # "absent"
      BY <1>3, <2>1, RegisteredType DEF ForkReserved
    <2>3. task[c] = "none"
      BY <2>1 DEF Idle, Dormant
    <2>4. held'[a] = <<c>> /\ Head(held'[a]) = c
      BY <1>3 DEF ForkReserved, TypeOK
    <2>5. \A b \in Agent : b # a => phase'[b] = phase[b] /\ held'[b] = held[b]
      BY <1>3 DEF ForkReserved, TypeOK
    <2>6. task' = task /\ task[a] # "none"
      BY <1>3 DEF ForkReserved, Thinking, CanStep
    <2>7. \A b \in Agent : phase'[b] \in {"setup", "releasing"} =>
            Head(held'[b]) \in Agent
              /\ \/ phase[b] \in {"setup", "releasing"} /\ held'[b] = held[b]
                 \/ task[Head(held'[b])] = "none"
      BY <2>1, <2>3, <2>4, <2>5, HeadInAgent
    <2> QED BY <2>2, <2>5, <2>6, <2>7, IdleKept
  <1>4. CASE SetupFails(a)
    <2>1. \A b \in Agent : b # a => phase'[b] = phase[b]
      BY <1>4 DEF SetupFails, TypeOK
    <2>2. \A b \in Agent : phase'[b] \in {"setup", "releasing"} =>
            /\ Head(held'[b]) \in Agent
            /\ phase[b] \in {"setup", "releasing"} /\ held'[b] = held[b]
      BY <1>4, <2>1, HeadInAgent DEF SetupFails
    <2>3. task' = task /\ status' = status /\ task[a] # "none"
      BY <1>4 DEF SetupFails, CanStep
    <2> QED BY <2>1, <2>2, <2>3, IdleKept
  <1>5. CASE ReleaseSlot(a)
    <2>1. Head(held[a]) \in Agent
      BY <1>5, HeadInAgent DEF ReleaseSlot
    <2>2. \A d \in Agent : status[d] # "absent" => status'[d] # "absent"
      BY <1>5, <2>1, MarkDoneType DEF ReleaseSlot
    <2> QED BY <1>5, <2>2, IdleQuiet DEF ReleaseSlot, CanStep, TypeOK
  <1>6. CASE SpawnChild(a)
    <2> DEFINE c == Head(held[a])
    <2>1. c \in Agent /\ c # Root /\ Parent[c] = a /\ status[c] # "absent" /\ c # a
      BY <1>6, HeadTracked, ParentDiffers DEF SpawnChild, Busy, Child
    <2>2. task' = [task EXCEPT ![c] = "running"] /\ task'[c] = "running"
      BY <1>6, <2>1 DEF SpawnChild, TypeOK
    <2>3. \A b \in Agent : b # a /\ b # c => phase'[b] = phase[b]
      BY <1>6 DEF SpawnChild, TypeOK
    <2>4. status' = status /\ task[a] # "none" /\ phase'[a] = "thinking" /\ phase'[c] = "thinking"
      BY <1>6, <2>1 DEF SpawnChild, CanStep, TypeOK
    <2>5. Dormant'
      BY <2>1, <2>2, <2>3, <2>4 DEF Idle, Dormant, TypeOK
    <2>6. SetupFresh'
      <3> SUFFICES ASSUME NEW b \in Agent, phase'[b] \in {"setup", "releasing"}
                   PROVE  task'[Head(held'[b])] = "none"
        BY DEF SetupFresh
      <3>1. b # a /\ b # c /\ phase[b] \in {"setup", "releasing"} /\ held'[b] = held[b]
        BY <1>6, <2>3, <2>4 DEF SpawnChild, TypeOK
      <3>2. Head(held[b]) \in Agent /\ Head(held[b]) # c
        BY <3>1, <2>1, HeadTracked DEF Busy, Child
      <3> QED BY <3>1, <3>2, <2>2 DEF Idle, SetupFresh, TypeOK
    <2> QED BY <2>5, <2>6 DEF Idle
  <1> QED BY <1>1, <1>2, <1>3, <1>4, <1>5, <1>6 DEF Fork

LEMMA WaitIdle ==
  ASSUME Shape, Idle, NEW a \in Agent, Wait(a)
  PROVE  Idle'
  <1> USE DEF Shape
  <1>1. ASSUME NEW q \in WaitOrders(children[a]), WaitBegin(a, q) PROVE Idle'
    BY <1>1, IdleQuiet DEF WaitBegin, Thinking, CanStep, TypeOK
  <1>2. CASE CollectFinished(a)
    BY <1>2, IdleQuiet DEF CollectFinished, CanStep, TypeOK
  <1>3. CASE CleanupFinished(a)
    <2>1. Head(held[a]) \in Agent
      BY <1>3, HeadTracked DEF CleanupFinished, Busy, Child
    <2>2. \A d \in Agent : status[d] # "absent" => status'[d] # "absent"
      BY <1>3, <2>1, MarkDoneType DEF CleanupFinished
    <2> QED BY <1>3, <2>2, IdleQuiet DEF CleanupFinished, CanStep, TypeOK
  <1>4. CASE WaitDeadline(a)
    BY <1>4, IdleQuiet DEF WaitDeadline, CanStep, TypeOK
  <1> QED BY <1>1, <1>2, <1>3, <1>4 DEF Wait

LEMMA CancelIdle ==
  ASSUME Shape, Idle, NEW a \in Agent, Cancel(a)
  PROVE  Idle'
  <1> USE DEF Shape
  <1>1. ASSUME NEW c \in Child, CancelTracked(a, c) PROVE Idle'
    <2>1. \A d \in Agent : task'[d] = "none" <=> task[d] = "none"
      BY <1>1, AbortedNone DEF CancelTracked
    <2>2. phase'[a] = "cleanup" /\ task[a] # "none" /\ status' = status
          /\ \A b \in Agent : b # a => phase'[b] = phase[b] /\ held'[b] = held[b]
      BY <1>1 DEF CancelTracked, Thinking, CanStep, TypeOK
    <2>3. \A b \in Agent : phase'[b] \in {"setup", "releasing"} =>
            /\ Head(held'[b]) \in Agent
            /\ phase[b] \in {"setup", "releasing"} /\ held'[b] = held[b]
      BY <2>2, HeadInAgent
    <2> QED BY <2>1, <2>2, <2>3, IdleKept
  <1>2. ASSUME NEW c \in Child, CancelUntracked(a, c) PROVE Idle'
    BY <1>2, IdleQuiet DEF CancelUntracked, Thinking, CanStep
  <1> QED BY <1>1, <1>2 DEF Cancel

LEMMA EndIdle ==
  ASSUME Shape, Idle, NEW a \in Agent, End(a)
  PROVE  Idle'
  <1> USE DEF Shape
  <1>1. CASE OtherTool(a)
    BY <1>1, IdleQuiet DEF OtherTool, Thinking, CanStep
  <1>2. ASSUME NEW ok \in BOOLEAN, TurnEnds(a, ok) PROVE Idle'
    BY <1>2, IdleQuiet DEF TurnEnds, Thinking, CanStep, TypeOK
  <1>3. CASE RunReturns(a)
    <2>1. PICK end \in Ended : DropAgent(a, end)
      BY <1>3 DEF RunReturns, Ended
    <2> QED BY <1>3, <2>1, MarkDoneType, DropAgentIdle DEF RunReturns
  <1>4. CASE Panics(a)
    BY <1>4, DropAgentIdle DEF Panics, Thinking, Ended
  <1>5. CASE AbortLands(a)
    BY <1>5, DropAgentIdle DEF AbortLands, Ended
  <1> QED BY <1>1, <1>2, <1>3, <1>4, <1>5 DEF End

LEMMA InterruptIdle ==
  ASSUME Shape, Idle, Interrupt
  PROVE  Idle'
  <1> USE DEF Shape
  <1>0. Root \in Agent
    BY TreeAssumption
  <1>1. CASE UserCancels \/ TurnInterrupted
    BY <1>1 DEF UserCancels, TurnInterrupted, Idle, Dormant, SetupFresh
  <1>2. CASE ToolInterrupted
    BY <1>0, <1>2, IdleQuiet DEF ToolInterrupted, TypeOK
  <1> QED BY <1>1, <1>2 DEF Interrupt

LEMMA ShapeStep ==
  ASSUME Shape, Idle, [Next]_vars
  PROVE  Shape' /\ Idle'
  <1>1. CASE UNCHANGED vars
    BY <1>1, QuietShape DEF vars, Shape, Idle, Dormant, SetupFresh, TypeOK
  <1>2. ASSUME NEW a \in Agent, Fork(a) \/ Wait(a) \/ Cancel(a) \/ End(a)
        PROVE  Shape' /\ Idle'
    BY <1>2, ForkShape, WaitShape, CancelShape, EndShape, ForkIdle, WaitIdle, CancelIdle, EndIdle
  <1>3. CASE Interrupt
    BY <1>3, InterruptShape, InterruptIdle
  <1> QED BY <1>1, <1>2, <1>3 DEF Next, Quiescent

\* Every variable always has its type, and an agent only tracks ids of its own
\* (the state the whole tree of fork.rs, manager.rs and mod.rs keeps).
THEOREM TypeCorrect == Spec => []TypeOK
  <1>1. Init => Shape /\ Idle
    BY ShapeInit, IdleInit
  <1>2. Shape /\ Idle /\ [Next]_vars => (Shape /\ Idle)'
    BY ShapeStep
  <1>3. Shape /\ Idle => TypeOK
    BY DEF Shape
  <1> QED BY <1>1, <1>2, <1>3, PTL DEF Spec

-----------------------------------------------------------------------------
(* The limits. *)

LimitsAt(st) ==
  /\ IsFiniteSet(ActiveAgents(st))
  /\ Cardinality(ActiveAgents(st)) <= MaxTotal
  /\ \A a \in Agent : Cardinality(ActiveChildren(st, a)) <= MaxPerParent
  /\ \A c \in Child : st[c] = "active" => Depth[c] <= MaxDepth

\* The root is registered before any child of the tree is.
RootFirst == status[Root] = "absent" => \A c \in Agent : status[c] = "absent"

\* The inductive invariant.
LimitInv == Shape /\ Idle /\ LimitsAt(status) /\ RootFirst

\* Active children are finitely many when active agents are.
LEMMA ActiveFinite ==
  ASSUME NEW st, IsFiniteSet(ActiveAgents(st)), NEW a
  PROVE  /\ IsFiniteSet(ActiveChildren(st, a))
         /\ Cardinality(ActiveChildren(st, a)) \in Nat
         /\ Cardinality(ActiveAgents(st)) \in Nat
  <1>1. ActiveChildren(st, a) \subseteq ActiveAgents(st)
    BY DEF ActiveChildren, ActiveAgents, Child
  <1> QED BY <1>1, FS_Subset, FS_CardinalityType

\* Giving slots back keeps the limits.
LEMMA FewerSlots ==
  ASSUME NEW st, NEW su, LimitsAt(st), \A c \in Agent : su[c] = "active" => st[c] = "active"
  PROVE  LimitsAt(su)
  <1>1. /\ ActiveAgents(su) \subseteq ActiveAgents(st)
        /\ \A a \in Agent : ActiveChildren(su, a) \subseteq ActiveChildren(st, a)
    BY DEF ActiveAgents, ActiveChildren, Child
  <1>2. /\ IsFiniteSet(ActiveAgents(su))
        /\ Cardinality(ActiveAgents(su)) <= Cardinality(ActiveAgents(st))
    BY <1>1, FS_Subset DEF LimitsAt
  <1>3. Cardinality(ActiveAgents(su)) <= MaxTotal
    BY <1>2, ActiveFinite, LimitAssumption DEF LimitsAt
  <1>4. ASSUME NEW a \in Agent PROVE Cardinality(ActiveChildren(su, a)) <= MaxPerParent
    <2>1. Cardinality(ActiveChildren(su, a)) <= Cardinality(ActiveChildren(st, a))
      BY <1>1, ActiveFinite, FS_Subset DEF LimitsAt
    <2> QED BY <1>2, <2>1, ActiveFinite, LimitAssumption DEF LimitsAt
  <1> QED BY <1>2, <1>3, <1>4 DEF LimitsAt, Child

\* Registering the root keeps the limits: nothing else is registered then.
LEMMA RegisteredLimits ==
  ASSUME LimitInv, NEW a \in Agent, CanStep(a)
  PROVE  LimitsAt(Registered(a)) /\ Registered(a)[Root] # "absent"
  <1> USE DEF LimitInv
  <1>1. task[a] # "none" /\ Root \in Agent
    BY TreeAssumption DEF CanStep
  <1>2. CASE status[a] # "absent"
    BY <1>1, <1>2 DEF Registered, RootFirst
  <1>3. CASE status[a] = "absent"
    <2>1. a = Root
      BY <1>1, <1>3 DEF Idle, Dormant
    <2>2. \A c \in Agent : Registered(a)[c] = IF c = Root THEN "active" ELSE "absent"
      BY <1>3, <2>1 DEF RootFirst, Registered, Shape, TypeOK
    <2>3. ActiveAgents(Registered(a)) = {Root} /\ \A b \in Agent : ActiveChildren(Registered(a), b) = {}
      BY <1>1, <2>2 DEF ActiveAgents, ActiveChildren, Child
    <2>4. IsFiniteSet({Root}) /\ Cardinality({Root}) = 1 /\ Cardinality({}) = 0
      BY FS_Singleton, FS_EmptySet
    <2>5. \A c \in Child : Registered(a)[c] # "active"
      BY <2>2 DEF Child
    <2> QED BY <1>1, <2>2, <2>3, <2>4, <2>5, LimitAssumption DEF LimitsAt
  <1> QED BY <1>2, <1>3

\* A slot taken within the limits keeps them (manager.rs register_child).
LEMMA TakenSlot ==
  ASSUME NEW st, LimitsAt(st), NEW a \in Agent, WithinLimits(st, a),
         NEW c \in Child, Parent[c] = a, st[c] # "active",
         NEW su, su[c] = "active", \A d \in Agent : d # c => su[d] = st[d]
  PROVE  LimitsAt(su)
  <1>1. c \in Agent
    BY DEF Child
  <1>2. /\ ActiveAgents(su) = ActiveAgents(st) \cup {c} /\ c \notin ActiveAgents(st)
        /\ ActiveChildren(su, a) = ActiveChildren(st, a) \cup {c} /\ c \notin ActiveChildren(st, a)
        /\ \A b \in Agent : b # a => ActiveChildren(su, b) = ActiveChildren(st, b)
    BY <1>1 DEF ActiveAgents, ActiveChildren, Child
  <1>3. IsFiniteSet(ActiveAgents(st)) /\ IsFiniteSet(ActiveChildren(st, a))
        /\ Cardinality(ActiveAgents(st)) \in Nat /\ Cardinality(ActiveChildren(st, a)) \in Nat
    BY ActiveFinite DEF LimitsAt
  <1>4. /\ IsFiniteSet(ActiveAgents(su))
        /\ Cardinality(ActiveAgents(su)) = Cardinality(ActiveAgents(st)) + 1
        /\ Cardinality(ActiveChildren(su, a)) = Cardinality(ActiveChildren(st, a)) + 1
    <2>1. ASSUME NEW S, IsFiniteSet(S), c \notin S
          PROVE  IsFiniteSet(S \cup {c}) /\ Cardinality(S \cup {c}) = Cardinality(S) + 1
      BY <2>1, FS_AddElement
    <2>2. IsFiniteSet(ActiveAgents(su))
          /\ Cardinality(ActiveAgents(su)) = Cardinality(ActiveAgents(st)) + 1
      BY <1>2, <1>3, <2>1
    <2>3. Cardinality(ActiveChildren(su, a)) = Cardinality(ActiveChildren(st, a)) + 1
      BY <1>2, <1>3, <2>1
    <2> QED BY <2>2, <2>3
  <1>5. Depth[c] = Depth[a] + 1
    BY TreeAssumption DEF Child
  <1>6. /\ Cardinality(ActiveAgents(su)) <= MaxTotal
        /\ Cardinality(ActiveChildren(su, a)) <= MaxPerParent
        /\ Depth[c] <= MaxDepth
    BY <1>3, <1>4, <1>5, LimitAssumption DEF WithinLimits
  <1> QED BY <1>2, <1>4, <1>6 DEF LimitsAt, Child

LEMMA ForkLimits ==
  ASSUME LimitInv, NEW a \in Agent, Fork(a)
  PROVE  LimitsAt(status') /\ RootFirst'
  <1> USE DEF LimitInv
  <1> DEFINE c == NextChildId(a)
  <1>0. Root \in Agent
    BY TreeAssumption
  <1>1. CASE ForkRefused(a)
    BY <1>1, RegisteredLimits DEF ForkRefused, Thinking, RootFirst
  <1>2. ASSUME NEW s \in ForkScopes, ForkConflict(a, s) PROVE LimitsAt(status') /\ RootFirst'
    <2>1. c \in Child /\ LimitsAt(Registered(a)) /\ Registered(a)[Root] # "absent"
      BY <1>2, NextChildFacts, RegisteredLimits DEF ForkConflict, Thinking
    <2>2. status'[c] = "done" /\ \A d \in Agent : d # c => status'[d] = Registered(a)[d]
      BY <1>2, <2>1, RegisteredType DEF ForkConflict, Shape, Child
    <2> QED BY <1>0, <2>1, <2>2, FewerSlots DEF RootFirst, Child
  <1>3. ASSUME NEW s \in ForkScopes, ForkReserved(a, s) PROVE LimitsAt(status') /\ RootFirst'
    <2>1. /\ c \in Child /\ Parent[c] = a /\ status[c] = "absent"
          /\ LimitsAt(Registered(a)) /\ Registered(a)[Root] # "absent"
      BY <1>3, NextChildFacts, RegisteredLimits DEF ForkReserved, Thinking
    <2>2. status'[c] = "active" /\ \A d \in Agent : d # c => status'[d] = Registered(a)[d]
      BY <1>3, <2>1, RegisteredType DEF ForkReserved, Shape, Child
    <2>3. Registered(a)[c] # "active"
      BY <2>1, ParentDiffers DEF Registered, Shape, TypeOK, Child
    <2>4. LimitsAt(status')
      BY <1>3, <2>1, <2>2, <2>3, TakenSlot DEF ForkReserved
    <2> QED BY <1>0, <2>1, <2>2, <2>4 DEF RootFirst, Child
  <1>4. CASE ReleaseSlot(a)
    <2>1. \A d \in Agent : (status'[d] = "active" => status[d] = "active")
                        /\ (status[d] = "absent" <=> status'[d] = "absent")
      BY <1>4 DEF ReleaseSlot, MarkDone, Shape, TypeOK
    <2> QED BY <1>0, <2>1, FewerSlots DEF RootFirst
  <1>5. CASE SetupFails(a) \/ SpawnChild(a)
    BY <1>5 DEF SetupFails, SpawnChild, RootFirst
  <1> QED BY <1>1, <1>2, <1>3, <1>4, <1>5 DEF Fork

LEMMA LimitStep ==
  ASSUME LimitInv, [Next]_vars
  PROVE  LimitInv'
  <1> USE DEF LimitInv
  <1>0. Root \in Agent
    BY TreeAssumption
  <1>1. Shape' /\ Idle'
    BY ShapeStep
  <1>2. ASSUME NEW a \in Agent, Fork(a) PROVE LimitsAt(status') /\ RootFirst'
    BY <1>2, ForkLimits
  <1>3. ASSUME status' = status PROVE LimitsAt(status') /\ RootFirst'
    BY <1>3 DEF RootFirst
  <1>4. ASSUME NEW a \in Agent, status' = MarkDone(status, a) PROVE LimitsAt(status') /\ RootFirst'
    <2>1. \A d \in Agent : (status'[d] = "active" => status[d] = "active")
                        /\ (status[d] = "absent" <=> status'[d] = "absent")
      BY <1>4 DEF MarkDone, Shape, TypeOK
    <2> QED BY <1>0, <2>1, FewerSlots DEF RootFirst
  <1>5. ASSUME NEW a \in Agent, Wait(a) PROVE LimitsAt(status') /\ RootFirst'
    <2>1. CASE CleanupFinished(a)
      <3>1. Head(held[a]) \in Agent
        BY <2>1, HeadTracked DEF CleanupFinished, Busy, Child
      <3> QED BY <2>1, <3>1, <1>4 DEF CleanupFinished
    <2> QED BY <1>3, <1>5, <2>1 DEF Wait, WaitBegin, CollectFinished, WaitDeadline
  <1>6. ASSUME NEW a \in Agent, Cancel(a) PROVE LimitsAt(status') /\ RootFirst'
    BY <1>3, <1>6 DEF Cancel, CancelTracked, CancelUntracked
  <1>7. ASSUME NEW a \in Agent, End(a) PROVE LimitsAt(status') /\ RootFirst'
    BY <1>3, <1>4, <1>7 DEF End, OtherTool, TurnEnds, RunReturns, Panics, AbortLands
  <1>8. ASSUME Interrupt \/ UNCHANGED vars PROVE LimitsAt(status') /\ RootFirst'
    BY <1>3, <1>8 DEF Interrupt, UserCancels, ToolInterrupted, TurnInterrupted, vars
  <1> QED BY <1>1, <1>2, <1>5, <1>6, <1>7, <1>8 DEF Next, Quiescent

\* However the forks of the tree interleave, the limits of the settings bind the
\* slots in use (manager.rs register_child).
THEOREM LimitsRespected == Spec => []LimitsHold
  <1>1. Init => LimitInv
    <2> SUFFICES ASSUME Init PROVE LimitInv
      OBVIOUS
    <2>1. ActiveAgents(status) = {} /\ \A a \in Agent : ActiveChildren(status, a) = {}
      BY DEF Init, ActiveAgents, ActiveChildren, Child
    <2>2. LimitsAt(status)
      <3>1. IsFiniteSet({}) /\ Cardinality({}) = 0
        BY FS_EmptySet
      <3>2. \A c \in Child : status[c] # "active"
        BY DEF Init, Child
      <3> QED BY <2>1, <3>1, <3>2, LimitAssumption DEF LimitsAt
    <2> QED BY <2>2, ShapeInit, IdleInit DEF LimitInv, RootFirst, Init
  <1>2. LimitInv => LimitsHold
    BY DEF LimitInv, LimitsAt, LimitsHold
  <1> QED BY <1>1, <1>2, LimitStep, PTL DEF Spec

-----------------------------------------------------------------------------
(* Ids. *)

\* What a step may never do to the child an id stands for.
KeepsId(c) ==
  /\ status[c] = "done" => status'[c] = "done"
  /\ task[c] \in Ended => task'[c] = task[c]
  /\ task[c] # "none" => task'[c] # "none" /\ scope'[c] = scope[c]

\* A step that keeps every task and scope, and every slot that was given back.
LEMMA QuietIds ==
  ASSUME UNCHANGED <<task, scope>>, \A c \in Child : status[c] = "done" => status'[c] = "done"
  PROVE  \A c \in Child : KeepsId(c)
  BY DEF KeepsId

\* The end of a running agent, with the children it aborts.
LEMMA DropIds ==
  ASSUME Shape, NEW a \in Agent, NEW end \in Ended, DropAgent(a, end),
         CanStep(a) \/ task[a] = "aborting",
         status' = status \/ status' = MarkDone(status, a)
  PROVE  \A c \in Child : KeepsId(c)
  <1> SUFFICES ASSUME NEW c \in Child PROVE KeepsId(c)
    OBVIOUS
  <1>1. task'[c] = IF c = a THEN end ELSE Aborted(children[a])[c]
    BY AbortedType DEF DropAgent, Shape, TypeOK, Child
  <1>2. Aborted(children[a])[c] \in {task[c], "aborting"}
        /\ (task[c] # "running" => Aborted(children[a])[c] = task[c])
    BY DEF Aborted, Child
  <1>3. task[a] \in {"running", "aborting"}
    BY DEF CanStep
  <1>4. status[c] = "done" => status'[c] = "done"
    BY DEF MarkDone, Shape, TypeOK, Child
  <1> QED BY <1>1, <1>2, <1>3, <1>4 DEF KeepsId, DropAgent, Ended

LEMMA ForkIds ==
  ASSUME Shape, Idle, NEW a \in Agent, Fork(a)
  PROVE  \A c \in Child : KeepsId(c)
  <1> USE DEF Shape
  <1>r. \A d \in Agent : status[d] # "absent" => Registered(a)[d] = status[d]
    BY RegisteredType
  <1>1. CASE ForkRefused(a)
    BY <1>1, <1>r, QuietIds DEF ForkRefused, Child
  <1>2. ASSUME NEW s \in ForkScopes, ForkConflict(a, s) PROVE \A c \in Child : KeepsId(c)
    <2>1. NextChildId(a) \in Child /\ status[NextChildId(a)] = "absent"
      BY <1>2, NextChildFacts DEF ForkConflict
    <2>2. \A d \in Child : status[d] = "done" => status'[d] = "done"
      BY <1>2, <1>r, <2>1, RegisteredType DEF ForkConflict, Child
    <2> QED BY <1>2, <2>2, QuietIds DEF ForkConflict
  <1>3. ASSUME NEW s \in ForkScopes, ForkReserved(a, s) PROVE \A c \in Child : KeepsId(c)
    <2> DEFINE n == NextChildId(a)
    <2>1. n \in Child /\ status[n] = "absent" /\ task[n] = "none"
      BY <1>3, NextChildFacts DEF ForkReserved, Child, Idle, Dormant
    <2>2. \A d \in Child : status[d] = "done" => status'[d] = "done"
      BY <1>3, <1>r, <2>1, RegisteredType DEF ForkReserved, Child
    <2>3. task' = task /\ \A d \in Child : d # n => scope'[d] = scope[d]
      BY <1>3 DEF ForkReserved, TypeOK
    <2> QED BY <2>1, <2>2, <2>3 DEF KeepsId, Ended
  <1>4. CASE SetupFails(a)
    BY <1>4, QuietIds DEF SetupFails
  <1>5. CASE ReleaseSlot(a)
    <2>1. \A d \in Child : status[d] = "done" => status'[d] = "done"
      BY <1>5 DEF ReleaseSlot, MarkDone, TypeOK, Child
    <2> QED BY <1>5, <2>1, QuietIds DEF ReleaseSlot
  <1>6. CASE SpawnChild(a)
    <2> DEFINE n == Head(held[a])
    <2>1. task[n] = "none"
      BY <1>6 DEF SpawnChild, Idle, SetupFresh
    <2>2. \A d \in Child : d # n => task'[d] = task[d]
      BY <1>6 DEF SpawnChild, TypeOK, Child
    <2> QED BY <1>6, <2>1, <2>2 DEF KeepsId, SpawnChild, Ended
  <1> QED BY <1>1, <1>2, <1>3, <1>4, <1>5, <1>6 DEF Fork

LEMMA IdsStep ==
  ASSUME Shape, Idle, [Next]_vars
  PROVE  \A c \in Child : KeepsId(c)
  <1>1. ASSUME NEW a \in Agent, Wait(a) PROVE \A c \in Child : KeepsId(c)
    <2>1. \A d \in Child : status[d] = "done" => MarkDone(status, Head(held[a]))[d] = "done"
      BY DEF MarkDone, Shape, TypeOK, Child
    <2> QED BY <1>1, <2>1, QuietIds
            DEF Wait, WaitBegin, CollectFinished, CleanupFinished, WaitDeadline
  <1>2. ASSUME NEW a \in Agent, NEW d \in Child, CancelTracked(a, d)
        PROVE  \A c \in Child : KeepsId(c)
    <2>1. task' = Aborted({d}) /\ scope' = scope /\ status' = status
      BY <1>2 DEF CancelTracked
    <2>2. \A c \in Child : task[c] # "running" => task'[c] = task[c]
      BY <2>1 DEF Aborted, Child
    <2>3. \A c \in Child : task[c] = "running" => task'[c] \in {"running", "aborting"}
      BY <2>1 DEF Aborted, Child
    <2> QED BY <2>1, <2>2, <2>3 DEF KeepsId, Ended
  <1>3. ASSUME NEW a \in Agent, Cancel(a) PROVE \A c \in Child : KeepsId(c)
    BY <1>2, <1>3, QuietIds DEF Cancel, CancelUntracked
  <1>4. ASSUME NEW a \in Agent, RunReturns(a) PROVE \A c \in Child : KeepsId(c)
    <2>1. PICK end \in Ended : DropAgent(a, end)
      BY <1>4 DEF RunReturns, Ended
    <2> QED BY <1>4, <2>1, DropIds DEF RunReturns
  <1>5. ASSUME NEW a \in Agent, Panics(a) \/ AbortLands(a) PROVE \A c \in Child : KeepsId(c)
    BY <1>5, DropIds DEF Panics, AbortLands, Ended, Thinking
  <1>6. ASSUME NEW a \in Agent, End(a) PROVE \A c \in Child : KeepsId(c)
    BY <1>4, <1>5, <1>6, QuietIds DEF End, OtherTool, TurnEnds
  <1>7. CASE Interrupt \/ UNCHANGED vars
    BY <1>7, QuietIds DEF Interrupt, UserCancels, ToolInterrupted, TurnInterrupted, vars
  <1> QED BY <1>1, <1>3, <1>6, <1>7, ForkIds DEF Next, Quiescent

\* An id names one child for the life of the tree: its slot is never taken
\* twice, its task never restarts (fork.rs next_child_id, manager.rs).
THEOREM IdsStayUnique == Spec => IdsNeverReused
  <1>1. Init => Shape /\ Idle
    BY ShapeInit, IdleInit
  <1>2. Shape /\ Idle /\ [Next]_vars => (Shape /\ Idle)'
    BY ShapeStep
  <1>3. Shape /\ Idle /\ [Next]_vars =>
          [\A c \in Child :
             /\ status[c] = "done" => status'[c] = "done"
             /\ task[c] \in Ended => task'[c] = task[c]
             /\ task[c] # "none" => task'[c] # "none" /\ scope'[c] = scope[c]]_vars
    BY IdsStep DEF KeepsId
  <1> QED BY <1>1, <1>2, <1>3, PTL DEF Spec, IdsNeverReused

-----------------------------------------------------------------------------
(* The claims. *)

\* What a guard stands for is a scope.
Scoped == \A c \in guarded : scope[c] \in Scope

ClaimInv == ClaimsDisjoint /\ GuardsBacked /\ Scoped

\* A setup works on one child, and gives its slot back without its guard.
SetupSingle ==
  \A a \in Agent : phase[a] = "setup" => ToSet(held[a]) = {Head(held[a])}

ReleasingBare ==
  \A a \in Agent : phase[a] = "releasing" => ToSet(held[a]) \cap guarded = {}

Owned == GuardsOwned /\ SetupSingle /\ ReleasingBare

\* The inductive invariant.
GuardInv == Shape /\ Idle /\ ClaimInv /\ Owned

-----------------------------------------------------------------------------
(* The three ways a step touches the registry. *)

KeepsClaims == UNCHANGED <<entries, scope, guarded>>

DropsClaims(S) == DropGuards(S) /\ scope' = scope

\* Nothing but a successful fork takes a claim, and nothing but dropped guards
\* gives one back.
LEMMA ClaimSteps ==
  ASSUME NEW a \in Agent, Fork(a) \/ Wait(a) \/ Cancel(a) \/ End(a) \/ Interrupt
  PROVE  \/ KeepsClaims
         \/ \E S : DropsClaims(S)
         \/ \E s \in ForkScopes : ForkReserved(a, s)
  <1> USE DEF KeepsClaims, DropsClaims
  <1>1. CASE Fork(a)
    BY <1>1 DEF Fork, ForkRefused, ForkConflict, SetupFails, ReleaseSlot, SpawnChild
  <1>2. CASE Wait(a)
    BY <1>2 DEF Wait, WaitBegin, CollectFinished, CleanupFinished, WaitDeadline
  <1>3. CASE Cancel(a)
    BY <1>3 DEF Cancel, CancelTracked, CancelUntracked
  <1>4. CASE End(a)
    BY <1>4 DEF End, OtherTool, TurnEnds, RunReturns, Panics, AbortLands, DropAgent
  <1>5. CASE Interrupt
    BY <1>5 DEF Interrupt, UserCancels, ToolInterrupted, TurnInterrupted
  <1> QED BY <1>1, <1>2, <1>3, <1>4, <1>5

\* Two guards never stand for the same key.
LEMMA GuardsApart ==
  ASSUME ClaimInv, NEW c \in guarded, NEW d \in guarded, c # d,
         NEW k \in KeysOf(scope[c]), NEW l \in KeysOf(scope[d])
  PROVE  ~Clash(k, l)
  <1> DEFINE e == [key |-> k, owner |-> c]
             f == [key |-> l, owner |-> d]
  <1>1. e \in entries /\ f \in entries
    BY DEF ClaimInv, GuardsBacked
  <1>2. e # f /\ e.key = k /\ f.key = l
    OBVIOUS
  <1> QED BY <1>1, <1>2 DEF ClaimInv, ClaimsDisjoint, Disjoint

\* Dropping guards removes the entries of their owners and no other, although
\* the code removes them by key (url_claim.rs ClaimGuard::drop).
LEMMA DropKeeps ==
  ASSUME ClaimInv, NEW S, DropsClaims(S)
  PROVE  ClaimInv'
  <1> USE DEF DropsClaims
  <1>1. ClaimsDisjoint'
    BY ReleasedDisjoint DEF ClaimInv, ClaimsDisjoint, DropGuards
  <1>2. Scoped'
    BY DEF ClaimInv, Scoped, DropGuards
  <1>3. ASSUME NEW c \in guarded', NEW k \in KeysOf(scope[c])
        PROVE  [key |-> k, owner |-> c] \in entries'
    <2>1. c \in guarded /\ c \notin S
      BY DEF DropGuards
    <2>2. [key |-> k, owner |-> c] \in entries
      BY <2>1 DEF ClaimInv, GuardsBacked
    <2>3. \A d \in S \cap guarded : k \notin KeysOf(scope[d])
      <3> SUFFICES ASSUME NEW d \in S \cap guarded, k \in KeysOf(scope[d]) PROVE FALSE
        OBVIOUS
      <3> QED BY <2>1, GuardsApart DEF Clash
    <2> QED BY <2>2, <2>3 DEF DropGuards, ReleasedAll
  <1>4. ASSUME NEW e \in entries'
        PROVE  e.owner \in guarded' /\ e.key \in KeysOf(scope[e.owner])
    <2>1. e \in entries /\ \A d \in S \cap guarded : e.key \notin KeysOf(scope[d])
      BY DEF DropGuards, ReleasedAll
    <2>2. e.owner \in guarded /\ e.key \in KeysOf(scope[e.owner])
      BY <2>1 DEF ClaimInv, GuardsBacked
    <2> QED BY <2>1, <2>2 DEF DropGuards
  <1>5. GuardsBacked'
    BY <1>3, <1>4 DEF GuardsBacked
  <1> QED BY <1>1, <1>2, <1>5 DEF ClaimInv

\* The id of a fork has no guard yet.
LEMMA FreshUnguarded ==
  ASSUME Shape, Owned, NEW c \in Child, status[c] = "absent"
  PROVE  c \notin guarded /\ \A b \in Agent : c \notin Tracked(b)
  BY ParentDiffers DEF Shape, Family, Owned, GuardsOwned

LEMMA ReserveKeeps ==
  ASSUME Shape, Owned, ClaimInv, NEW a \in Agent, NEW s \in ForkScopes, ForkReserved(a, s)
  PROVE  ClaimInv'
  <1> DEFINE c == NextChildId(a)
  <1>1. c \in Child /\ status[c] = "absent" /\ c \notin guarded /\ c \in Agent
    BY NextChildFacts, FreshUnguarded DEF ForkReserved, Child
  <1>2. s \in Scope /\ \A e \in entries : e.key \in Key
    BY TreeAssumption DEF Shape, TypeOK
  <1>3. scope'[c] = s /\ \A d \in guarded : d # c /\ scope'[d] = scope[d]
    BY <1>1 DEF ForkReserved, Shape, TypeOK
  <1>4. guarded' = guarded \cup {c} /\ entries' = entries \cup [key : KeysOf(s), owner : {c}]
    BY DEF ForkReserved, Claimed
  <1>5. ClaimsDisjoint'
    BY <1>2, ClaimedDisjoint DEF ClaimInv, ClaimsDisjoint, ForkReserved
  <1>6. Scoped'
    BY <1>2, <1>3, <1>4 DEF ClaimInv, Scoped
  <1>7. GuardsBacked'
    <2>1. \A d \in guarded' : [key : KeysOf(scope'[d]), owner : {d}] \subseteq entries'
      BY <1>3, <1>4 DEF ClaimInv, GuardsBacked
    <2>2. \A e \in entries' : e.owner \in guarded' /\ e.key \in KeysOf(scope'[e.owner])
      BY <1>3, <1>4 DEF ClaimInv, GuardsBacked
    <2> QED BY <2>1, <2>2 DEF GuardsBacked
  <1> QED BY <1>5, <1>6, <1>7 DEF ClaimInv

LEMMA ClaimKept ==
  ASSUME GuardInv, [Next]_vars
  PROVE  ClaimInv'
  <1>1. CASE KeepsClaims
    BY <1>1 DEF GuardInv, ClaimInv, ClaimsDisjoint, GuardsBacked, Scoped, KeepsClaims
  <1>2. ASSUME NEW S, DropsClaims(S) PROVE ClaimInv'
    BY <1>2, DropKeeps DEF GuardInv
  <1>3. ASSUME NEW a \in Agent, NEW s \in ForkScopes, ForkReserved(a, s) PROVE ClaimInv'
    BY <1>3, ReserveKeeps DEF GuardInv
  <1>4. CASE UNCHANGED vars
    BY <1>1, <1>4 DEF vars, KeepsClaims
  <1>5. Root \in Agent
    BY TreeAssumption
  <1> QED BY <1>1, <1>2, <1>3, <1>4, <1>5, ClaimSteps DEF Next, Quiescent

-----------------------------------------------------------------------------
(* Every guard has a live owner. *)

\* A step of agent a that takes no new guard: what is left to show is about a.
LEMMA OwnedKept ==
  ASSUME Shape, Owned, NEW a \in Agent, guarded' \subseteq guarded,
         \A b \in Agent : b # a =>
           /\ Alive(b) => Alive(b)'
           /\ children'[b] = children[b] /\ held'[b] = held[b]
           /\ phase'[b] \in {"setup", "releasing"} => phase'[b] = phase[b],
         \A c \in guarded' : Parent[c] = a => Alive(a)' /\ c \in Tracked(a)',
         phase'[a] = "setup" => ToSet(held'[a]) = {Head(held'[a])},
         phase'[a] = "releasing" => ToSet(held'[a]) \cap guarded' = {}
  PROVE  Owned'
  <1>1. SetupSingle' /\ ReleasingBare'
    BY DEF Owned, SetupSingle, ReleasingBare
  <1>2. ASSUME NEW c \in guarded' PROVE Alive(Parent[c])' /\ c \in Tracked(Parent[c])'
    <2>1. c \in Child /\ Parent[c] \in Agent
      BY ParentDiffers DEF Shape, TypeOK
    <2>2. CASE Parent[c] = a
      BY <2>2
    <2>3. CASE Parent[c] # a
      BY <2>1, <2>3 DEF Owned, GuardsOwned, Tracked
    <2> QED BY <2>2, <2>3
  <1>3. GuardsOwned'
    BY <1>2 DEF GuardsOwned, Alive, Tracked
  <1> QED BY <1>1, <1>3 DEF Owned

\* A step in which a live agent keeps tracking everything it has guards for.
LEMMA OwnedQuiet ==
  ASSUME Shape, Owned, NEW a \in Agent, guarded' \subseteq guarded, task' = task,
         CanStep(a) \/ Alive(a),
         \A b \in Agent : b # a =>
           children'[b] = children[b] /\ held'[b] = held[b] /\ phase'[b] = phase[b],
         Tracked(a) \cap guarded' \subseteq Tracked(a)',
         phase'[a] \notin {"setup", "releasing"}
  PROVE  Owned'
  <1>1. Alive(a)' /\ \A b \in Agent : Alive(b) => Alive(b)'
    BY DEF Alive, CanStep
  <1>2. \A c \in guarded' : Parent[c] = a => c \in Tracked(a)'
    BY DEF Owned, GuardsOwned
  <1> QED BY <1>1, <1>2, OwnedKept

\* A step that moves nothing an owner has.
LEMMA OwnedIdle ==
  ASSUME Owned, UNCHANGED <<guarded, task, children, held, phase>>
  PROVE  Owned'
  BY DEF Owned, GuardsOwned, SetupSingle, ReleasingBare, Alive, Tracked

LEMMA OwnedDrop ==
  ASSUME Shape, Owned, NEW a \in Agent, NEW end, DropAgent(a, end)
  PROVE  Owned'
  <1>1. guarded' = guarded \ Tracked(a)
    BY DEF DropAgent, DropGuards, Tracked
  <1>2. \A b \in Agent : b # a => (Alive(b) => Alive(b)')
    BY DEF DropAgent, Aborted, Alive, Shape, TypeOK
  <1>3. \A b \in Agent : b # a =>
          children'[b] = children[b] /\ held'[b] = held[b] /\ phase'[b] = phase[b]
    BY DEF DropAgent, Shape, TypeOK
  <1>4. \A c \in guarded' : Parent[c] # a
    BY <1>1 DEF Owned, GuardsOwned
  <1>5. phase'[a] = "gone"
    BY DEF DropAgent, Shape, TypeOK
  <1> QED BY <1>1, <1>2, <1>3, <1>4, <1>5, OwnedKept

LEMMA ForkOwned ==
  ASSUME GuardInv, NEW a \in Agent, Fork(a)
  PROVE  Owned'
  <1> USE DEF GuardInv
  <1>1. CASE ForkRefused(a)
    BY <1>1, OwnedIdle DEF ForkRefused
  <1>2. ASSUME NEW s \in ForkScopes, ForkConflict(a, s) PROVE Owned'
    BY <1>2, OwnedIdle DEF ForkConflict
  <1>3. ASSUME NEW s \in ForkScopes, ForkReserved(a, s) PROVE Owned'
    <2> DEFINE c == NextChildId(a)
    <2>1. c \in Child /\ Parent[c] = a /\ c \notin guarded /\ \A b \in Agent : c \notin Tracked(b)
      BY <1>3, NextChildFacts, FreshUnguarded DEF ForkReserved
    <2>2. /\ guarded' = guarded \cup {c} /\ held'[a] = <<c>> /\ held[a] = << >>
          /\ phase'[a] = "setup" /\ children' = children /\ task' = task
      BY <1>3 DEF ForkReserved, Thinking, Shape, HeldShape, TypeOK, Busy
    <2>3. \A b \in Agent : b # a => held'[b] = held[b] /\ phase'[b] = phase[b]
      BY <1>3 DEF ForkReserved, Shape, TypeOK
    <2>4. Alive(a)'
      BY <1>3, <2>2 DEF ForkReserved, Thinking, CanStep, Alive
    <2>5. GuardsOwned'
      <3> SUFFICES ASSUME NEW d \in guarded' PROVE Alive(Parent[d])' /\ d \in Tracked(Parent[d])'
        BY DEF GuardsOwned, Alive, Tracked
      <3>1. CASE d = c
        BY <3>1, <2>1, <2>2, <2>4, SingletonSeq DEF Tracked
      <3>2. CASE d # c
        <4>1. d \in guarded /\ Alive(Parent[d]) /\ d \in Tracked(Parent[d])
          BY <3>2, <2>2 DEF Owned, GuardsOwned
        <4>2. Parent[d] \in Agent
          BY <4>1, ParentDiffers DEF Shape, TypeOK
        <4> QED BY <4>1, <4>2, <2>2, <2>3, EmptyHeld DEF Tracked, Alive
      <3> QED BY <3>1, <3>2
    <2>6. SetupSingle'
      <3>1. ToSet(held'[a]) = {Head(held'[a])}
        BY <2>2, SingletonSeq
      <3> QED BY <2>2, <2>3, <3>1 DEF Owned, SetupSingle
    <2>7. ReleasingBare'
      BY <2>1, <2>2, <2>3 DEF Owned, ReleasingBare, Tracked
    <2> QED BY <2>5, <2>6, <2>7 DEF Owned
  <1>4. CASE SetupFails(a)
    <2>1. guarded' = guarded \ ToSet(held[a]) /\ phase'[a] = "releasing"
          /\ UNCHANGED <<task, children, held>>
      BY <1>4 DEF SetupFails, DropGuards, Shape, TypeOK
    <2>2. \A b \in Agent : b # a => phase'[b] = phase[b]
      BY <1>4 DEF SetupFails, Shape, TypeOK
    <2>3. \A c \in guarded' : Parent[c] = a => Alive(a)' /\ c \in Tracked(a)'
      BY <2>1 DEF Owned, GuardsOwned, Alive, Tracked
    <2> QED BY <2>1, <2>2, <2>3, OwnedKept DEF Alive
  <1>5. CASE ReleaseSlot(a)
    <2>1. ToSet(held[a]) \cap guarded = {}
      BY <1>5 DEF ReleaseSlot, Owned, ReleasingBare
    <2>2. held'[a] = << >> /\ children' = children /\ guarded' = guarded
      BY <1>5 DEF ReleaseSlot, Shape, TypeOK
    <2>3. Tracked(a) \cap guarded' \subseteq Tracked(a)'
      BY <2>1, <2>2 DEF Tracked
    <2> QED BY <1>5, <2>2, <2>3, OwnedQuiet DEF ReleaseSlot, Shape, TypeOK
  <1>6. CASE SpawnChild(a)
    <2> DEFINE c == Head(held[a])
    <2>1. c \in Child /\ c # a /\ ToSet(held[a]) = {c}
      BY <1>6, HeadTracked, ParentDiffers DEF SpawnChild, Busy, Owned, SetupSingle
    <2>2. /\ children'[a] = children[a] \cup {c} /\ held'[a] = << >> /\ phase'[a] = "thinking"
          /\ guarded' = guarded
      BY <1>6, <2>1 DEF SpawnChild, Shape, TypeOK, Child
    <2>3. \A b \in Agent : Alive(b) => Alive(b)'
      BY <1>6 DEF SpawnChild, Alive, Shape, TypeOK
    <2>4. Alive(a)'
      BY <1>6, <2>3 DEF SpawnChild, CanStep, Alive
    <2>5. Tracked(a) \subseteq Tracked(a)'
      BY <2>1, <2>2 DEF Tracked
    <2>6. \A b \in Agent : b # a =>
            /\ children'[b] = children[b] /\ held'[b] = held[b]
            /\ phase'[b] \in {"setup", "releasing"} => phase'[b] = phase[b]
      BY <1>6 DEF SpawnChild, Shape, TypeOK
    <2>7. \A d \in guarded' : Parent[d] = a => d \in Tracked(a)'
      BY <2>2, <2>5 DEF Owned, GuardsOwned
    <2> QED BY <2>2, <2>3, <2>4, <2>6, <2>7, OwnedKept
  <1> QED BY <1>1, <1>2, <1>3, <1>4, <1>5, <1>6 DEF Fork

LEMMA WaitOwned ==
  ASSUME GuardInv, NEW a \in Agent, Wait(a)
  PROVE  Owned'
  <1> USE DEF GuardInv
  <1>1. ASSUME NEW q \in WaitOrders(children[a]), WaitBegin(a, q) PROVE Owned'
    <2>1. held[a] = << >> /\ held'[a] = q /\ children'[a] = children[a] \ ToSet(q)
      BY <1>1 DEF WaitBegin, Thinking, Shape, HeldShape, TypeOK, Busy
    <2>2. Tracked(a) \subseteq Tracked(a)'
      BY <2>1, EmptyHeld DEF Tracked
    <2> QED BY <1>1, <2>2, OwnedQuiet DEF WaitBegin, Thinking, Shape, TypeOK
  <1>2. CASE CollectFinished(a)
    BY <1>2, OwnedQuiet DEF CollectFinished, Tracked, Shape, TypeOK
  <1>3. CASE CleanupFinished(a)
    <2> DEFINE c == Head(held[a])
    <2>1. held'[a] = Tail(held[a]) /\ children' = children /\ guarded' = guarded \ {c}
      BY <1>3 DEF CleanupFinished, DropGuards, Shape, TypeOK
    <2>2. ToSet(held[a]) = {c} \cup ToSet(Tail(held[a]))
      BY <1>3, HeadTracked DEF CleanupFinished, Busy
    <2>3. Tracked(a) \cap guarded' \subseteq Tracked(a)'
      BY <2>1, <2>2 DEF Tracked
    <2> QED BY <1>3, <2>1, <2>3, OwnedQuiet DEF CleanupFinished, Shape, TypeOK
  <1>4. CASE WaitDeadline(a)
    <2>1. children'[a] = children[a] \cup ToSet(held[a])
      BY <1>4 DEF WaitDeadline, Shape, TypeOK
    <2>2. Tracked(a) \subseteq Tracked(a)'
      BY <2>1 DEF Tracked
    <2> QED BY <1>4, <2>2, OwnedQuiet DEF WaitDeadline, Shape, TypeOK
  <1> QED BY <1>1, <1>2, <1>3, <1>4 DEF Wait

LEMMA CancelOwned ==
  ASSUME GuardInv, NEW a \in Agent, Cancel(a)
  PROVE  Owned'
  <1> USE DEF GuardInv
  <1>1. ASSUME NEW c \in Child, CancelTracked(a, c) PROVE Owned'
    <2>1. /\ children'[a] = children[a] \ {c} /\ held'[a] = <<c>> /\ held[a] = << >>
          /\ guarded' = guarded \ {c} /\ phase'[a] = "cleanup"
      BY <1>1 DEF CancelTracked, DropGuards, Thinking, Shape, HeldShape, TypeOK, Busy
    <2>2. \A b \in Agent : Alive(b) => Alive(b)'
      BY <1>1 DEF CancelTracked, Aborted, Alive, Shape, TypeOK
    <2>3. Alive(a)'
      BY <1>1, <2>2 DEF CancelTracked, Thinking, CanStep, Alive
    <2>4. \A b \in Agent : b # a =>
            children'[b] = children[b] /\ held'[b] = held[b] /\ phase'[b] = phase[b]
      BY <1>1 DEF CancelTracked, Shape, TypeOK
    <2>5. Tracked(a) \subseteq Tracked(a)' \cup {c}
      BY <2>1, EmptyHeld DEF Tracked
    <2>6. \A d \in guarded' : Parent[d] = a => d \in Tracked(a)'
      BY <2>1, <2>5 DEF Owned, GuardsOwned
    <2> QED BY <2>1, <2>2, <2>3, <2>4, <2>6, OwnedKept
  <1>2. ASSUME NEW c \in Child, CancelUntracked(a, c) PROVE Owned'
    BY <1>2, OwnedIdle DEF CancelUntracked
  <1> QED BY <1>1, <1>2 DEF Cancel

LEMMA EndOwned ==
  ASSUME GuardInv, NEW a \in Agent, End(a)
  PROVE  Owned'
  <1> USE DEF GuardInv
  <1>1. CASE OtherTool(a)
    BY <1>1, OwnedIdle DEF OtherTool
  <1>2. ASSUME NEW ok \in BOOLEAN, TurnEnds(a, ok) PROVE Owned'
    BY <1>2, OwnedQuiet DEF TurnEnds, Thinking, Tracked, Shape, TypeOK
  <1>3. CASE RunReturns(a) \/ Panics(a) \/ AbortLands(a)
    BY <1>3, OwnedDrop DEF RunReturns, Panics, AbortLands
  <1> QED BY <1>1, <1>2, <1>3 DEF End

LEMMA InterruptOwned ==
  ASSUME GuardInv, Interrupt
  PROVE  Owned'
  <1> USE DEF GuardInv
  <1>0. Root \in Agent
    BY TreeAssumption
  <1>1. CASE UserCancels \/ TurnInterrupted
    BY <1>1, OwnedIdle DEF UserCancels, TurnInterrupted
  <1>2. CASE ToolInterrupted
    <2>1. guarded' = guarded \ ToSet(held[Root]) /\ children' = children /\ held'[Root] = << >>
          /\ phase'[Root] = "thinking" /\ task' = task /\ Alive(Root)
      BY <1>0, <1>2 DEF ToolInterrupted, DropGuards, Alive, Shape, TypeOK
    <2>2. Tracked(Root) \cap guarded' \subseteq Tracked(Root)'
      BY <2>1 DEF Tracked
    <2>3. \A b \in Agent : b # Root => held'[b] = held[b] /\ phase'[b] = phase[b]
      BY <1>2 DEF ToolInterrupted, Shape, TypeOK
    <2> QED BY <1>0, <2>1, <2>2, <2>3, OwnedQuiet
  <1> QED BY <1>1, <1>2 DEF Interrupt

LEMMA GuardInvInit == ASSUME Init PROVE GuardInv
  <1>1. Shape /\ Idle
    BY ShapeInit, IdleInit
  <1>2. ClaimInv
    BY DEF Init, ClaimInv, ClaimsDisjoint, Disjoint, GuardsBacked, Scoped
  <1>3. Owned
    BY DEF Init, Owned, GuardsOwned, SetupSingle, ReleasingBare
  <1> QED BY <1>1, <1>2, <1>3 DEF GuardInv

LEMMA GuardInvStep ==
  ASSUME GuardInv, [Next]_vars
  PROVE  GuardInv'
  <1>1. Shape' /\ Idle'
    BY ShapeStep DEF GuardInv
  <1>2. ClaimInv'
    BY ClaimKept
  <1>3. Owned'
    <2>1. CASE UNCHANGED vars
      BY <2>1, OwnedIdle DEF vars, GuardInv
    <2> QED BY <2>1, ForkOwned, WaitOwned, CancelOwned, EndOwned, InterruptOwned
            DEF Next, Quiescent
  <1> QED BY <1>1, <1>2, <1>3 DEF GuardInv

-----------------------------------------------------------------------------
(* The theorems. *)

\* Whatever the interleaving of forks, waits, cancels, aborts and interrupts,
\* no two entries of the registry block each other (url_claim.rs try_claim).
THEOREM RegistryDisjoint == Spec => []ClaimsDisjoint
  <1>1. GuardInv => ClaimsDisjoint
    BY DEF GuardInv, ClaimInv
  <1> QED BY GuardInvInit, GuardInvStep, <1>1, PTL DEF Spec

\* The registry is exactly what the live guards hold: nothing leaks and nothing
\* is released twice (url_claim.rs ClaimGuard::drop).
THEOREM RegistryBacked == Spec => []GuardsBacked
  <1>1. GuardInv => GuardsBacked
    BY DEF GuardInv, ClaimInv
  <1> QED BY GuardInvInit, GuardInvStep, <1>1, PTL DEF Spec

\* No guard outlives the live agent that must drop it (fork.rs, mod.rs drop).
THEOREM NoGuardStranded == Spec => []GuardsOwned
  <1>1. GuardInv => GuardsOwned
    BY DEF GuardInv, Owned
  <1> QED BY GuardInvInit, GuardInvStep, <1>1, PTL DEF Spec

-----------------------------------------------------------------------------
(* The refinement. *)

\* What a child leases is the whole scope its guard stands for.
LeaseShape ==
  \A c \in Child : OwnerKeys(c) = IF c \in guarded THEN KeysOf(scope[c]) ELSE {}

LEMMA LeaseOf == ClaimInv => LeaseShape
  <1> SUFFICES ASSUME ClaimInv, NEW c \in Child
               PROVE  OwnerKeys(c) = IF c \in guarded THEN KeysOf(scope[c]) ELSE {}
    BY DEF LeaseShape
  <1>1. OwnerKeys(c) \subseteq KeysOf(scope[c]) /\ (c \notin guarded => OwnerKeys(c) = {})
    BY DEF OwnerKeys, ClaimInv, GuardsBacked
  <1>2. ASSUME c \in guarded, NEW k \in KeysOf(scope[c]) PROVE k \in OwnerKeys(c)
    <2>1. [key |-> k, owner |-> c] \in entries
      BY <1>2 DEF ClaimInv, GuardsBacked
    <2> QED BY <2>1 DEF OwnerKeys
  <1> QED BY <1>1, <1>2

\* The instance of ScopeLeases has the same scopes, keys and clashes.
LEMMA SameRules ==
  /\ Leases!Scope = Scope
  /\ \A s : Leases!KeysOf(s) = KeysOf(s)
  /\ \A k, l : Leases!Clash(k, l) <=> Clash(k, l)
  BY DEF Leases!Scope, Scope, Leases!KeysOf, KeysOf, Leases!RawUrls, RawUrls, Leases!Clash,
         Clash, Leases!ExactKey, ExactKey, Leases!PatternKey, PatternKey

LEMMA LeaseInit == ASSUME Init PROVE Leases!Init
  BY DEF Init, Leases!Init, OwnerKeys

LEMMA LeaseStep ==
  ASSUME GuardInv, [Next]_vars
  PROVE  [Leases!Next]_([c \in Child |-> OwnerKeys(c)])
  <1> USE DEF GuardInv
  <1>0. Root \in Agent
    BY TreeAssumption
  <1>9. LeaseShape /\ LeaseShape'
    BY ClaimKept, LeaseOf, PTL
  <1>1. CASE KeepsClaims
    BY <1>1 DEF KeepsClaims, OwnerKeys
  <1>2. ASSUME NEW S, DropsClaims(S) PROVE Leases!Next
    <2> DEFINE T == S \cap Child
    <2>1. \A c \in Child : OwnerKeys(c)' = IF c \in T THEN {} ELSE OwnerKeys(c)
      <3> SUFFICES ASSUME NEW c \in Child
                   PROVE  OwnerKeys(c)' = IF c \in T THEN {} ELSE OwnerKeys(c)
        OBVIOUS
      <3>1. OwnerKeys(c) = IF c \in guarded THEN KeysOf(scope[c]) ELSE {}
        BY <1>9 DEF LeaseShape
      <3>2. OwnerKeys(c)' = IF c \in guarded' THEN KeysOf(scope'[c]) ELSE {}
        BY <1>9 DEF LeaseShape
      <3> QED BY <1>2, <3>1, <3>2 DEF DropsClaims, DropGuards
    <2>2. Leases!Release(T)
      BY <2>1 DEF Leases!Release
    <2> QED BY <2>2 DEF Leases!Next
  <1>3. ASSUME NEW a \in Agent, NEW s \in ForkScopes, ForkReserved(a, s) PROVE Leases!Next
    <2> DEFINE o == NextChildId(a)
    <2>1. o \in Child /\ o \notin guarded /\ s \in Scope
      BY <1>3, NextChildFacts, FreshUnguarded, TreeAssumption DEF ForkReserved
    <2>2. OwnerKeys(o) = {}
      BY <1>9, <2>1 DEF LeaseShape
    <2>3. Leases!Free(KeysOf(s))
      <3> SUFFICES ASSUME NEW p \in Child, NEW l \in OwnerKeys(p), NEW k \in KeysOf(s)
                   PROVE  ~Clash(k, l)
        BY SameRules DEF Leases!Free
      <3>1. PICK e \in entries : e.key = l
        BY DEF OwnerKeys
      <3> QED BY <1>3, <2>1, <3>1, ClaimableFree DEF ForkReserved, Shape, TypeOK
    <2>4. guarded' = guarded \cup {o} /\ \A c \in Child : scope'[c] = IF c = o THEN s ELSE scope[c]
      BY <1>3 DEF ForkReserved, Shape, TypeOK, Child
    <2>5. \A c \in Child : OwnerKeys(c)' = IF c = o THEN KeysOf(s) ELSE OwnerKeys(c)
      BY <1>9, <2>1, <2>4 DEF LeaseShape
    <2>6. Leases!Acquire(o, s)
      BY <2>1, <2>2, <2>3, <2>5, SameRules DEF Leases!Acquire
    <2> QED BY <2>1, <2>6, SameRules DEF Leases!Next
  <1>4. CASE UNCHANGED vars
    BY <1>1, <1>4 DEF vars, KeepsClaims
  <1> QED BY <1>0, <1>1, <1>2, <1>3, <1>4, ClaimSteps DEF Next, Quiescent

\* The agent tree implements leases that are exclusive, taken whole and given
\* back whole (url_claim.rs, as fork.rs uses it).
THEOREM TreeImplementsLeases == Spec => ImplementsLeases
  BY GuardInvInit, GuardInvStep, LeaseInit, LeaseStep, PTL
     DEF Spec, ImplementsLeases, Leases!Spec

-----------------------------------------------------------------------------
(* The children that run. *)

\* A handle is in child_tasks or with the running tool, never in both.
HeldApart == \A a \in Agent : children[a] \cap ToSet(held[a]) = {}

\* What is cleaned up no longer runs.
CleanupEnded ==
  \A a \in Agent : phase[a] = "cleanup" => task[Head(held[a])] # "running"

\* What is being set up has its claim and its slot.
SetupHolds ==
  \A a \in Agent : phase[a] = "setup" =>
    Head(held[a]) \in guarded /\ status[Head(held[a])] = "active"

Holding ==
  TrackedChildHoldsClaim /\ RunningIsActive /\ HeldApart /\ CleanupEnded /\ SetupHolds

\* The inductive invariant.
TrackInv == GuardInv /\ Holding

-----------------------------------------------------------------------------

\* A step of agent a that spawns no task, drops only guards of a's own children
\* and takes only slots of ended ones: what is left to show is about a.
LEMMA HoldingKept ==
  ASSUME TrackInv, NEW a \in Agent,
         \A b \in Agent : b # a =>
           /\ children'[b] = children[b] /\ held'[b] = held[b]
           /\ phase'[b] = phase[b],
         \A c \in Child : task'[c] = "running" => task[c] = "running",
         \A c \in Child : c \in guarded /\ c \notin guarded' =>
           Parent[c] = a /\ (task'[c] = "running" => c \notin Tracked(a)'),
         \A c \in Child : status[c] = "active" /\ status'[c] # "active" =>
           task'[c] # "running" /\ (Parent[c] = a \/ task[c] # "none"),
         \A c \in Tracked(a)' : c \in Child /\ (task'[c] = "running" => c \in Tracked(a)),
         children'[a] \cap ToSet(held'[a]) = {},
         phase'[a] = "cleanup" => task'[Head(held'[a])] # "running",
         phase'[a] = "setup" =>
           Head(held'[a]) \in guarded' /\ status'[Head(held'[a])] = "active"
  PROVE  Holding'
  <1> USE DEF TrackInv, Holding, GuardInv
  <1>1. ASSUME NEW b \in Agent, NEW c \in Tracked(b)', task'[c] = "running"
        PROVE  c \in guarded'
    <2>1. CASE b = a
      <3>1. c \in Child /\ c \in Tracked(a) /\ task[c] = "running"
        BY <1>1, <2>1
      <3>2. c \in guarded
        BY <3>1 DEF TrackedChildHoldsClaim
      <3> QED BY <1>1, <2>1, <3>1, <3>2
    <2>2. CASE b # a
      <3>1. c \in Tracked(b)
        BY <2>2 DEF Tracked
      <3>2. c \in Child /\ Parent[c] = b
        BY <3>1, ToSetFacts DEF Shape, Family, Tracked, TypeOK
      <3>3. c \in guarded
        BY <1>1, <3>1, <3>2 DEF TrackedChildHoldsClaim
      <3> QED BY <2>2, <3>2, <3>3
    <2> QED BY <2>1, <2>2
  <1>2. TrackedChildHoldsClaim'
    BY <1>1 DEF TrackedChildHoldsClaim, Tracked
  <1>3. RunningIsActive'
    BY DEF RunningIsActive
  <1>4. HeldApart'
    BY DEF HeldApart
  <1>5. ASSUME NEW b \in Agent, b # a, phase[b] \in Busy
        PROVE  Head(held[b]) \in Child /\ Parent[Head(held[b])] = b
    BY <1>5, HeadTracked
  <1>6. CleanupEnded'
    BY <1>5 DEF CleanupEnded, Busy
  <1>7. SetupHolds'
    <2> SUFFICES ASSUME NEW b \in Agent, b # a, phase[b] = "setup"
                 PROVE  Head(held[b]) \in guarded' /\ status'[Head(held[b])] = "active"
      BY DEF SetupHolds
    <2>1. Head(held[b]) \in Child /\ Parent[Head(held[b])] = b
      BY <1>5 DEF Busy
    <2>2. Head(held[b]) \in guarded /\ status[Head(held[b])] = "active" /\ task[Head(held[b])] = "none"
      BY DEF SetupHolds, Idle, SetupFresh
    <2> QED BY <2>1, <2>2
  <1> QED BY <1>2, <1>3, <1>4, <1>6, <1>7

\* A step that moves no handle, phase, task, guard or active slot.
LEMMA HoldingIdle ==
  ASSUME TrackInv, UNCHANGED <<phase, task, children, held, guarded>>,
         \A c \in Agent : status[c] = "active" => status'[c] = "active"
  PROVE  Holding'
  <1> USE DEF TrackInv, Holding, GuardInv
  <1>1. RunningIsActive' /\ HeldApart' /\ CleanupEnded'
    BY DEF RunningIsActive, HeldApart, CleanupEnded, Child
  <1>2. TrackedChildHoldsClaim'
    BY DEF TrackedChildHoldsClaim, Tracked
  <1>3. SetupHolds'
    <2> SUFFICES ASSUME NEW b \in Agent, phase[b] = "setup"
                 PROVE  Head(held[b]) \in guarded /\ status'[Head(held[b])] = "active"
      BY DEF SetupHolds
    <2> QED BY HeadTracked DEF SetupHolds, Busy, Child
  <1> QED BY <1>1, <1>2, <1>3

\* What an agent tracks are ids (fork.rs child_tasks).
LEMMA TrackedChild ==
  ASSUME Shape, NEW a \in Agent, NEW c \in Tracked(a)
  PROVE  c \in Child /\ Parent[c] = a /\ status[c] # "absent"
  BY ToSetFacts DEF Shape, Family, Tracked, TypeOK

\* A step of agent a that changes only its handles and its phase.
LEMMA HoldingQuiet ==
  ASSUME TrackInv, NEW a \in Agent, UNCHANGED <<task, guarded, status>>,
         \A b \in Agent : b # a =>
           children'[b] = children[b] /\ held'[b] = held[b] /\ phase'[b] = phase[b],
         Tracked(a)' \subseteq Tracked(a),
         children'[a] \cap ToSet(held'[a]) = {},
         phase'[a] = "cleanup" => task[Head(held'[a])] # "running",
         phase'[a] # "setup"
  PROVE  Holding'
  <1>1. \A c \in Tracked(a)' : c \in Child
    BY TrackedChild DEF TrackInv, GuardInv
  <1> QED BY <1>1, HoldingKept

\* An agent's value is dropped: its children are aborted or no longer tracked.
LEMMA HoldingDrop ==
  ASSUME TrackInv, NEW a \in Agent, NEW end \in Ended, DropAgent(a, end),
         CanStep(a) \/ task[a] = "aborting",
         status' = status \/ status' = MarkDone(status, a)
  PROVE  Holding'
  <1> USE DEF TrackInv, Holding, GuardInv
  <1>1. guarded' = guarded \ Tracked(a) /\ children'[a] = {} /\ held'[a] = << >> /\ phase'[a] = "gone"
    BY DEF DropAgent, DropGuards, Tracked, Shape, TypeOK
  <1>2. \A b \in Agent : b # a =>
          children'[b] = children[b] /\ held'[b] = held[b] /\ phase'[b] = phase[b]
    BY DEF DropAgent, Shape, TypeOK
  <1>3. \A c \in Child : task'[c] = "running" => task[c] = "running" /\ c # a
    BY DEF DropAgent, Aborted, Shape, TypeOK, Ended, Child
  <1>4. Tracked(a)' = {}
    BY <1>1, EmptyHeld DEF Tracked
  <1>5. \A c \in Child : c \in guarded /\ c \notin guarded' => Parent[c] = a
    BY <1>1, TrackedChild
  <1>6. task[a] # "none"
    BY DEF CanStep
  <1>7. \A c \in Child : status[c] = "active" /\ status'[c] # "active" => c = a
    BY DEF MarkDone, Shape, TypeOK, Child
  <1> QED BY <1>1, <1>2, <1>3, <1>4, <1>5, <1>6, <1>7, EmptyHeld, HoldingKept

LEMMA ForkHolding ==
  ASSUME TrackInv, NEW a \in Agent, Fork(a)
  PROVE  Holding'
  <1> USE DEF TrackInv, GuardInv
  <1>r. \A c \in Agent : status[c] = "active" => Registered(a)[c] = "active"
    BY DEF Registered, Shape, TypeOK
  <1>1. CASE ForkRefused(a)
    BY <1>1, <1>r, HoldingIdle DEF ForkRefused
  <1>2. ASSUME NEW s \in ForkScopes, ForkConflict(a, s) PROVE Holding'
    <2>1. NextChildId(a) \in Child /\ status[NextChildId(a)] = "absent"
      BY <1>2, NextChildFacts DEF ForkConflict
    <2>2. \A c \in Agent : status[c] = "active" => status'[c] = "active"
      BY <1>2, <2>1, <1>r, RegisteredType DEF ForkConflict, Shape
    <2> QED BY <1>2, <2>2, HoldingIdle DEF ForkConflict
  <1>3. ASSUME NEW s \in ForkScopes, ForkReserved(a, s) PROVE Holding'
    <2> DEFINE c == NextChildId(a)
    <2>1. c \in Child /\ c \in Agent /\ status[c] = "absent" /\ task[c] = "none"
          /\ \A b \in Agent : c \notin Tracked(b)
      BY <1>3, NextChildFacts, FreshUnguarded DEF ForkReserved, Child, Idle, Dormant
    <2>2. /\ guarded' = guarded \cup {c} /\ held'[a] = <<c>> /\ held[a] = << >>
          /\ phase'[a] = "setup" /\ children' = children /\ task' = task
      BY <1>3 DEF ForkReserved, Thinking, Shape, HeldShape, TypeOK, Busy
    <2>3. \A b \in Agent : b # a => held'[b] = held[b] /\ phase'[b] = phase[b]
      BY <1>3 DEF ForkReserved, Shape, TypeOK
    <2>4. status'[c] = "active" /\ \A d \in Agent : status[d] = "active" => status'[d] = "active"
      BY <1>3, <1>r, <2>1, RegisteredType DEF ForkReserved, Shape
    <2>5. Head(held'[a]) = c /\ ToSet(held'[a]) = {c}
      BY <2>2, SingletonSeq
    <2>6. children[a] \cap {c} = {}
      BY <2>1 DEF Tracked
    <2>7. \A d \in Tracked(a)' : d \in Child /\ (task'[d] = "running" => d \in Tracked(a))
      BY <2>1, <2>2, <2>5, TrackedChild DEF Tracked
    <2>8. \A d \in Child : status[d] = "active" => status'[d] = "active"
      BY <2>4 DEF Child
    <2>9. \A d \in Child : task'[d] = "running" => task[d] = "running"
      BY <2>2
    <2> QED BY <2>1, <2>2, <2>3, <2>4, <2>5, <2>6, <2>7, <2>8, <2>9, HoldingKept
  <1>4. CASE SetupFails(a)
    <2>1. /\ guarded' = guarded \ ToSet(held[a]) /\ phase'[a] = "releasing" /\ phase[a] = "setup"
          /\ UNCHANGED <<task, children, held, status>>
      BY <1>4 DEF SetupFails, DropGuards, Shape, TypeOK
    <2>2. \A b \in Agent : b # a => phase'[b] = phase[b]
      BY <1>4 DEF SetupFails, Shape, TypeOK
    <2>3. \A c \in ToSet(held[a]) : Parent[c] = a /\ task[c] = "none"
      BY <2>1, TrackedChild DEF Owned, SetupSingle, Idle, SetupFresh, Tracked
    <2>4. \A c \in Tracked(a)' : c \in Child /\ c \in Tracked(a)
      BY <2>1, TrackedChild DEF Tracked
    <2>5. children'[a] \cap ToSet(held'[a]) = {}
      BY <2>1 DEF Holding, HeldApart
    <2>6. \A c \in Child : c \in guarded /\ c \notin guarded' => Parent[c] = a /\ task'[c] # "running"
      BY <2>1, <2>3
    <2> QED BY <2>1, <2>2, <2>4, <2>5, <2>6, HoldingKept
  <1>5. CASE ReleaseSlot(a)
    <2> DEFINE c == Head(held[a])
    <2>1. c \in Child /\ Parent[c] = a /\ task[c] = "none"
      BY <1>5, HeadTracked DEF ReleaseSlot, Busy, Idle, SetupFresh
    <2>2. \A d \in Child : status[d] = "active" /\ status'[d] # "active" => d = c
      BY <1>5, <2>1 DEF ReleaseSlot, MarkDone, Shape, TypeOK, Child
    <2>3. held'[a] = << >> /\ phase'[a] = "thinking" /\ UNCHANGED <<children, task, guarded>>
      BY <1>5 DEF ReleaseSlot, Shape, TypeOK
    <2>4. \A b \in Agent : b # a => held'[b] = held[b] /\ phase'[b] = phase[b]
      BY <1>5 DEF ReleaseSlot, Shape, TypeOK
    <2>5. \A d \in Tracked(a)' : d \in Child /\ d \in Tracked(a)
      BY <2>3, EmptyHeld, TrackedChild DEF Tracked
    <2> QED BY <2>1, <2>2, <2>3, <2>4, <2>5, EmptyHeld, HoldingKept
  <1>6. CASE SpawnChild(a)
    <2> DEFINE c == Head(held[a])
    <2>1. /\ c \in Child /\ c \in Agent /\ c # a /\ Parent[c] = a /\ ToSet(held[a]) = {c}
          /\ c \in guarded /\ status[c] = "active"
      BY <1>6, HeadTracked, ParentDiffers
         DEF SpawnChild, Busy, Owned, SetupSingle, Child, Holding, SetupHolds
    <2>2. /\ children'[a] = children[a] \cup {c} /\ held'[a] = << >> /\ phase'[a] = "thinking"
          /\ phase'[c] = "thinking" /\ guarded' = guarded /\ status' = status
      BY <1>6, <2>1 DEF SpawnChild, Shape, TypeOK
    <2>3. \A b \in Agent : b # c => task'[b] = task[b]
      BY <1>6 DEF SpawnChild, Shape, TypeOK
    <2>4. \A b \in Agent : b # a =>
            children'[b] = children[b] /\ held'[b] = held[b] /\ (b # c => phase'[b] = phase[b])
      BY <1>6 DEF SpawnChild, Shape, TypeOK
    <2>5. TrackedChildHoldsClaim'
      <3> SUFFICES ASSUME NEW b \in Agent, NEW d \in Tracked(b)', task'[d] = "running"
                   PROVE  d \in guarded
        BY <2>2 DEF TrackedChildHoldsClaim, Tracked
      <3>1. CASE d = c
        BY <3>1, <2>1
      <3>2. CASE d # c
        <4>1. d \in Tracked(b)
          BY <3>2, <2>1, <2>2, <2>4, EmptyHeld DEF Tracked
        <4> QED BY <3>2, <4>1, <2>3, TrackedChild DEF Holding, TrackedChildHoldsClaim, Child
      <3> QED BY <3>1, <3>2
    <2>6. RunningIsActive'
      BY <2>1, <2>2, <2>3 DEF Holding, RunningIsActive, Child
    <2>7. HeldApart'
      BY <2>2, <2>4, EmptyHeld DEF Holding, HeldApart
    <2>8. ASSUME NEW b \in Agent, phase'[b] \in {"setup", "cleanup"}
          PROVE  /\ held'[b] = held[b] /\ phase[b] = phase'[b]
                 /\ Head(held[b]) \in Agent /\ Head(held[b]) # c
      BY <2>1, <2>2, <2>4, <2>8, HeadTracked DEF Busy, Child
    <2>9. CleanupEnded' /\ SetupHolds'
      BY <2>2, <2>3, <2>8 DEF Holding, CleanupEnded, SetupHolds
    <2> QED BY <2>5, <2>6, <2>7, <2>9 DEF Holding
  <1> QED BY <1>1, <1>2, <1>3, <1>4, <1>5, <1>6 DEF Fork

LEMMA WaitHolding ==
  ASSUME TrackInv, NEW a \in Agent, Wait(a)
  PROVE  Holding'
  <1> USE DEF TrackInv, GuardInv
  <1>1. ASSUME NEW q \in WaitOrders(children[a]), WaitBegin(a, q) PROVE Holding'
    <2>1. held'[a] = q /\ children'[a] = children[a] \ ToSet(q) /\ phase'[a] = "waiting"
      BY <1>1 DEF WaitBegin, Shape, TypeOK
    <2>2. ToSet(q) \subseteq children[a]
      BY WaitOrderType DEF Shape, FiniteChildren
    <2>3. Tracked(a)' \subseteq Tracked(a) /\ children'[a] \cap ToSet(held'[a]) = {}
      BY <2>1, <2>2 DEF Tracked
    <2>4. \A b \in Agent : b # a =>
            children'[b] = children[b] /\ held'[b] = held[b] /\ phase'[b] = phase[b]
      BY <1>1 DEF WaitBegin, Shape, TypeOK
    <2> QED BY <1>1, <2>1, <2>3, <2>4, HoldingQuiet DEF WaitBegin
  <1>2. CASE CollectFinished(a)
    <2>1. UNCHANGED <<task, guarded, status, children, held>> /\ phase'[a] = "cleanup"
          /\ \A b \in Agent : b # a => phase'[b] = phase[b]
      BY <1>2 DEF CollectFinished, Shape, TypeOK
    <2>2. task[Head(held[a])] # "running"
      BY <1>2 DEF CollectFinished, Ended
    <2>3. Tracked(a)' \subseteq Tracked(a) /\ children'[a] \cap ToSet(held'[a]) = {}
      BY <2>1 DEF Tracked, Holding, HeldApart
    <2> QED BY <2>1, <2>2, <2>3, HoldingQuiet
  <1>3. CASE CleanupFinished(a)
    <2> DEFINE c == Head(held[a])
    <2>1. /\ held'[a] = Tail(held[a]) /\ phase'[a] \in {"waiting", "thinking"}
          /\ guarded' = guarded \ {c} /\ UNCHANGED <<children, task>>
      BY <1>3 DEF CleanupFinished, DropGuards, Shape, TypeOK
    <2>2. \A b \in Agent : b # a => held'[b] = held[b] /\ phase'[b] = phase[b]
      BY <1>3 DEF CleanupFinished, Shape, TypeOK
    <2>3. c \in Child /\ Parent[c] = a /\ ToSet(held[a]) = {c} \cup ToSet(Tail(held[a]))
      BY <1>3, HeadTracked DEF CleanupFinished, Busy
    <2>4. task[c] # "running"
      BY <1>3 DEF CleanupFinished, Holding, CleanupEnded
    <2>5. Tracked(a)' \subseteq Tracked(a) /\ children'[a] \cap ToSet(held'[a]) = {}
      BY <2>1, <2>3 DEF Tracked, Holding, HeldApart
    <2>6. \A d \in Child : status[d] = "active" /\ status'[d] # "active" => d = c
      BY <1>3, <2>3 DEF CleanupFinished, MarkDone, Shape, TypeOK, Child
    <2>7. \A d \in Tracked(a)' : d \in Child /\ d \in Tracked(a)
      BY <2>5, TrackedChild
    <2> QED BY <2>1, <2>2, <2>3, <2>4, <2>5, <2>6, <2>7, HoldingKept
  <1>4. CASE WaitDeadline(a)
    <2>1. children'[a] = children[a] \cup ToSet(held[a]) /\ held'[a] = << >> /\ phase'[a] = "thinking"
      BY <1>4 DEF WaitDeadline, Shape, TypeOK
    <2>2. Tracked(a)' \subseteq Tracked(a) /\ children'[a] \cap ToSet(held'[a]) = {}
      BY <2>1, EmptyHeld DEF Tracked
    <2>3. \A b \in Agent : b # a =>
            children'[b] = children[b] /\ held'[b] = held[b] /\ phase'[b] = phase[b]
      BY <1>4 DEF WaitDeadline, Shape, TypeOK
    <2> QED BY <1>4, <2>1, <2>2, <2>3, HoldingQuiet DEF WaitDeadline
  <1> QED BY <1>1, <1>2, <1>3, <1>4 DEF Wait

LEMMA CancelHolding ==
  ASSUME TrackInv, NEW a \in Agent, Cancel(a)
  PROVE  Holding'
  <1> USE DEF TrackInv, GuardInv
  <1>1. ASSUME NEW c \in Child, CancelTracked(a, c) PROVE Holding'
    <2>1. /\ children'[a] = children[a] \ {c} /\ held'[a] = <<c>> /\ guarded' = guarded \ {c}
          /\ phase'[a] = "cleanup" /\ c \in children[a] /\ status' = status
      BY <1>1 DEF CancelTracked, DropGuards, Shape, TypeOK
    <2>2. \A b \in Agent : b # a =>
            children'[b] = children[b] /\ held'[b] = held[b] /\ phase'[b] = phase[b]
      BY <1>1 DEF CancelTracked, Shape, TypeOK
    <2>3. Parent[c] = a
      BY <2>1, TrackedChild DEF Tracked
    <2>4. task'[c] # "running" /\ \A d \in Child : task'[d] = "running" => task[d] = "running"
      BY <1>1 DEF CancelTracked, Aborted, Child
    <2>5. Head(held'[a]) = c /\ ToSet(held'[a]) = {c}
      BY <2>1, SingletonSeq
    <2>6. \A d \in Tracked(a)' : d \in Child /\ d \in Tracked(a)
      BY <2>1, <2>5, TrackedChild DEF Tracked
    <2> QED BY <2>1, <2>2, <2>3, <2>4, <2>5, <2>6, HoldingKept
  <1>2. ASSUME NEW c \in Child, CancelUntracked(a, c) PROVE Holding'
    BY <1>2, HoldingIdle DEF CancelUntracked
  <1> QED BY <1>1, <1>2 DEF Cancel

LEMMA EndHolding ==
  ASSUME TrackInv, NEW a \in Agent, End(a)
  PROVE  Holding'
  <1> USE DEF TrackInv, GuardInv
  <1>1. CASE OtherTool(a)
    BY <1>1, HoldingIdle DEF OtherTool
  <1>2. ASSUME NEW ok \in BOOLEAN, TurnEnds(a, ok) PROVE Holding'
    <2>1. UNCHANGED <<task, guarded, status, children, held>>
          /\ phase'[a] \in {"completing", "failing"}
          /\ \A b \in Agent : b # a => phase'[b] = phase[b]
      BY <1>2 DEF TurnEnds, Shape, TypeOK
    <2>2. Tracked(a)' \subseteq Tracked(a) /\ children'[a] \cap ToSet(held'[a]) = {}
      BY <2>1 DEF Tracked, Holding, HeldApart
    <2> QED BY <2>1, <2>2, HoldingQuiet
  <1>3. CASE RunReturns(a)
    <2>1. PICK end \in Ended : DropAgent(a, end)
      BY <1>3 DEF RunReturns, Ended
    <2> QED BY <1>3, <2>1, HoldingDrop DEF RunReturns
  <1>4. CASE Panics(a) \/ AbortLands(a)
    BY <1>4, HoldingDrop DEF Panics, AbortLands, Ended, Thinking
  <1> QED BY <1>1, <1>2, <1>3, <1>4 DEF End

LEMMA InterruptHolding ==
  ASSUME TrackInv, Interrupt
  PROVE  Holding'
  <1> USE DEF TrackInv, GuardInv
  <1>0. Root \in Agent
    BY TreeAssumption
  <1>1. CASE UserCancels \/ TurnInterrupted
    BY <1>1, HoldingIdle DEF UserCancels, TurnInterrupted
  <1>2. CASE ToolInterrupted
    <2>1. /\ guarded' = guarded \ ToSet(held[Root]) /\ held'[Root] = << >>
          /\ phase'[Root] = "thinking" /\ UNCHANGED <<status, task, children>>
      BY <1>0, <1>2 DEF ToolInterrupted, DropGuards, Shape, TypeOK
    <2>2. \A b \in Agent : b # Root => held'[b] = held[b] /\ phase'[b] = phase[b]
      BY <1>2 DEF ToolInterrupted, Shape, TypeOK
    <2>3. Tracked(Root)' = children[Root] /\ children[Root] \cap ToSet(held[Root]) = {}
      BY <1>0, <2>1, EmptyHeld DEF Tracked, Holding, HeldApart
    <2>4. \A c \in Tracked(Root)' : c \in Child /\ c \in Tracked(Root)
      BY <1>0, <2>3, TrackedChild DEF Tracked
    <2>5. \A c \in Child : c \in guarded /\ c \notin guarded' =>
            Parent[c] = Root /\ c \notin Tracked(Root)'
      BY <1>0, <2>1, <2>3, TrackedChild DEF Tracked
    <2> QED BY <1>0, <2>1, <2>2, <2>4, <2>5, EmptyHeld, HoldingKept
  <1> QED BY <1>1, <1>2 DEF Interrupt

LEMMA TrackInvInit == ASSUME Init PROVE TrackInv
  <1>1. GuardInv
    BY GuardInvInit
  <1>2. Holding
    BY EmptyHeld DEF Init, Holding, TrackedChildHoldsClaim, RunningIsActive, HeldApart,
       CleanupEnded, SetupHolds, Tracked, Child
  <1> QED BY <1>1, <1>2 DEF TrackInv

LEMMA TrackInvStep ==
  ASSUME TrackInv, [Next]_vars
  PROVE  TrackInv'
  <1>1. GuardInv'
    BY GuardInvStep DEF TrackInv
  <1>2. Holding'
    <2>1. CASE UNCHANGED vars
      BY <2>1, HoldingIdle DEF vars
    <2> QED BY <2>1, ForkHolding, WaitHolding, CancelHolding, EndHolding, InterruptHolding
            DEF Next, Quiescent
  <1> QED BY <1>1, <1>2 DEF TrackInv

-----------------------------------------------------------------------------
(* The theorems. *)

\* A running child that its parent still tracks keeps its claim, whatever waits
\* time out and whatever is cancelled around it (fork.rs).
THEOREM RunningChildHoldsClaim == Spec => []TrackedChildHoldsClaim
  <1>1. TrackInv => TrackedChildHoldsClaim
    BY DEF TrackInv, Holding
  <1> QED BY TrackInvInit, TrackInvStep, <1>1, PTL DEF Spec

\* Two running children that are still tracked, anywhere in the tree, never work
\* on clashing scopes (url_claim.rs, fork.rs handle_spawn).
THEOREM NoOverlap == Spec => []TrackedScopesDisjoint
  <1>1. TrackInv => TrackedScopesDisjoint
    BY TrackedChild, GuardsApart
       DEF TrackInv, GuardInv, Holding, TrackedChildHoldsClaim, TrackedScopesDisjoint
  <1> QED BY TrackInvInit, TrackInvStep, <1>1, PTL DEF Spec

\* Every running child occupies a slot (manager.rs register_child, mark_done).
THEOREM RunningChildHoldsSlot == Spec => []RunningIsActive
  <1>1. TrackInv => RunningIsActive
    BY DEF TrackInv, Holding
  <1> QED BY TrackInvInit, TrackInvStep, <1>1, PTL DEF Spec
=============================================================================
