--------------------------- MODULE TurnLoopProofs ---------------------------
(***************************************************************************)
(* Theorems about the turn loop, for every limit and every bound: types,   *)
(* the interrupt, the busy flag, and the pairing of tool calls and results *)
(* through interrupts, failures and compaction.                            *)
(***************************************************************************)
EXTENDS MCTurnLoop, SequenceTheorems, TLAPS

\* Every prompt sent is still queued, running, or ended.
TurnCount == queue + stopped + (IF phase = "idle" THEN 0 ELSE 1) <= turns

LoopShape == TypeOK /\ TurnCount

\* A request that reached the control state is there until the turn ends.
FlagKept == pressed /\ attached /\ phase # "idle" => flag

\* What the screen will say once it has drained the channel.
ScreenInv ==
  (IF events = << >> THEN busy ELSE events[Len(events)] = "starting")
    <=> phase # "idle"

\* While tools run, the message that asked for them stands before the results
\* it has got, and every other call is answered.
Pending ==
  LET a == Len(session) - done
  IN /\ a \in DOMAIN session
     /\ session[a] = Assistant(calls)
     /\ done < calls
     /\ \A i \in 1..done : session[a + i] = Result(i)
     /\ \A j \in DOMAIN session \ {a} : Answered(session, j)

PairInv ==
  /\ Rooted(session)
  /\ phase # "tools" => \A j \in DOMAIN session : Answered(session, j)
  /\ phase = "tools" => Pending

-----------------------------------------------------------------------------
(* Messages and compaction. *)

LEMMA MessageFacts ==
  /\ User \in Message /\ Summary \in Message
  /\ \A n \in 0..MaxCalls : Assistant(n) \in Message
  /\ \A i \in 1..MaxCalls : Result(i) \in Message
  /\ User.role = "user" /\ Summary.role = "summary"
  /\ \A n : Assistant(n).role = "assistant" /\ Assistant(n).calls = n
  /\ \A i : Result(i).role = "tool" /\ Result(i).call = i
  BY DEF User, Summary, Assistant, Result, Message

\* The two roles that carry a number are typed.
LEMMA RoleFacts ==
  ASSUME NEW m \in Message
  PROVE  /\ m.role = "assistant" => m.calls \in 0..MaxCalls /\ m = Assistant(m.calls)
         /\ m.role = "tool" => m.call \in 1..MaxCalls /\ m = Result(m.call)
  <1>1. CASE m \in {User, Summary}
    BY <1>1, MessageFacts
  <1>2. CASE \E n \in 0..MaxCalls : m = Assistant(n)
    BY <1>2, MessageFacts
  <1>3. CASE \E i \in 1..MaxCalls : m = Result(i)
    BY <1>3, MessageFacts
  <1> QED BY <1>1, <1>2, <1>3 DEF Message

LEMMA CutFacts ==
  ASSUME NEW s \in Seq(Message), NEW k \in 0..Len(s), k # Prefix(s)
  PROVE  /\ CutAt(s, k) \in Seq(Message)
         /\ Len(CutAt(s, k)) = Len(s) - k + 1
         /\ CutAt(s, k)[1] = Summary
         /\ \A p \in 2..Len(s) - k + 1 : CutAt(s, k)[p] = s[p + k - 1]
  <1> DEFINE t == SubSeq(s, k + 1, Len(s))
  <1>1. Len(s) \in Nat
    BY LenProperties
  <1>2. t \in Seq(Message) /\ Len(t) = Len(s) - k /\ \A p \in 1..Len(s) - k : t[p] = s[k + p]
    BY <1>1, SMTT(30)
  <1>3. <<Summary>> \in Seq(Message) /\ Len(<<Summary>>) = 1 /\ <<Summary>>[1] = Summary
    BY MessageFacts
  <1> HIDE DEF t
  <1>4. CutAt(s, k) = <<Summary>> \o t
    BY DEF CutAt, t
  <1>5. /\ <<Summary>> \o t \in Seq(Message)
        /\ Len(<<Summary>> \o t) = 1 + Len(t)
        /\ \A p \in 1..1 + Len(t) : (<<Summary>> \o t)[p] = IF p <= 1 THEN <<Summary>>[p] ELSE t[p - 1]
    BY <1>2, <1>3, ConcatProperties
  <1> DEFINE c == CutAt(s, k)
  <1>6. c \in Seq(Message) /\ Len(c) = Len(s) - k + 1
    BY <1>1, <1>2, <1>4, <1>5
  <1>7. c[1] = Summary
    BY <1>1, <1>2, <1>3, <1>4, <1>5
  <1>8. ASSUME NEW p \in 2..Len(s) - k + 1
        PROVE  c[p] = s[p + k - 1]
    <2>1. p \in 1..1 + Len(t) /\ ~(p <= 1) /\ p - 1 \in 1..Len(s) - k
      BY <1>1, <1>2
    <2>2. c[p] = t[p - 1]
      BY <2>1, <1>4, <1>5
    <2> QED BY <2>1, <2>2, <1>1, <1>2
  <1> QED BY <1>6, <1>7, <1>8

LEMMA CutsInRange ==
  ASSUME NEW s \in Seq(Message), NEW floor \in Nat
  PROVE  /\ Prefix(s) \in {0, 1} /\ Prefix(s) <= Len(s)
         /\ \A k \in BudgetCuts(s, floor) \union LegacyCuts(s) :
              k \in Prefix(s)..Len(s) /\ WalkBack(s, k) \subseteq Prefix(s)..Len(s)
  <1>1. Len(s) \in Nat /\ Recent \in Nat
    BY LenProperties, LoopAssumption
  <1>2. s # << >> => Len(s) > 0
    BY EmptySeq, LenProperties
  <1>3. Prefix(s) \in {0, 1} /\ Prefix(s) <= Len(s)
    BY <1>1, <1>2 DEF Prefix
  <1> HIDE DEF Prefix
  <1>4. EffFloor(floor) \in Nat
    BY <1>1 DEF EffFloor, Larger
  <1>5. \A k \in BudgetCuts(s, floor) \union LegacyCuts(s) : k \in Prefix(s)..Len(s)
    BY <1>1, <1>3, <1>4 DEF BudgetCuts, LegacyCuts, Larger, Monus
  <1>6. \A k \in Prefix(s)..Len(s) : WalkBack(s, k) \subseteq Prefix(s)..Len(s)
    BY <1>1, <1>3 DEF WalkBack
  <1> QED BY <1>3, <1>5, <1>6

\* A cut chosen by the walk back keeps whole exchanges: a kept result has its
\* assistant message, and a kept assistant message its results.
LEMMA CutKeepsPairs ==
  ASSUME NEW s \in Seq(Message), NEW k \in Prefix(s)..Len(s), NEW c \in WalkBack(s, k),
         c \in Prefix(s)..Len(s),
         Rooted(s), \A j \in DOMAIN s : Answered(s, j),
         Prefix(s) \in {0, 1}
  PROVE  /\ CutAt(s, c) \in Seq(Message)
         /\ Rooted(CutAt(s, c))
         /\ \A j \in DOMAIN CutAt(s, c) : Answered(CutAt(s, c), j)
  <1>1. CASE c = Prefix(s)
    BY <1>1 DEF CutAt
  <1>2. CASE c # Prefix(s)
    <2> DEFINE t == CutAt(s, c)
    <2>1. Len(s) \in Nat /\ c \in 1..Len(s) /\ DOMAIN s = 1..Len(s)
      BY <1>2, LenProperties
    <2>2. /\ t \in Seq(Message)
          /\ Len(t) = Len(s) - c + 1
          /\ t[1] = Summary
          /\ \A p \in 2..Len(s) - c + 1 : t[p] = s[p + c - 1]
      BY <1>2, <2>1, CutFacts
    <2>3. DOMAIN t = 1..Len(s) - c + 1
      BY <2>2, LenProperties
    <2>4. c = Len(s) \/ s[c + 1].role # "tool"
      BY <1>2 DEF WalkBack, Separable
    <2>5. \A p \in 1..Len(s) : s[p] \in Message
      BY <2>1, ElementOfSeq
    <2> HIDE DEF t
    <2>6. ASSUME NEW p \in DOMAIN t, t[p].role = "tool"
          PROVE  LET asked == p - t[p].call
                 IN /\ asked \in DOMAIN t
                    /\ t[asked].role = "assistant"
                    /\ t[asked].calls >= t[p].call
      <3> DEFINE q == p + c - 1
                 a == q - s[q].call
      <3>1. p # 1
        BY <2>2, <2>6, MessageFacts
      <3>2. q \in c + 1..Len(s) /\ t[p] = s[q] /\ s[q].role = "tool"
        BY <2>1, <2>2, <2>3, <2>6, <3>1
      <3>3. a \in DOMAIN s /\ s[a].role = "assistant" /\ s[a].calls >= s[q].call
        BY <2>1, <3>2 DEF Rooted
      <3>4. s[q].call \in 1..MaxCalls /\ s[a].calls \in 0..MaxCalls
        BY <2>1, <2>5, <3>2, <3>3, RoleFacts
      <3>5. a >= c + 1
        <4>1. SUFFICES ASSUME a <= c PROVE FALSE
          BY <2>1, <3>2, <3>3, <3>4
        <4> DEFINE i == c + 1 - a
        <4>0. PICK n \in Nat, m \in Nat : n = s[q].call /\ n >= 1 /\ m = s[a].calls /\ m >= n
          <5> HIDE DEF a, q
          <5>0. \A x : (x \in 1..MaxCalls => x \in Nat /\ x >= 1)
                      /\ (x \in 0..MaxCalls => x \in Nat)
            BY LoopAssumption
          <5>1. s[q].call \in Nat /\ s[q].call >= 1 /\ s[a].calls \in Nat
            BY <3>4, <5>0, Zenon
          <5> QED BY <3>3, <5>1
        <4>2. i \in 1..s[a].calls
          <5>1. q \in Int /\ q >= c + 1 /\ a = q - n /\ c \in Int
            BY <2>1, <3>2, <4>0
          <5>2. a \in Int /\ a >= c + 1 - n
            BY <5>1
          <5> HIDE DEF a, q
          <5>3. i \in Int /\ i >= 1
            BY <4>1, <5>1, <5>2
          <5>4. i <= n
            BY <5>1, <5>2
          <5> HIDE DEF i
          <5> QED BY <4>0, <5>3, <5>4
        <4>3. s[a + i] = Result(i) /\ a + i = c + 1
          BY <4>2, <2>1, <3>3 DEF Answered
        <4>4. s[c + 1].role = "tool"
          BY <4>3, MessageFacts
        <4> QED BY <2>1, <2>4, <3>2, <4>4
      <3>6. PICK n \in Nat : n = s[q].call /\ n = t[p].call
        <4>1. t[p].call = s[q].call
          BY <3>2
        <4>2. s[q].call \in Nat
          BY <3>4
        <4> HIDE DEF q
        <4> QED BY <4>1, <4>2
      <3>7. a = q - n /\ a \in 1..Len(s) /\ p \in Int
        BY <2>1, <2>3, <2>6, <3>3, <3>6
      <3>8. p - n \in 2..Len(s) - c + 1 /\ (p - n) + c - 1 = a
        BY <2>1, <3>5, <3>7
      <3>9. t[p - n] = s[a]
        BY <2>2, <3>8
      <3>10. p - n \in DOMAIN t
        BY <2>1, <2>3, <3>8
      <3> QED BY <3>2, <3>3, <3>6, <3>9, <3>10
    <2>7. ASSUME NEW j \in DOMAIN t, t[j].role = "assistant"
          PROVE  \A i \in 1..t[j].calls : j + i \in DOMAIN t /\ t[j + i] = Result(i)
      <3> DEFINE b == j + c - 1
      <3>1. j # 1
        BY <2>2, <2>7, MessageFacts
      <3>2. b \in 1..Len(s) /\ t[j] = s[b] /\ j \in 2..Len(s) - c + 1
        BY <2>1, <2>2, <2>3, <2>7, <3>1
      <3>3. PICK n \in Nat : n = s[b].calls /\ n = t[j].calls
        BY <2>5, <2>7, <3>2, RoleFacts, LoopAssumption
      <3>4. ASSUME NEW i \in 1..n
            PROVE  j + i \in DOMAIN t /\ t[j + i] = Result(i)
        <4>1. b + i \in 1..Len(s) /\ s[b + i] = Result(i)
          BY <2>1, <2>7, <3>2, <3>3, <3>4 DEF Answered
        <4>2. i \in Int /\ i >= 1 /\ j \in Int /\ j >= 2 /\ c \in Int /\ Len(s) \in Int
          BY <2>1, <3>2, <3>3, <3>4
        <4>3. (j + i) + c - 1 = b + i /\ j + i \in Int /\ j + i >= 2
          BY <4>2
        <4>4. j + i \in 2..Len(s) - c + 1
          BY <4>1, <4>2, <4>3
        <4>5. t[j + i] = s[b + i]
          BY <2>2, <4>3, <4>4
        <4>6. j + i \in DOMAIN t
          BY <2>1, <2>3, <4>4
        <4> QED BY <4>1, <4>5, <4>6
      <3> QED BY <3>3, <3>4
    <2> QED BY <2>2, <2>6, <2>7 DEF Rooted, Answered, t
  <1> QED BY <1>1, <1>2

LEMMA CompactionKeepsPairs ==
  ASSUME NEW s \in Seq(Message), Rooted(s), \A j \in DOMAIN s : Answered(s, j),
         NEW t \in AutoCompacted(s) \union CommandCompacted(s)
  PROVE  t \in Seq(Message) /\ Rooted(t) /\ \A j \in DOMAIN t : Answered(t, j)
  <1>1. Floor \in Nat /\ DefaultFloor \in Nat
    BY LoopAssumption
  <1>2. PICK floor \in Nat :
           \E ks \in SUBSET (BudgetCuts(s, floor) \union LegacyCuts(s)) :
             t \in Compacted(s, floor, ks)
    <2>1. CASE t \in AutoCompacted(s)
      BY <1>1, <2>1 DEF AutoCompacted
    <2>2. CASE t \in CommandCompacted(s)
      BY <1>1, <2>2 DEF CommandCompacted
    <2> QED BY <2>1, <2>2
  <1>2a. PICK ks \in SUBSET (BudgetCuts(s, floor) \union LegacyCuts(s)) :
           t \in Compacted(s, floor, ks)
    BY <1>2
  <1>3. CASE t = s
    BY <1>3
  <1>4. CASE t # s
    <2>1. PICK k \in ks : \E c \in WalkBack(s, k) : t = CutAt(s, c)
      BY <1>2a, <1>4 DEF Compacted
    <2>2. PICK c \in WalkBack(s, k) : t = CutAt(s, c)
      BY <2>1
    <2>3. k \in Prefix(s)..Len(s) /\ c \in Prefix(s)..Len(s) /\ Prefix(s) \in {0, 1}
      BY <1>2a, <2>1, <2>2, CutsInRange
    <2> QED BY <2>2, <2>3, CutKeepsPairs
  <1> QED BY <1>3, <1>4

-----------------------------------------------------------------------------
(* How a turn makes the session grow. *)

LEMMA AppendPlain ==
  ASSUME NEW s \in Seq(Message), Rooted(s), \A j \in DOMAIN s : Answered(s, j),
         NEW m \in {User, Assistant(0)}
  PROVE  LET t == Append(s, m)
         IN t \in Seq(Message) /\ Rooted(t) /\ \A j \in DOMAIN t : Answered(t, j)
  <1> DEFINE t == Append(s, m)
  <1>1. /\ m \in Message /\ m.role # "tool"
        /\ m.role = "assistant" => m.calls = 0
    BY MessageFacts, LoopAssumption
  <1>2. /\ t \in Seq(Message) /\ Len(t) = Len(s) + 1
        /\ \A p \in 1..Len(s) : t[p] = s[p]
        /\ t[Len(s) + 1] = m
    BY <1>1, AppendProperties
  <1>3. Len(s) \in Nat /\ DOMAIN s = 1..Len(s) /\ DOMAIN t = 1..Len(s) + 1
    BY <1>2, LenProperties
  <1> HIDE DEF t
  <1>4. \A p \in DOMAIN t : (p \in DOMAIN s /\ t[p] = s[p]) \/ t[p] = m
    BY <1>2, <1>3
  <1>5. Rooted(t)
    BY <1>1, <1>2, <1>3, <1>4 DEF Rooted
  <1>6. ASSUME NEW j \in DOMAIN t PROVE Answered(t, j)
    <2>1. CASE t[j] = m
      BY <1>1, <2>1 DEF Answered
    <2>2. CASE j \in DOMAIN s /\ t[j] = s[j]
      BY <1>2, <1>3, <2>2 DEF Answered
    <2> QED BY <1>4, <1>6, <2>1, <2>2
  <1> QED BY <1>2, <1>5, <1>6 DEF t

LEMMA AppendCalls ==
  ASSUME NEW s \in Seq(Message), Rooted(s), \A j \in DOMAIN s : Answered(s, j),
         NEW n \in 1..MaxCalls
  PROVE  LET t == Append(s, Assistant(n))
         IN /\ t \in Seq(Message) /\ Rooted(t)
            /\ Len(t) \in DOMAIN t /\ t[Len(t)] = Assistant(n)
            /\ \A j \in DOMAIN t \ {Len(t)} : Answered(t, j)
  <1> DEFINE m == Assistant(n)
             t == Append(s, m)
  <1>1. m \in Message /\ m.role # "tool"
    BY MessageFacts, LoopAssumption
  <1>2. /\ t \in Seq(Message) /\ Len(t) = Len(s) + 1
        /\ \A p \in 1..Len(s) : t[p] = s[p]
        /\ t[Len(s) + 1] = m
    BY <1>1, AppendProperties
  <1>3. Len(s) \in Nat /\ DOMAIN s = 1..Len(s) /\ DOMAIN t = 1..Len(s) + 1
    BY <1>2, LenProperties
  <1> HIDE DEF t, m
  <1>4. \A p \in DOMAIN t : (p \in DOMAIN s /\ t[p] = s[p]) \/ (p = Len(t) /\ t[p] = m)
    BY <1>2, <1>3
  <1>5. Rooted(t)
    BY <1>1, <1>2, <1>3, <1>4 DEF Rooted
  <1>6. ASSUME NEW j \in DOMAIN t \ {Len(t)} PROVE Answered(t, j)
    BY <1>2, <1>3, <1>4 DEF Answered
  <1>7. Len(t) \in DOMAIN t /\ t[Len(t)] = m
    BY <1>2, <1>3
  <1> QED BY <1>2, <1>5, <1>6, <1>7 DEF t, m

\* The results of one message arrive in order; t is s with r more of them.
LEMMA GrowResults ==
  ASSUME NEW s \in Seq(Message), NEW t \in Seq(Message), Rooted(s),
         NEW a \in DOMAIN s, NEW n \in 1..MaxCalls, NEW d \in Nat, NEW r \in Nat,
         d + r <= n, Len(s) = a + d, Len(t) = a + d + r,
         s[a] = Assistant(n),
         \A i \in 1..d : s[a + i] = Result(i),
         \A j \in DOMAIN s \ {a} : Answered(s, j),
         \A p \in 1..Len(s) : t[p] = s[p],
         \A i \in 1..r : t[a + d + i] = Result(d + i)
  PROVE  /\ Rooted(t)
         /\ a \in DOMAIN t /\ t[a] = Assistant(n)
         /\ \A i \in 1..d + r : t[a + i] = Result(i)
         /\ \A j \in DOMAIN t \ {a} : Answered(t, j)
         /\ d + r = n => Answered(t, a)
  <1>1. /\ Len(s) \in Nat /\ DOMAIN s = 1..Len(s) /\ DOMAIN t = 1..a + d + r
        /\ a \in Nat /\ a >= 1 /\ n \in Nat
    <2>1. Len(s) \in Nat /\ DOMAIN s = 1..Len(s)
      BY LenProperties
    <2>2. DOMAIN t = 1..Len(t)
      BY LenProperties
    <2>3. a \in 1..Len(s)
      BY <2>1
    <2>4. a \in Nat /\ a >= 1
      BY <2>3
    <2>5. n \in Nat
      BY LoopAssumption
    <2> QED BY <2>1, <2>2, <2>4, <2>5
  <1>2. a \in DOMAIN t /\ t[a] = Assistant(n)
    <2>1. a \in 1..a + d + r
      BY <1>1
    <2>2. a \in 1..Len(s)
      BY <1>1
    <2>3. t[a] = s[a]
      BY <2>2, Zenon
    <2>4. t[a] = Assistant(n)
      BY <2>3, Zenon
    <2>5. a \in DOMAIN t
      BY <1>1, <2>1
    <2> QED BY <2>4, <2>5
  <1>3. ASSUME NEW i \in 1..d + r PROVE t[a + i] = Result(i)
    <2>1. CASE i <= d
      <3>1. i \in 1..d /\ a + i \in 1..Len(s)
        BY <1>1, <1>3, <2>1
      <3> QED BY <3>1
    <2>2. CASE i > d
      <3>1. i - d \in 1..r /\ a + d + (i - d) = a + i /\ d + (i - d) = i
        BY <1>1, <1>3, <2>2
      <3> QED BY <3>1
    <2> QED BY <2>1, <2>2
  <1>4. \A p \in DOMAIN t : (p \in DOMAIN s /\ t[p] = s[p])
                            \/ (\E i \in 1..r : p = a + d + i /\ t[p] = Result(d + i))
    <2>1. ASSUME NEW p \in DOMAIN t, p \notin DOMAIN s
          PROVE  \E i \in 1..r : p = a + d + i /\ t[p] = Result(d + i)
      <3>1. p \in Int /\ p > a + d /\ p <= a + d + r
        BY <1>1, <2>1
      <3>2. PICK i \in Int : p = a + d + i
        <4>1. p - (a + d) \in Int /\ p = a + d + (p - (a + d))
          BY <1>1, <3>1
        <4> QED BY <4>1
      <3>3. i \in 1..r
        BY <1>1, <3>1, <3>2
      <3> QED BY <3>2, <3>3
    <2> QED BY <1>1, <2>1
  <1>5. Rooted(t)
    <2>1. SUFFICES ASSUME NEW p \in DOMAIN t, t[p].role = "tool"
                   PROVE  LET asked == p - t[p].call
                          IN /\ asked \in DOMAIN t
                             /\ t[asked].role = "assistant"
                             /\ t[asked].calls >= t[p].call
      BY DEF Rooted
    <2>2. CASE p \in DOMAIN s /\ t[p] = s[p]
      BY <1>1, <2>1, <2>2 DEF Rooted
    <2>3. ASSUME NEW i \in 1..r, p = a + d + i, t[p] = Result(d + i)
          PROVE  LET asked == p - t[p].call
                 IN /\ asked \in DOMAIN t
                    /\ t[asked].role = "assistant"
                    /\ t[asked].calls >= t[p].call
      <3>1. t[p].call = d + i /\ p - (d + i) = a /\ n >= d + i
        <4>1. t[p].call = d + i
          BY <2>3, MessageFacts
        <4>2. p - (d + i) = a
          BY <1>1, <2>3
        <4>3. n >= d + i
          BY <1>1, <2>3
        <4> QED BY <4>1, <4>2, <4>3
      <3> QED BY <1>2, <3>1, MessageFacts
    <2> QED BY <1>4, <2>2, <2>3
  <1>6. ASSUME NEW j \in DOMAIN t \ {a} PROVE Answered(t, j)
    <2>1. CASE j \in DOMAIN s /\ t[j] = s[j]
      BY <1>1, <1>6, <2>1 DEF Answered
    <2>2. CASE \E i \in 1..r : t[j] = Result(d + i)
      BY <2>2, MessageFacts DEF Answered
    <2> QED BY <1>4, <1>6, <2>1, <2>2
  <1>7. ASSUME d + r = n PROVE Answered(t, a)
    <2>1. t[a].calls = n
      BY <1>2, MessageFacts
    <2>2. \A i \in 1..n : a + i \in DOMAIN t
      BY <1>1, <1>7
    <2> QED BY <1>3, <1>7, <2>1, <2>2 DEF Answered
  <1> QED BY <1>2, <1>3, <1>5, <1>6, <1>7

-----------------------------------------------------------------------------
(* The invariant, one conjunct at a time. *)

LoopInv == TypeOK /\ TurnCount /\ FlagKept /\ ScreenInv /\ PairInv

LEMMA BoundFacts ==
  /\ MaxIterations \in Nat /\ MaxTurns \in Nat /\ MaxPresses \in Nat
  /\ MaxCommands \in Nat /\ MaxCalls \in Nat
  BY LoopAssumption

LEMMA InitLoop == Init => LoopInv
  <1> SUFFICES ASSUME Init PROVE LoopInv
    OBVIOUS
  <1> USE DEF Init
  <1>1. session = << >> /\ << >> \in Seq(Message) /\ DOMAIN session = {}
        /\ << >> \in Seq({"starting", "finished"})
    OBVIOUS
  <1>2. TypeOK
    <2>1. /\ 0 \in 0..MaxIterations /\ 0 \in 0..MaxTurns /\ 0 \in 0..MaxPresses
          /\ 0 \in 0..MaxCommands /\ 0 \in 0..MaxCalls /\ 0 \in 0..0
      BY BoundFacts
    <2>2. session \in Seq(Message) /\ events \in Seq({"starting", "finished"})
      BY <1>1
    <2> QED BY <2>1, <2>2 DEF TypeOK, Phase
  <1>3. PairInv
    BY <1>1 DEF PairInv, Rooted
  <1> QED BY <1>1, <1>2, <1>3 DEF LoopInv, TurnCount, FlagKept, ScreenInv

LEMMA GrowPending ==
  ASSUME TypeOK, PairInv, phase = "tools",
         NEW t \in Seq(Message), NEW r \in Nat, done + r <= calls,
         Len(t) = Len(session) + r,
         \A p \in 1..Len(session) : t[p] = session[p],
         \A i \in 1..r : t[Len(session) + i] = Result(done + i)
  PROVE  LET a == Len(session) - done
         IN /\ Rooted(t)
            /\ a \in DOMAIN t /\ t[a] = Assistant(calls)
            /\ \A i \in 1..done + r : t[a + i] = Result(i)
            /\ \A j \in DOMAIN t \ {a} : Answered(t, j)
            /\ done + r = calls => \A j \in DOMAIN t : Answered(t, j)
  <1> DEFINE a == Len(session) - done
  <1>0. session \in Seq(Message) /\ Len(session) \in Nat
    BY LenProperties DEF TypeOK
  <1>1. Pending /\ Rooted(session)
    BY DEF PairInv
  <1>2. done \in Nat /\ calls \in 1..MaxCalls /\ a \in DOMAIN session
    BY <1>1, LoopAssumption DEF TypeOK, Pending
  <1>3. Len(session) = a + done /\ Len(t) = a + done + r
    BY <1>0, <1>2
  <1>4. /\ session[a] = Assistant(calls)
        /\ \A i \in 1..done : session[a + i] = Result(i)
        /\ \A j \in DOMAIN session \ {a} : Answered(session, j)
    BY <1>1 DEF Pending
  <1>5. \A i \in 1..r : t[a + done + i] = Result(done + i)
    BY <1>3
  <1> HIDE DEF a
  <1>6. /\ Rooted(t)
        /\ a \in DOMAIN t /\ t[a] = Assistant(calls)
        /\ \A i \in 1..done + r : t[a + i] = Result(i)
        /\ \A j \in DOMAIN t \ {a} : Answered(t, j)
        /\ done + r = calls => Answered(t, a)
    BY <1>0, <1>1, <1>2, <1>3, <1>4, <1>5, GrowResults
  <1> QED BY <1>6 DEF a

\* The session, and what becomes of its pairs, in one step.
LEMMA PairStep ==
  ASSUME LoopInv, [Next]_vars
  PROVE  session' \in Seq(Message) /\ PairInv'
  <1> USE DEF LoopInv
  <1>0. session \in Seq(Message) /\ Len(session) \in Nat /\ DOMAIN session = 1..Len(session)
    BY LenProperties DEF TypeOK
  <1>1. CASE Begin
    BY <1>0, <1>1, AppendPlain DEF Begin, PairInv
  <1>2. ASSUME session' = session, phase # "tools", phase' # "tools"
        PROVE  session' \in Seq(Message) /\ PairInv'
    BY <1>0, <1>2 DEF PairInv, Rooted, Answered
  <1>3. CASE PrepareStops \/ PrepareExhausted \/ PrepareContinues \/ StreamOpens
             \/ ModelFails \/ StreamStops \/ StreamEvent
    BY <1>2, <1>3 DEF PrepareStops, PrepareExhausted, PrepareContinues, StreamOpens,
                      ModelFails, StreamStops, StreamEvent, EndTurn
  <1>4. ASSUME UNCHANGED <<session, phase, calls, done>>
        PROVE  session' \in Seq(Message) /\ PairInv'
    BY <1>0, <1>4 DEF PairInv, Pending, Rooted, Answered
  <1>5. CASE WatchPasses \/ Arm
    BY <1>4, <1>5 DEF WatchPasses, Arm
  <1>6. CASE Submit \/ Drain \/ InspectCommand \/ EnterCommand \/ UNCHANGED vars
    BY <1>4, <1>6 DEF Submit, Drain, InspectCommand, EnterCommand, vars, turn
  <1>7. CASE Press
    BY <1>4, <1>7 DEF Press
  <1>8. CASE AnswersDirectly
    <2> DEFINE s == Append(session, Assistant(0))
    <2>1. s \in Seq(Message) /\ Rooted(s) /\ \A j \in DOMAIN s : Answered(s, j)
      BY <1>0, <1>8, AppendPlain DEF AnswersDirectly, PairInv
    <2>2. session' = s \/ session' \in AutoCompacted(s)
      BY <1>8 DEF AnswersDirectly
    <2> HIDE DEF s
    <2>3. session' \in Seq(Message) /\ Rooted(session')
          /\ \A j \in DOMAIN session' : Answered(session', j)
      BY <2>1, <2>2, CompactionKeepsPairs
    <2> QED BY <1>8, <2>3 DEF AnswersDirectly, EndTurn, PairInv
  <1>9. CASE AsksForTools
    <2>1. PICK n \in 1..MaxCalls : session' = Append(session, Assistant(n)) /\ calls' = n
      BY <1>9 DEF AsksForTools
    <2>2. Rooted(session) /\ \A j \in DOMAIN session : Answered(session, j)
      BY <1>9 DEF AsksForTools, PairInv
    <2>3. /\ session' \in Seq(Message) /\ Rooted(session')
          /\ Len(session') \in DOMAIN session' /\ session'[Len(session')] = Assistant(n)
          /\ \A j \in DOMAIN session' \ {Len(session')} : Answered(session', j)
      BY <1>0, <2>1, <2>2, AppendCalls
    <2>4. done' = 0 /\ phase' = "tools"
      BY <1>9 DEF AsksForTools
    <2>5. Len(session') - done' = Len(session') /\ done' < calls'
      BY <2>1, <2>3, <2>4, LenProperties, LoopAssumption
    <2>6. Pending'
      BY <2>1, <2>3, <2>4, <2>5 DEF Pending
    <2> QED BY <2>3, <2>4, <2>6 DEF PairInv
  <1>11. CASE ToolDone
    <2>1. /\ session' = Append(session, Result(done + 1)) /\ done' = done + 1
          /\ calls' = calls /\ phase = "tools"
          /\ phase' = IF done + 1 = calls THEN "top" ELSE "tools"
      BY <1>11 DEF ToolDone
    <2>2. done \in Nat /\ calls \in Nat /\ done < calls /\ done + 1 \in 1..MaxCalls
      BY <2>1, LoopAssumption DEF TypeOK, PairInv, Pending
    <2>3. Result(done + 1) \in Message
      BY <2>2, MessageFacts
    <2> DEFINE t == Append(session, Result(done + 1))
               a == Len(session) - done
    <2>4. /\ t \in Seq(Message) /\ Len(t) = Len(session) + 1
          /\ \A p \in 1..Len(session) : t[p] = session[p]
          /\ \A i \in 1..1 : t[Len(session) + i] = Result(done + i)
      BY <1>0, <2>3, AppendProperties
    <2> HIDE DEF t
    <2>5. /\ Rooted(t)
          /\ a \in DOMAIN t /\ t[a] = Assistant(calls)
          /\ \A i \in 1..done + 1 : t[a + i] = Result(i)
          /\ \A j \in DOMAIN t \ {a} : Answered(t, j)
          /\ done + 1 = calls => \A j \in DOMAIN t : Answered(t, j)
      <3>1. done + 1 <= calls /\ 1 \in Nat
        BY <2>2
      <3> QED BY <2>1, <2>4, <3>1, GrowPending
    <2>6. Len(t) - done' = a
      BY <1>0, <2>1, <2>2, <2>4
    <2>7. session' = t
      BY <2>1 DEF t
    <2> HIDE DEF a
    <2>8. CASE done + 1 = calls
      BY <2>1, <2>4, <2>5, <2>7, <2>8 DEF PairInv
    <2>9. CASE done + 1 # calls
      <3>1. done' < calls'
        BY <2>1, <2>2, <2>9
      <3>2. Pending'
        BY <2>1, <2>5, <2>6, <2>7, <3>1 DEF Pending
      <3> QED BY <2>1, <2>4, <2>5, <2>7, <2>9, <3>2 DEF PairInv
    <2> QED BY <2>8, <2>9
  <1>12. CASE ToolsInterrupted
    <2> DEFINE rest == [i \in 1..calls - done |-> Result(done + i)]
               t == session \o rest
               r == calls - done
    <2>1. session' = t /\ phase = "tools" /\ phase' = "idle"
      BY <1>12 DEF ToolsInterrupted, EndTurn
    <2>2. done \in Nat /\ calls \in 0..MaxCalls /\ done < calls
      BY <2>1, LoopAssumption DEF TypeOK, PairInv, Pending
    <2>3. r \in Nat /\ done + r = calls
      BY <2>2, LoopAssumption
    <2>4. rest \in Seq(Message) /\ Len(rest) = r
      <3>1. \A i \in 1..r : Result(done + i) \in Message
        BY <2>2, MessageFacts, LoopAssumption
      <3>2. rest \in [1..r -> Message]
        BY <3>1
      <3> HIDE DEF rest, r
      <3> QED BY <2>3, <3>2
    <2>5. /\ t \in Seq(Message) /\ Len(t) = Len(session) + r
          /\ \A p \in 1..Len(session) : t[p] = session[p]
          /\ \A i \in 1..r : t[Len(session) + i] = rest[i]
      <3> HIDE DEF rest, r
      <3>1. /\ t \in Seq(Message) /\ Len(t) = Len(session) + r
            /\ \A p \in 1..Len(session) + r :
                 t[p] = IF p <= Len(session) THEN session[p] ELSE rest[p - Len(session)]
        BY <1>0, <2>4, ConcatProperties
      <3> HIDE DEF t
      <3>2. \A p \in 1..Len(session) : p \in 1..Len(session) + r /\ p <= Len(session)
        BY <1>0, <2>3
      <3>3. ASSUME NEW i \in 1..r
            PROVE  t[Len(session) + i] = rest[i]
        <4>1. /\ Len(session) + i \in 1..Len(session) + r
              /\ ~(Len(session) + i <= Len(session))
              /\ (Len(session) + i) - Len(session) = i
          BY <1>0, <2>3, <3>3
        <4> QED BY <3>1, <4>1
      <3> QED BY <3>1, <3>2, <3>3
    <2>6. \A i \in 1..r : t[Len(session) + i] = Result(done + i)
      <3>1. \A i \in 1..r : rest[i] = Result(done + i)
        OBVIOUS
      <3> HIDE DEF rest, t
      <3> QED BY <2>5, <3>1
    <2> HIDE DEF rest, t, r
    <2>7. Rooted(t) /\ \A j \in DOMAIN t : Answered(t, j)
      <3>1. done + r <= calls
        BY <2>2, <2>3
      <3> QED BY <2>1, <2>3, <2>5, <2>6, <3>1, GrowPending
    <2> QED BY <2>1, <2>5, <2>7 DEF PairInv
  <1>13. CASE RunCommand
    <2>1. /\ Rooted(session) /\ phase = "idle" /\ phase' = "idle"
          /\ \A j \in DOMAIN session : Answered(session, j)
      BY <1>13 DEF RunCommand, PairInv, turn
    <2>2. CASE session' = << >>
      BY <2>1, <2>2 DEF PairInv, Rooted
    <2>3. CASE session' # << >>
      <3>1. session' = session \/ session' \in CommandCompacted(session)
        BY <1>13, <2>3 DEF RunCommand
      <3>2. session' \in Seq(Message) /\ Rooted(session')
            /\ \A j \in DOMAIN session' : Answered(session', j)
        BY <1>0, <2>1, <3>1, CompactionKeepsPairs
      <3> QED BY <2>1, <3>2 DEF PairInv
    <2> QED BY <2>2, <2>3
  <1> QED BY <1>1, <1>3, <1>5, <1>6, <1>7, <1>8, <1>9, <1>11, <1>12, <1>13
          DEF Next, Worker, Outside

\* A request stays in the control state until the turn it stops is over.
LEMMA FlagStep ==
  ASSUME LoopInv, [Next]_vars
  PROVE  FlagKept'
  <1> USE DEF LoopInv, TypeOK, FlagKept
  <1>1. CASE Begin
    BY <1>1 DEF Begin
  <1>2. ASSUME phase' = "idle" PROVE FlagKept'
    BY <1>2
  <1>3. CASE PrepareStops \/ PrepareExhausted \/ ModelFails \/ StreamStops
             \/ AnswersDirectly \/ ToolsInterrupted
    BY <1>2, <1>3 DEF PrepareStops, PrepareExhausted, ModelFails, StreamStops,
                      AnswersDirectly, ToolsInterrupted, EndTurn
  <1>4. CASE PrepareContinues \/ StreamOpens \/ StreamEvent \/ AsksForTools \/ ToolDone
    BY <1>4 DEF PrepareContinues, StreamOpens, StreamEvent, AsksForTools, ToolDone
  <1>5. CASE WatchPasses \/ Arm
    BY <1>5 DEF WatchPasses, Arm
  <1>6. CASE Submit \/ Drain \/ InspectCommand \/ EnterCommand \/ UNCHANGED vars
    BY <1>6 DEF Submit, Drain, InspectCommand, EnterCommand, vars, turn
  <1>7. CASE Press
    BY <1>7 DEF Press
  <1>8. CASE RunCommand
    BY <1>8 DEF RunCommand
  <1> QED BY <1>1, <1>3, <1>4, <1>5, <1>6, <1>7, <1>8 DEF Next, Worker, Outside

LEMMA EventFacts ==
  ASSUME NEW e \in Seq({"starting", "finished"}), NEW x \in {"starting", "finished"}
  PROVE  /\ Append(e, x) \in Seq({"starting", "finished"})
         /\ Append(e, x) # << >>
         /\ Append(e, x)[Len(Append(e, x))] = x
  BY AppendProperties, LenProperties

\* What is left of the channel after the first n events ends as it did.
LEMMA RestFacts ==
  ASSUME NEW e \in Seq({"starting", "finished"}), NEW n \in 1..Len(e)
  PROVE  LET rest == SubSeq(e, n + 1, Len(e))
         IN /\ rest \in Seq({"starting", "finished"})
            /\ n = Len(e) => rest = << >>
            /\ n < Len(e) => rest # << >> /\ rest[Len(rest)] = e[Len(e)]
  <1> DEFINE rest == SubSeq(e, n + 1, Len(e))
  <1>1. Len(e) \in Nat /\ n \in Int /\ n >= 1 /\ n <= Len(e)
    BY LenProperties
  <1>2. \A i \in n + 1..Len(e) : e[i] \in {"starting", "finished"}
    BY <1>1, ElementOfSeq
  <1>3. /\ rest \in Seq({"starting", "finished"})
        /\ Len(rest) = IF n + 1 <= Len(e) THEN Len(e) - (n + 1) + 1 ELSE 0
        /\ \A i \in 1..Len(e) - (n + 1) + 1 : rest[i] = e[(n + 1) + i - 1]
    BY <1>1, <1>2, SubSeqProperties
  <1>4. n = Len(e) => rest = << >>
    BY <1>1, SubSeqEmpty
  <1> HIDE DEF rest
  <1>5. ASSUME n < Len(e) PROVE rest # << >> /\ rest[Len(rest)] = e[Len(e)]
    <2>1. Len(rest) = Len(e) - n /\ Len(rest) \in 1..Len(e) - (n + 1) + 1
      BY <1>1, <1>3, <1>5
    <2>2. rest[Len(rest)] = e[(n + 1) + Len(rest) - 1]
      BY <1>3, <2>1
    <2>3. (n + 1) + Len(rest) - 1 = Len(e)
      BY <1>1, <2>1
    <2>4. rest # << >>
      BY <1>1, <1>5, <2>1
    <2> QED BY <2>2, <2>3, <2>4
  <1> QED BY <1>3, <1>4, <1>5 DEF rest

\* The last event in the channel, or the screen, says whether a turn runs.
LEMMA ScreenStep ==
  ASSUME LoopInv, [Next]_vars
  PROVE  ScreenInv' /\ events' \in Seq({"starting", "finished"})
  <1> USE DEF LoopInv, TypeOK
  <1>1. CASE Begin
    BY <1>1, EventFacts DEF Begin, ScreenInv
  <1>2. ASSUME NEW how, EndTurn(how) PROVE ScreenInv' /\ events' \in Seq({"starting", "finished"})
    BY <1>2, EventFacts DEF EndTurn, ScreenInv
  <1>3. CASE PrepareStops \/ PrepareExhausted \/ ModelFails \/ StreamStops
             \/ AnswersDirectly \/ ToolsInterrupted
    BY <1>2, <1>3 DEF PrepareStops, PrepareExhausted, ModelFails, StreamStops,
                      AnswersDirectly, ToolsInterrupted
  <1>4. ASSUME UNCHANGED <<events, busy>>, phase = "idle" <=> phase' = "idle"
        PROVE  ScreenInv' /\ events' \in Seq({"starting", "finished"})
    BY <1>4 DEF ScreenInv
  <1>5. CASE PrepareContinues \/ StreamOpens \/ StreamEvent \/ AsksForTools \/ ToolDone
             \/ WatchPasses \/ Arm
    BY <1>4, <1>5 DEF PrepareContinues, StreamOpens, StreamEvent, AsksForTools, ToolDone,
                      WatchPasses, Arm, screen
  <1>6. CASE Submit \/ Press \/ EnterCommand \/ RunCommand \/ InspectCommand
             \/ UNCHANGED vars
    BY <1>4, <1>6 DEF Submit, Press, EnterCommand, RunCommand, InspectCommand, vars, turn, screen
  <1>7. CASE Drain
    <2>1. PICK n \in 1..Len(events) :
            /\ busy' = (events[n] = "starting")
            /\ events' = SubSeq(events, n + 1, Len(events))
      BY <1>7 DEF Drain
    <2>2. phase' = phase /\ events # << >> /\ Len(events) \in Nat
      BY <1>7, <2>1 DEF Drain, turn
    <2>3. CASE n = Len(events)
      <3>1. events' = << >> /\ events' \in Seq({"starting", "finished"})
        BY <2>1, <2>3, RestFacts
      <3> QED BY <2>1, <2>2, <2>3, <3>1 DEF ScreenInv
    <2>4. CASE n < Len(events)
      <3>1. /\ events' \in Seq({"starting", "finished"})
            /\ events' # << >> /\ events'[Len(events')] = events[Len(events)]
        BY <2>1, <2>4, RestFacts
      <3> QED BY <2>2, <3>1 DEF ScreenInv
    <2>5. n \in Int /\ n <= Len(events)
      BY <2>1, <2>2
    <2> QED BY <2>2, <2>3, <2>4, <2>5
  <1> QED BY <1>1, <1>3, <1>5, <1>6, <1>7 DEF Next, Worker, Outside

\* A turn is counted once: queued, running or ended.
LEMMA CountStep ==
  ASSUME LoopInv, [Next]_vars
  PROVE  /\ TurnCount'
         /\ stopped' \in 0..MaxTurns /\ queue' \in 0..MaxTurns /\ turns' \in 0..MaxTurns
  <1>0. /\ queue \in Nat /\ stopped \in Nat /\ turns \in 0..MaxTurns /\ MaxTurns \in Nat
        /\ queue + stopped + (IF phase = "idle" THEN 0 ELSE 1) <= turns
    BY BoundFacts DEF LoopInv, TypeOK, TurnCount
  <1>1. CASE Begin
    BY <1>0, <1>1 DEF Begin, bounds, TurnCount
  <1>2. ASSUME NEW how, EndTurn(how), phase # "idle", UNCHANGED <<queue, turns>>
        PROVE  /\ TurnCount'
               /\ stopped' \in 0..MaxTurns /\ queue' \in 0..MaxTurns /\ turns' \in 0..MaxTurns
    BY <1>0, <1>2 DEF EndTurn, TurnCount
  <1>3. ASSUME PrepareStops \/ PrepareExhausted \/ ModelFails \/ StreamStops
               \/ AnswersDirectly \/ ToolsInterrupted
        PROVE  /\ TurnCount'
               /\ stopped' \in 0..MaxTurns /\ queue' \in 0..MaxTurns /\ turns' \in 0..MaxTurns
    BY <1>2, <1>3 DEF PrepareStops, PrepareExhausted, ModelFails, StreamStops,
                      AnswersDirectly, ToolsInterrupted, bounds
  <1>4. ASSUME UNCHANGED <<queue, stopped, turns>>, phase = "idle" <=> phase' = "idle"
        PROVE  /\ TurnCount'
               /\ stopped' \in 0..MaxTurns /\ queue' \in 0..MaxTurns /\ turns' \in 0..MaxTurns
    BY <1>0, <1>4 DEF TurnCount
  <1>5. CASE PrepareContinues \/ StreamOpens \/ StreamEvent \/ AsksForTools \/ ToolDone
             \/ WatchPasses \/ Arm
    BY <1>4, <1>5 DEF PrepareContinues, StreamOpens, StreamEvent, AsksForTools, ToolDone,
                      WatchPasses, Arm, screen, bounds
  <1>6. CASE Drain \/ Press \/ EnterCommand \/ RunCommand \/ InspectCommand
             \/ UNCHANGED vars
    BY <1>4, <1>6 DEF Drain, Press, EnterCommand, RunCommand, InspectCommand, vars, turn, screen, bounds
  <1>7. CASE Submit
    BY <1>0, <1>7 DEF Submit, turn, TurnCount
  <1> QED BY <1>1, <1>3, <1>5, <1>6, <1>7 DEF Next, Worker, Outside

\* The worker's own variables keep their types.
LEMMA WorkerTypes ==
  ASSUME LoopInv, [Next]_vars
  PROVE  /\ phase' \in Phase
         /\ watch' \in {"off", "checked", "armed", "woken"}
         /\ calls' \in 0..MaxCalls /\ done' \in 0..calls'
         /\ iterations' \in 0..MaxIterations
         /\ pressed' \in BOOLEAN
  <1>0. /\ phase \in Phase /\ watch \in {"off", "checked", "armed", "woken"}
        /\ calls \in 0..MaxCalls /\ done \in 0..calls /\ calls \in Nat /\ done \in Nat
        /\ iterations \in 0..MaxIterations /\ MaxIterations \in Nat /\ MaxCalls \in Nat
        /\ pressed \in BOOLEAN
        /\ phase = "tools" => done < calls
    BY BoundFacts DEF LoopInv, TypeOK, PairInv, Pending
  <1> USE <1>0 DEF Phase
  <1>1. CASE Begin
    BY <1>1 DEF Begin
  <1>2. ASSUME NEW how, EndTurn(how)
        PROVE  /\ phase' \in Phase
               /\ watch' \in {"off", "checked", "armed", "woken"}
               /\ calls' \in 0..MaxCalls /\ done' \in 0..calls'
               /\ iterations' \in 0..MaxIterations
               /\ pressed' \in BOOLEAN
    BY <1>2 DEF EndTurn
  <1>3. CASE PrepareStops \/ PrepareExhausted \/ ModelFails \/ StreamStops
             \/ AnswersDirectly \/ ToolsInterrupted
    BY <1>2, <1>3 DEF PrepareStops, PrepareExhausted, ModelFails, StreamStops,
                      AnswersDirectly, ToolsInterrupted
  <1>4. CASE PrepareContinues
    BY <1>4 DEF PrepareContinues
  <1>5. CASE AsksForTools
    BY <1>5 DEF AsksForTools
  <1>6. CASE ToolDone
    BY <1>6 DEF ToolDone
  <1>7. CASE StreamOpens \/ StreamEvent \/ WatchPasses \/ Arm
    BY <1>7 DEF StreamOpens, StreamEvent, WatchPasses, Arm
  <1>8. CASE Press
    BY <1>8 DEF Press
  <1>9. CASE Submit \/ Drain \/ EnterCommand \/ RunCommand \/ InspectCommand
             \/ UNCHANGED vars
    BY <1>9 DEF Submit, Drain, EnterCommand, RunCommand, InspectCommand, vars, turn
  <1> QED BY <1>1, <1>3, <1>4, <1>5, <1>6, <1>7, <1>8, <1>9 DEF Next, Worker, Outside

\* So do the variables both threads use.
LEMMA SharedTypes ==
  ASSUME LoopInv, [Next]_vars
  PROVE  /\ flag' \in BOOLEAN /\ attached' \in BOOLEAN /\ busy' \in BOOLEAN
         /\ ui' \in {"loop", "locked"}
         /\ presses' \in 0..MaxPresses /\ commands' \in 0..MaxCommands
  <1>0. /\ flag \in BOOLEAN /\ attached \in BOOLEAN /\ busy \in BOOLEAN
        /\ ui \in {"loop", "locked"}
        /\ presses \in 0..MaxPresses /\ commands \in 0..MaxCommands
        /\ MaxPresses \in Nat /\ MaxCommands \in Nat
    BY BoundFacts DEF LoopInv, TypeOK
  <1> USE <1>0 DEF bounds, screen
  <1>1. CASE Begin \/ WatchPasses \/ Arm \/ PrepareContinues
    BY <1>1 DEF Begin, WatchPasses, Arm, PrepareContinues
  <1>2. CASE PrepareStops \/ PrepareExhausted \/ ModelFails \/ StreamStops
             \/ AnswersDirectly \/ ToolsInterrupted
    BY <1>2 DEF PrepareStops, PrepareExhausted, ModelFails, StreamStops,
                AnswersDirectly, ToolsInterrupted
  <1>3. CASE StreamOpens \/ StreamEvent \/ AsksForTools \/ ToolDone
    BY <1>3 DEF StreamOpens, StreamEvent, AsksForTools, ToolDone
  <1>4. CASE Submit \/ Drain \/ InspectCommand \/ UNCHANGED vars
    BY <1>4 DEF Submit, Drain, InspectCommand, vars
  <1>5. CASE Press
    BY <1>5 DEF Press
  <1>6. CASE EnterCommand
    BY <1>6 DEF EnterCommand
  <1>7. CASE RunCommand
    BY <1>7 DEF RunCommand
  <1> QED BY <1>1, <1>2, <1>3, <1>4, <1>5, <1>6, <1>7 DEF Next, Worker, Outside

LEMMA LoopStep == LoopInv /\ [Next]_vars => LoopInv'
  <1> SUFFICES ASSUME LoopInv, [Next]_vars PROVE LoopInv'
    OBVIOUS
  <1>1. session' \in Seq(Message) /\ PairInv'
    BY PairStep
  <1>2. ScreenInv' /\ events' \in Seq({"starting", "finished"})
    BY ScreenStep
  <1>3. /\ TurnCount'
        /\ stopped' \in 0..MaxTurns /\ queue' \in 0..MaxTurns /\ turns' \in 0..MaxTurns
    BY CountStep
  <1>4. TypeOK'
    BY <1>1, <1>2, <1>3, WorkerTypes, SharedTypes DEF TypeOK
  <1> QED BY <1>1, <1>2, <1>3, <1>4, FlagStep DEF LoopInv

LEMMA LoopInvariant == Spec => []LoopInv
  BY InitLoop, LoopStep, PTL DEF Spec

-----------------------------------------------------------------------------
(* The theorems. *)

\* Every variable of the turn loop keeps its type, for all limits.
THEOREM LoopTypeCorrect == Spec => []TypeOK
  BY LoopInvariant, PTL DEF LoopInv

\* No interrupt, failure or compaction of run_turn and /compact leaves a tool
\* result without the message that asked for it.
THEOREM ResultsStayRooted == Spec => []NoOrphanResult
  <1>1. LoopInv => NoOrphanResult
    BY DEF LoopInv, PairInv, NoOrphanResult
  <1> QED BY <1>1, LoopInvariant, PTL

\* Nor a tool call without its result, once no tool runs.
THEOREM EveryCallAnswered == Spec => []CallsAnswered
  <1>1. LoopInv => CallsAnswered
    BY DEF LoopInv, PairInv, CallsAnswered
  <1> QED BY <1>1, LoopInvariant, PTL

\* With nothing left to drain, ReplTuiState.busy says whether a turn runs.
THEOREM ScreenTellsTheTurn == Spec => []BusyTracksTurn
  <1>1. LoopInv => BusyTracksTurn
    BY DEF LoopInv, ScreenInv, BusyTracksTurn
  <1> QED BY <1>1, LoopInvariant, PTL

\* A turn interrupted through the runtime's control state sends no request more.
THEOREM InterruptStops == Spec => InterruptStopsLoop
  <1>1. ASSUME LoopInv, [Next]_vars, pressed /\ attached
        PROVE  iterations' <= iterations
    <2>0. iterations \in Nat
      BY <1>1, BoundFacts DEF LoopInv, TypeOK
    <2>1. CASE PrepareContinues
      BY <1>1, <2>1 DEF PrepareContinues, LoopInv, FlagKept
    <2>2. ASSUME NEW how, EndTurn(how) PROVE iterations' <= iterations
      BY <2>0, <2>2 DEF EndTurn
    <2>3. CASE PrepareStops \/ PrepareExhausted \/ ModelFails \/ StreamStops
               \/ AnswersDirectly \/ ToolsInterrupted
      BY <2>2, <2>3 DEF PrepareStops, PrepareExhausted, ModelFails, StreamStops,
                        AnswersDirectly, ToolsInterrupted
    <2>4. CASE iterations' = iterations
      BY <2>0, <2>4
    <2>5. CASE Begin \/ WatchPasses \/ Arm
               \/ StreamOpens \/ StreamEvent \/ AsksForTools \/ ToolDone
      BY <2>4, <2>5 DEF Begin, WatchPasses, Arm, StreamOpens, StreamEvent,
                        AsksForTools, ToolDone
    <2>6. CASE Submit \/ Drain \/ Press \/ EnterCommand \/ RunCommand \/ InspectCommand
             \/ UNCHANGED vars
      BY <2>4, <2>6 DEF Submit, Drain, Press, EnterCommand, RunCommand, InspectCommand, vars, turn
    <2> QED BY <1>1, <2>1, <2>3, <2>5, <2>6 DEF Next, Worker, Outside
  <1>2. LoopInv /\ [Next]_vars => [pressed /\ attached => iterations' <= iterations]_vars
    BY <1>1
  <1> QED BY <1>2, LoopInvariant, PTL DEF Spec, InterruptStopsLoop

-----------------------------------------------------------------------------
(* The browser of the session.                                             *)

\* A thread that is about to switch has the bridge of a server, and the agent's
\* bridge is the extension's in extension mode only.
ModeInv ==
  /\ Mode!TypeOK
  /\ \A s \in Mode!Server : watcher[s].at \in {"priming", "primed"} => watcher[s].shared # 0
  /\ late \/ (agent.shared.kind = "extension" => agent.mode)
  /\ ModeIsShown

\* The parts of the state that a browser's records are made of.
LEMMA ModeRecords ==
  /\ Mode!Nothing \in Mode!Browser /\ Mode!Cloak \in Mode!Browser
  /\ \A s \in Mode!Server : Mode!Ext(s) \in Mode!Browser /\ Mode!Ext(s).kind = "extension"
  /\ Mode!Nothing.kind = "none" /\ Mode!Cloak.kind = "cloak"
  /\ \A b \in Mode!Browser : b.kind \in {"none", "cloak", "extension"}
  /\ Mode!Fresh \in [mode : BOOLEAN, shared : Mode!Browser, browser : Mode!Browser]
  /\ Mode!Fresh.mode = FALSE /\ Mode!Fresh.shared = Mode!Nothing /\ Mode!Fresh.browser = Mode!Nothing
  /\ Mode!Idle \in [at : Mode!Places, shared : 0 .. MaxServers, state : BOOLEAN] /\ Mode!Idle.at = "none"
  /\ 0 \in 0 .. MaxServers /\ 1 \in 0 .. MaxServers
  <1>1. 0 \in 0 .. MaxServers /\ 1 \in 0 .. MaxServers
    BY SignInAssumption
  <1>2. Mode!Nothing \in Mode!Browser /\ Mode!Cloak \in Mode!Browser
    BY DEF Mode!Browser
  <1>3. ASSUME NEW s \in Mode!Server PROVE Mode!Ext(s) \in Mode!Browser /\ Mode!Ext(s).kind = "extension"
    BY DEF Mode!Ext, Mode!Browser
  <1>4. Mode!Nothing.kind = "none" /\ Mode!Cloak.kind = "cloak"
    BY DEF Mode!Nothing, Mode!Cloak
  <1>5. \A b \in Mode!Browser : b.kind \in {"none", "cloak", "extension"}
    BY DEF Mode!Nothing, Mode!Cloak, Mode!Ext, Mode!Browser
  <1>6. /\ Mode!Fresh \in [mode : BOOLEAN, shared : Mode!Browser, browser : Mode!Browser]
        /\ Mode!Fresh.mode = FALSE /\ Mode!Fresh.shared = Mode!Nothing /\ Mode!Fresh.browser = Mode!Nothing
    BY <1>2 DEF Mode!Fresh
  <1>7. Mode!Idle \in [at : Mode!Places, shared : 0 .. MaxServers, state : BOOLEAN] /\ Mode!Idle.at = "none"
    BY <1>1 DEF Mode!Idle, Mode!Places
  <1> QED BY <1>1, <1>2, <1>3, <1>4, <1>5, <1>6, <1>7

\* The commands of the user.
LEMMA CommandSteps ==
  ASSUME ModeInv,
         \/ Mode!ExtensionStart \/ Mode!ExtensionStop \/ Mode!ToCloak \/ Mode!SwitchHead \/ Mode!Rebuild
  PROVE  ModeInv'
  <1> DEFINE Watch == [at : Mode!Places, shared : 0 .. MaxServers, state : BOOLEAN]
             Agent == [mode : BOOLEAN, shared : Mode!Browser, browser : Mode!Browser]
  <1>1. agent \in Agent /\ watcher \in [Mode!Server -> Watch] /\ Mode!TypeOK
    BY DEF ModeInv, Mode!TypeOK
  <1>2. CASE Mode!ExtensionStart
    <2>1. /\ server = 0 /\ initialized' = FALSE /\ UNCHANGED <<link, setting, agent, drove, rebuilt, late, leftOpen>>
          /\ pending' \in BOOLEAN
          /\ \/ /\ server' = started + 1 /\ started' = started + 1 /\ started < MaxServers
                /\ watcher' = [watcher EXCEPT ![started + 1] = Mode!Placed(started + 1, "waiting")]
             \/ UNCHANGED <<server, started, watcher>>
      BY <1>2 DEF Mode!ExtensionStart
    <2>2. started < MaxServers => started + 1 \in Mode!Server /\ started + 1 \in 0 .. MaxServers
      BY <1>1, SignInAssumption DEF Mode!TypeOK, Mode!Server
    <2>3. \A s \in Mode!Server : Mode!Placed(s, "waiting") \in Watch /\ Mode!Placed(s, "waiting").at = "waiting"
      BY <1>1 DEF Mode!Placed, Mode!Places
    <2>4. /\ watcher' \in [Mode!Server -> Watch]
          /\ \A s \in Mode!Server : watcher'[s].at \in {"priming", "primed"} => watcher'[s] = watcher[s]
      BY <1>1, <2>1, <2>2, <2>3
    <2>5. Mode!TypeOK'
      BY <1>1, <2>1, <2>2, <2>4 DEF Mode!TypeOK
    <2>6. late \/ ~agent.mode
      BY <2>1 DEF ModeInv, ModeIsShown, Mode!ModeIsShown
    <2> QED BY <2>1, <2>4, <2>5, <2>6 DEF ModeInv, ModeIsShown, Mode!ModeIsShown
  <1>3. CASE Mode!ExtensionStop
    <2>1. /\ server' = 0 /\ pending' = FALSE /\ initialized' = FALSE /\ setting' = FALSE /\ rebuilt' = FALSE
          /\ agent' = [mode |-> FALSE, shared |-> Mode!Nothing, browser |-> agent.browser]
          /\ late' = FALSE /\ leftOpen' = (leftOpen \/ agent.browser.kind = "extension")
          /\ UNCHANGED <<started, link, watcher, drove>>
      BY <1>3 DEF Mode!ExtensionStop
    <2>2. agent' \in Agent /\ agent'.mode = FALSE /\ agent'.shared = Mode!Nothing /\ agent'.browser = agent.browser
      BY <1>1, <2>1, ModeRecords
    <2>3. Mode!TypeOK'
      BY <1>1, <2>1, <2>2, ModeRecords DEF Mode!TypeOK
    <2> QED BY <2>1, <2>2, <2>3, ModeRecords DEF ModeInv, ModeIsShown, Mode!ModeIsShown
  <1>4. CASE Mode!ToCloak
    <2>1. /\ server' = 0 /\ pending' \in BOOLEAN /\ initialized' = FALSE /\ setting' = FALSE /\ rebuilt' = FALSE
          /\ agent' = Mode!Fresh /\ late' = FALSE /\ leftOpen' = FALSE
          /\ UNCHANGED <<started, link, watcher, drove>>
      BY <1>4 DEF Mode!ToCloak
    <2>2. Mode!TypeOK'
      BY <1>1, <2>1, ModeRecords DEF Mode!TypeOK
    <2> QED BY <2>1, <2>2, ModeRecords DEF ModeInv, ModeIsShown, Mode!ModeIsShown
  <1>5. CASE Mode!SwitchHead
    <2>1. /\ server = 0 /\ ~initialized /\ leftOpen' = FALSE
          /\ agent' = [mode |-> agent.mode, shared |-> Mode!Nothing, browser |-> Mode!Nothing]
          /\ UNCHANGED <<server, started, link, initialized, pending, setting, watcher, drove, rebuilt, late>>
      BY <1>5 DEF Mode!SwitchHead
    <2>2. agent' \in Agent /\ agent'.mode = agent.mode /\ agent'.shared = Mode!Nothing /\ agent'.browser = Mode!Nothing
      BY <1>1, <2>1, ModeRecords
    <2>3. Mode!TypeOK'
      BY <1>1, <2>1, <2>2 DEF Mode!TypeOK
    <2> QED BY <2>1, <2>2, <2>3, ModeRecords DEF ModeInv, ModeIsShown, Mode!ModeIsShown
  <1>6. CASE Mode!Rebuild
    <2>1. /\ agent' = Mode!Fresh /\ rebuilt' = initialized /\ leftOpen' = FALSE
          /\ UNCHANGED <<server, started, link, initialized, pending, setting, watcher, drove, late>>
      BY <1>6 DEF Mode!Rebuild
    <2>2. Mode!TypeOK'
      BY <1>1, <2>1, ModeRecords DEF Mode!TypeOK
    <2> QED BY <2>1, <2>2, ModeRecords DEF ModeInv, ModeIsShown, Mode!ModeIsShown
  <1> QED BY <1>2, <1>3, <1>4, <1>5, <1>6

\* A tool call opens the browser that the agent has or is to have.
LEMMA ToolCallKeeps ==
  ASSUME ModeInv, Mode!ToolCall
  PROVE  ModeInv'
  <1> DEFINE Agent == [mode : BOOLEAN, shared : Mode!Browser, browser : Mode!Browser]
  <1>1. agent \in Agent /\ Mode!TypeOK
    BY DEF ModeInv, Mode!TypeOK
  <1>2. UNCHANGED <<server, started, link, initialized, pending, setting, watcher, rebuilt, late, leftOpen>>
    BY DEF Mode!ToolCall
  <1>3. PICK b \in Mode!Browser :
          /\ drove' = b
          /\ \/ agent' = agent
             \/ /\ agent' = [mode |-> agent.mode, shared |-> b, browser |-> b]
                /\ b # agent.shared => b = Mode!Cloak /\ ~agent.mode
    BY <1>1, ModeRecords DEF Mode!ToolCall, Mode!Opens
  <1>4. CASE agent' = agent
    <2>1. Mode!TypeOK'
      BY <1>1, <1>2, <1>3, <1>4 DEF Mode!TypeOK
    <2> QED BY <1>2, <1>4, <2>1 DEF ModeInv, ModeIsShown, Mode!ModeIsShown
  <1>5. CASE /\ agent' = [mode |-> agent.mode, shared |-> b, browser |-> b]
             /\ b # agent.shared => b = Mode!Cloak /\ ~agent.mode
    <2>1. agent' \in Agent /\ agent'.mode = agent.mode /\ agent'.shared = b /\ agent'.browser = b
      BY <1>1, <1>5
    <2>2. Mode!TypeOK'
      BY <1>1, <1>2, <1>3, <2>1 DEF Mode!TypeOK
    <2>3. b # agent.shared => b.kind = "cloak" /\ ~agent.mode
      BY <1>5, ModeRecords
    <2> QED BY <1>2, <2>1, <2>2, <2>3 DEF ModeInv, ModeIsShown, Mode!ModeIsShown
  <1> QED BY <1>3, <1>4, <1>5

\* The extension and the threads that wait for it.
LEMMA WatchSteps ==
  ASSUME ModeInv,
         Mode!ClientConnects \/ \E s \in Mode!Server : Mode!ClientLeaves(s) \/ Mode!WatchStep(s)
  PROVE  ModeInv'
  <1> DEFINE Watch == [at : Mode!Places, shared : 0 .. MaxServers, state : BOOLEAN]
  <1>1. /\ watcher \in [Mode!Server -> Watch] /\ Mode!TypeOK
        /\ agent \in [mode : BOOLEAN, shared : Mode!Browser, browser : Mode!Browser]
    BY DEF ModeInv, Mode!TypeOK
  <1>2. ASSUME UNCHANGED <<server, started, initialized, pending, setting, agent, watcher, drove, rebuilt, late, leftOpen>>,
               link' \in [Mode!Server -> {"never", "on", "off"}]
        PROVE  ModeInv'
    <2>1. Mode!TypeOK'
      BY <1>1, <1>2 DEF Mode!TypeOK
    <2> QED BY <1>2, <2>1 DEF ModeInv, ModeIsShown, Mode!ModeIsShown
  <1>3. CASE Mode!ClientConnects
    BY <1>1, <1>2, <1>3 DEF Mode!ClientConnects, Mode!TypeOK
  <1>4. ASSUME NEW s \in Mode!Server, Mode!ClientLeaves(s) PROVE ModeInv'
    BY <1>1, <1>2, <1>4 DEF Mode!ClientLeaves, Mode!TypeOK
  <1>5. ASSUME NEW s \in Mode!Server, NEW w \in Watch, watcher' = [watcher EXCEPT ![s] = w],
               w.at \in {"priming", "primed"} => w.shared # 0,
               UNCHANGED <<server, started, link, initialized, setting, agent, drove, rebuilt, late, leftOpen>>,
               pending' \in BOOLEAN
        PROVE  ModeInv'
    <2>1. Mode!TypeOK'
      BY <1>1, <1>5 DEF Mode!TypeOK
    <2>2. \A x \in Mode!Server : watcher'[x].at \in {"priming", "primed"} => watcher'[x].shared # 0
      BY <1>1, <1>5 DEF ModeInv
    <2> QED BY <1>5, <2>1, <2>2 DEF ModeInv, ModeIsShown, Mode!ModeIsShown
  <1>6. ASSUME NEW s \in Mode!Server, NEW place \in Mode!Places
        PROVE  /\ Mode!Placed(s, place) \in Watch /\ Mode!Placed(s, place).at = place
               /\ Mode!Placed(s, place).shared = watcher[s].shared
    BY <1>1 DEF Mode!Placed
  <1>7. {"none", "waiting", "found", "priming", "primed", "failed", "connected", "refused", "quiet"} = Mode!Places
    BY DEF Mode!Places
  <1>8. ASSUME NEW s \in Mode!Server, Mode!WatchWakes(s) PROVE ModeInv'
    <2>1. PICK place \in {"found", "quiet"} : watcher' = [watcher EXCEPT ![s] = Mode!Placed(s, place)]
      BY <1>8 DEF Mode!WatchWakes, Mode!Moves
    <2>2. Mode!Placed(s, place) \in Watch /\ Mode!Placed(s, place).at = place
      BY <1>6, <1>7
    <2>3. pending' \in BOOLEAN
      BY <1>1, <1>8 DEF Mode!WatchWakes, Mode!TypeOK
    <2> QED BY <1>5, <1>8, <2>1, <2>2, <2>3 DEF Mode!WatchWakes
  <1>9. ASSUME NEW s \in Mode!Server, Mode!WatchPrepares(s) PROVE ModeInv'
    <2>1. CASE initialized \/ server = 0
      <3>1. watcher' = [watcher EXCEPT ![s] = Mode!Placed(s, "refused")] /\ pending' = pending
        BY <1>9, <2>1 DEF Mode!WatchPrepares, Mode!Moves
      <3>2. Mode!Placed(s, "refused") \in Watch /\ Mode!Placed(s, "refused").at = "refused"
        BY <1>6, <1>7
      <3> QED BY <1>1, <1>5, <1>9, <3>1, <3>2 DEF Mode!WatchPrepares, Mode!TypeOK
    <2>2. CASE ~(initialized \/ server = 0)
      <3> DEFINE w == [at |-> "priming", shared |-> server, state |-> pending]
      <3>1. watcher' = [watcher EXCEPT ![s] = w] /\ pending' = FALSE
        BY <1>9, <2>2 DEF Mode!WatchPrepares
      <3>2. w \in Watch /\ w.shared = server
        BY <1>1, <1>7 DEF Mode!TypeOK
      <3> HIDE DEF w
      <3> QED BY <1>5, <1>9, <2>2, <3>1, <3>2 DEF Mode!WatchPrepares
    <2> QED BY <2>1, <2>2
  <1>10. ASSUME NEW s \in Mode!Server, Mode!WatchPrimes(s) PROVE ModeInv'
    <2>1. PICK place \in {"primed", "failed"} : watcher' = [watcher EXCEPT ![s] = Mode!Placed(s, place)]
      BY <1>10 DEF Mode!WatchPrimes, Mode!Moves
    <2>2. /\ Mode!Placed(s, place) \in Watch /\ Mode!Placed(s, place).at = place
          /\ Mode!Placed(s, place).shared = watcher[s].shared /\ watcher[s].shared # 0
      BY <1>6, <1>7, <1>10 DEF Mode!WatchPrimes, ModeInv
    <2>3. pending' \in BOOLEAN
      BY <1>1, <1>10 DEF Mode!WatchPrimes, Mode!TypeOK
    <2> QED BY <1>5, <1>10, <2>1, <2>2, <2>3 DEF Mode!WatchPrimes
  <1>11. ASSUME NEW s \in Mode!Server, Mode!WatchRestores(s) PROVE ModeInv'
    <2> DEFINE w == [Mode!Idle EXCEPT !.at = "refused"]
    <2>1. w \in Watch /\ w.at = "refused"
      BY <1>7, ModeRecords
    <2> HIDE DEF w
    <2>2. watcher' = [watcher EXCEPT ![s] = w] /\ pending' = (pending \/ watcher[s].state)
      BY <1>11 DEF Mode!WatchRestores, w
    <2>3. pending' \in BOOLEAN
      BY <1>1, <2>2 DEF Mode!TypeOK
    <2> QED BY <1>5, <1>11, <2>1, <2>2, <2>3 DEF Mode!WatchRestores
  <1>12. ASSUME NEW s \in Mode!Server, Mode!WatchActivates(s) PROVE ModeInv'
    <2> DEFINE w == [Mode!Idle EXCEPT !.at = "connected"]
               b == Mode!Ext(watcher[s].shared)
    <2>1. w \in Watch /\ w.at = "connected"
      BY <1>7, ModeRecords
    <2>2. watcher[s].shared \in Mode!Server
      BY <1>1, <1>12, SignInAssumption DEF Mode!WatchActivates, ModeInv, Mode!Server
    <2>3. b \in Mode!Browser /\ b.kind = "extension"
      BY <2>2, ModeRecords
    <2>4. /\ agent' = [mode |-> TRUE, shared |-> b, browser |-> Mode!Nothing]
          /\ initialized' = TRUE /\ setting' = TRUE /\ rebuilt' = FALSE /\ leftOpen' = FALSE
          /\ late' = (watcher[s].shared # server) /\ watcher' = [watcher EXCEPT ![s] = w]
          /\ UNCHANGED <<server, started, link, pending, drove>>
      BY <1>12 DEF Mode!WatchActivates
    <2> HIDE DEF w
    <2>5. ~late' => b = Mode!Ext(server') /\ server' # 0
      <3>1. 0 \notin Mode!Server
        BY DEF Mode!Server
      <3>2. ~late' => watcher[s].shared = server'
        BY <2>4
      <3> QED BY <2>2, <3>1, <3>2
    <2> HIDE DEF b
    <2>6. /\ agent' \in [mode : BOOLEAN, shared : Mode!Browser, browser : Mode!Browser]
          /\ agent'.mode = TRUE /\ agent'.shared = b /\ agent'.browser = Mode!Nothing
      BY <2>3, <2>4, ModeRecords
    <2>7. Mode!TypeOK'
      BY <1>1, <2>1, <2>4, <2>6 DEF Mode!TypeOK
    <2>8. \A x \in Mode!Server : watcher'[x].at \in {"priming", "primed"} => watcher'[x].shared # 0
      BY <1>1, <2>1, <2>4 DEF ModeInv
    <2> QED BY <2>4, <2>5, <2>6, <2>7, <2>8, ModeRecords DEF ModeInv, ModeIsShown, Mode!ModeIsShown
  <1> QED BY <1>3, <1>4, <1>8, <1>9, <1>10, <1>11, <1>12 DEF Mode!WatchStep

\* What the screen names is what the tools drive (stop_extension_server,
\* activate_extension_bridge, ensure_browser), however the user's commands, the
\* extension and the threads that wait for it interleave.
THEOREM ScreenNamesTheBrowser == BothSpec => []ModeIsShown
  <1>1. BothInit => ModeInv
    <2> SUFFICES ASSUME BothInit PROVE ModeInv
      OBVIOUS
    <2> DEFINE w == [Mode!Idle EXCEPT !.at = "waiting"]
               Watch == [at : Mode!Places, shared : 0 .. MaxServers, state : BOOLEAN]
    <2>1. w \in Watch /\ w.at = "waiting" /\ Mode!Idle \in Watch /\ Mode!Idle.at = "none"
      BY ModeRecords DEF Mode!Places
    <2> HIDE DEF w
    <2>2. Mode!Init
      BY DEF BothInit
    <2>3. /\ watcher = [s \in Mode!Server |-> IF s = server THEN w ELSE Mode!Idle]
          /\ setting \in BOOLEAN /\ agent = Mode!Fresh /\ drove = Mode!Nothing
          /\ link = [s \in Mode!Server |-> "never"] /\ started = server
          /\ initialized = FALSE /\ pending = FALSE /\ rebuilt = FALSE /\ late = FALSE /\ leftOpen = FALSE
      BY <2>2 DEF Mode!Init, w
    <2>4. \A s \in Mode!Server : watcher[s] \in Watch /\ watcher[s].at \in {"waiting", "none"}
      BY <2>1, <2>3
    <2>5. server \in 0 .. MaxServers
      BY <2>2, ModeRecords DEF Mode!Init
    <2>6. Mode!TypeOK
      BY <2>1, <2>3, <2>5, ModeRecords DEF Mode!TypeOK
    <2> QED BY <2>3, <2>4, <2>6, ModeRecords DEF ModeInv, ModeIsShown, Mode!ModeIsShown
  <1>2. ModeInv /\ UNCHANGED mode => ModeInv'
    BY DEF mode, ModeInv, ModeIsShown, Mode!ModeIsShown, Mode!TypeOK
  <1>3. ModeInv /\ Mode!Next => ModeInv'
    BY CommandSteps, ToolCallKeeps, WatchSteps DEF Mode!Next
  <1>4. ModeInv /\ [BothNext]_<<part, vars, tree, auth, mode>> => ModeInv'
    BY <1>2, <1>3 DEF BothNext
  <1>5. ModeInv => ModeIsShown
    BY DEF ModeInv
  <1> QED BY <1>1, <1>4, <1>5, PTL DEF BothSpec

-----------------------------------------------------------------------------
(* Signing in.                                                             *)

Login == [provider : Provider \cup {None}, at : {"waits", "redeems", "stored", "ended"}, told : BOOLEAN]
Event == [kind : {"login", "models"}, provider : Provider \cup {None}, id : Nat, ok : BOOLEAN]

SignInTypes ==
  /\ modal \in Auth!Modal \cup {None}
  /\ login \in Seq(Login)
  /\ fetching \subseteq [id : 1 .. fetches, provider : Provider \cup {None}]
  /\ authQueue \in Seq(Event)
  /\ fetches \in Nat /\ Auth!InUse <= MaxThreads
  /\ store \subseteq Provider \cup {None} /\ refused \subseteq Provider \cup {None}
  /\ stale \in BOOLEAN /\ left \in BOOLEAN /\ loose \in BOOLEAN

\* A login that has reported is over, and waiting for one is for one that was started.
LoginInv ==
  /\ \A k \in DOMAIN authQueue : authQueue[k].kind = "login" =>
       authQueue[k].id \in DOMAIN login /\ login[authQueue[k].id].at = "ended"
  /\ modal # None => modal.login <= Len(login)

\* What comes for a modal that waits for models is one fetch of its provider.
PendingInv ==
  ~left /\ ~stale =>
    /\ \A f \in fetching : f.id = fetches /\ Auth!At("loading") /\ modal.busy
                           /\ f.provider = modal.provider
    /\ \A k \in DOMAIN authQueue : authQueue[k].kind = "models" =>
         /\ Auth!At("loading") /\ modal.busy /\ authQueue[k].provider = modal.provider
         /\ fetching = {}
         /\ \A j \in DOMAIN authQueue : authQueue[j].kind = "models" => j = k

SignInInv == SignInTypes /\ LoginInv /\ PendingInv /\ SignInKept

\* A queue with one more event has that one at its end.
LEMMA Appended ==
  ASSUME SignInTypes, NEW e \in Event
  PROVE  /\ Append(authQueue, e) \in Seq(Event)
         /\ DOMAIN Append(authQueue, e) = DOMAIN authQueue \cup {Len(authQueue) + 1}
         /\ Len(authQueue) + 1 \notin DOMAIN authQueue
         /\ Append(authQueue, e)[Len(authQueue) + 1] = e
         /\ \A k \in DOMAIN authQueue : Append(authQueue, e)[k] = authQueue[k]
  <1> DEFINE q == authQueue
  <1>1. q \in Seq(Event)
    BY DEF SignInTypes
  <1> HIDE DEF q
  <1>2. /\ Append(q, e) \in Seq(Event) /\ Len(Append(q, e)) = Len(q) + 1
        /\ \A k \in 1 .. Len(q) : Append(q, e)[k] = q[k]
        /\ Append(q, e)[Len(q) + 1] = e
    BY <1>1, AppendProperties
  <1>3. DOMAIN q = 1 .. Len(q) /\ Len(q) \in Nat /\ DOMAIN Append(q, e) = 1 .. (Len(q) + 1)
    BY <1>1, <1>2
  <1> QED BY <1>2, <1>3 DEF q

\* A login that changes is still one of the logins.
LEMMA Relogged ==
  ASSUME SignInTypes, NEW i \in DOMAIN login, NEW r \in Login
  PROVE  /\ [login EXCEPT ![i] = r] \in Seq(Login)
         /\ Len([login EXCEPT ![i] = r]) = Len(login)
         /\ DOMAIN [login EXCEPT ![i] = r] = DOMAIN login
         /\ \A k \in DOMAIN login : [login EXCEPT ![i] = r][k] = IF k = i THEN r ELSE login[k]
  <1> DEFINE q == login
  <1>1. q \in Seq(Login) /\ i \in DOMAIN q
    BY DEF SignInTypes
  <1> HIDE DEF q
  <1>2. i \in 1 .. Len(q) /\ DOMAIN q = 1 .. Len(q)
    BY <1>1
  <1>3. [q EXCEPT ![i] = r] \in Seq(Login) /\ Len([q EXCEPT ![i] = r]) = Len(q)
    BY <1>1, <1>2, ExceptSeq
  <1>4. /\ DOMAIN [q EXCEPT ![i] = r] = DOMAIN q
        /\ \A k \in DOMAIN q : [q EXCEPT ![i] = r][k] = IF k = i THEN r ELSE q[k]
    BY <1>1
  <1> QED BY <1>3, <1>4 DEF q

\* An update of the store leaves the provider stored or refused, and the others as they were.
LEMMA WriteIs ==
  ASSUME SignInTypes, NEW p \in Provider \cup {None}, Auth!Write(p)
  PROVE  /\ store' \subseteq Provider \cup {None} /\ refused' \subseteq Provider \cup {None}
         /\ store \cup refused \subseteq store' \cup refused' /\ p \in store' \cup refused'
  BY DEF Auth!Write, SignInTypes

\* A login of a thread goes on, or ends and says so.
LEMMA ThreadSteps ==
  ASSUME SignInInv, NEW i \in DOMAIN login, Auth!LoginMoves(i)
  PROVE  SignInInv'
  <1>1. SignInTypes /\ i \in Nat /\ login[i] \in Login
    BY DEF SignInInv, SignInTypes
  <1>2. /\ UNCHANGED <<modal, fetching, fetches, stale, left, loose>>
    BY DEF Auth!LoginMoves, Auth!CallbackComes, Auth!LoginFails, Auth!Redeems, Auth!LoginReports, Auth!LoginKeeps
  <1>3. \A at \in {"redeems", "stored", "ended"} : Auth!Now(i, at) \in Login /\ Auth!Now(i, at).at = at
    BY <1>1 DEF Auth!Now, Login
  <1>4. PICK at \in {"redeems", "stored", "ended"} :
          /\ login' = [login EXCEPT ![i] = Auth!Now(i, at)]
          /\ login[i].at # "ended"
          /\ \/ authQueue' = authQueue
             \/ /\ at = "ended"
                /\ \E ok \in BOOLEAN : authQueue' = Append(authQueue, [kind |-> "login", provider |-> login[i].provider,
                                                                       id |-> i, ok |-> ok])
    BY DEF Auth!LoginMoves, Auth!CallbackComes, Auth!LoginFails, Auth!Redeems, Auth!LoginReports, Auth!Report
  <1>5. /\ store' \subseteq Provider \cup {None} /\ refused' \subseteq Provider \cup {None}
        /\ store \cup refused \subseteq store' \cup refused'
    BY <1>1 DEF Auth!LoginMoves, Auth!CallbackComes, Auth!LoginFails, Auth!Redeems, Auth!LoginReports, SignInTypes, Login
  <1> DEFINE r == Auth!Now(i, at)
  <1>6. /\ login' \in Seq(Login) /\ Len(login') = Len(login) /\ DOMAIN login' = DOMAIN login
        /\ \A k \in DOMAIN login : login'[k] = IF k = i THEN r ELSE login[k]
        /\ r.at = at
    BY <1>1, <1>3, <1>4, Relogged
  <1> HIDE DEF r
  <1>7. \/ authQueue' = authQueue
        \/ \E e \in Event : authQueue' = Append(authQueue, e) /\ e.kind = "login" /\ e.id = i /\ at = "ended"
    <2>1. ASSUME NEW ok \in BOOLEAN
          PROVE  LET e == [kind |-> "login", provider |-> login[i].provider, id |-> i, ok |-> ok]
                 IN  e \in Event /\ e.kind = "login" /\ e.id = i
      BY <1>1 DEF Event, Login
    <2> QED BY <1>4, <2>1
  <1>8. /\ authQueue' \in Seq(Event)
        /\ \A k \in DOMAIN authQueue' :
             \/ k \in DOMAIN authQueue /\ authQueue'[k] = authQueue[k]
             \/ authQueue'[k].kind = "login" /\ authQueue'[k].id = i /\ at = "ended"
    <2>1. CASE authQueue' = authQueue
      BY <1>1, <2>1 DEF SignInTypes
    <2>2. ASSUME NEW e \in Event, authQueue' = Append(authQueue, e), e.kind = "login", e.id = i, at = "ended"
          PROVE  <1>8!1 /\ <1>8!2
      BY <1>1, <2>2, Appended
    <2> QED BY <1>7, <2>1, <2>2
  <1>9. SignInTypes'
    BY <1>2, <1>5, <1>6, <1>8 DEF SignInInv, SignInTypes, Auth!InUse
  <1>10. LoginInv'
    BY <1>2, <1>4, <1>6, <1>8 DEF SignInInv, LoginInv
  <1>11. PendingInv'
    BY <1>2, <1>8 DEF SignInInv, PendingInv, Auth!At, Auth!Open
  <1>12. Auth!SignedInIsStored' /\ Auth!ListIsOwn'
    BY <1>2, <1>5 DEF SignInInv, SignInKept, Auth!SignedInIsStored, Auth!ListIsOwn, Auth!At, Auth!Open
  <1>13. Auth!LoginsAreWanted'
    BY <1>2, <1>6 DEF SignInInv, SignInKept, Auth!LoginsAreWanted, Auth!At, Auth!Open
  <1> QED BY <1>9, <1>10, <1>11, <1>12, <1>13 DEF SignInInv, SignInKept

\* A fetch answers the modal that waits for it, if it still does.
LEMMA FetchReportsKeeps ==
  ASSUME SignInInv, NEW f \in fetching, Auth!FetchReports(f)
  PROVE  SignInInv'
  <1>1. SignInTypes /\ f.id \in Nat /\ f.provider \in Provider \cup {None}
    BY DEF SignInInv, SignInTypes
  <1>2. PICK ok \in BOOLEAN :
          authQueue' = Append(authQueue, [kind |-> "models", provider |-> f.provider, id |-> f.id, ok |-> ok])
    BY DEF Auth!FetchReports
  <1> DEFINE e == [kind |-> "models", provider |-> f.provider, id |-> f.id, ok |-> ok]
  <1>3. e \in Event /\ e.kind = "models" /\ e.provider = f.provider
    BY <1>1 DEF Event
  <1>4. authQueue' = Append(authQueue, e)
    BY <1>2
  <1> HIDE DEF e
  <1>5. fetching' = fetching \ {f} /\ UNCHANGED <<modal, login, store, fetches, refused, stale, left, loose>>
    BY DEF Auth!FetchReports
  <1>6. /\ authQueue' \in Seq(Event)
        /\ DOMAIN authQueue' = DOMAIN authQueue \cup {Len(authQueue) + 1}
        /\ Len(authQueue) + 1 \notin DOMAIN authQueue
        /\ authQueue'[Len(authQueue) + 1] = e
        /\ \A k \in DOMAIN authQueue : authQueue'[k] = authQueue[k]
    BY <1>1, <1>3, <1>4, Appended
  <1>7. SignInTypes'
    BY <1>5, <1>6 DEF SignInInv, SignInTypes, Auth!InUse
  <1>8. LoginInv'
    BY <1>3, <1>5, <1>6 DEF SignInInv, LoginInv
  <1>9. PendingInv'
    <2> SUFFICES ASSUME ~left, ~stale PROVE PendingInv'
      BY <1>5 DEF PendingInv
    <2>1. \A k \in DOMAIN authQueue : authQueue[k].kind # "models"
      BY DEF SignInInv, PendingInv
    <2>2. \A k \in DOMAIN authQueue' : authQueue'[k].kind = "models" => k = Len(authQueue) + 1
      BY <1>6, <2>1
    <2>3. \A g \in fetching : g = f
      <3>1. \A g \in fetching : g.id = f.id /\ g.provider = f.provider
        BY DEF SignInInv, PendingInv
      <3>2. \A g \in fetching : g \in [id : 1 .. fetches, provider : Provider \cup {None}]
        BY <1>1 DEF SignInTypes
      <3> QED BY <3>1, <3>2
    <2>4. fetching' = {}
      BY <1>5, <2>3
    <2>5. Auth!At("loading") /\ modal.busy /\ f.provider = modal.provider
      BY DEF SignInInv, PendingInv
    <2> QED BY <1>3, <1>5, <1>6, <2>2, <2>4, <2>5 DEF PendingInv, Auth!At, Auth!Open
  <1>10. SignInKept'
    BY <1>5 DEF SignInInv, SignInKept, Auth!SignedInIsStored, Auth!ListIsOwn, Auth!LoginsAreWanted, Auth!At, Auth!Open
  <1> QED BY <1>7, <1>8, <1>9, <1>10 DEF SignInInv

\* The modal as a step shows it, and with the flag of the fetch changed.
LEMMA ModalIs ==
  ASSUME SignInTypes
  PROVE  /\ \A s \in Auth!Steps : \A p \in Provider \cup {None} :
              /\ Auth!Step(s, p) \in Auth!Modal /\ Auth!Step(s, p) # None
              /\ Auth!Step(s, p).step = s /\ Auth!Step(s, p).provider = p /\ Auth!Step(s, p).login = 0
         /\ modal # None =>
              /\ modal \in Auth!Modal
              /\ \A b \in BOOLEAN :
                   /\ [modal EXCEPT !.busy = b] \in Auth!Modal /\ [modal EXCEPT !.busy = b] # None
                   /\ [modal EXCEPT !.busy = b].step = modal.step
                   /\ [modal EXCEPT !.busy = b].provider = modal.provider
                   /\ [modal EXCEPT !.busy = b].login = modal.login
                   /\ [modal EXCEPT !.busy = b].list = modal.list
                   /\ [modal EXCEPT !.busy = b].busy = b
              /\ \A s \in Auth!Steps : \A l \in Provider \cup {None} :
                   /\ Auth!Answered(s, l) \in Auth!Modal /\ Auth!Answered(s, l) # None
                   /\ Auth!Answered(s, l).step = s /\ Auth!Answered(s, l).provider = modal.provider
                   /\ Auth!Answered(s, l).login = 0 /\ Auth!Answered(s, l).list = l
  <1>1. 0 \in 0 .. MaxThreads /\ None \notin Auth!Modal
    BY SignInAssumption
  <1>2. ASSUME NEW s \in Auth!Steps, NEW p \in Provider \cup {None}
        PROVE  /\ Auth!Step(s, p) \in Auth!Modal
               /\ Auth!Step(s, p).step = s /\ Auth!Step(s, p).provider = p /\ Auth!Step(s, p).login = 0
    <2>1. (IF modal = None THEN FALSE ELSE modal.busy) \in BOOLEAN
      BY DEF SignInTypes, Auth!Modal
    <2> QED BY <1>1, <2>1 DEF Auth!Step, Auth!Modal
  <1>3. ASSUME modal # None PROVE modal \in Auth!Modal
    BY <1>3 DEF SignInTypes
  <1>4. ASSUME modal # None, NEW b \in BOOLEAN
        PROVE  /\ [modal EXCEPT !.busy = b] \in Auth!Modal
               /\ [modal EXCEPT !.busy = b].step = modal.step
               /\ [modal EXCEPT !.busy = b].provider = modal.provider
               /\ [modal EXCEPT !.busy = b].login = modal.login
               /\ [modal EXCEPT !.busy = b].list = modal.list
               /\ [modal EXCEPT !.busy = b].busy = b
    BY <1>3, <1>4 DEF Auth!Modal
  <1>5. ASSUME modal # None, NEW s \in Auth!Steps, NEW l \in Provider \cup {None}
        PROVE  /\ Auth!Answered(s, l) \in Auth!Modal
               /\ Auth!Answered(s, l).step = s /\ Auth!Answered(s, l).provider = modal.provider
               /\ Auth!Answered(s, l).login = 0 /\ Auth!Answered(s, l).list = l
    <2>1. modal.provider \in Provider \cup {None}
      BY <1>3, <1>5 DEF Auth!Modal
    <2> QED BY <1>1, <1>5, <2>1 DEF Auth!Answered, Auth!Modal
  <1>6. \A m \in Auth!Modal : m # None
    BY <1>1
  <1>7. \A s \in Auth!Steps : \A p \in Provider \cup {None} : Auth!Step(s, p) # None
    BY <1>2, <1>6
  <1>8. modal # None => \A b \in BOOLEAN : [modal EXCEPT !.busy = b] # None
    BY <1>4, <1>6
  <1>9. modal # None => \A s \in Auth!Steps : \A l \in Provider \cup {None} : Auth!Answered(s, l) # None
    BY <1>5, <1>6
  <1> QED BY <1>2, <1>3, <1>4, <1>5, <1>7, <1>8, <1>9

\* The names of the steps.
LEMMA StepNames ==
  {"provider", "method", "url", "key", "wait", "loading", "models", "success", "error"} = Auth!Steps
  BY DEF Auth!Steps

\* The queue without its first event.
LEMMA Shorter ==
  ASSUME SignInTypes, authQueue # << >>
  PROVE  /\ Head(authQueue) \in Event /\ Tail(authQueue) \in Seq(Event)
         /\ 1 \in DOMAIN authQueue /\ authQueue[1] = Head(authQueue)
         /\ \A k \in DOMAIN Tail(authQueue) :
              k + 1 \in DOMAIN authQueue /\ k + 1 # 1 /\ Tail(authQueue)[k] = authQueue[k + 1]
         /\ DOMAIN Tail(authQueue) \subseteq Nat
  <1> DEFINE q == authQueue
  <1>1. q \in Seq(Event) /\ q # << >>
    BY DEF SignInTypes
  <1> HIDE DEF q
  <1>2. /\ Head(q) \in Event /\ Tail(q) \in Seq(Event) /\ Head(q) = q[1] /\ Len(Tail(q)) = Len(q) - 1
        /\ \A k \in 1 .. Len(Tail(q)) : Tail(q)[k] = q[k + 1]
    BY <1>1, HeadTailProperties
  <1>3. DOMAIN q = 1 .. Len(q) /\ Len(q) \in Nat /\ Len(q) > 0
    BY <1>1
  <1>4. DOMAIN Tail(q) = 1 .. (Len(q) - 1)
    BY <1>2, <1>3
  <1> QED BY <1>2, <1>3, <1>4 DEF q

\* The UI thread takes an event, and gives it to the modal that is open now.
LEMMA AuthDrainsKeeps ==
  ASSUME SignInInv, Auth!Drains
  PROVE  SignInInv'
  <1> DEFINE e == Head(authQueue)
  <1>1. /\ authQueue # << >> /\ authQueue' = Tail(authQueue)
        /\ \/ e.kind = "login" /\ Auth!Completed(e)
           \/ e.kind = "models" /\ modal' = (IF Auth!Open THEN Auth!Listed(e) ELSE modal)
              /\ UNCHANGED <<store, refused, stale>>
        /\ UNCHANGED <<login, fetching, fetches, left, loose>>
    BY DEF Auth!Drains
  <1>2. SignInTypes
    BY DEF SignInInv
  <1>3. /\ e \in Event /\ authQueue' \in Seq(Event)
        /\ 1 \in DOMAIN authQueue /\ authQueue[1] = e
        /\ \A k \in DOMAIN authQueue' :
             k + 1 \in DOMAIN authQueue /\ k + 1 # 1 /\ authQueue'[k] = authQueue[k + 1]
        /\ DOMAIN authQueue' \subseteq Nat
    BY <1>1, <1>2, Shorter
  <1>4. e.provider \in Provider \cup {None} /\ e.ok \in BOOLEAN
    BY <1>3 DEF Event
  <1> HIDE DEF e
  <1>5. \A k \in DOMAIN authQueue' : authQueue'[k].kind = "login" =>
          authQueue'[k].id \in DOMAIN login' /\ login'[authQueue'[k].id].at = "ended"
    BY <1>1, <1>3 DEF SignInInv, LoginInv
  <1>6. CASE e.kind = "login" /\ ~Auth!Open
    <2>1. UNCHANGED <<modal, store, refused, stale>>
      BY <1>1, <1>6 DEF Auth!Completed
    <2>2. SignInTypes' /\ LoginInv'
      BY <1>1, <1>2, <1>3, <1>5, <2>1 DEF SignInInv, SignInTypes, LoginInv, Auth!InUse
    <2>3. PendingInv'
      <3> SUFFICES ASSUME ~left, ~stale PROVE PendingInv'
        BY <1>1, <2>1 DEF PendingInv
      <3>1. fetching = {} /\ \A k \in DOMAIN authQueue : authQueue[k].kind # "models"
        BY <1>6 DEF SignInInv, PendingInv, Auth!At
      <3> QED BY <1>1, <1>3, <3>1 DEF PendingInv
    <2>4. SignInKept'
      BY <1>1, <2>1 DEF SignInInv, SignInKept, Auth!SignedInIsStored, Auth!ListIsOwn, Auth!LoginsAreWanted, Auth!At, Auth!Open
    <2> QED BY <2>2, <2>3, <2>4 DEF SignInInv
  <1>7. CASE e.kind = "login" /\ Auth!Open
    <2>1. /\ modal # None
          /\ stale' = (stale \/ ~(Auth!At("wait") /\ modal.login = e.id))
          /\ \/ modal' = Auth!Step("loading", e.provider) /\ Auth!Write(e.provider)
             \/ modal' = Auth!Step("error", modal.provider) /\ UNCHANGED <<store, refused>>
      BY <1>1, <1>7 DEF Auth!Completed, Auth!Open
    <2>2. modal.provider \in Provider \cup {None}
      BY <1>2, <2>1 DEF SignInTypes, Auth!Modal
    <2>3. /\ modal' \in Auth!Modal /\ modal' # None /\ modal'.login = 0
          /\ modal'.step # "error" => modal'.step = "loading" /\ modal'.provider = e.provider
      BY <1>2, <1>4, <2>1, <2>2, ModalIs, StepNames
    <2>4. /\ store' \subseteq Provider \cup {None} /\ refused' \subseteq Provider \cup {None}
          /\ modal'.step = "loading" => e.provider \in store' \cup refused'
      <3>1. CASE Auth!Write(e.provider)
        BY <1>2, <1>4, <3>1, WriteIs
      <3>2. CASE modal' = Auth!Step("error", modal.provider) /\ UNCHANGED <<store, refused>>
        BY <1>2, <2>2, <3>2, ModalIs, StepNames DEF SignInTypes
      <3> QED BY <2>1, <3>1, <3>2
    <2>5. stale' \in BOOLEAN /\ (~stale' => ~stale /\ Auth!At("wait") /\ modal.login = e.id)
      BY <1>2, <2>1 DEF SignInTypes
    <2>6. SignInTypes'
      BY <1>1, <1>2, <1>3, <2>3, <2>4, <2>5 DEF SignInTypes, Auth!InUse
    <2>7. LoginInv'
      <3>1. 0 <= Len(login)
        BY <1>2 DEF SignInTypes
      <3> QED BY <1>1, <1>5, <2>3, <3>1 DEF LoginInv
    <2>8. PendingInv'
      <3> SUFFICES ASSUME ~left, ~stale' PROVE PendingInv'
        BY <1>1 DEF PendingInv
      <3>1. fetching = {} /\ \A k \in DOMAIN authQueue : authQueue[k].kind # "models"
        BY <2>5 DEF SignInInv, PendingInv, Auth!At
      <3> QED BY <1>1, <1>3, <3>1 DEF PendingInv
    <2>9. Auth!SignedInIsStored' /\ Auth!ListIsOwn'
      BY <2>3, <2>4 DEF Auth!SignedInIsStored, Auth!ListIsOwn, Auth!At, Auth!Open
    <2>10. Auth!LoginsAreWanted'
      <3> SUFFICES ASSUME NEW i \in DOMAIN login, login[i].at = "waits", ~stale', ~loose PROVE login[i].told
        BY <1>1 DEF Auth!LoginsAreWanted
      <3>1. login[e.id].at = "ended"
        BY <1>3, <1>7 DEF SignInInv, LoginInv
      <3> QED BY <2>5, <3>1 DEF SignInInv, SignInKept, Auth!LoginsAreWanted
    <2> QED BY <2>6, <2>7, <2>8, <2>9, <2>10 DEF SignInInv, SignInKept
  <1>8. CASE e.kind = "models"
    <2>1. UNCHANGED <<store, refused, stale>> /\ modal' = (IF modal # None THEN Auth!Listed(e) ELSE modal)
      BY <1>1, <1>8 DEF Auth!Open
    <2>2. ASSUME ~left, ~stale
          PROVE  /\ Auth!At("loading") /\ e.provider = modal.provider /\ fetching = {}
                 /\ \A k \in DOMAIN authQueue' : authQueue'[k].kind # "models"
      <3>1. /\ Auth!At("loading") /\ e.provider = modal.provider /\ fetching = {}
            /\ \A j \in DOMAIN authQueue : authQueue[j].kind = "models" => j = 1
        BY <1>3, <1>8, <2>2 DEF SignInInv, PendingInv
      <3> QED BY <1>3, <3>1
    <2>3. PendingInv'
      BY <1>1, <2>1, <2>2 DEF PendingInv
    <2>4. modal = None => modal' = None
      BY <2>1
    <2>5. modal # None =>
            /\ modal' \in Auth!Modal /\ modal' # None /\ modal'.provider = modal.provider
            /\ \/ modal.step # "loading" /\ modal'.step = modal.step /\ modal'.login = modal.login /\ modal'.list = modal.list
               \/ modal.step = "loading" /\ modal'.step = "models" /\ modal'.login = 0 /\ modal'.list = e.provider
               \/ modal.step = "loading" /\ modal'.step = "error" /\ modal'.login = 0
      <3>1. ASSUME modal # None, modal.step # "loading"
            PROVE  modal' = [modal EXCEPT !.busy = FALSE]
        BY <2>1, <3>1 DEF Auth!Listed, Auth!At
      <3>2. ASSUME modal # None, modal.step = "loading"
            PROVE  modal' = Auth!Answered("models", e.provider) \/ modal' = Auth!Answered("error", None)
        BY <2>1, <3>2 DEF Auth!Listed, Auth!At, Auth!Open
      <3>3. ASSUME modal # None, modal.step # "loading" PROVE <2>5!2
        BY <1>2, <3>1, <3>3, ModalIs
      <3>4. ASSUME modal # None, modal.step = "loading" PROVE <2>5!2
        BY <1>2, <1>4, <3>2, <3>4, ModalIs, StepNames
      <3> QED BY <3>3, <3>4
    <2>6. SignInTypes'
      BY <1>1, <1>2, <1>3, <2>1, <2>4, <2>5 DEF SignInTypes, Auth!InUse
    <2>7. LoginInv'
      <3>1. 0 <= Len(login)
        BY <1>2 DEF SignInTypes
      <3> QED BY <1>1, <1>5, <2>4, <2>5, <3>1 DEF SignInInv, LoginInv
    <2>8. Auth!SignedInIsStored'
      BY <2>1, <2>4, <2>5 DEF SignInInv, SignInKept, Auth!SignedInIsStored, Auth!Open
    <2>9. Auth!ListIsOwn'
      <3> SUFFICES ASSUME ~left, ~stale, modal' # None, modal'.step = "models" PROVE modal'.list = modal'.provider
        BY <1>1, <2>1 DEF Auth!ListIsOwn, Auth!At, Auth!Open
      <3> QED BY <2>2, <2>4, <2>5 DEF Auth!At, Auth!Open
    <2>10. Auth!LoginsAreWanted'
      BY <1>1, <2>1, <2>4, <2>5 DEF SignInInv, SignInKept, Auth!LoginsAreWanted, Auth!At, Auth!Open
    <2> QED BY <2>3, <2>6, <2>7, <2>8, <2>9, <2>10 DEF SignInInv, SignInKept
  <1> QED BY <1>1, <1>6, <1>7, <1>8

\* A frame starts a fetch for a modal that waits for models and has none.
LEMMA DrawsKeeps ==
  ASSUME SignInInv, Auth!Draws
  PROVE  SignInInv'
  <1>1. SignInTypes /\ UNCHANGED <<login, authQueue, store, refused, stale, left, loose>>
    BY DEF SignInInv, Auth!Draws
  <1>2. LoginInv' <=> (modal' # None => modal'.login <= Len(login))
    BY <1>1 DEF SignInInv, LoginInv
  <1>3. CASE /\ Auth!At("loading") /\ ~modal.busy /\ Auth!InUse < MaxThreads
             /\ modal' = [modal EXCEPT !.busy = TRUE]
             /\ fetching' = fetching \cup {Auth!Fetch(modal.provider)}
             /\ fetches' = fetches + 1
    <2>1. modal # None /\ modal.step = "loading"
      BY <1>3 DEF Auth!At, Auth!Open
    <2>2. /\ modal' \in Auth!Modal /\ modal' # None
          /\ modal'.step = modal.step /\ modal'.provider = modal.provider
          /\ modal'.login = modal.login /\ modal'.list = modal.list /\ modal'.busy
      BY <1>1, <1>3, <2>1, ModalIs
    <2>3. modal.provider \in Provider \cup {None}
      BY <1>1, <2>1 DEF SignInTypes, Auth!Modal
    <2> DEFINE f == Auth!Fetch(modal.provider)
    <2>4. f.id = fetches + 1 /\ f.provider = modal.provider /\ fetches \in Nat
      BY <1>1 DEF Auth!Fetch, SignInTypes
    <2>5. fetching' \subseteq [id : 1 .. fetches', provider : Provider \cup {None}]
      <3>1. f \in [id : 1 .. fetches', provider : Provider \cup {None}]
        BY <1>3, <2>3, <2>4 DEF Auth!Fetch
      <3>2. \A g \in fetching : g \in [id : 1 .. fetches', provider : Provider \cup {None}]
        BY <1>1, <1>3, <2>4 DEF SignInTypes
      <3> HIDE DEF f
      <3> QED BY <1>3, <3>1, <3>2 DEF f
    <2>6. Auth!InUse' <= MaxThreads
      <3>1. Len(login) \in Nat /\ MaxThreads \in Nat
        BY <1>1, SignInAssumption DEF SignInTypes
      <3> QED BY <1>1, <1>3, <2>4, <3>1 DEF Auth!InUse
    <2>7. SignInTypes'
      BY <1>1, <1>3, <2>2, <2>4, <2>5, <2>6 DEF SignInTypes
    <2>8. PendingInv'
      <3> SUFFICES ASSUME ~left, ~stale PROVE PendingInv'
        BY <1>1 DEF PendingInv
      <3>1. fetching = {} /\ \A k \in DOMAIN authQueue : authQueue[k].kind # "models"
        BY <1>3 DEF SignInInv, PendingInv
      <3>2. \A g \in fetching' : g.id = fetches' /\ g.provider = modal'.provider
        BY <1>3, <2>2, <2>4, <3>1
      <3>3. Auth!At("loading")' /\ modal'.busy
        BY <2>1, <2>2 DEF Auth!At, Auth!Open
      <3>4. \A k \in DOMAIN authQueue' : authQueue'[k].kind # "models"
        BY <1>1, <3>1
      <3> QED BY <3>2, <3>3, <3>4 DEF PendingInv, Auth!At, Auth!Open
    <2>9. LoginInv'
      BY <1>2, <2>1, <2>2 DEF SignInInv, LoginInv
    <2>10. SignInKept'
      BY <1>1, <2>1, <2>2 DEF SignInInv, SignInKept, Auth!SignedInIsStored, Auth!ListIsOwn,
                              Auth!LoginsAreWanted, Auth!At, Auth!Open
    <2> QED BY <2>7, <2>8, <2>9, <2>10 DEF SignInInv
  <1>4. CASE /\ Auth!At("loading") => modal.busy
             /\ modal' = IF Auth!Open /\ ~Auth!At("loading") THEN [modal EXCEPT !.busy = FALSE] ELSE modal
             /\ UNCHANGED <<fetching, fetches>>
    <2>1. CASE modal' = modal
      <3>1. SignInTypes'
        BY <1>1, <1>4, <2>1 DEF SignInTypes, Auth!InUse
      <3>2. LoginInv'
        BY <1>2, <2>1 DEF SignInInv, LoginInv
      <3>3. PendingInv'
        BY <1>1, <1>4, <2>1 DEF SignInInv, PendingInv, Auth!At, Auth!Open
      <3>4. SignInKept'
        BY <1>1, <2>1 DEF SignInInv, SignInKept, Auth!SignedInIsStored, Auth!ListIsOwn,
                          Auth!LoginsAreWanted, Auth!At, Auth!Open
      <3> QED BY <3>1, <3>2, <3>3, <3>4 DEF SignInInv
    <2>2. CASE modal # None /\ modal.step # "loading" /\ modal' = [modal EXCEPT !.busy = FALSE]
      <3>1. /\ modal' \in Auth!Modal /\ modal' # None
            /\ modal'.step = modal.step /\ modal'.provider = modal.provider
            /\ modal'.login = modal.login /\ modal'.list = modal.list
        BY <1>1, <2>2, ModalIs
      <3>2. SignInTypes'
        BY <1>1, <1>4, <3>1 DEF SignInTypes, Auth!InUse
      <3>3. PendingInv'
        <4> SUFFICES ASSUME ~left, ~stale PROVE PendingInv'
          BY <1>1 DEF PendingInv
        <4>1. fetching = {} /\ \A k \in DOMAIN authQueue : authQueue[k].kind # "models"
          BY <2>2 DEF SignInInv, PendingInv, Auth!At
        <4> QED BY <1>1, <1>4, <4>1 DEF PendingInv
      <3>4. LoginInv'
        BY <1>2, <2>2, <3>1 DEF SignInInv, LoginInv
      <3>5. SignInKept'
        BY <1>1, <2>2, <3>1 DEF SignInInv, SignInKept, Auth!SignedInIsStored, Auth!ListIsOwn,
                                Auth!LoginsAreWanted, Auth!At, Auth!Open
      <3> QED BY <3>2, <3>3, <3>4, <3>5 DEF SignInInv
    <2> QED BY <1>4, <2>1, <2>2 DEF Auth!At, Auth!Open
  <1> QED BY <1>3, <1>4 DEF Auth!Draws

\* A key that starts no login enters a step, unless it leaves one that has a login.
LEMMA EntersKeeps ==
  ASSUME SignInInv,
         UNCHANGED <<login, fetching, authQueue, fetches, stale>>,
         modal' \in Auth!Modal \cup {None},
         store' \subseteq Provider \cup {None}, refused' \subseteq Provider \cup {None},
         left' \in BOOLEAN, loose' \in BOOLEAN, left => left', loose => loose',
         Auth!At("loading") => left',
         Auth!At("wait") => modal.login = 0,
         modal' # None => /\ modal'.login = 0 /\ modal'.step # "models"
                          /\ modal'.step \in {"loading", "success"} => modal'.provider \in store' \cup refused'
  PROVE  SignInInv'
  <1>1. SignInTypes /\ SignInTypes' /\ Len(login) \in Nat /\ DOMAIN login = 1 .. Len(login)
    BY DEF SignInInv, SignInTypes, Auth!InUse
  <1>2. LoginInv'
    BY <1>1 DEF SignInInv, LoginInv
  <1>3. PendingInv'
    BY DEF SignInInv, PendingInv
  <1>4. Auth!SignedInIsStored' /\ Auth!ListIsOwn'
    BY DEF Auth!SignedInIsStored, Auth!ListIsOwn, Auth!At, Auth!Open
  <1>5. Auth!LoginsAreWanted'
    BY <1>1 DEF SignInInv, SignInKept, Auth!LoginsAreWanted
  <1> QED BY <1>1, <1>2, <1>3, <1>4, <1>5 DEF SignInInv, SignInKept

\* A key that starts a login waits for it, or dismisses the modal it was for.
LEMMA StartsKeeps ==
  ASSUME SignInInv, NEW p \in Provider \cup {None}, Auth!Starts(p),
         UNCHANGED <<fetching, authQueue, fetches, stale, store, refused, left>>,
         loose' \in BOOLEAN, loose => loose',
         ~Auth!At("loading"),
         Auth!At("wait") => modal.login = 0,
         modal' = Auth!WaitsFor(p) \/ (modal' = None /\ loose')
  PROVE  SignInInv'
  <1> DEFINE r == [provider |-> p, at |-> "waits", told |-> FALSE]
             q == login
  <1>1. SignInTypes /\ q \in Seq(Login) /\ r \in Login /\ login' = Append(q, r)
    BY DEF SignInInv, SignInTypes, Login, Auth!Starts, Auth!Spawned
  <1>2. r.at = "waits"
    OBVIOUS
  <1>3. Auth!InUse < MaxThreads /\ fetches \in Nat /\ MaxThreads \in Nat
    BY SignInAssumption DEF SignInInv, SignInTypes, Auth!Starts
  <1> HIDE DEF r, q
  <1>4. /\ Append(q, r) \in Seq(Login) /\ Len(Append(q, r)) = Len(q) + 1
        /\ \A k \in 1 .. Len(q) : Append(q, r)[k] = q[k]
        /\ Append(q, r)[Len(q) + 1] = r
    BY <1>1, AppendProperties
  <1>5. /\ Len(q) \in Nat /\ DOMAIN q = 1 .. Len(q)
        /\ DOMAIN Append(q, r) = 1 .. (Len(q) + 1)
    BY <1>1, <1>4
  <1>6. /\ login' \in Seq(Login) /\ Len(login') = Len(login) + 1
        /\ DOMAIN login = 1 .. Len(login) /\ Len(login) \in Nat
        /\ DOMAIN login' = 1 .. (Len(login) + 1)
        /\ \A k \in DOMAIN login : login'[k] = login[k]
    BY <1>1, <1>4, <1>5 DEF q
  <1>7. Auth!InUse' <= MaxThreads /\ Len(login) + 1 \in 0 .. MaxThreads
    BY <1>3, <1>6 DEF Auth!InUse
  <1>8. ASSUME modal' # None
        PROVE  /\ modal' \in Auth!Modal /\ modal'.step = "wait" /\ modal'.login = Len(login) + 1
    <2>1. Auth!Step("wait", p) \in Auth!Modal /\ Auth!Step("wait", p).step = "wait"
      <3>1. "wait" \in Auth!Steps
        BY StepNames
      <3> QED BY <1>1, <3>1, ModalIs
    <2> DEFINE m == Auth!Step("wait", p)
    <2>2. m \in Auth!Modal /\ m.step = "wait" /\ modal' = [m EXCEPT !.login = Len(login) + 1]
      BY <1>8, <2>1 DEF Auth!WaitsFor
    <2> HIDE DEF m
    <2> QED BY <1>7, <2>2 DEF Auth!Modal
  <1>9. SignInTypes'
    BY <1>1, <1>6, <1>7, <1>8 DEF SignInTypes
  <1>10. LoginInv'
    <2>1. \A k \in DOMAIN authQueue : authQueue[k].kind = "login" =>
            /\ authQueue[k].id \in DOMAIN login /\ login[authQueue[k].id].at = "ended"
      BY DEF SignInInv, LoginInv
    <2>2. \A k \in DOMAIN login : k \in DOMAIN login'
      BY <1>6
    <2>3. modal' # None => modal'.login <= Len(login')
      BY <1>6, <1>8
    <2> QED BY <1>6, <2>1, <2>2, <2>3 DEF LoginInv
  <1>11. PendingInv'
    BY DEF SignInInv, PendingInv
  <1>12. Auth!SignedInIsStored' /\ Auth!ListIsOwn'
    BY <1>8 DEF Auth!SignedInIsStored, Auth!ListIsOwn, Auth!At, Auth!Open
  <1>13. Auth!LoginsAreWanted'
    <2> SUFFICES ASSUME NEW i \in DOMAIN login', login'[i].at = "waits", ~stale, ~loose'
                 PROVE  login'[i].told \/ (modal' # None /\ modal'.step = "wait" /\ modal'.login = i)
      BY DEF Auth!LoginsAreWanted, Auth!At, Auth!Open
    <2>1. CASE i = Len(login) + 1
      <3>1. modal' # None
        <4>1. modal' = Auth!WaitsFor(p)
          OBVIOUS
        <4>2. Auth!WaitsFor(p) \in Auth!Modal
          <5>1. Auth!Step("wait", p) \in Auth!Modal
            BY <1>1, ModalIs, StepNames
          <5> DEFINE m == Auth!Step("wait", p)
          <5>2. m \in Auth!Modal /\ Auth!WaitsFor(p) = [m EXCEPT !.login = Len(login) + 1]
            BY <5>1 DEF Auth!WaitsFor
          <5> HIDE DEF m
          <5> QED BY <1>7, <5>2 DEF Auth!Modal
        <4> QED BY <4>1, <4>2, SignInAssumption
      <3> QED BY <1>8, <2>1, <3>1
    <2>2. CASE i # Len(login) + 1
      <3>1. i \in DOMAIN login /\ i # 0
        BY <1>6, <2>2
      <3>2. login[i].at = "waits" /\ login'[i].told = login[i].told
        BY <1>6, <3>1
      <3> QED BY <3>1, <3>2 DEF SignInInv, SignInKept, Auth!LoginsAreWanted
    <2> QED BY <2>1, <2>2
  <1> QED BY <1>9, <1>10, <1>11, <1>12, <1>13 DEF SignInInv, SignInKept

\* The same for a key that enters a step by its name.
LEMMA StepEntered ==
  ASSUME SignInInv, Auth!Key, UNCHANGED login,
         NEW s \in Auth!Steps \ {"models"}, NEW p \in Provider \cup {None},
         modal' = Auth!Step(s, p),
         store' \subseteq Provider \cup {None}, refused' \subseteq Provider \cup {None},
         s \in {"loading", "success"} => p \in store' \cup refused',
         left' = (left \/ Auth!At("loading")) \/ (left' = left /\ ~Auth!At("loading")),
         loose' = loose,
         Auth!At("wait") => modal.login = 0
  PROVE  SignInInv'
  <1>1. SignInTypes /\ left' \in BOOLEAN /\ loose' \in BOOLEAN
    BY DEF SignInInv, SignInTypes
  <1>2. modal' \in Auth!Modal /\ modal'.login = 0 /\ modal'.step = s /\ modal'.provider = p
    BY <1>1, ModalIs
  <1>3. UNCHANGED <<login, fetching, authQueue, fetches, stale>>
    BY DEF Auth!Key
  <1>4. (left => left') /\ (Auth!At("loading") => left')
    BY <1>1
  <1> QED BY <1>1, <1>2, <1>3, <1>4, EntersKeeps

\* What a key can find: the provider of the modal, and the store as it is.
LEMMA KeyFinds ==
  ASSUME SignInInv
  PROVE  /\ SignInTypes
         /\ store \subseteq Provider \cup {None} /\ refused \subseteq Provider \cup {None}
         /\ left \in BOOLEAN /\ loose \in BOOLEAN
         /\ modal # None => modal.provider \in Provider \cup {None}
         /\ Auth!At("models") \/ Auth!At("loading") \/ Auth!At("success")
              => modal.provider \in store \cup refused
         /\ \A s \in Auth!Steps : Auth!At(s) => modal # None /\ modal.step = s
         /\ \A s \in Auth!Steps : \A t \in Auth!Steps : Auth!At(s) /\ Auth!At(t) => s = t
  <1>1. SignInTypes /\ Auth!SignedInIsStored
    BY DEF SignInInv, SignInKept
  <1>2. modal # None => modal.provider \in Provider \cup {None}
    BY <1>1 DEF SignInTypes, Auth!Modal
  <1> QED BY <1>1, <1>2 DEF SignInTypes, Auth!SignedInIsStored, Auth!At, Auth!Open

\* /auth, and a model whose provider is not signed in, open the modal.
LEMMA OpensKeep ==
  ASSUME SignInInv, NEW p \in Provider \cup {None}, Auth!AuthCommand(p) \/ Auth!ModelPicked(p)
  PROVE  SignInInv'
  <1>1. /\ modal = None /\ Auth!Key
        /\ UNCHANGED <<store, refused, loose, left>>
        /\ UNCHANGED <<fetching, authQueue, fetches, stale>>
    BY DEF Auth!AuthCommand, Auth!ModelPicked, Auth!Opens, Auth!Open, Auth!Key
  <1>2. ~Auth!At("loading") /\ ~Auth!At("wait")
    BY <1>1 DEF Auth!At, Auth!Open
  <1>3. ASSUME UNCHANGED login, NEW s \in {"provider", "key", "url", "wait"}, NEW q \in Provider \cup {None},
               modal' = Auth!Step(s, q)
        PROVE  SignInInv'
    <2>1. s \in Auth!Steps \ {"models"} /\ s \notin {"loading", "success"}
      BY <1>3, StepNames
    <2> QED BY <1>1, <1>2, <1>3, <2>1, KeyFinds, StepEntered
  <1>4. CASE Auth!ModelPicked(p)
    <2>1. /\ UNCHANGED login
          /\ \E s \in {"provider", "key", "url", "wait"} : \E q \in {p, None} : modal' = Auth!Step(s, q)
      <3>1. CASE p \in {"anthropic", "openai", "other"}
        BY <1>4, <3>1 DEF Auth!ModelPicked
      <3>2. CASE p \notin {"anthropic", "openai", "other"}
        BY <1>4, <3>2 DEF Auth!ModelPicked
      <3> QED BY <3>1, <3>2
    <2> QED BY <1>3, <2>1
  <1>5. CASE Auth!AuthCommand(p)
    <2>1. p \in Auth!Known \/ p = None
      BY SignInAssumption
    <2>2. None \notin Auth!Known
      BY SignInAssumption
    <2>3. CASE p = "anthropic"
      <3>1. modal' = Auth!WaitsFor(p) /\ Auth!Starts(p)
        BY <1>5, <2>2, <2>3 DEF Auth!AuthCommand, Auth!Known
      <3> QED BY <1>1, <1>2, <3>1, KeyFinds, StartsKeeps
    <2>4. CASE p # "anthropic"
      <3>1. /\ UNCHANGED login
            /\ \E s \in {"provider", "key", "url", "wait"} : \E q \in {p, None} : modal' = Auth!Step(s, q)
        <4>1. CASE p = None
          BY <1>5, <2>2, <4>1 DEF Auth!AuthCommand, Auth!Known
        <4>2. CASE p # None
          <5>1. p \in {"openai", "other", "preset", "copilot"} /\ p # None
            BY <2>1, <2>4, <4>2 DEF Auth!Known
          <5>2. CASE p = "openai"
            BY <1>5, <5>1, <5>2 DEF Auth!AuthCommand
          <5>3. CASE p = "other"
            BY <1>5, <5>1, <5>3 DEF Auth!AuthCommand
          <5>4. CASE p = "preset"
            BY <1>5, <5>1, <5>4 DEF Auth!AuthCommand
          <5>5. CASE p = "copilot"
            BY <1>5, <5>1, <5>5 DEF Auth!AuthCommand
          <5> QED BY <5>1, <5>2, <5>3, <5>4, <5>5
        <4> QED BY <4>1, <4>2
      <3> QED BY <1>3, <3>1
    <2> QED BY <2>3, <2>4
  <1> QED BY <1>4, <1>5

\* Keys that enter the next step or the one before, and write the credentials.
LEMMA EntersKeep ==
  ASSUME SignInInv,
         \/ \E p \in Provider : Auth!ProviderChosen(p)
         \/ Auth!UrlEntered \/ Auth!KeyEntered \/ Auth!ModelChosen \/ Auth!Back
  PROVE  SignInInv'
  <1>1. Auth!Key
    BY DEF Auth!ProviderChosen, Auth!UrlEntered, Auth!KeyEntered, Auth!ModelChosen, Auth!Back
  <1>2. ASSUME NEW s \in {"provider", "method", "key", "url"}, NEW p \in Provider \cup {None},
               Auth!Goes(Auth!Step(s, p)), ~Auth!At("loading"), ~Auth!At("wait")
        PROVE  SignInInv'
    <2>1. s \in Auth!Steps \ {"models"} /\ s \notin {"loading", "success"}
      BY <1>2, StepNames
    <2>2. modal' = Auth!Step(s, p) /\ UNCHANGED <<login, store, refused, left, loose>>
      BY <1>2 DEF Auth!Goes, Auth!Settled
    <2> QED BY <1>1, <1>2, <2>1, <2>2, KeyFinds, StepEntered
  <1>3. ASSUME NEW p \in Provider, Auth!ProviderChosen(p) PROVE SignInInv'
    <2>1. ~Auth!At("loading") /\ ~Auth!At("wait")
      BY <1>3 DEF Auth!ProviderChosen, Auth!At
    <2>2. \E s \in {"provider", "method", "key", "url"} : Auth!Goes(Auth!Step(s, p))
      <3>1. CASE p \in Auth!Browser
        BY <1>3, <3>1 DEF Auth!ProviderChosen
      <3>2. CASE p = "other"
        <4>1. p \notin Auth!Browser
          BY <3>2 DEF Auth!Browser
        <4> QED BY <1>3, <3>2, <4>1 DEF Auth!ProviderChosen
      <3>3. CASE p \notin Auth!Browser /\ p # "other"
        BY <1>3, <3>3 DEF Auth!ProviderChosen
      <3> QED BY <3>1, <3>2, <3>3
    <2> QED BY <1>2, <2>1, <2>2
  <1>4. ASSUME Auth!At("models"), Auth!Goes(Auth!Step("success", modal.provider)) PROVE SignInInv'
    <2>1. modal' = Auth!Step("success", modal.provider) /\ UNCHANGED <<login, store, refused, left, loose>>
      BY <1>4 DEF Auth!Goes, Auth!Settled
    <2>2. "success" \in Auth!Steps \ {"models"} /\ ~Auth!At("loading") /\ ~Auth!At("wait")
      BY <1>4, StepNames DEF Auth!At
    <2>3. modal.provider \in Provider \cup {None} /\ modal.provider \in store' \cup refused'
      BY <1>4, <2>1, KeyFinds
    <2> QED BY <1>1, <2>1, <2>2, <2>3, KeyFinds, StepEntered
  <1>5. CASE Auth!UrlEntered
    <2>1. ~Auth!At("loading") /\ ~Auth!At("wait") /\ modal # None
      BY <1>5 DEF Auth!UrlEntered, Auth!At, Auth!Open
    <2>2. /\ modal' = [Auth!Step("key", modal.provider) EXCEPT !.base = TRUE]
          /\ UNCHANGED <<login, store, refused, left, loose>>
          /\ UNCHANGED <<fetching, authQueue, fetches, stale>>
      BY <1>5 DEF Auth!UrlEntered, Auth!Goes, Auth!Settled, Auth!Key
    <2> DEFINE m == Auth!Step("key", modal.provider)
    <2>3. m \in Auth!Modal /\ m.step = "key" /\ m.login = 0
      <3>1. "key" \in Auth!Steps /\ modal.provider \in Provider \cup {None} /\ SignInTypes
        BY <2>1, KeyFinds, StepNames
      <3> QED BY <3>1, ModalIs
    <2>4. modal' = [m EXCEPT !.base = TRUE]
      BY <2>2
    <2> HIDE DEF m
    <2>5. modal' \in Auth!Modal /\ modal'.step = "key" /\ modal'.login = 0
      BY <2>3, <2>4 DEF Auth!Modal
    <2> QED BY <2>1, <2>2, <2>5, KeyFinds, EntersKeeps
  <1>6. CASE Auth!KeyEntered
    <2>1. ~Auth!At("loading") /\ ~Auth!At("wait") /\ modal # None
      BY <1>6 DEF Auth!KeyEntered, Auth!At, Auth!Open
    <2>2. /\ Auth!Write(modal.provider) /\ UNCHANGED <<login, left, loose>>
          /\ \E s \in {"success", "loading"} : modal' = Auth!Step(s, modal.provider)
      BY <1>6 DEF Auth!KeyEntered
    <2>3. /\ store' \subseteq Provider \cup {None} /\ refused' \subseteq Provider \cup {None}
          /\ modal.provider \in store' \cup refused' /\ modal.provider \in Provider \cup {None}
      BY <2>1, <2>2, KeyFinds, WriteIs
    <2>4. {"success", "loading"} \subseteq Auth!Steps \ {"models"}
      BY StepNames
    <2> QED BY <1>1, <2>1, <2>2, <2>3, <2>4, KeyFinds, StepEntered
  <1>7. CASE Auth!ModelChosen
    BY <1>4, <1>7 DEF Auth!ModelChosen
  <1>8. CASE Auth!Back
    <2>1. CASE Auth!At("loading")
      <3>1. modal' = Auth!Step("success", modal.provider) /\ left' = TRUE /\ UNCHANGED <<login, store, refused, loose>>
        BY <1>8, <2>1 DEF Auth!Back, Auth!At
      <3>2. "success" \in Auth!Steps \ {"models"} /\ ~Auth!At("wait")
        BY <2>1, StepNames DEF Auth!At
      <3>3. modal.provider \in Provider \cup {None} /\ modal.provider \in store' \cup refused'
        BY <2>1, <3>1, KeyFinds DEF Auth!At, Auth!Open
      <3> QED BY <1>1, <2>1, <3>1, <3>2, <3>3, KeyFinds, StepEntered
    <2>2. CASE Auth!At("models")
      BY <1>4, <1>8, <2>2 DEF Auth!Back, Auth!At
    <2>3. CASE ~Auth!At("loading") /\ ~Auth!At("models")
      <3>1. /\ ~Auth!At("wait") /\ modal # None
            /\ \E s \in {"provider", "method", "key", "url"} : \E p \in {modal.provider, None} :
                 Auth!Goes(Auth!Step(s, p))
        <4>1. CASE Auth!At("key")
          <5>1. Auth!Goes(CASE modal.provider = "other" \/ modal.base -> Auth!Step("url", modal.provider)
                  [] modal.provider \in Auth!Browser             -> Auth!Step("method", modal.provider)
                  [] OTHER                                  -> Auth!Step("provider", None))
            BY <1>8, <4>1 DEF Auth!Back, Auth!At
          <5>2. modal.provider = "other" => modal.provider \notin Auth!Browser
            BY DEF Auth!Browser
          <5>3. CASE modal.provider \in Auth!Browser /\ modal.base
            BY <4>1, <5>1, <5>3 DEF Auth!At, Auth!Open
          <5>4. CASE modal.provider \in Auth!Browser /\ ~modal.base
            BY <4>1, <5>1, <5>2, <5>4 DEF Auth!At, Auth!Open
          <5>5. CASE modal.provider \notin Auth!Browser
            BY <4>1, <5>1, <5>5 DEF Auth!At, Auth!Open
          <5> QED BY <5>3, <5>4, <5>5
        <4>2. CASE ~Auth!At("key")
          BY <1>8, <2>3, <4>2 DEF Auth!Back, Auth!At, Auth!Open
        <4> QED BY <4>1, <4>2
      <3> QED BY <1>2, <2>3, <3>1, KeyFinds
    <2> QED BY <2>1, <2>2, <2>3
  <1> QED BY <1>3, <1>5, <1>6, <1>7, <1>8

\* Keys that start a login.
LEMMA StartsKeep ==
  ASSUME SignInInv, Auth!MethodChosen \/ Auth!WaitKey
  PROVE  SignInInv'
  <1>1. Auth!Key /\ modal # None /\ UNCHANGED <<store, refused, left, loose>>
    BY DEF Auth!MethodChosen, Auth!WaitKey, Auth!At, Auth!Open, Auth!Goes, Auth!Settled
  <1>2. modal.provider \in Provider \cup {None} /\ ~Auth!At("loading")
    BY <1>1, KeyFinds DEF Auth!MethodChosen, Auth!WaitKey, Auth!At
  <1>3. UNCHANGED <<fetching, authQueue, fetches, stale>>
    BY <1>1 DEF Auth!Key
  <1>4. Auth!At("wait") => modal.login = 0
    BY DEF Auth!MethodChosen, Auth!WaitKey, Auth!At
  <1>5. CASE modal' = Auth!WaitsFor(modal.provider) /\ Auth!Starts(modal.provider)
    BY <1>1, <1>2, <1>3, <1>4, <1>5, KeyFinds, StartsKeeps
  <1>6. CASE Auth!At("method") /\ Auth!Goes(Auth!Step("key", modal.provider))
    <2>1. modal' = Auth!Step("key", modal.provider) /\ UNCHANGED login
      BY <1>6 DEF Auth!Goes, Auth!Settled
    <2>2. "key" \in Auth!Steps \ {"models"} /\ "key" \notin {"loading", "success"}
      BY StepNames
    <2> QED BY <1>1, <1>2, <1>4, <2>1, <2>2, KeyFinds, StepEntered
  <1> QED BY <1>5, <1>6 DEF Auth!MethodChosen, Auth!WaitKey

\* A modal that goes tells its login to stop, or leaves one behind that it never knew.
LEMMA LeavesKeeps ==
  ASSUME SignInInv, Auth!Dismiss \/ Auth!Succeeds
  PROVE  SignInInv'
  <1>1. /\ modal # None /\ modal' = None /\ UNCHANGED <<store, refused, left, fetching, authQueue, fetches, stale>>
        /\ ~Auth!At("loading")
    BY DEF Auth!Dismiss, Auth!Succeeds, Auth!Key, Auth!At, Auth!Open
  <1>2. SignInTypes /\ modal.provider \in Provider \cup {None}
    BY <1>1, KeyFinds
  <1>3. CASE ~Auth!At("wait")
    <2>1. UNCHANGED <<login, loose>>
      BY <1>3 DEF Auth!Dismiss, Auth!Succeeds
    <2> QED BY <1>1, <1>3, <2>1, KeyFinds, EntersKeeps
  <1>4. CASE Auth!At("wait") /\ modal.login = 0 /\ modal.provider \in Auth!Browser
    <2>1. Auth!Starts(modal.provider) /\ loose' = TRUE
      BY <1>4 DEF Auth!Dismiss, Auth!Succeeds, Auth!At
    <2> QED BY <1>1, <1>2, <1>4, <2>1, StartsKeeps
  <1>5. CASE Auth!At("wait") /\ modal.login = 0 /\ modal.provider \notin Auth!Browser
    <2>1. UNCHANGED <<login, loose>>
      BY <1>5 DEF Auth!Dismiss, Auth!Succeeds, Auth!ToldToStop, Auth!At
    <2> QED BY <1>1, <1>5, <2>1, KeyFinds, EntersKeeps
  <1>6. CASE Auth!At("wait") /\ modal.login # 0
    <2> DEFINE i == modal.login
               r == Auth!Told(i)
    <2>1. login' = [login EXCEPT ![i] = r] /\ UNCHANGED loose
      BY <1>6 DEF Auth!Dismiss, Auth!Succeeds, Auth!ToldToStop, Auth!At
    <2>2. i \in DOMAIN login /\ login[i] \in Login
      <3>1. i \in Nat /\ i <= Len(login)
        BY <1>1, <1>2, SignInAssumption DEF SignInInv, SignInTypes, LoginInv, Auth!Modal
      <3> QED BY <1>2, <1>6, <3>1 DEF SignInTypes
    <2>3. r \in Login /\ r.at = login[i].at /\ r.told
      BY <2>2 DEF Auth!Told, Login
    <2> HIDE DEF i, r
    <2>4. /\ login' \in Seq(Login) /\ Len(login') = Len(login) /\ DOMAIN login' = DOMAIN login
          /\ \A k \in DOMAIN login : login'[k] = IF k = i THEN r ELSE login[k]
      BY <1>2, <2>1, <2>2, <2>3, Relogged
    <2>5. SignInTypes'
      BY <1>1, <1>2, <2>1, <2>4 DEF SignInTypes, Auth!InUse
    <2>6. LoginInv'
      BY <1>1, <2>3, <2>4 DEF SignInInv, LoginInv
    <2>7. PendingInv'
      BY <1>1 DEF SignInInv, PendingInv
    <2>8. Auth!SignedInIsStored' /\ Auth!ListIsOwn'
      BY <1>1 DEF Auth!SignedInIsStored, Auth!ListIsOwn, Auth!At, Auth!Open
    <2>9. Auth!LoginsAreWanted'
      BY <1>1, <2>1, <2>3, <2>4 DEF SignInInv, SignInKept, Auth!LoginsAreWanted, Auth!At, Auth!Open, i
    <2> QED BY <2>5, <2>6, <2>7, <2>8, <2>9 DEF SignInInv, SignInKept
  <1> QED BY <1>3, <1>4, <1>5, <1>6

\* Signing in: a modal that says it is signed in speaks of credentials that are
\* stored or were refused, the models it offers are those of its provider, and
\* no login that nobody wants goes on unseen (Completed, finish_model_loading,
\* the cancel sender), however threads, events and keys interleave.
THEOREM SigningInIsKept == BothSpec => []SignInKept
  <1>1. BothInit => SignInInv
    <2> SUFFICES ASSUME BothInit PROVE SignInInv
      OBVIOUS
    <2>1. /\ modal = None /\ login = << >> /\ fetching = {} /\ authQueue = << >>
          /\ store = {} /\ fetches = 0 /\ refused = {}
          /\ stale = FALSE /\ left = FALSE /\ loose = FALSE
      BY DEF BothInit, Auth!Init
    <2>2. login \in Seq(Login) /\ authQueue \in Seq(Event) /\ Len(login) = 0
      BY <2>1
    <2>3. SignInTypes
      <3>1. Auth!InUse <= MaxThreads
        BY <2>1, <2>2, SignInAssumption DEF Auth!InUse
      <3>2. login \in Seq(Login) /\ authQueue \in Seq(Event)
        BY <2>2
      <3>3. /\ modal \in Auth!Modal \cup {None} /\ fetches \in Nat
            /\ fetching \subseteq [id : 1 .. fetches, provider : Provider \cup {None}]
            /\ store \subseteq Provider \cup {None} /\ refused \subseteq Provider \cup {None}
            /\ stale \in BOOLEAN /\ left \in BOOLEAN /\ loose \in BOOLEAN
        BY <2>1
      <3> QED BY <3>1, <3>2, <3>3 DEF SignInTypes
    <2>4. DOMAIN login = {} /\ DOMAIN authQueue = {}
      BY <2>1
    <2>5. LoginInv /\ PendingInv
      BY <2>1, <2>4 DEF LoginInv, PendingInv
    <2>6. SignInKept
      BY <2>1, <2>4 DEF SignInKept, Auth!SignedInIsStored, Auth!ListIsOwn, Auth!LoginsAreWanted, Auth!At, Auth!Open
    <2> QED BY <2>3, <2>5, <2>6 DEF SignInInv
  <1>2. SignInInv /\ UNCHANGED <<modal, login, fetching, authQueue, store, fetches, refused, stale, left, loose>> => SignInInv'
    <2> SUFFICES ASSUME SignInInv,
                        UNCHANGED <<modal, login, fetching, authQueue, store, fetches, refused, stale, left, loose>>
                 PROVE  SignInInv'
      OBVIOUS
    <2>1. SignInTypes' /\ LoginInv'
      BY DEF SignInInv, SignInTypes, LoginInv, Auth!InUse
    <2>2. PendingInv'
      BY DEF SignInInv, PendingInv, Auth!At, Auth!Open
    <2>3. SignInKept'
      BY DEF SignInInv, SignInKept, Auth!SignedInIsStored, Auth!ListIsOwn, Auth!LoginsAreWanted, Auth!At, Auth!Open
    <2> QED BY <2>1, <2>2, <2>3 DEF SignInInv
  <1>3. SignInInv /\ Auth!Keys => SignInInv'
    <2> SUFFICES ASSUME SignInInv, Auth!Keys PROVE SignInInv'
      OBVIOUS
    <2>1. CASE Auth!NoKey
      BY <1>2, <2>1 DEF Auth!NoKey, Auth!Key, Auth!Goes, Auth!Settled
    <2>2. ASSUME NEW p \in Provider \cup {None}, Auth!AuthCommand(p) \/ Auth!ModelPicked(p) PROVE SignInInv'
      BY <2>2, OpensKeep
    <2> QED BY <2>1, <2>2, EntersKeep, StartsKeep, LeavesKeeps DEF Auth!Keys
  <1>4. SignInInv /\ Auth!Next => SignInInv'
    BY <1>3, ThreadSteps, FetchReportsKeeps, AuthDrainsKeeps, DrawsKeeps DEF Auth!Next
  <1>5. SignInInv /\ [BothNext]_<<part, vars, tree, auth, mode>> => SignInInv'
    BY <1>2, <1>4 DEF BothNext, auth
  <1>6. SignInInv => SignInKept
    BY DEF SignInInv
  <1> QED BY <1>1, <1>5, <1>6, PTL DEF BothSpec
=============================================================================
