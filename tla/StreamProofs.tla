---------------------------- MODULE StreamProofs ----------------------------
(***************************************************************************)
(* The answer of a model arrives whole (ModelStream): theorem of the       *)
(* stream that MCUnits runs, for any number of calls, any length of their  *)
(* arguments and of the prose, and each format of the providers.           *)
(***************************************************************************)
EXTENDS UnitsProofs

-----------------------------------------------------------------------------
(* The stream of an answer: h is what the reader holds, x the translator    *)
(* of the format, s and p what the provider has sent of the calls and of   *)
(* the prose.                                                               *)

\* Types
Fragment == 1 .. MaxProse

\* What the translator may use as a key of a call
CallKey == Call \cup {Stream!ByCall(c) : c \in Call} \cup {Stream!ByItem(c) : c \in Call}
CallBlock == [call : Call, args : Seq(Nat)]
ReaderEvent ==
  [kind : {"text", "reasoning"}, parts : SUBSET Fragment]
    \cup [kind : {"call"}, call : Call, args : Seq(Nat)] \cup [kind : {"stop"}]
Heard(h) ==
  /\ h \in [pending : {h.pending}, thinking : {None} \cup SUBSET Fragment, events : Seq(ReaderEvent), stopped : BOOLEAN]
  /\ h.pending \in [DOMAIN h.pending -> CallBlock]
Translator(x) ==
  /\ x \in [next : Nat, text : Nat \cup {None}, think : Nat \cup {None},
            active : {x.active}, given : SUBSET CallKey, client : {x.client}]
  /\ x.active \in [DOMAIN x.active -> Nat] /\ DOMAIN x.active \subseteq CallKey
  /\ Heard(x.client) /\ DOMAIN x.client.pending \subseteq 0 .. x.next - 1
CallStatus == {"unsent", "open", "seeded", "given", "done", "cut"}
CallSent == [parts : Nat, again : Nat, is : CallStatus]
At(n, m, is) == [parts |-> n, again |-> m, is |-> is]
Sent(s) == s \in [Call -> CallSent]
Told(p) == p \in [text : 0 .. MaxProse, think : 0 .. MaxProse]

UnderWay == {"open", "seeded", "given"}
Live(s) == {c \in Call : s[c].is \in UnderWay}
\* Each call under way is pending, with the arguments told so far, and each
\* one closed is an event.
Ledger(h, s) ==
  /\ \A i \in DOMAIN h.pending :
       /\ h.pending[i].call \in Live(s)
       /\ h.pending[i].args = Stream!Arguments(s[h.pending[i].call])
       /\ \A j \in DOMAIN h.pending : h.pending[j].call = h.pending[i].call => j = i
  /\ \A c \in Live(s) : \E i \in DOMAIN h.pending : h.pending[i].call = c
  /\ \A k \in DOMAIN h.events : h.events[k].kind = "call" =>
       /\ s[h.events[k].call].is \in Stream!Closed
       /\ h.events[k].args = Stream!Arguments(s[h.events[k].call])
       /\ \A j \in DOMAIN h.events :
            h.events[j].kind = "call" /\ h.events[j].call = h.events[k].call => j = k
  /\ \A c \in Call : s[c].is \in Stream!Closed =>
       \E k \in DOMAIN h.events : h.events[k].kind = "call" /\ h.events[k].call = c
  /\ \A c \in Call : s[c].is = "unsent" => s[c] = At(0, 0, "unsent")

\* The first n fragments of a kind are in the events, but for those that wait.
Sorted(h, kind, n, held) ==
  /\ held \subseteq 1 .. n
  /\ \A m \in 1 .. n : m \in held \/ \E k \in DOMAIN h.events : h.events[k].kind = kind /\ m \in h.events[k].parts
  /\ \A k \in DOMAIN h.events : h.events[k].kind = kind =>
       /\ h.events[k].parts \subseteq 1 .. n
       /\ \A a \in h.events[k].parts : \A b \in held : a < b
       /\ \A j \in DOMAIN h.events : h.events[j].kind = kind /\ k < j =>
            \A a \in h.events[k].parts, b \in h.events[j].parts : a < b
Waiting(h) == IF h.thinking = None THEN {} ELSE h.thinking
Fragmented(h, p) == Sorted(h, "text", p.text, {}) /\ Sorted(h, "reasoning", p.think, Waiting(h))

\* The last event is the end of the message, once there is one.
Endless(h) == ~h.stopped /\ \A k \in DOMAIN h.events : h.events[k].kind # "stop"
Over(h) ==
  /\ h.stopped /\ h.thinking = None /\ h.events # <<>>
  /\ \A k \in DOMAIN h.events : h.events[k].kind = "stop" <=> k = Len(h.events)

\* The blocks of prose that are open
Blocks(x) ==
  /\ x.text # None => x.text < x.next /\ x.text \notin DOMAIN x.client.pending
  /\ x.think # None => x.think < x.next /\ x.think \notin DOMAIN x.client.pending
  /\ x.think # None <=> x.client.thinking # None

Chat(x, s) ==
  /\ DOMAIN x.active = {c \in Call : s[c].is = "open"} /\ \A c \in Call : s[c].is \in {"unsent", "open"}
  /\ \A c \in DOMAIN x.active : x.active[c] \in DOMAIN x.client.pending /\ x.client.pending[x.active[c]].call = c

CallNames(c) == {Stream!ByCall(c), Stream!ByItem(c)}
\* What is remembered of a call's deltas, under these names: that there were some, but
\* not the arguments of its announcement.
Recalls(given, names, w) ==
  /\ w.is = "open" => w.again = 0 /\ (w.parts > 0 <=> names \cap given # {})
  /\ w.is = "seeded" => w.again = 0 /\ w.parts > 0 /\ names \cap given = {}
Responses(x, s) ==
  /\ x.think = None /\ (x.text # None => x.text = x.next - 1 /\ Live(s) = {})
  /\ DOMAIN x.active = UNION {CallNames(c) : c \in Live(s)}
  /\ \A c \in Live(s) : \A k \in CallNames(c) :
       x.active[k] \in DOMAIN x.client.pending /\ x.client.pending[x.active[k]].call = c
  /\ x.given \subseteq DOMAIN x.active
  /\ \A c \in Call : Recalls(x.given, CallNames(c), s[c])

Gemini(x, s) == x.think = None /\ Live(s) = {}

Anthropic(x, s, p) ==
  /\ x.think = None /\ p.think = 0 /\ \A c \in Call : s[c].is \notin {"seeded", "given"}
  /\ DOMAIN x.client.pending \subseteq {x.next - 1}
  /\ Live(s) # {} => x.text = None

\* What the translators know of the calls and the blocks, format by format
ByFormat ==
  /\ api = "chat" => Chat(state, provided)
  /\ api = "responses" => Responses(state, provided)
  /\ api = "gemini" => Gemini(state, provided)
  /\ api = "anthropic" => Anthropic(state, provided, prose)

\* The inductive invariant: it holds before the end of the answer, where the calls under
\* way are pending, the closed ones are events, and no fragment is lost or out of order.
StreamInv ==
  /\ api \in Stream!Api /\ phase \in {"asking", "streaming", "again", "ended"} /\ tries \in Nat
  /\ finished \in BOOLEAN /\ received \in {"none", "ok", "error"}
  /\ Sent(provided) /\ Told(prose) /\ Translator(state)
  /\ phase # "ended" =>
       /\ received = "none" /\ Ledger(Stream!client, provided) /\ Fragmented(Stream!client, prose)
       /\ api = "anthropic" => prose.think = 0
       /\ finished => Over(Stream!client)
       /\ phase \in {"asking", "streaming"} /\ ~finished =>
            Endless(Stream!client) /\ Blocks(state) /\ ByFormat
       /\ phase = "again" => ~finished /\ api = "anthropic"
  /\ Stream!CallsAreWhole /\ Stream!MessageDelivered

\* An instance counts as everybody does.
LEMMA StreamCounts == \A S : Stream!Cardinality(S) = Cardinality(S)
  BY DEF Stream!Cardinality, Cardinality

\* The members of a finite set of numbers, each once
LEMMA AscendingIs ==
  ASSUME NEW is \in SUBSET Nat, IsFiniteSet(is)
  PROVE  /\ Stream!Cardinality(is) \in Nat /\ Stream!Ascending(is) \in [1 .. Stream!Cardinality(is) -> is]
         /\ \A i \in is : \E k \in 1 .. Stream!Cardinality(is) : Stream!Ascending(is)[k] = i
         /\ \A j, k \in 1 .. Stream!Cardinality(is) : Stream!Ascending(is)[j] = Stream!Ascending(is)[k] => j = k
  <1> DEFINE n == Stream!Cardinality(is)
             Below(i) == {j \in is : j < i}
             R == [i \in is |-> Stream!Cardinality(Below(i)) + 1]
  <1>1. n \in Nat
    BY FS_CardinalityType, StreamCounts
  <1>2. \A i \in is : IsFiniteSet(Below(i)) /\ Stream!Cardinality(Below(i)) \in 0 .. n - 1
    <2> TAKE i \in is
    <2>1. IsFiniteSet(Below(i)) /\ Stream!Cardinality(Below(i)) <= n /\ Stream!Cardinality(Below(i)) # n
      <3>1. Below(i) \in SUBSET is /\ Below(i) # is
        OBVIOUS
      <3> QED BY <3>1, FS_Subset, StreamCounts
    <2>2. Stream!Cardinality(Below(i)) \in Nat
      BY <2>1, FS_CardinalityType, StreamCounts
    <2> QED BY <1>1, <2>1, <2>2
  <1>3. \A i, j \in is : i < j => R[i] < R[j]
    <2> TAKE i, j \in is
    <2> HAVE i < j
    <2>1. Below(i) \in SUBSET Below(j) /\ i \in Below(j) /\ i \notin Below(i)
      <3>1. i \in Nat /\ j \in Nat /\ \A k \in is : k \in Nat
        OBVIOUS
      <3>2. \A k \in is : k < i => k < j
        BY <3>1
      <3>3. ~(i < i)
        BY <3>1
      <3> QED BY <3>2, <3>3
    <2> HIDE DEF Below
    <2>2. Stream!Cardinality(Below(i)) <= Stream!Cardinality(Below(j)) /\ Stream!Cardinality(Below(i)) # Stream!Cardinality(Below(j))
      BY <1>2, <2>1, FS_Subset, StreamCounts
    <2> QED BY <1>1, <1>2, <2>2
  <1>4. R \in Injection(is, 1 .. n)
    <2>1. R \in [is -> 1 .. n]
      BY <1>1, <1>2
    <2>2. \A i, j \in is : R[i] = R[j] => i = j
      BY <1>1, <1>2, <1>3
    <2> HIDE DEF R, n
    <2> QED BY <2>1, <2>2 DEF Injection, IsInjective
  <1>5. \A k \in 1 .. n : \E i \in is : R[i] = k
    <2>1. IsFiniteSet(1 .. n) /\ Stream!Cardinality(1 .. n) = n
      BY <1>1, FS_Interval, StreamCounts
    <2>2. R \in Surjection(is, 1 .. n)
      BY <1>4, <2>1, FS_Injection, StreamCounts
    <2> HIDE DEF R, n
    <2> QED BY <2>2 DEF Surjection
  <1>6. \A k \in 1 .. n : Stream!Ascending(is)[k] \in is /\ R[Stream!Ascending(is)[k]] = k
    <2> TAKE k \in 1 .. n
    <2>1. \E i \in is : Stream!Cardinality(Below(i)) = k - 1
      <3>1. PICK i \in is : R[i] = k
        BY <1>5
      <3>2. Stream!Cardinality(Below(i)) + 1 = k /\ Stream!Cardinality(Below(i)) \in Nat
        BY <1>1, <1>2, <3>1
      <3> HIDE DEF Below
      <3> QED BY <3>2
    <2>2. Stream!Ascending(is)[k] = CHOOSE i \in is : Stream!Cardinality(Below(i)) = k - 1
      BY DEF Stream!Ascending
    <2> HIDE DEF Below
    <2>3. Stream!Ascending(is)[k] \in is /\ Stream!Cardinality(Below(Stream!Ascending(is)[k])) = k - 1
      BY <2>1, <2>2
    <2> QED BY <1>1, <2>3
  <1>7. Stream!Ascending(is) \in [1 .. n -> is]
    BY <1>6 DEF Stream!Ascending
  <1>8. \A i \in is : R[i] \in 1 .. n /\ Stream!Ascending(is)[R[i]] = i
    <2> HIDE DEF R, n
    <2>1. \A i \in is : R[i] \in 1 .. n
      BY <1>4 DEF Injection
    <2> QED BY <1>4, <1>6, <2>1 DEF Injection, IsInjective
  <1> HIDE DEF R
  <1> QED BY <1>1, <1>6, <1>7, <1>8

\* The events of g are those of h and more, of these kinds.
Grows(h, g, kinds) ==
  /\ Len(h.events) <= Len(g.events)
  /\ \A k \in 1 .. Len(h.events) : g.events[k] = h.events[k]
  /\ \A k \in Len(h.events) + 1 .. Len(g.events) : g.events[k].kind \in kinds

\* Events of other kinds leave the fragments of a kind in order,
LEMMA SortedGrows ==
  ASSUME NEW h, NEW g, NEW kinds, Heard(h), Heard(g), Grows(h, g, kinds),
         NEW kind, kind \notin kinds, NEW n \in Nat, NEW w, Sorted(h, kind, n, w)
  PROVE  Sorted(g, kind, n, w)
  <1>1. /\ Len(h.events) \in Nat /\ Len(g.events) \in Nat
        /\ DOMAIN h.events = 1 .. Len(h.events) /\ DOMAIN g.events = 1 .. Len(g.events)
    BY DEF Heard
  <1>2. \A k \in DOMAIN g.events : g.events[k].kind = kind => k \in DOMAIN h.events /\ h.events[k] = g.events[k]
    BY <1>1 DEF Grows
  <1>3. \A k \in DOMAIN h.events : k \in DOMAIN g.events /\ h.events[k] = g.events[k]
    BY <1>1 DEF Grows
  <1> QED BY <1>2, <1>3 DEF Sorted

\* and those that are not the end leave the message open.
LEMMA EndlessGrows ==
  ASSUME NEW h, NEW g, NEW kinds, Heard(h), Heard(g), Grows(h, g, kinds),
         "stop" \notin kinds, ~g.stopped, Endless(h)
  PROVE  Endless(g)
  BY DEF Heard, Grows, Endless

\* One more event, with the fragments that wait and those that are new
LEMMA SortedAdds ==
  ASSUME NEW h, NEW g, Heard(h), Heard(g), NEW kind, NEW n \in Nat, NEW m \in Nat, n <= m, NEW w,
         Sorted(h, kind, n, w), g.events = Append(h.events, [kind |-> kind, parts |-> w \cup (n + 1 .. m)])
  PROVE  Sorted(g, kind, m, {})
  <1> DEFINE e == [kind |-> kind, parts |-> w \cup (n + 1 .. m)]
             l == Len(h.events)
  <1>1. /\ l \in Nat /\ DOMAIN h.events = 1 .. l /\ DOMAIN g.events = 1 .. l + 1
        /\ \A k \in 1 .. l : g.events[k] = h.events[k]
        /\ g.events[l + 1] = e
    BY DEF Heard
  <1>2. e.kind = kind /\ e.parts = w \cup (n + 1 .. m) /\ e.parts \subseteq 1 .. m
    BY DEF Sorted
  <1>3. \A a \in 1 .. m : \E k \in DOMAIN g.events : g.events[k].kind = kind /\ a \in g.events[k].parts
    <2> TAKE a \in 1 .. m
    <2>1. CASE a \in w \cup (n + 1 .. m)
      <3>1. l + 1 \in DOMAIN g.events
        BY <1>1
      <3> QED BY <1>1, <1>2, <2>1, <3>1
    <2>2. CASE a \notin w /\ a \in 1 .. n
      BY <1>1, <2>2 DEF Sorted
    <2> QED BY <2>1, <2>2
  <1>4. ASSUME NEW k \in 1 .. l, h.events[k].kind = kind
        PROVE  /\ h.events[k].parts \subseteq 1 .. m
               /\ \A a \in h.events[k].parts, b \in e.parts : a < b
    BY <1>1, <1>2, <1>4 DEF Sorted
  <1>5. ASSUME NEW k \in DOMAIN g.events, g.events[k].kind = kind
        PROVE  /\ g.events[k].parts \subseteq 1 .. m
               /\ \A j \in DOMAIN g.events : g.events[j].kind = kind /\ k < j =>
                    \A a \in g.events[k].parts, b \in g.events[j].parts : a < b
    <2>1. CASE k = l + 1
      BY <1>1, <1>2, <2>1
    <2>2. CASE k \in 1 .. l
      <3>1. h.events[k].kind = kind /\ g.events[k] = h.events[k]
        BY <1>1, <1>5, <2>2
      <3>2. ASSUME NEW j \in DOMAIN g.events, g.events[j].kind = kind, k < j
            PROVE  \A a \in g.events[k].parts, b \in g.events[j].parts : a < b
        <4>1. CASE j = l + 1
          BY <1>1, <1>4, <2>2, <3>1, <4>1
        <4>2. CASE j \in 1 .. l
          BY <1>1, <2>2, <3>1, <3>2, <4>2 DEF Sorted
        <4> QED BY <1>1, <4>1, <4>2
      <3> QED BY <1>4, <2>2, <3>1, <3>2
    <2> QED BY <1>1, <2>1, <2>2
  <1> HIDE DEF e, l
  <1> QED BY <1>3, <1>5 DEF Sorted

\* One more fragment that waits
LEMMA SortedWaits ==
  ASSUME NEW h, NEW g, g.events = h.events, NEW kind, NEW n \in Nat, NEW w, Sorted(h, kind, n, w)
  PROVE  Sorted(g, kind, n + 1, w \cup {n + 1})
  BY DEF Sorted
-----------------------------------------------------------------------------
(* Blocks that are closed *)

\* The calls of the closed blocks are appended, each once, and no other is.
LEMMA StoppedCallsAre ==
  ASSUME NEW h, Heard(h), NEW n \in Nat, DOMAIN h.pending \subseteq 0 .. n - 1, NEW is
  PROVE  LET g == Stream!StoppedCalls(h, is)
             P == is \cap DOMAIN h.pending
             l == Len(h.events)
         IN  /\ Heard(g) /\ g.thinking = h.thinking /\ g.stopped = h.stopped
             /\ DOMAIN g.pending = DOMAIN h.pending \ is
             /\ \A i \in DOMAIN g.pending : g.pending[i] = h.pending[i]
             /\ Grows(h, g, {"call"})
             /\ \E f \in [l + 1 .. Len(g.events) -> P] :
                  /\ \A k \in l + 1 .. Len(g.events) : g.events[k] = Stream!CallEvent(h.pending[f[k]])
                  /\ \A i \in P : \E k \in l + 1 .. Len(g.events) : f[k] = i
                  /\ \A j, k \in l + 1 .. Len(g.events) : f[j] = f[k] => j = k
  <1> DEFINE g == Stream!StoppedCalls(h, is)
             P == is \cap DOMAIN h.pending
             l == Len(h.events)
             a == Stream!Ascending(P)
             m == Stream!Cardinality(P)
             new == [k \in DOMAIN a |-> Stream!CallEvent(h.pending[a[k]])]
  <1>1. P \in SUBSET Nat /\ IsFiniteSet(P)
    <2>1. IsFiniteSet(0 .. n - 1) /\ P \in SUBSET (0 .. n - 1)
      BY FS_Interval
    <2>2. IsFiniteSet(P)
      BY <2>1, FS_Subset
    <2> QED BY <2>1, <2>2
  <1>2. /\ m \in Nat /\ a \in [1 .. m -> P]
        /\ \A i \in P : \E k \in 1 .. m : a[k] = i
        /\ \A j, k \in 1 .. m : a[j] = a[k] => j = k
    <2> HIDE DEF P
    <2> QED BY <1>1, AscendingIs
  <1>3. /\ DOMAIN new = 1 .. m /\ \A k \in 1 .. m : new[k] = Stream!CallEvent(h.pending[a[k]])
        /\ \A k \in 1 .. m : new[k] \in ReaderEvent /\ new[k].kind = "call"
    <2> HIDE DEF m, a
    <2>1. \A k \in 1 .. m : h.pending[a[k]] \in CallBlock
      BY <1>2 DEF Heard
    <2> QED BY <1>2, <2>1 DEF ReaderEvent, CallBlock, Stream!CallEvent
  <1>4. new \in Seq(ReaderEvent) /\ Len(new) = m
    <2>1. new \in [1 .. m -> ReaderEvent]
      <3> HIDE DEF new, m, a
      <3>1. new = [k \in DOMAIN new |-> new[k]]
        BY DEF new
      <3> QED BY <1>2, <1>3, <3>1
    <2> HIDE DEF new, m, a
    <2> QED BY <1>2, <2>1
  <1>5. g = [h EXCEPT !.events = h.events \o new, !.pending = Stream!Less(h.pending, is)]
    BY DEF Stream!StoppedCalls
  <1>6. /\ g.events = h.events \o new /\ g.pending = Stream!Less(h.pending, is)
        /\ g.thinking = h.thinking /\ g.stopped = h.stopped
        /\ g \in [pending : {g.pending}, thinking : {h.thinking}, events : {h.events \o new}, stopped : {h.stopped}]
    <2> HIDE DEF new, g
    <2> QED BY <1>5 DEF Heard
  <1>7. /\ l \in Nat /\ g.events \in Seq(ReaderEvent) /\ Len(g.events) = l + m
        /\ \A k \in 1 .. l : g.events[k] = h.events[k]
        /\ \A k \in l + 1 .. l + m : g.events[k] = new[k - l]
    <2> HIDE DEF new, g, m
    <2> QED BY <1>2, <1>4, <1>6 DEF Heard
  <1>8. DOMAIN g.pending = DOMAIN h.pending \ is /\ \A i \in DOMAIN g.pending : g.pending[i] = h.pending[i]
    <2> HIDE DEF g
    <2> QED BY <1>6 DEF Stream!Less
  <1>9. Heard(g)
    <2> HIDE DEF g, new
    <2>1. g.pending \in [DOMAIN g.pending -> CallBlock]
      BY <1>6, <1>8 DEF Stream!Less, Heard
    <2>2. g.thinking \in {None} \cup SUBSET Fragment /\ g.stopped \in BOOLEAN
      BY <1>6 DEF Heard
    <2> QED BY <1>6, <1>7, <2>1, <2>2 DEF Heard
  <1>10. \A k \in l + 1 .. l + m : k - l \in 1 .. m
    BY <1>2, <1>7
  <1>11. Grows(h, g, {"call"})
    <2> HIDE DEF g, new, m, a
    <2>1. \A k \in l + 1 .. l + m : g.events[k].kind = "call"
      BY <1>3, <1>7, <1>10
    <2> QED BY <1>2, <1>7, <2>1 DEF Grows
  <1> DEFINE f == [k \in l + 1 .. l + m |-> a[k - l]]
  <1>12. f \in [l + 1 .. Len(g.events) -> P]
    <2> HIDE DEF g, new, m, a, P
    <2> QED BY <1>2, <1>7, <1>10
  <1>13. \A k \in l + 1 .. Len(g.events) : g.events[k] = Stream!CallEvent(h.pending[f[k]])
    <2> HIDE DEF g, new, m, a, P
    <2> QED BY <1>2, <1>3, <1>7, <1>10
  <1>14. \A i \in P : \E k \in l + 1 .. Len(g.events) : f[k] = i
    <2> TAKE i \in P
    <2> HIDE DEF g, new, m, a, P
    <2>1. PICK k \in 1 .. m : a[k] = i
      BY <1>2
    <2>2. l + k \in l + 1 .. l + m /\ (l + k) - l = k
      BY <1>2, <1>7
    <2> QED BY <1>7, <2>1, <2>2
  <1>15. \A j, k \in l + 1 .. Len(g.events) : f[j] = f[k] => j = k
    <2> TAKE j, k \in l + 1 .. Len(g.events)
    <2> HAVE f[j] = f[k]
    <2> HIDE DEF g, new, m, a, P
    <2>1. j - l \in 1 .. m /\ k - l \in 1 .. m /\ a[j - l] = a[k - l]
      BY <1>7, <1>10
    <2>2. j - l = k - l
      BY <1>2, <2>1
    <2> QED BY <1>2, <1>7, <2>2
  <1> HIDE DEF g, f, P, l
  <1>16. \E q \in [l + 1 .. Len(g.events) -> P] :
            /\ \A k \in l + 1 .. Len(g.events) : g.events[k] = Stream!CallEvent(h.pending[q[k]])
            /\ \A i \in P : \E k \in l + 1 .. Len(g.events) : q[k] = i
            /\ \A j, k \in l + 1 .. Len(g.events) : q[j] = q[k] => j = k
    BY <1>12, <1>13, <1>14, <1>15
  <1> QED BY <1>6, <1>8, <1>9, <1>11, <1>16 DEF g, P, l

\* A call is closed with its block.
Completes(h, is, s, r) ==
  /\ Sent(r)
  /\ \A c \in Call :
       /\ r[c].parts = s[c].parts /\ r[c].again = s[c].again
       /\ (\E i \in is \cap DOMAIN h.pending : h.pending[i].call = c) => r[c].is \in Stream!Closed
       /\ (\A i \in is \cap DOMAIN h.pending : h.pending[i].call # c) => r[c].is = s[c].is

\* A call that is closed is not under way,
LEMMA ClosedIs ==
  \A is \in Stream!Closed : is \in CallStatus /\ is \notin UnderWay /\ is # "unsent"
  BY DEF Stream!Closed, CallStatus, UnderWay

\* and has the arguments it had before.
LEMMA CompletesTold ==
  ASSUME NEW h, NEW is, NEW s, NEW r, Completes(h, is, s, r), NEW c \in Call
  PROVE  Stream!Arguments(r[c]) = Stream!Arguments(s[c])
  BY DEF Completes, Stream!Arguments

\* Closing the blocks of calls closes these calls and leaves the rest as they are.
LEMMA LedgerStops ==
  ASSUME NEW h, Heard(h), NEW n \in Nat, DOMAIN h.pending \subseteq 0 .. n - 1, NEW is,
         NEW s, Sent(s), NEW r, Completes(h, is, s, r), Ledger(h, s)
  PROVE  Ledger(Stream!StoppedCalls(h, is), r)
  <1> DEFINE P == is \cap DOMAIN h.pending
             l == Len(h.events)
  <1>1. PICK g : g = Stream!StoppedCalls(h, is)
    OBVIOUS
  <1>2. /\ Heard(g) /\ DOMAIN g.pending = DOMAIN h.pending \ is
        /\ \A i \in DOMAIN g.pending : g.pending[i] = h.pending[i]
        /\ Grows(h, g, {"call"})
    BY <1>1, StoppedCallsAre
  <1>3. PICK f \in [l + 1 .. Len(g.events) -> P] :
          /\ \A k \in l + 1 .. Len(g.events) : g.events[k] = Stream!CallEvent(h.pending[f[k]])
          /\ \A i \in P : \E k \in l + 1 .. Len(g.events) : f[k] = i
          /\ \A j, k \in l + 1 .. Len(g.events) : f[j] = f[k] => j = k
    BY <1>1, StoppedCallsAre
  <1>4. /\ l \in Nat /\ Len(g.events) \in Nat /\ l <= Len(g.events)
        /\ DOMAIN h.events = 1 .. l /\ DOMAIN g.events = 1 .. Len(g.events)
        /\ \A k \in 1 .. l : g.events[k] = h.events[k]
    BY <1>2 DEF Heard, Grows
  <1>5. \A k \in DOMAIN g.events : k \in 1 .. l \/ k \in l + 1 .. Len(g.events)
    BY <1>4
  <1>6. \A i \in DOMAIN h.pending : /\ h.pending[i].call \in Live(s) /\ h.pending[i].call \in Call
                                    /\ h.pending[i].args = Stream!Arguments(s[h.pending[i].call])
                                    /\ \A j \in DOMAIN h.pending : h.pending[j].call = h.pending[i].call => j = i
    BY DEF Ledger, Live
  <1>7. \A i \in P : /\ r[h.pending[i].call].is \in Stream!Closed
                     /\ Stream!Arguments(r[h.pending[i].call]) = Stream!Arguments(s[h.pending[i].call])
    <2> TAKE i \in P
    <2>1. h.pending[i].call \in Call
      BY <1>6
    <2>2. r[h.pending[i].call].is \in Stream!Closed
      BY <2>1 DEF Completes
    <2> QED BY <2>1, <2>2, CompletesTold
  <1>8. \A c \in Call : s[c].is \notin UnderWay => r[c] = s[c]
    <2> SUFFICES ASSUME NEW c \in Call, s[c].is \notin UnderWay PROVE r[c] = s[c]
      OBVIOUS
    <2>1. \A i \in P : h.pending[i].call # c
      BY <1>6 DEF Live
    <2>2. r[c].is = s[c].is /\ r[c].parts = s[c].parts /\ r[c].again = s[c].again
      BY <2>1 DEF Completes
    <2>3. r[c] \in CallSent /\ s[c] \in CallSent
      BY DEF Sent, Completes
    <2> QED BY <2>2, <2>3 DEF CallSent
  <1>9. \A i \in DOMAIN g.pending : /\ g.pending[i].call \in Live(r)
                                    /\ Stream!Arguments(r[g.pending[i].call]) = Stream!Arguments(s[g.pending[i].call])
    <2> TAKE i \in DOMAIN g.pending
    <2>1. i \in DOMAIN h.pending /\ i \notin is /\ g.pending[i] = h.pending[i]
      BY <1>2
    <2>2. \A j \in P : h.pending[j].call # h.pending[i].call
      BY <1>6, <2>1
    <2>3. PICK c \in Call : c = h.pending[i].call
      BY <1>6, <2>1
    <2>4. Stream!Arguments(r[c]) = Stream!Arguments(s[c])
      BY CompletesTold
    <2>5. r[c].is = s[c].is
      BY <2>2, <2>3 DEF Completes
    <2> QED BY <1>6, <2>1, <2>3, <2>4, <2>5 DEF Live
  <1>10. \A i \in DOMAIN g.pending :
           /\ g.pending[i].args = Stream!Arguments(r[g.pending[i].call])
           /\ \A j \in DOMAIN g.pending : g.pending[j].call = g.pending[i].call => j = i
    BY <1>2, <1>6, <1>9
  <1>11. \A c \in Live(r) : \E i \in DOMAIN g.pending : g.pending[i].call = c
    <2> TAKE c \in Live(r)
    <2>1. c \in Call /\ r[c].is \notin Stream!Closed
      BY ClosedIs DEF Live
    <2>2. \A i \in P : h.pending[i].call # c
      BY <1>7, <2>1
    <2>3. c \in Live(s)
      BY <2>1, <2>2 DEF Completes, Live
    <2>4. PICK i \in DOMAIN h.pending : h.pending[i].call = c
      BY <2>3 DEF Ledger
    <2> QED BY <1>2, <2>2, <2>4
  <1>12. ASSUME NEW k \in l + 1 .. Len(g.events)
         PROVE  /\ k \in DOMAIN g.events /\ g.events[k].kind = "call" /\ f[k] \in P
                /\ g.events[k].call = h.pending[f[k]].call /\ g.events[k].args = h.pending[f[k]].args
    <2>1. k \in DOMAIN g.events /\ f[k] \in P
      BY <1>4
    <2>2. g.events[k] = [kind |-> "call", call |-> h.pending[f[k]].call, args |-> h.pending[f[k]].args]
      BY <1>3 DEF Stream!CallEvent
    <2> QED BY <2>1, <2>2
  <1>13. ASSUME NEW k \in 1 .. l
         PROVE  k \in DOMAIN h.events /\ k \in DOMAIN g.events /\ g.events[k] = h.events[k]
    BY <1>4
  <1>14. ASSUME NEW k \in DOMAIN g.events, g.events[k].kind = "call"
         PROVE  /\ r[g.events[k].call].is \in Stream!Closed
                /\ g.events[k].args = Stream!Arguments(r[g.events[k].call])
                /\ \A j \in DOMAIN g.events : g.events[j].kind = "call" /\ g.events[j].call = g.events[k].call => j = k
    <2> DEFINE d == g.events[k].call
    <2>1. \A j \in 1 .. l : h.events[j].kind = "call" => h.events[j].call \in Call /\ s[h.events[j].call].is \in Stream!Closed
      <3> TAKE j \in 1 .. l
      <3>1. j \in DOMAIN h.events /\ h.events[j] \in ReaderEvent
        BY <1>4 DEF Heard
      <3> QED BY <3>1 DEF ReaderEvent, Ledger
    <2>2. CASE k \in 1 .. l
      <3>1. h.events[k].kind = "call" /\ d = h.events[k].call /\ d \in Call /\ s[d].is \in Stream!Closed /\ r[d] = s[d]
        BY ClosedIs, <1>8, <1>13, <1>14, <2>1, <2>2
      <3>2. g.events[k].args = Stream!Arguments(r[d])
        BY <1>13, <2>2, <3>1 DEF Ledger
      <3>3. ASSUME NEW j \in DOMAIN g.events, g.events[j].kind = "call", g.events[j].call = d PROVE j = k
        <4>1. CASE j \in 1 .. l
          BY <1>13, <2>2, <3>1, <3>3, <4>1 DEF Ledger
        <4>2. CASE j \in l + 1 .. Len(g.events)
          <5>1. f[j] \in DOMAIN h.pending /\ h.pending[f[j]].call = d
            BY <1>12, <3>3, <4>2
          <5> QED BY <1>6, <3>1, <5>1, ClosedIs DEF Live
        <4> QED BY <1>5, <4>1, <4>2
      <3> QED BY <3>1, <3>2, <3>3
    <2>3. CASE k \in l + 1 .. Len(g.events)
      <3>1. f[k] \in P /\ d = h.pending[f[k]].call /\ g.events[k].args = h.pending[f[k]].args
        BY <1>12, <2>3
      <3>2. r[d].is \in Stream!Closed /\ g.events[k].args = Stream!Arguments(r[d])
        BY <1>6, <1>7, <3>1
      <3>3. ASSUME NEW j \in DOMAIN g.events, g.events[j].kind = "call", g.events[j].call = d PROVE j = k
        <4>1. CASE j \in 1 .. l
          <5>1. s[d].is \in Stream!Closed
            BY <1>13, <2>1, <3>3, <4>1
          <5>2. f[k] \in DOMAIN h.pending
            BY <3>1
          <5>3. d \in Live(s)
            BY <1>6, <3>1, <5>2
          <5> QED BY <5>1, <5>3, ClosedIs DEF Live
        <4>2. CASE j \in l + 1 .. Len(g.events)
          <5>1. f[j] \in P /\ h.pending[f[j]].call = d
            BY <1>12, <3>3, <4>2
          <5>2. f[j] = f[k]
            BY <1>6, <3>1, <5>1
          <5> QED BY <1>3, <2>3, <4>2, <5>2
        <4> QED BY <1>5, <4>1, <4>2
      <3> QED BY <3>2, <3>3
    <2> QED BY <1>5, <2>2, <2>3
  <1>15. ASSUME NEW c \in Call, r[c].is \in Stream!Closed
         PROVE  \E k \in DOMAIN g.events : g.events[k].kind = "call" /\ g.events[k].call = c
    <2>1. CASE \E i \in P : h.pending[i].call = c
      <3>1. PICK i \in P : h.pending[i].call = c
        BY <2>1
      <3>2. PICK k \in l + 1 .. Len(g.events) : f[k] = i
        BY <1>3
      <3> QED BY <1>12, <3>1, <3>2
    <2>2. CASE \A i \in P : h.pending[i].call # c
      <3>1. s[c].is \in Stream!Closed
        BY <1>15, <2>2 DEF Completes
      <3>2. PICK k \in DOMAIN h.events : h.events[k].kind = "call" /\ h.events[k].call = c
        BY <3>1 DEF Ledger
      <3> QED BY <1>4, <1>13, <3>2
    <2> QED BY <2>1, <2>2
  <1>16. \A c \in Call : r[c].is = "unsent" => r[c] = At(0, 0, "unsent")
    <2> SUFFICES ASSUME NEW c \in Call, r[c].is = "unsent" PROVE r[c] = At(0, 0, "unsent")
      OBVIOUS
    <2>1. \A i \in P : h.pending[i].call # c
      BY <1>7, ClosedIs
    <2>2. s[c].is = "unsent" /\ s[c].is \notin UnderWay
      BY <2>1 DEF Completes, UnderWay
    <2> QED BY <1>8, <2>2 DEF Ledger
  <1>17. Ledger(g, r)
    <2> HIDE DEF P, l
    <2> QED BY <1>9, <1>10, <1>11, <1>14, <1>15, <1>16 DEF Ledger
  <1> QED BY <1>1, <1>17
-----------------------------------------------------------------------------
(* What the reader holds while the message goes on *)

Reads(h, s, p) == Heard(h) /\ Ledger(h, s) /\ Fragmented(h, p) /\ Endless(h)

\* Events that are no calls leave the calls as they are.
LEMMA LedgerGrows ==
  ASSUME NEW h, NEW g, NEW kinds, Heard(h), Heard(g), Grows(h, g, kinds), "call" \notin kinds,
         g.pending = h.pending, NEW s, Ledger(h, s)
  PROVE  Ledger(g, s)
  <1>1. /\ Len(h.events) \in Nat /\ Len(g.events) \in Nat
        /\ DOMAIN h.events = 1 .. Len(h.events) /\ DOMAIN g.events = 1 .. Len(g.events)
    BY DEF Heard
  <1>2. \A k \in DOMAIN g.events : g.events[k].kind = "call" => k \in DOMAIN h.events /\ h.events[k] = g.events[k]
    BY <1>1 DEF Grows
  <1>3. \A k \in DOMAIN h.events : k \in DOMAIN g.events /\ h.events[k] = g.events[k]
    BY <1>1 DEF Grows
  <1> QED BY <1>2, <1>3 DEF Ledger

\* One more event
LEMMA OneMore ==
  ASSUME NEW h, Heard(h), NEW e \in ReaderEvent, NEW g, g.events = Append(h.events, e)
  PROVE  /\ g.events \in Seq(ReaderEvent) /\ Len(g.events) = Len(h.events) + 1
         /\ g.events[Len(g.events)] = e /\ Grows(h, g, {e.kind})
  BY DEF Heard, Grows

\* The reasoning that waits becomes an event as its block is closed.
LEMMA ThinkingStops ==
  ASSUME NEW h, NEW s, NEW p, Told(p), Reads(h, s, p)
  PROVE  LET g == Stream!StoppedThinking(h)
         IN  Reads(g, s, p) /\ g.thinking = None /\ g.pending = h.pending
  <1>1. PICK g : g = Stream!StoppedThinking(h)
    OBVIOUS
  <1>2. p.text \in Nat /\ p.think \in Nat
    BY StreamAssumption DEF Told
  <1>3. CASE h.thinking \in {None, {}}
    <2>1. g = [h EXCEPT !.thinking = None]
      BY <1>1, <1>3 DEF Stream!StoppedThinking, Reads, Heard
    <2>2. Heard(g) /\ g.events = h.events /\ g.pending = h.pending /\ g.stopped = h.stopped /\ g.thinking = None
      BY <2>1 DEF Reads, Heard
    <2>3. Waiting(g) = Waiting(h)
      BY <1>3, <2>2 DEF Waiting
    <2>4. Ledger(g, s) /\ Fragmented(g, p) /\ Endless(g)
      BY <2>2, <2>3 DEF Reads, Ledger, Fragmented, Sorted, Endless
    <2> QED BY <1>1, <2>2, <2>4 DEF Reads
  <1>4. CASE h.thinking \notin {None, {}}
    <2> DEFINE e == [kind |-> "reasoning", parts |-> h.thinking]
    <2>1. g = [h EXCEPT !.thinking = None, !.events = Append(h.events, e)]
      BY <1>1, <1>4 DEF Stream!StoppedThinking, Reads, Heard
    <2>2. h.thinking \in SUBSET Fragment /\ e \in ReaderEvent /\ Waiting(h) = h.thinking /\ e.kind = "reasoning"
      BY <1>4 DEF Reads, Heard, ReaderEvent, Waiting
    <2>3. g.events = Append(h.events, e) /\ g.pending = h.pending /\ g.stopped = h.stopped /\ g.thinking = None
      BY <2>1 DEF Reads, Heard
    <2>4. g.events \in Seq(ReaderEvent) /\ Grows(h, g, {"reasoning"})
      <3> HIDE DEF e
      <3> QED BY <2>2, <2>3, OneMore DEF Reads
    <2>5. Heard(g)
      BY <2>1, <2>3, <2>4 DEF Reads, Heard
    <2>6. Ledger(g, s) /\ Endless(g)
      BY <2>3, <2>4, <2>5, LedgerGrows, EndlessGrows DEF Reads, Endless
    <2>7. Sorted(g, "text", p.text, {})
      <3>1. Heard(h) /\ Sorted(h, "text", p.text, {}) /\ "text" \notin {"reasoning"}
        BY DEF Reads, Fragmented
      <3> HIDE DEF e
      <3> QED BY <1>2, <2>4, <2>5, <3>1, SortedGrows
    <2>8. Sorted(g, "reasoning", p.think, {})
      <3>1. h.thinking \cup (p.think + 1 .. p.think) = h.thinking
        BY <1>2
      <3>2. Sorted(h, "reasoning", p.think, h.thinking) /\ Heard(h)
        BY <2>2 DEF Reads, Fragmented
      <3>3. g.events = Append(h.events, [kind |-> "reasoning", parts |-> h.thinking \cup (p.think + 1 .. p.think)])
        BY <2>3, <3>1
      <3> QED BY <1>2, <2>5, <3>2, <3>3, SortedAdds
    <2>9. Waiting(g) = {}
      BY <2>3 DEF Waiting
    <2> HIDE DEF e
    <2> QED BY <1>1, <2>3, <2>5, <2>6, <2>7, <2>8, <2>9 DEF Reads, Fragmented
  <1> QED BY <1>3, <1>4

\* Several blocks end, or one.
LEMMA CallsStop ==
  ASSUME NEW h, NEW n \in Nat, DOMAIN h.pending \subseteq 0 .. n - 1, NEW is,
         NEW s, NEW p, Sent(s), Told(p), Reads(h, s, p), NEW r, Completes(h, is, s, r)
  PROVE  LET g == Stream!StoppedCalls(h, is)
         IN  /\ Reads(g, r, p) /\ g.thinking = h.thinking
             /\ DOMAIN g.pending = DOMAIN h.pending \ is
             /\ \A i \in DOMAIN g.pending : g.pending[i] = h.pending[i]
  <1>1. PICK g : g = Stream!StoppedCalls(h, is)
    OBVIOUS
  <1>2. p.text \in Nat /\ p.think \in Nat
    BY StreamAssumption DEF Told
  <1>3. /\ Heard(g) /\ g.thinking = h.thinking /\ g.stopped = h.stopped
        /\ DOMAIN g.pending = DOMAIN h.pending \ is
        /\ \A i \in DOMAIN g.pending : g.pending[i] = h.pending[i]
        /\ Grows(h, g, {"call"})
    BY <1>1, StoppedCallsAre DEF Reads
  <1>4. Ledger(g, r)
    BY <1>1, LedgerStops DEF Reads
  <1>5. Fragmented(g, p)
    <2>1. Waiting(g) = Waiting(h)
      BY <1>3 DEF Waiting
    <2> QED BY <1>2, <1>3, <2>1, SortedGrows DEF Reads, Fragmented
  <1>6. Endless(g)
    BY <1>3, EndlessGrows DEF Reads, Endless
  <1> QED BY <1>1, <1>3, <1>4, <1>5, <1>6 DEF Reads

\* A block that is closed ends its call and the reasoning that waits.
LEMMA BlockStops ==
  ASSUME NEW h, NEW n \in Nat, DOMAIN h.pending \subseteq 0 .. n - 1, NEW i,
         NEW s, NEW p, Sent(s), Told(p), Reads(h, s, p), NEW r, Completes(h, {i}, s, r)
  PROVE  LET g == Stream!Consume(h, Stream!Stop(i))
         IN  /\ Reads(g, r, p) /\ g.thinking = None
             /\ DOMAIN g.pending = DOMAIN h.pending \ {i}
             /\ \A j \in DOMAIN g.pending : g.pending[j] = h.pending[j]
  <1> DEFINE is == {i}
  <1>1. PICK f : f = Stream!StoppedCalls(h, is)
    OBVIOUS
  <1>2. /\ Reads(f, r, p)
        /\ DOMAIN f.pending = DOMAIN h.pending \ is
        /\ \A j \in DOMAIN f.pending : f.pending[j] = h.pending[j]
    <2>1. Completes(h, is, s, r)
      OBVIOUS
    <2> HIDE DEF is
    <2> QED BY <1>1, <2>1, CallsStop
  <1>3. Stream!Consume(h, Stream!Stop(i)) = Stream!StoppedThinking(f)
    BY <1>1 DEF Stream!Consume, Stream!Stop
  <1> QED BY <1>2, <1>3, ThinkingStops

\* Nothing ends with a block that no call has.
LEMMA NothingStops ==
  ASSUME NEW h, NEW n \in Nat, DOMAIN h.pending \subseteq 0 .. n - 1, NEW i, i \notin DOMAIN h.pending,
         NEW s, NEW p, Sent(s), Told(p), Reads(h, s, p)
  PROVE  LET g == Stream!Consume(h, Stream!Stop(i))
         IN  Reads(g, s, p) /\ g.thinking = None /\ g.pending = h.pending
  <1>1. Completes(h, {i}, s, s)
    BY DEF Completes
  <1>2. PICK g : g = Stream!Consume(h, Stream!Stop(i))
    OBVIOUS
  <1>3. /\ Reads(g, s, p) /\ g.thinking = None
        /\ DOMAIN g.pending = DOMAIN h.pending \ {i}
        /\ \A j \in DOMAIN g.pending : g.pending[j] = h.pending[j]
    <2> DEFINE is == {i}
    <2>1. Completes(h, is, s, s) /\ is = {i}
      BY <1>1
    <2> HIDE DEF is
    <2> QED BY <1>2, <2>1, BlockStops
  <1>4. g.pending = h.pending
    <2>1. /\ DOMAIN g.pending = DOMAIN h.pending
          /\ \A j \in DOMAIN h.pending : g.pending[j] = h.pending[j]
      BY <1>3
    <2>2. g.pending = [j \in DOMAIN g.pending |-> g.pending[j]] /\ h.pending = [j \in DOMAIN h.pending |-> h.pending[j]]
      BY <1>3 DEF Reads, Heard
    <2> QED BY <2>1, <2>2
  <1> QED BY <1>2, <1>3, <1>4

\* What the provider has sent, after one more fragment
MoreText(p) == [p EXCEPT !.text = @ + 1]
MoreThought(p) == [p EXCEPT !.think = @ + 1]
Moved(s, c, w) == [s EXCEPT ![c] = w]

\* One call moves, and the others stay.
LEMMA MovesTo ==
  ASSUME NEW s, Sent(s), NEW c \in Call, NEW n \in Nat, NEW m \in Nat, NEW is \in CallStatus,
         NEW r, r = Moved(s, c, At(n, m, is))
  PROVE  Sent(r) /\ r[c] = At(n, m, is) /\ \A d \in Call : d # c => r[d] = s[d]
  <1>1. At(n, m, is) \in CallSent
    BY DEF At, CallSent
  <1> QED BY <1>1 DEF Moved, Sent

\* A piece of text
LEMMA TextComes ==
  ASSUME NEW h, NEW s, NEW p, Told(p), Reads(h, s, p), p.text < MaxProse, NEW i
  PROVE  LET g == Stream!Consume(h, Stream!Prose(i, "text", p.text + 1))
         IN  Reads(g, s, MoreText(p)) /\ g.thinking = h.thinking /\ g.pending = h.pending
  <1> USE DEF MoreText
  <1> DEFINE e == [kind |-> "text", parts |-> {p.text + 1}]
             q == [p EXCEPT !.text = @ + 1]
  <1>1. PICK g : g = [h EXCEPT !.events = Append(@, e)]
    OBVIOUS
  <1>2. /\ p.text \in Nat /\ p.think \in Nat /\ q.text = p.text + 1 /\ q.think = p.think
        /\ e \in ReaderEvent /\ e.kind = "text" /\ MaxProse \in Nat
    BY StreamAssumption DEF Told, ReaderEvent, Fragment
  <1>3. g.events = Append(h.events, e) /\ g.pending = h.pending /\ g.stopped = h.stopped /\ g.thinking = h.thinking
    BY <1>1 DEF Reads, Heard
  <1>4. g.events \in Seq(ReaderEvent) /\ Grows(h, g, {"text"})
    <2> HIDE DEF e
    <2> QED BY <1>2, <1>3, OneMore DEF Reads
  <1>5. Heard(g)
    BY <1>1, <1>3, <1>4 DEF Reads, Heard
  <1>6. Ledger(g, s) /\ Endless(g)
    BY <1>3, <1>4, <1>5, LedgerGrows, EndlessGrows DEF Reads, Endless
  <1>7. Sorted(g, "text", p.text + 1, {})
    <2>1. {} \cup (p.text + 1 .. p.text + 1) = {p.text + 1}
      BY <1>2
    <2>2. Sorted(h, "text", p.text, {}) /\ Heard(h) /\ p.text + 1 \in Nat /\ p.text <= p.text + 1
      BY <1>2 DEF Reads, Fragmented
    <2>3. g.events = Append(h.events, [kind |-> "text", parts |-> {} \cup (p.text + 1 .. p.text + 1)])
      BY <1>3, <2>1
    <2> QED BY <1>2, <1>5, <2>2, <2>3, SortedAdds
  <1>8. Sorted(g, "reasoning", p.think, Waiting(g))
    <2>1. Waiting(g) = Waiting(h)
      BY <1>3 DEF Waiting
    <2>2. Heard(h) /\ Sorted(h, "reasoning", p.think, Waiting(h)) /\ "reasoning" \notin {"text"}
      BY DEF Reads, Fragmented
    <2> HIDE DEF e, q
    <2> QED BY <1>2, <1>4, <1>5, <2>1, <2>2, SortedGrows
  <1>9. g = Stream!Consume(h, Stream!Prose(i, "text", p.text + 1))
    BY <1>1 DEF Stream!Consume, Stream!Prose
  <1> HIDE DEF e, q
  <1>10. Reads(g, s, q)
    BY <1>2, <1>5, <1>6, <1>7, <1>8 DEF Reads, Fragmented
  <1> QED BY <1>3, <1>9, <1>10 DEF q

\* A piece of reasoning
LEMMA ThoughtComes ==
  ASSUME NEW h, NEW s, NEW p, Told(p), Reads(h, s, p), p.think < MaxProse, NEW i, h.thinking # None
  PROVE  LET g == Stream!Consume(h, Stream!Prose(i, "think", p.think + 1))
         IN  Reads(g, s, MoreThought(p)) /\ g.thinking # None /\ g.pending = h.pending
  <1> USE DEF MoreThought
  <1> DEFINE q == [p EXCEPT !.think = @ + 1]
             w == h.thinking \cup {p.think + 1}
  <1>1. PICK g : g = [h EXCEPT !.thinking = w]
    OBVIOUS
  <1>2. /\ p.text \in Nat /\ p.think \in Nat /\ q.text = p.text /\ q.think = p.think + 1
        /\ w \in SUBSET Fragment /\ w # None /\ Waiting(h) = h.thinking
    BY StreamAssumption DEF Told, Fragment, Reads, Heard, Waiting
  <1>3. g.events = h.events /\ g.pending = h.pending /\ g.stopped = h.stopped /\ g.thinking = w
    BY <1>1 DEF Reads, Heard
  <1>4. Heard(g)
    <2> HIDE DEF w
    <2> QED BY <1>1, <1>2, <1>3 DEF Reads, Heard
  <1>5. Ledger(g, s) /\ Endless(g) /\ Sorted(g, "text", p.text, {})
    BY <1>3 DEF Reads, Fragmented, Ledger, Endless, Sorted
  <1>6. Sorted(g, "reasoning", p.think + 1, w)
    BY <1>2, <1>3, SortedWaits DEF Reads, Fragmented
  <1>7. Waiting(g) = w
    <2> HIDE DEF w
    <2> QED BY <1>2, <1>3 DEF Waiting
  <1>8. g = Stream!Consume(h, Stream!Prose(i, "think", p.think + 1))
    BY <1>1 DEF Stream!Consume, Stream!Prose
  <1> HIDE DEF w, q
  <1>9. Reads(g, s, q)
    BY <1>2, <1>4, <1>5, <1>6, <1>7 DEF Reads, Fragmented
  <1> QED BY <1>2, <1>3, <1>8, <1>9 DEF q

\* The fragments of a call are appended in turn.
LEMMA UptoGrows ==
  ASSUME NEW n \in Nat
  PROVE  Stream!Upto(n) \in Seq(Nat) /\ Stream!Upto(n) \o <<n + 1>> = Stream!Upto(n + 1) /\ Stream!Upto(0) \o Stream!Upto(n) = Stream!Upto(n)
         /\ Stream!Upto(n) \o <<>> = Stream!Upto(n)
  <1>1. Stream!Upto(n) \in Seq(Nat) /\ Len(Stream!Upto(n)) = n /\ \A k \in 1 .. n : Stream!Upto(n)[k] = k
    BY DEF Stream!Upto
  <1>2. Stream!Upto(n + 1) \in Seq(Nat) /\ Len(Stream!Upto(n + 1)) = n + 1 /\ \A k \in 1 .. n + 1 : Stream!Upto(n + 1)[k] = k
    BY DEF Stream!Upto
  <1>3. Stream!Upto(n) \o <<n + 1>> = Stream!Upto(n + 1)
    <2>1. Stream!Upto(n) \o <<n + 1>> \in Seq(Nat) /\ Len(Stream!Upto(n) \o <<n + 1>>) = n + 1
          /\ \A k \in 1 .. n + 1 : (Stream!Upto(n) \o <<n + 1>>)[k] = k
      BY <1>1
    <2> QED BY <1>2, <2>1, SeqEqual
  <1>4. Stream!Upto(0) = <<>>
    BY DEF Stream!Upto
  <1> QED BY <1>1, <1>3, <1>4

\* No fragments are the empty sequence, and no others are.
LEMMA UptoEmpty ==
  ASSUME NEW n \in Nat
  PROVE  Stream!Upto(n) \in Seq(Nat) /\ (Stream!Upto(n) = <<>> <=> n = 0)
  <1>1. Stream!Upto(n) \in Seq(Nat) /\ Len(Stream!Upto(n)) = n
    BY DEF Stream!Upto
  <1> QED BY <1>1, EmptySeq

\* A call has told nothing as it opens,
LEMMA NoArguments ==
  ASSUME NEW is
  PROVE  Stream!Arguments(At(0, 0, is)) = <<>>
  <1>1. At(0, 0, is).parts = 0 /\ At(0, 0, is).again = 0
    BY DEF At
  <1>2. Stream!Upto(0) \o Stream!Upto(0) = Stream!Upto(0) /\ Stream!Upto(0) = <<>>
    BY UptoGrows DEF Stream!Upto
  <1> QED BY <1>1, <1>2 DEF Stream!Arguments

\* tells what it sends in one piece,
LEMMA AllArguments ==
  ASSUME NEW n \in Nat, NEW is, NEW ps, ps = Stream!Upto(n)
  PROVE  ps \in Seq(Nat) /\ <<>> \o ps = ps /\ Stream!Arguments(At(n, 0, is)) = ps
  <1>1. At(n, 0, is).parts = n /\ At(n, 0, is).again = 0
    BY DEF At
  <1>2. Stream!Upto(n) \in Seq(Nat) /\ Stream!Upto(0) \o Stream!Upto(n) = Stream!Upto(n) /\ Stream!Upto(0) = <<>>
    BY UptoGrows DEF Stream!Upto
  <1> QED BY <1>1, <1>2 DEF Stream!Arguments

\* tells it again where the announcement is not remembered,
LEMMA ArgumentsAgain ==
  ASSUME NEW n \in Nat, NEW is, NEW js
  PROVE  Stream!Arguments(At(n, 0, is)) \o Stream!Upto(n) = Stream!Arguments(At(n, n, js))
  <1>1. At(n, n, js).parts = n /\ At(n, n, js).again = n
    BY DEF At
  <1>2. Stream!Arguments(At(n, 0, is)) = Stream!Upto(n)
    BY AllArguments
  <1> QED BY <1>1, <1>2 DEF Stream!Arguments

NextPart(n, ps) == ps = <<n + 1>>
Lengthens(a, ps, b) == ps \in Seq(Nat) /\ a \o ps = b
\* and its fragments in turn.
LEMMA MoreArguments ==
  ASSUME NEW n \in Nat, NEW m \in Nat, NEW is, NEW js, NEW ps, NextPart(n, ps)
  PROVE  Lengthens(Stream!Arguments(At(n, m, is)), ps, Stream!Arguments(At(n + 1, m, js)))
  <1>1. At(n, m, is).parts = n /\ At(n, m, is).again = m /\ At(n + 1, m, js).parts = n + 1 /\ At(n + 1, m, js).again = m
    BY DEF At
  <1>2. PICK u, v, w : u = Stream!Upto(m) /\ v = Stream!Upto(n) /\ w = Stream!Upto(n + 1)
    OBVIOUS
  <1>3. ps \in Seq(Nat) /\ u \in Seq(Nat) /\ v \in Seq(Nat) /\ v \o ps = w
    <2>1. Stream!Upto(m) \in Seq(Nat) /\ Stream!Upto(n) \in Seq(Nat) /\ Stream!Upto(n) \o <<n + 1>> = Stream!Upto(n + 1)
      BY UptoGrows
    <2> QED BY <1>2, <2>1 DEF NextPart
  <1>4. (u \o v) \o ps = u \o (v \o ps)
    <2>1. \A a, b, d \in Seq(Nat) : (a \o b) \o d = a \o (b \o d)
      BY ConcatAssociative
    <2> QED BY <1>3, <2>1
  <1>5. Stream!Arguments(At(n, m, is)) = u \o v /\ Stream!Arguments(At(n + 1, m, js)) = u \o w
    BY <1>1, <1>2 DEF Stream!Arguments
  <1> QED BY <1>3, <1>4, <1>5 DEF Lengthens

\* What a call has told is a sequence.
LEMMA ArgumentsAre ==
  ASSUME NEW w \in CallSent
  PROVE  Stream!Arguments(w) \in Seq(Nat)
  <1>1. w.parts \in Nat /\ w.again \in Nat
    BY DEF CallSent
  <1>2. PICK u, v : u = Stream!Upto(w.again) /\ v = Stream!Upto(w.parts)
    OBVIOUS
  <1>3. u \in Seq(Nat) /\ v \in Seq(Nat)
    BY <1>1, <1>2, UptoGrows
  <1>4. u \o v \in Seq(Nat)
    BY <1>3
  <1> QED BY <1>2, <1>4 DEF Stream!Arguments

\* A call begins.
LEMMA CallOpens ==
  ASSUME NEW h, NEW s, NEW p, Sent(s), Told(p), Reads(h, s, p),
         NEW i \in Nat, i \notin DOMAIN h.pending, NEW c \in Call, s[c].is = "unsent",
         NEW r, r = Moved(s, c, At(0, 0, "open"))
  PROVE  LET g == Stream!Consume(h, Stream!Start(i, "call", c))
         IN  /\ Reads(g, r, p) /\ g.thinking = h.thinking
             /\ DOMAIN g.pending = DOMAIN h.pending \cup {i} /\ g.pending[i].call = c
             /\ \A j \in DOMAIN h.pending : g.pending[j] = h.pending[j]
  <1> USE DEF Moved
  <1> DEFINE b == [call |-> c, args |-> <<>>]
  <1>1. PICK g : g = Stream!Consume(h, Stream!Start(i, "call", c))
    OBVIOUS
  <1>2. g = [h EXCEPT !.pending = Stream!With(h.pending, i, b)]
    BY <1>1 DEF Stream!Consume, Stream!Start
  <1>3. g.events = h.events /\ g.pending = Stream!With(h.pending, i, b) /\ g.stopped = h.stopped /\ g.thinking = h.thinking
    BY <1>2 DEF Reads, Heard
  <1>4. /\ DOMAIN g.pending = DOMAIN h.pending \cup {i} /\ g.pending[i] = b
        /\ \A j \in DOMAIN h.pending : g.pending[j] = h.pending[j]
    BY <1>3 DEF Stream!With
  <1>5. b \in CallBlock /\ b.call = c /\ b.args = <<>>
    BY DEF CallBlock
  <1>6. Heard(g)
    <2>1. g.pending \in [DOMAIN g.pending -> CallBlock]
      <3> HIDE DEF b
      <3> QED BY <1>3, <1>4, <1>5 DEF Stream!With, Reads, Heard
    <2> HIDE DEF b
    <2> QED BY <1>2, <1>3, <2>1 DEF Reads, Heard
  <1>7. Fragmented(g, p) /\ Endless(g)
    BY <1>3 DEF Reads, Fragmented, Waiting, Sorted, Endless
  <1>8. /\ r[c] = At(0, 0, "open") /\ r[c].is = "open" /\ \A d \in Call : d # c => r[d] = s[d]
        /\ c \notin Live(s)
    BY DEF Sent, Live, UnderWay, At
  <1>9. Stream!Arguments(r[c]) = <<>>
    BY <1>8, NoArguments
  <1>10. Live(r) = Live(s) \cup {c}
    BY <1>8 DEF Live, UnderWay
  <1>11. \A j \in DOMAIN h.pending : h.pending[j].call \in Call /\ h.pending[j].call # c
    BY <1>8 DEF Reads, Ledger, Live
  <1>12. \A k \in DOMAIN h.events : h.events[k].kind = "call" => h.events[k].call \in Call /\ h.events[k].call # c
    <2> TAKE k \in DOMAIN h.events
    <2>1. h.events[k] \in ReaderEvent
      BY DEF Reads, Heard
    <2> QED BY <2>1, ClosedIs DEF ReaderEvent, Reads, Ledger
  <1>13. Ledger(g, r)
    <2>1. \A j \in DOMAIN g.pending :
            /\ g.pending[j].call \in Live(r)
            /\ g.pending[j].args = Stream!Arguments(r[g.pending[j].call])
            /\ \A l \in DOMAIN g.pending : g.pending[l].call = g.pending[j].call => l = j
      <3> HIDE DEF b
      <3> TAKE j \in DOMAIN g.pending
      <3>1. CASE j = i
        <4>1. g.pending[j].call = c /\ g.pending[j].args = <<>> /\ c \in Live(r)
          BY <1>4, <1>5, <1>8, <1>10, <3>1
        <4>2. \A l \in DOMAIN g.pending : g.pending[l].call = c => l = i
          BY <1>4, <1>11
        <4> QED BY <1>9, <3>1, <4>1, <4>2
      <3>2. CASE j \in DOMAIN h.pending
        <4>1. /\ h.pending[j].call \in Live(s) /\ h.pending[j].args = Stream!Arguments(s[h.pending[j].call])
              /\ \A l \in DOMAIN h.pending : h.pending[l].call = h.pending[j].call => l = j
          BY <3>2 DEF Reads, Ledger
        <4>2. r[h.pending[j].call] = s[h.pending[j].call] /\ g.pending[j] = h.pending[j] /\ h.pending[j].call # c
          BY <1>4, <1>8, <1>11, <3>2
        <4>3. \A l \in DOMAIN g.pending : l = i \/ (l \in DOMAIN h.pending /\ g.pending[l] = h.pending[l])
          BY <1>4
        <4> QED BY <1>4, <1>5, <1>10, <4>1, <4>2, <4>3
      <3> QED BY <1>4, <3>1, <3>2
    <2>2. \A d \in Live(r) : \E j \in DOMAIN g.pending : g.pending[j].call = d
      BY <1>4, <1>5, <1>10 DEF Reads, Ledger
    <2>3. \A k \in DOMAIN g.events : g.events[k].kind = "call" =>
            /\ r[g.events[k].call].is \in Stream!Closed
            /\ g.events[k].args = Stream!Arguments(r[g.events[k].call])
            /\ \A j \in DOMAIN g.events :
                 g.events[j].kind = "call" /\ g.events[j].call = g.events[k].call => j = k
      BY <1>3, <1>8, <1>12 DEF Reads, Ledger
    <2>4. \A d \in Call : r[d].is \in Stream!Closed => \E k \in DOMAIN g.events : g.events[k].kind = "call" /\ g.events[k].call = d
      BY <1>3, <1>8, ClosedIs DEF Reads, Ledger, UnderWay
    <2>5. \A d \in Call : r[d].is = "unsent" => r[d] = At(0, 0, "unsent")
      BY <1>8 DEF Reads, Ledger
    <2> QED BY <2>1, <2>2, <2>3, <2>4, <2>5 DEF Ledger
  <1> HIDE DEF b
  <1> QED BY <1>1, <1>3, <1>4, <1>5, <1>6, <1>7, <1>13 DEF Reads

\* These fragments continue the arguments of the call of this block.
Continues(h, i, c, ps, s, r) ==
  /\ i \in DOMAIN h.pending /\ c \in Call /\ c = h.pending[i].call
  /\ \E w \in CallSent : /\ w.is \in UnderWay /\ r = Moved(s, c, w)
                          /\ ps \in Seq(Nat) /\ Stream!Arguments(s[c]) \o ps = Stream!Arguments(w)

\* A fragment goes to the call of its block and to no other.
LEMMA ArgumentsCome ==
  ASSUME NEW h, NEW s, NEW p, Sent(s), Told(p), Reads(h, s, p),
         NEW i, NEW c, NEW ps, NEW r, Continues(h, i, c, ps, s, r)
  PROVE  LET g == Stream!Consume(h, Stream!Json(i, ps))
         IN  /\ Reads(g, r, p) /\ g.thinking = h.thinking
             /\ DOMAIN g.pending = DOMAIN h.pending
             /\ \A j \in DOMAIN h.pending : g.pending[j].call = h.pending[j].call
  <1> USE DEF Moved
  <1>0. i \in DOMAIN h.pending /\ c \in Call /\ c = h.pending[i].call
    BY DEF Continues
  <1>01. PICK w \in CallSent : /\ w.is \in UnderWay /\ r = Moved(s, c, w)
                               /\ ps \in Seq(Nat) /\ Stream!Arguments(s[c]) \o ps = Stream!Arguments(w)
    BY DEF Continues
  <1>1. PICK g : g = Stream!Consume(h, Stream!Json(i, ps))
    OBVIOUS
  <1>2. g = [h EXCEPT !.pending[i].args = h.pending[i].args \o ps]
    BY <1>0, <1>01, <1>1 DEF Stream!Consume, Stream!Json
  <1>3. h.pending \in [DOMAIN h.pending -> CallBlock]
    BY DEF Reads, Heard
  <1>4. /\ g.events = h.events /\ g.stopped = h.stopped /\ g.thinking = h.thinking
        /\ g.pending = [h.pending EXCEPT ![i].args = h.pending[i].args \o ps]
    BY <1>2 DEF Reads, Heard
  <1>02. PICK as : as = Stream!Arguments(w)
    OBVIOUS
  <1>5. h.pending[i].args = Stream!Arguments(s[c]) /\ c \in Live(s) /\ as \in Seq(Nat)
    BY <1>0, <1>01, <1>02, ArgumentsAre DEF Reads, Ledger
  <1>6. /\ DOMAIN g.pending = DOMAIN h.pending
        /\ \A j \in DOMAIN h.pending : g.pending[j].call = h.pending[j].call /\ (j # i => g.pending[j] = h.pending[j])
        /\ g.pending[i].args = as
        /\ g.pending \in [DOMAIN g.pending -> CallBlock]
    <2>1. h.pending[i] \in CallBlock /\ h.pending[i].args \o ps = as
      BY <1>0, <1>01, <1>02, <1>3, <1>5
    <2>2. g.pending = [h.pending EXCEPT ![i] = [h.pending[i] EXCEPT !.args = as]]
      BY <1>4, <2>1
    <2>3. [h.pending[i] EXCEPT !.args = as] \in CallBlock
          /\ [h.pending[i] EXCEPT !.args = as].call = h.pending[i].call
          /\ [h.pending[i] EXCEPT !.args = as].args = as
      BY <1>5, <2>1 DEF CallBlock
    <2>4. DOMAIN g.pending = DOMAIN h.pending /\ g.pending[i] = [h.pending[i] EXCEPT !.args = as]
          /\ \A j \in DOMAIN h.pending : j # i => g.pending[j] = h.pending[j]
      BY <1>0, <1>01, <1>3, <2>2
    <2>5. g.pending \in [DOMAIN g.pending -> CallBlock]
      BY <1>3, <2>2, <2>3, <2>4
    <2> QED BY <2>3, <2>4, <2>5
  <1>7. Heard(g)
    BY <1>2, <1>4, <1>6 DEF Reads, Heard
  <1>8. Fragmented(g, p) /\ Endless(g)
    BY <1>4 DEF Reads, Fragmented, Waiting, Sorted, Endless
  <1>9. /\ r[c] = w /\ r[c].is \in UnderWay /\ Stream!Arguments(r[c]) = as /\ \A d \in Call : d # c => r[d] = s[d]
        /\ Live(r) = Live(s)
    BY <1>0, <1>01, <1>02, <1>5 DEF Sent, Live
  <1>10. \A k \in DOMAIN h.events : h.events[k].kind = "call" => h.events[k].call \in Call /\ h.events[k].call # c
    <2> TAKE k \in DOMAIN h.events
    <2>1. h.events[k] \in ReaderEvent
      BY DEF Reads, Heard
    <2> QED BY <1>5, <2>1, ClosedIs DEF ReaderEvent, Reads, Ledger, Live
  <1>11. Ledger(g, r)
    <2>1. \A j \in DOMAIN g.pending :
            /\ g.pending[j].call \in Live(r)
            /\ g.pending[j].args = Stream!Arguments(r[g.pending[j].call])
            /\ \A l \in DOMAIN g.pending : g.pending[l].call = g.pending[j].call => l = j
      <3> TAKE j \in DOMAIN g.pending
      <3>1. h.pending[j].call \in Live(s) /\ h.pending[j].call \in Call
            /\ h.pending[j].args = Stream!Arguments(s[h.pending[j].call])
            /\ \A l \in DOMAIN h.pending : h.pending[l].call = h.pending[j].call => l = j
        BY <1>6 DEF Reads, Ledger, Live
      <3>2. CASE j = i
        BY <1>0, <1>01, <1>6, <1>9, <3>1, <3>2
      <3>3. CASE j # i
        <4>1. h.pending[j].call # c
          BY <1>0, <1>01, <1>6, <3>1, <3>3
        <4> QED BY <1>6, <1>9, <3>1, <3>3, <4>1
      <3> QED BY <3>2, <3>3
    <2>2. ASSUME NEW d \in Live(r) PROVE \E j \in DOMAIN g.pending : g.pending[j].call = d
      <3>1. PICK j \in DOMAIN h.pending : h.pending[j].call = d
        BY <1>9, <2>2 DEF Reads, Ledger
      <3> QED BY <1>6, <3>1
    <2>3. ASSUME NEW k \in DOMAIN g.events, g.events[k].kind = "call"
          PROVE  /\ r[g.events[k].call].is \in Stream!Closed
                 /\ g.events[k].args = Stream!Arguments(r[g.events[k].call])
                 /\ \A j \in DOMAIN g.events :
                      g.events[j].kind = "call" /\ g.events[j].call = g.events[k].call => j = k
      <3>1. g.events = h.events /\ k \in DOMAIN h.events /\ h.events[k].kind = "call"
        BY <1>4, <2>3
      <3>2. h.events[k].call \in Call /\ h.events[k].call # c
        BY <1>10, <3>1
      <3>3. r[h.events[k].call] = s[h.events[k].call]
        BY <1>9, <3>2
      <3>4. /\ s[h.events[k].call].is \in Stream!Closed
            /\ h.events[k].args = Stream!Arguments(s[h.events[k].call])
            /\ \A j \in DOMAIN h.events :
                 h.events[j].kind = "call" /\ h.events[j].call = h.events[k].call => j = k
        BY <3>1 DEF Reads, Ledger
      <3> QED BY <3>1, <3>3, <3>4
    <2>4. ASSUME NEW d \in Call, r[d].is \in Stream!Closed
          PROVE  \E k \in DOMAIN g.events : g.events[k].kind = "call" /\ g.events[k].call = d
      <3>1. s[d].is \in Stream!Closed /\ g.events = h.events
        BY <1>4, <1>9, <2>4, ClosedIs
      <3> QED BY <3>1 DEF Reads, Ledger
    <2>5. \A d \in Call : r[d].is = "unsent" => r[d] = At(0, 0, "unsent")
      BY <1>9 DEF Reads, Ledger, UnderWay
    <2> QED BY <2>1, <2>2, <2>3, <2>4, <2>5 DEF Ledger
  <1> QED BY <1>1, <1>4, <1>6, <1>7, <1>8, <1>11 DEF Reads

\* The arguments a call has already had are all of them.
LEMMA ArgumentsEnd ==
  ASSUME NEW h, NEW s, Sent(s), Ledger(h, s), NEW c \in Call, s[c].is = "open",
         NEW r, r = Moved(s, c, At(s[c].parts, s[c].again, "given"))
  PROVE  Ledger(h, r)
  <1> USE DEF Moved
  <1>1. /\ r[c].is = "given" /\ r[c].parts = s[c].parts /\ r[c].again = s[c].again /\ \A d \in Call : d # c => r[d] = s[d]
        /\ Live(r) = Live(s)
    BY DEF Sent, Live, UnderWay, At
  <1>11. \A d \in Call : Stream!Arguments(r[d]) = Stream!Arguments(s[d])
    BY <1>1 DEF Stream!Arguments
  <1>2. \A d \in Call : (r[d].is \in Stream!Closed <=> s[d].is \in Stream!Closed) /\ (r[d].is = "unsent" => s[d].is = "unsent")
    BY <1>1 DEF Stream!Closed
  <1>3. \A d \in Live(s) : d \in Call
    BY DEF Live
  <1>4. \A k \in DOMAIN h.events : h.events[k].kind = "call" /\ h.events[k].call # c => r[h.events[k].call] = s[h.events[k].call]
    BY DEF Sent
  <1>5. \A k \in DOMAIN h.events : h.events[k].kind = "call" => h.events[k].call # c
    BY DEF Ledger, Stream!Closed
  <1>6. \A i \in DOMAIN h.pending :
          /\ h.pending[i].call \in Live(r)
          /\ h.pending[i].args = Stream!Arguments(r[h.pending[i].call])
          /\ \A j \in DOMAIN h.pending : h.pending[j].call = h.pending[i].call => j = i
    <2> TAKE i \in DOMAIN h.pending
    <2>1. /\ h.pending[i].call \in Live(s) /\ h.pending[i].args = Stream!Arguments(s[h.pending[i].call])
          /\ \A j \in DOMAIN h.pending : h.pending[j].call = h.pending[i].call => j = i
      BY DEF Ledger
    <2> QED BY <1>1, <1>3, <1>11, <2>1
  <1>7. \A d \in Live(r) : \E i \in DOMAIN h.pending : h.pending[i].call = d
    BY <1>1 DEF Ledger
  <1>8. ASSUME NEW k \in DOMAIN h.events, h.events[k].kind = "call"
        PROVE  /\ r[h.events[k].call].is \in Stream!Closed
               /\ h.events[k].args = Stream!Arguments(r[h.events[k].call])
               /\ \A j \in DOMAIN h.events :
                    h.events[j].kind = "call" /\ h.events[j].call = h.events[k].call => j = k
    <2>1. r[h.events[k].call] = s[h.events[k].call]
      BY <1>4, <1>5, <1>8
    <2> QED BY <1>8, <2>1 DEF Ledger
  <1>9. \A d \in Call : r[d].is \in Stream!Closed => \E k \in DOMAIN h.events : h.events[k].kind = "call" /\ h.events[k].call = d
    BY <1>2 DEF Ledger
  <1>10. \A d \in Call : r[d].is = "unsent" => r[d] = At(0, 0, "unsent")
    BY <1>1, <1>2 DEF Ledger
  <1> QED BY <1>6, <1>7, <1>8, <1>9, <1>10 DEF Ledger

\* The message ends.
LEMMA MessageEnds ==
  ASSUME NEW h, NEW s, NEW p, Told(p), Reads(h, s, p), NEW is \in BOOLEAN, is => h.thinking = None
  PROVE  LET g == Stream!Consume(h, Stream!MessageStop)
         IN  /\ Heard(g) /\ Ledger(g, s) /\ Fragmented(g, p) /\ g.stopped /\ g.pending = h.pending
             /\ is => Over(g)
  <1> DEFINE e == [kind |-> "stop"]
  <1>1. PICK g : g = Stream!Consume(h, Stream!MessageStop)
    OBVIOUS
  <1>2. g = [h EXCEPT !.stopped = TRUE, !.events = Append(h.events, e)]
    BY <1>1 DEF Stream!Consume, Stream!MessageStop
  <1>3. g.events = Append(h.events, e) /\ g.pending = h.pending /\ g.stopped = TRUE /\ g.thinking = h.thinking
    BY <1>2 DEF Reads, Heard
  <1>4. e \in ReaderEvent /\ e.kind = "stop" /\ p.text \in Nat /\ p.think \in Nat
    BY StreamAssumption DEF ReaderEvent, Told
  <1>5. /\ g.events \in Seq(ReaderEvent) /\ Grows(h, g, {"stop"}) /\ Len(g.events) = Len(h.events) + 1
        /\ g.events[Len(g.events)] = e
    <2> HIDE DEF e
    <2> QED BY <1>3, <1>4, OneMore DEF Reads
  <1>6. Heard(g)
    BY <1>2, <1>3, <1>5 DEF Reads, Heard
  <1>7. Ledger(g, s)
    BY <1>3, <1>5, <1>6, LedgerGrows DEF Reads
  <1>8. Fragmented(g, p)
    <2>1. Waiting(g) = Waiting(h) /\ Heard(h) /\ Fragmented(h, p) /\ "text" \notin {"stop"} /\ "reasoning" \notin {"stop"}
      BY <1>3 DEF Waiting, Reads
    <2>2. Sorted(g, "text", p.text, {})
      BY <1>4, <1>5, <1>6, <2>1, SortedGrows DEF Fragmented
    <2>3. Sorted(g, "reasoning", p.think, Waiting(g))
      BY <1>4, <1>5, <1>6, <2>1, SortedGrows DEF Fragmented
    <2> QED BY <2>2, <2>3 DEF Fragmented
  <1>9. \A k \in DOMAIN g.events : g.events[k].kind = "stop" <=> k = Len(g.events)
    BY <1>3, <1>5 DEF Reads, Heard, Grows, Endless
  <1>10. is => Over(g)
    BY <1>3, <1>5, <1>9 DEF Over, Reads, Heard
  <1> HIDE DEF e
  <1> QED BY <1>1, <1>3, <1>6, <1>7, <1>8, <1>10
-----------------------------------------------------------------------------
(* What the translator has open *)

Steady(x, s, p) == Translator(x) /\ Reads(x.client, s, p) /\ Blocks(x)
SameCalls(x, y) == y.active = x.active /\ y.given = x.given

\* A translator, part by part
LEMMA TranslatorParts ==
  ASSUME NEW x, Translator(x)
  PROVE  /\ x.next \in Nat /\ x.text \in Nat \cup {None} /\ x.think \in Nat \cup {None}
         /\ x.active \in [DOMAIN x.active -> Nat] /\ DOMAIN x.active \subseteq CallKey /\ x.given \in SUBSET CallKey
         /\ Heard(x.client) /\ DOMAIN x.client.pending \subseteq 0 .. x.next - 1
         /\ DOMAIN x.client.pending \subseteq 0 .. (x.next + 1) - 1
         /\ \A j \in DOMAIN x.client.pending : j \in Nat /\ j < x.next
  <1>1. DOMAIN x.client.pending \subseteq 0 .. x.next - 1 /\ x.next \in Nat
    BY DEF Translator
  <1> QED BY <1>1 DEF Translator

MayBe(n, t, u, a, v, g) ==
  /\ n \in Nat /\ t \in Nat \cup {None} /\ u \in Nat \cup {None}
  /\ a \in [DOMAIN a -> Nat] /\ DOMAIN a \subseteq CallKey /\ v \in SUBSET CallKey
  /\ Heard(g) /\ DOMAIN g.pending \subseteq 0 .. n - 1
Rebuilt(n, t, u, a, v, g) == [next |-> n, text |-> t, think |-> u, active |-> a, given |-> v, client |-> g]

\* A translator whose parts are what they may be
LEMMA Rebuilds ==
  ASSUME NEW n, NEW t, NEW u, NEW a, NEW v, NEW g, MayBe(n, t, u, a, v, g),
         NEW y, y = Rebuilt(n, t, u, a, v, g)
  PROVE  /\ Translator(y) /\ y.next = n /\ y.text = t /\ y.think = u /\ y.active = a /\ y.given = v /\ y.client = g
  <1> USE DEF MayBe
  <1>1. y = [next |-> n, text |-> t, think |-> u, active |-> a, given |-> v, client |-> g]
    BY DEF Rebuilt
  <1>2. y.next = n /\ y.text = t /\ y.think = u /\ y.active = a /\ y.given = v /\ y.client = g
    BY <1>1
  <1>3. y \in [next : Nat, text : Nat \cup {None}, think : Nat \cup {None}, active : {y.active}, given : SUBSET CallKey, client : {y.client}]
    BY <1>1, <1>2
  <1> QED BY <1>1, <1>2, <1>3 DEF Translator

\* A translator after its reader has taken an event
LEMMA Hears ==
  ASSUME NEW x, Translator(x), NEW g, Heard(g), DOMAIN g.pending \subseteq 0 .. x.next - 1,
         NEW y, y = [x EXCEPT !.client = g]
  PROVE  Translator(y) /\ y.next = x.next /\ y.text = x.text /\ y.think = x.think /\ SameCalls(x, y) /\ y.client = g
  BY DEF Translator, SameCalls

\* The block of text is closed,
LEMMA TextCloses ==
  ASSUME NEW x, NEW s, NEW p, Sent(s), Told(p), Steady(x, s, p), x.think = None
  PROVE  LET y == Stream!CloseText(x)
         IN  /\ Steady(y, s, p) /\ y.text = None /\ y.think = None /\ SameCalls(x, y)
             /\ y.next = x.next /\ y.client.pending = x.client.pending
  <1>1. CASE x.text = None
    BY <1>1 DEF Stream!CloseText, SameCalls
  <1>2. CASE x.text # None
    <2>1. PICK z : z = [x EXCEPT !.text = None]
      OBVIOUS
    <2>2. PICK g : g = Stream!Consume(x.client, Stream!Stop(x.text))
      OBVIOUS
    <2>3. PICK y : y = [z EXCEPT !.client = g]
      OBVIOUS
    <2>4. Translator(z) /\ z.next = x.next /\ z.text = None /\ z.think = x.think /\ SameCalls(x, z) /\ z.client = x.client
      BY <2>1 DEF Steady, Translator, SameCalls
    <2>5. y = Stream!CloseText(x)
      BY <1>2, <2>1, <2>2, <2>3, <2>4 DEF Stream!CloseText, Stream!Says
    <2>6. x.next \in Nat /\ DOMAIN x.client.pending \subseteq 0 .. x.next - 1 /\ x.text \notin DOMAIN x.client.pending
      BY <1>2 DEF Steady, Translator, Blocks
    <2>7. Reads(g, s, p) /\ g.thinking = None /\ g.pending = x.client.pending
      BY <2>2, <2>6, NothingStops DEF Steady
    <2>8. Translator(y) /\ y.next = x.next /\ y.text = None /\ y.think = None /\ SameCalls(z, y) /\ y.client = g
      BY <2>3, <2>4, <2>6, <2>7, Hears DEF Reads
    <2>9. Blocks(y)
      BY <2>7, <2>8 DEF Blocks
    <2> QED BY <2>4, <2>5, <2>7, <2>8, <2>9 DEF Steady, SameCalls
  <1> QED BY <1>1, <1>2

\* the block of reasoning too, and its fragments are delivered.
LEMMA ThinkCloses ==
  ASSUME NEW x, NEW s, NEW p, Sent(s), Told(p), Steady(x, s, p)
  PROVE  LET y == Stream!CloseThink(x)
         IN  /\ Steady(y, s, p) /\ y.think = None /\ y.text = x.text /\ SameCalls(x, y)
             /\ y.next = x.next /\ y.client.pending = x.client.pending
  <1>1. CASE x.think = None
    BY <1>1 DEF Stream!CloseThink, SameCalls
  <1>2. CASE x.think # None
    <2>1. PICK z : z = [x EXCEPT !.think = None]
      OBVIOUS
    <2>2. PICK g : g = Stream!Consume(x.client, Stream!Stop(x.think))
      OBVIOUS
    <2>3. PICK y : y = [z EXCEPT !.client = g]
      OBVIOUS
    <2>4. Translator(z) /\ z.next = x.next /\ z.text = x.text /\ z.think = None /\ SameCalls(x, z) /\ z.client = x.client
      BY <2>1 DEF Steady, Translator, SameCalls
    <2>5. y = Stream!CloseThink(x)
      BY <1>2, <2>1, <2>2, <2>3, <2>4 DEF Stream!CloseThink, Stream!Says
    <2>6. x.next \in Nat /\ DOMAIN x.client.pending \subseteq 0 .. x.next - 1 /\ x.think \notin DOMAIN x.client.pending
      BY <1>2 DEF Steady, Translator, Blocks
    <2>7. Reads(g, s, p) /\ g.thinking = None /\ g.pending = x.client.pending
      BY <2>2, <2>6, NothingStops DEF Steady
    <2>8. Translator(y) /\ y.next = x.next /\ y.text = x.text /\ y.think = None /\ SameCalls(z, y) /\ y.client = g
      BY <2>3, <2>4, <2>6, <2>7, Hears DEF Reads
    <2>9. Blocks(y)
      BY <2>7, <2>8 DEF Blocks, Steady
    <2> QED BY <2>4, <2>5, <2>7, <2>8, <2>9 DEF Steady, SameCalls
  <1> QED BY <1>1, <1>2

\* A block of text is opened,
LEMMA TextOpens ==
  ASSUME NEW x, NEW s, NEW p, Steady(x, s, p), x.text = None
  PROVE  LET y == [Stream!Opened(x, "text", None) EXCEPT !.text = x.next]
         IN  /\ Steady(y, s, p) /\ y.text = x.next /\ y.think = x.think /\ SameCalls(x, y)
             /\ y.next = x.next + 1 /\ y.client = x.client
  <1>1. PICK y : y = [x EXCEPT !.next = x.next + 1, !.text = x.next]
    OBVIOUS
  <1>2. Stream!Consume(x.client, Stream!Start(x.next, "text", None)) = x.client
    BY DEF Stream!Consume, Stream!Start
  <1>3. [x EXCEPT !.next = x.next + 1].client = x.client
        /\ [[x EXCEPT !.next = x.next + 1] EXCEPT !.client = x.client] = [x EXCEPT !.next = x.next + 1]
    BY DEF Steady, Translator
  <1>4. Stream!Opened(x, "text", None) = [x EXCEPT !.next = x.next + 1]
    BY <1>2, <1>3 DEF Stream!Opened, Stream!Says
  <1>5. y = [Stream!Opened(x, "text", None) EXCEPT !.text = x.next]
    BY <1>1, <1>4
  <1>6. Translator(y) /\ y.text = x.next /\ y.think = x.think /\ SameCalls(x, y)
        /\ y.next = x.next + 1 /\ y.client = x.client
    <2>1. y = Rebuilt(x.next + 1, x.next, x.think, x.active, x.given, x.client)
      BY <1>1 DEF Steady, Translator, Rebuilt
    <2>2. x.next + 1 \in Nat /\ x.next \in Nat \cup {None}
      BY TranslatorParts DEF Steady
    <2>3. /\ x.think \in Nat \cup {None} /\ x.active \in [DOMAIN x.active -> Nat] /\ DOMAIN x.active \subseteq CallKey
          /\ x.given \in SUBSET CallKey /\ Heard(x.client) /\ DOMAIN x.client.pending \subseteq 0 .. (x.next + 1) - 1
      BY TranslatorParts DEF Steady
    <2>4. Translator(y) /\ y.next = x.next + 1 /\ y.text = x.next /\ y.think = x.think /\ y.active = x.active
          /\ y.given = x.given /\ y.client = x.client
      BY <2>1, <2>2, <2>3, Rebuilds DEF MayBe
    <2> QED BY <2>4 DEF SameCalls
  <1>7. Blocks(y)
    BY <1>6, StreamAssumption DEF Steady, Translator, Blocks
  <1> QED BY <1>5, <1>6, <1>7 DEF Steady

\* a block of reasoning,
LEMMA ThinkOpens ==
  ASSUME NEW x, NEW s, NEW p, Told(p), Steady(x, s, p), x.think = None
  PROVE  LET y == [Stream!Opened(x, "think", None) EXCEPT !.think = x.next]
         IN  /\ Steady(y, s, p) /\ y.think = x.next /\ SameCalls(x, y)
             /\ y.next = x.next + 1 /\ y.client.pending = x.client.pending
  <1>1. PICK g : g = [x.client EXCEPT !.thinking = {}]
    OBVIOUS
  <1>2. PICK y : y = [x EXCEPT !.next = x.next + 1, !.think = x.next, !.client = g]
    OBVIOUS
  <1>3. Stream!Consume(x.client, Stream!Start(x.next, "think", None)) = g
    BY <1>1 DEF Stream!Consume, Stream!Start
  <1>4. [x EXCEPT !.next = x.next + 1].client = x.client
    BY DEF Steady, Translator
  <1>5. Stream!Opened(x, "think", None) = [[x EXCEPT !.next = x.next + 1] EXCEPT !.client = g]
    BY <1>3, <1>4 DEF Stream!Opened, Stream!Says
  <1>6. y = [Stream!Opened(x, "think", None) EXCEPT !.think = x.next]
    BY <1>2, <1>5 DEF Steady, Translator
  <1>7. /\ g.events = x.client.events /\ g.pending = x.client.pending /\ g.thinking = {}
        /\ g.stopped = x.client.stopped /\ Heard(g)
    BY <1>1 DEF Steady, Reads, Heard
  <1>8. x.client.thinking = None /\ None # {}
    BY StreamAssumption DEF Steady, Blocks
  <1>9. Reads(g, s, p)
    <2>1. Waiting(g) = {} /\ Waiting(x.client) = {}
      BY <1>7, <1>8 DEF Waiting
    <2>2. Ledger(x.client, s) /\ Fragmented(x.client, p) /\ Endless(x.client)
      BY DEF Steady, Reads
    <2>3. Ledger(g, s)
      <3>1. PICK h : h = x.client
        OBVIOUS
      <3>2. Heard(h) /\ Ledger(h, s) /\ g.pending = h.pending /\ g.events = h.events
        BY <1>7, <2>2, <3>1 DEF Steady, Reads
      <3>3. Grows(h, g, {})
        BY <3>2 DEF Grows, Heard
      <3> QED BY <1>7, <3>2, <3>3, LedgerGrows
    <2>4. Fragmented(g, p)
      BY <1>7, <2>1, <2>2 DEF Fragmented, Sorted
    <2>5. Endless(g)
      BY <1>7, <2>2 DEF Endless
    <2> QED BY <1>7, <2>3, <2>4, <2>5 DEF Reads
  <1>10. Translator(y) /\ y.text = x.text /\ y.think = x.next /\ SameCalls(x, y)
        /\ y.next = x.next + 1 /\ y.client = g
    <2>1. y = Rebuilt(x.next + 1, x.text, x.next, x.active, x.given, g)
      BY <1>2 DEF Steady, Translator, Rebuilt
    <2>2. x.next + 1 \in Nat /\ x.next \in Nat \cup {None} /\ DOMAIN g.pending \subseteq 0 .. (x.next + 1) - 1
      BY <1>7, TranslatorParts DEF Steady
    <2> QED BY <1>7, <2>1, <2>2, TranslatorParts, Rebuilds DEF Steady, MayBe, SameCalls
  <1>11. Blocks(y)
    BY <1>7, <1>8, <1>10, StreamAssumption DEF Steady, Translator, Blocks
  <1> QED BY <1>6, <1>7, <1>9, <1>10, <1>11 DEF Steady

\* A block of a call, opened
Opens(x, y, c) ==
  /\ y.text = x.text /\ y.think = x.think /\ SameCalls(x, y) /\ y.next = x.next + 1
  /\ DOMAIN y.client.pending = DOMAIN x.client.pending \cup {x.next}
  /\ y.client.pending[x.next].call = c
  /\ \A j \in DOMAIN x.client.pending : y.client.pending[j] = x.client.pending[j]

\* the block of a call.
LEMMA CallBlockOpens ==
  ASSUME NEW x, NEW s, NEW p, Sent(s), Told(p), Steady(x, s, p), NEW c \in Call, s[c].is = "unsent",
         NEW r, r = Moved(s, c, At(0, 0, "open"))
  PROVE  Steady(Stream!Opened(x, "call", c), r, p) /\ Opens(x, Stream!Opened(x, "call", c), c)
  <1>1. PICK g : g = Stream!Consume(x.client, Stream!Start(x.next, "call", c))
    OBVIOUS
  <1>2. PICK y : y = [x EXCEPT !.next = x.next + 1, !.client = g]
    OBVIOUS
  <1>3. [x EXCEPT !.next = x.next + 1].client = x.client
    BY DEF Steady, Translator
  <1>4. y = Stream!Opened(x, "call", c)
    BY <1>1, <1>2, <1>3 DEF Stream!Opened, Stream!Says
  <1>5. x.next \in Nat /\ x.next \notin DOMAIN x.client.pending /\ DOMAIN x.client.pending \subseteq 0 .. x.next - 1
    BY DEF Steady, Translator
  <1>6. /\ Reads(g, r, p) /\ g.thinking = x.client.thinking
        /\ DOMAIN g.pending = DOMAIN x.client.pending \cup {x.next} /\ g.pending[x.next].call = c
        /\ \A j \in DOMAIN x.client.pending : g.pending[j] = x.client.pending[j]
    <2>1. Reads(x.client, s, p)
      BY DEF Steady
    <2>2. PICK h : h = x.client
      OBVIOUS
    <2>3. PICK i \in Nat : i = x.next
      BY <1>5
    <2>4. g = Stream!Consume(h, Stream!Start(i, "call", c)) /\ i \notin DOMAIN h.pending /\ Reads(h, s, p)
      BY <1>1, <1>5, <2>1, <2>2, <2>3
    <2>5. /\ Reads(g, r, p) /\ g.thinking = h.thinking
          /\ DOMAIN g.pending = DOMAIN h.pending \cup {i} /\ g.pending[i].call = c
          /\ \A j \in DOMAIN h.pending : g.pending[j] = h.pending[j]
      BY <2>4, CallOpens
    <2> QED BY <2>2, <2>3, <2>5
  <1>7. /\ y.text = x.text /\ y.think = x.think /\ SameCalls(x, y)
        /\ y.next = x.next + 1 /\ y.client = g /\ Translator(y)
    <2>1. y = Rebuilt(x.next + 1, x.text, x.think, x.active, x.given, g)
      BY <1>2 DEF Steady, Translator, Rebuilt
    <2>2. x.next + 1 \in Nat /\ DOMAIN g.pending \subseteq 0 .. (x.next + 1) - 1 /\ Heard(g)
      BY <1>6, TranslatorParts DEF Steady, Reads
    <2>3. Translator(y) /\ y = Rebuilt(y.next, y.text, y.think, x.active, x.given, y.client)
      BY <2>1, <2>2, TranslatorParts, Rebuilds DEF Steady, MayBe
    <2> QED BY <2>1, <2>3 DEF Rebuilt, SameCalls
  <1>9. Blocks(y)
    BY <1>5, <1>6, <1>7, StreamAssumption DEF Steady, Translator, Blocks
  <1> QED BY <1>4, <1>6, <1>7, <1>9 DEF Steady, Opens

\* What a step of the translator leaves as it was, and what it changes
SameBlocks(x, y) == y.next = x.next /\ y.text = x.text /\ y.think = x.think /\ SameCalls(x, y)

KeepsBlocks(x, y) ==
  /\ SameBlocks(x, y) /\ DOMAIN y.client.pending = DOMAIN x.client.pending
  /\ \A j \in DOMAIN x.client.pending : y.client.pending[j].call = x.client.pending[j].call
LosesBlocks(x, y, is) ==
  /\ SameBlocks(x, y) /\ DOMAIN y.client.pending = DOMAIN x.client.pending \ is
  /\ \A j \in DOMAIN y.client.pending : y.client.pending[j] = x.client.pending[j]
Keyed(a, v) == a \in [DOMAIN a -> Nat] /\ DOMAIN a \subseteq CallKey /\ v \in SUBSET CallKey
Renamed(x, y, a, v) ==
  y.next = x.next /\ y.text = x.text /\ y.think = x.think /\ y.client = x.client /\ y.active = a /\ y.given = v

\* What a translator says changes only what its reader holds.
LEMMA SaysIs ==
  ASSUME NEW x, Translator(x), NEW e, Heard(Stream!Consume(x.client, e)),
         DOMAIN Stream!Consume(x.client, e).pending \subseteq DOMAIN x.client.pending
  PROVE  Translator(Stream!Says(x, e)) /\ SameBlocks(x, Stream!Says(x, e)) /\ Stream!Says(x, e).client = Stream!Consume(x.client, e)
  <1>1. PICK g : g = Stream!Consume(x.client, e)
    OBVIOUS
  <1>2. PICK y : y = [x EXCEPT !.client = g]
    OBVIOUS
  <1>3. y = Stream!Says(x, e)
    BY <1>1, <1>2 DEF Stream!Says
  <1>4. Heard(g) /\ DOMAIN g.pending \subseteq 0 .. x.next - 1
    BY <1>1, TranslatorParts
  <1>5. Translator(y) /\ y.next = x.next /\ y.text = x.text /\ y.think = x.think /\ SameCalls(x, y) /\ y.client = g
    BY <1>2, <1>4, Hears
  <1> QED BY <1>1, <1>3, <1>5 DEF SameBlocks

\* A fragment of text is said,
LEMMA TextSaid ==
  ASSUME NEW x, NEW s, NEW p, Told(p), Steady(x, s, p), p.text < MaxProse, NEW i
  PROVE  LET y == Stream!Says(x, Stream!Prose(i, "text", p.text + 1))
         IN  Steady(y, s, MoreText(p)) /\ KeepsBlocks(x, y)
  <1>1. PICK y : y = Stream!Says(x, Stream!Prose(i, "text", p.text + 1))
    OBVIOUS
  <1>2. PICK g : g = Stream!Consume(x.client, Stream!Prose(i, "text", p.text + 1))
    OBVIOUS
  <1>3. Reads(g, s, MoreText(p)) /\ g.thinking = x.client.thinking /\ g.pending = x.client.pending
    BY <1>2, TextComes DEF Steady
  <1>4. Translator(y) /\ SameBlocks(x, y) /\ y.client = g
    BY <1>1, <1>2, <1>3, SaysIs DEF Steady, Reads
  <1>5. Blocks(y)
    BY <1>3, <1>4 DEF Steady, Blocks, SameBlocks
  <1> QED BY <1>1, <1>3, <1>4, <1>5 DEF Steady, KeepsBlocks

\* one of reasoning, which waits,
LEMMA ThoughtSaid ==
  ASSUME NEW x, NEW s, NEW p, Told(p), Steady(x, s, p), p.think < MaxProse, x.think # None, NEW i
  PROVE  LET y == Stream!Says(x, Stream!Prose(i, "think", p.think + 1))
         IN  Steady(y, s, MoreThought(p)) /\ KeepsBlocks(x, y)
  <1>1. PICK y : y = Stream!Says(x, Stream!Prose(i, "think", p.think + 1))
    OBVIOUS
  <1>2. PICK g : g = Stream!Consume(x.client, Stream!Prose(i, "think", p.think + 1))
    OBVIOUS
  <1>3. x.client.thinking # None
    BY DEF Steady, Blocks
  <1>4. Reads(g, s, MoreThought(p)) /\ g.thinking # None /\ g.pending = x.client.pending
    BY <1>2, <1>3, ThoughtComes DEF Steady
  <1>5. Translator(y) /\ SameBlocks(x, y) /\ y.client = g
    BY <1>1, <1>2, <1>4, SaysIs DEF Steady, Reads
  <1>6. Blocks(y)
    BY <1>3, <1>4, <1>5 DEF Steady, Blocks, SameBlocks
  <1> QED BY <1>1, <1>4, <1>5, <1>6 DEF Steady, KeepsBlocks

\* one of the arguments of a call,
LEMMA ArgumentsSaid ==
  ASSUME NEW x, NEW s, NEW p, Sent(s), Told(p), Steady(x, s, p),
         NEW i, NEW c, NEW ps, NEW r, Continues(x.client, i, c, ps, s, r)
  PROVE  LET y == Stream!Says(x, Stream!Json(i, ps))
         IN  Steady(y, r, p) /\ KeepsBlocks(x, y)
  <1>1. PICK y : y = Stream!Says(x, Stream!Json(i, ps))
    OBVIOUS
  <1>2. PICK g : g = Stream!Consume(x.client, Stream!Json(i, ps))
    OBVIOUS
  <1>3. Reads(x.client, s, p)
    BY DEF Steady
  <1>4. /\ Reads(g, r, p) /\ g.thinking = x.client.thinking
        /\ DOMAIN g.pending = DOMAIN x.client.pending
        /\ \A j \in DOMAIN x.client.pending : g.pending[j].call = x.client.pending[j].call
    BY <1>2, <1>3, ArgumentsCome
  <1>5. Translator(y) /\ SameBlocks(x, y) /\ y.client = g
    BY <1>1, <1>2, <1>4, SaysIs DEF Steady, Reads
  <1>6. Blocks(y)
    BY <1>4, <1>5 DEF Steady, Blocks, SameBlocks
  <1> QED BY <1>1, <1>4, <1>5, <1>6 DEF Steady, KeepsBlocks

\* the end of the block of a call,
LEMMA StopSaid ==
  ASSUME NEW x, NEW s, NEW p, Sent(s), Told(p), Steady(x, s, p), x.think = None,
         NEW i, NEW r, Completes(x.client, {i}, s, r)
  PROVE  LET y == Stream!Says(x, Stream!Stop(i))
         IN  Steady(y, r, p) /\ LosesBlocks(x, y, {i})
  <1>1. PICK y : y = Stream!Says(x, Stream!Stop(i))
    OBVIOUS
  <1>2. PICK g : g = Stream!Consume(x.client, Stream!Stop(i))
    OBVIOUS
  <1>3. Reads(x.client, s, p) /\ x.next \in Nat /\ DOMAIN x.client.pending \subseteq 0 .. x.next - 1
    BY TranslatorParts DEF Steady
  <1>4. /\ Reads(g, r, p) /\ g.thinking = None
        /\ DOMAIN g.pending = DOMAIN x.client.pending \ {i}
        /\ \A j \in DOMAIN g.pending : g.pending[j] = x.client.pending[j]
    <2>1. PICK h, n : h = x.client /\ n = x.next
      OBVIOUS
    <2>2. n \in Nat /\ Reads(h, s, p) /\ DOMAIN h.pending \subseteq 0 .. n - 1 /\ Completes(h, {i}, s, r)
      BY <1>3, <2>1
    <2>3. /\ Reads(g, r, p) /\ g.thinking = None
          /\ DOMAIN g.pending = DOMAIN h.pending \ {i}
          /\ \A j \in DOMAIN g.pending : g.pending[j] = h.pending[j]
      <3>1. g = Stream!Consume(h, Stream!Stop(i))
        BY <1>2, <2>1
      <3> HIDE <1>1, <1>2, <1>3, <2>1
      <3> QED BY <2>2, <3>1, BlockStops
    <2> QED BY <2>1, <2>3
  <1>5. Translator(y) /\ SameBlocks(x, y) /\ y.client = g
    BY <1>1, <1>2, <1>4, SaysIs DEF Steady, Reads
  <1>6. Blocks(y)
    BY <1>4, <1>5 DEF Steady, Blocks, SameBlocks
  <1> QED BY <1>1, <1>4, <1>5, <1>6 DEF Steady, LosesBlocks

\* the end of several blocks,
LEMMA AllStop ==
  ASSUME NEW x, NEW s, NEW p, Sent(s), Told(p), Steady(x, s, p),
         NEW is, NEW r, Completes(x.client, is, s, r)
  PROVE  LET y == Stream!StopAll(x, is)
         IN  Steady(y, r, p) /\ LosesBlocks(x, y, is)
  <1>1. PICK g : g = Stream!StoppedCalls(x.client, is)
    OBVIOUS
  <1>2. PICK y : y = [x EXCEPT !.client = g]
    OBVIOUS
  <1>3. y = Stream!StopAll(x, is)
    BY <1>1, <1>2 DEF Stream!StopAll
  <1>4. Reads(x.client, s, p) /\ x.next \in Nat /\ DOMAIN x.client.pending \subseteq 0 .. x.next - 1
    BY TranslatorParts DEF Steady
  <1>5. /\ Reads(g, r, p) /\ g.thinking = x.client.thinking
        /\ DOMAIN g.pending = DOMAIN x.client.pending \ is
        /\ \A j \in DOMAIN g.pending : g.pending[j] = x.client.pending[j]
    BY <1>1, <1>4, CallsStop
  <1>6. Heard(g) /\ DOMAIN g.pending \subseteq 0 .. x.next - 1
    BY <1>4, <1>5 DEF Reads
  <1>7. Translator(y) /\ y.next = x.next /\ y.text = x.text /\ y.think = x.think /\ SameCalls(x, y) /\ y.client = g
    BY <1>2, <1>6, Hears DEF Steady
  <1>8. Blocks(y)
    BY <1>5, <1>7 DEF Steady, Blocks
  <1> QED BY <1>3, <1>5, <1>7, <1>8 DEF Steady, SameBlocks, LosesBlocks

\* The translator has ended the message.
Ended(x, s, p) == Translator(x) /\ Ledger(x.client, s) /\ Fragmented(x.client, p) /\ Over(x.client)

\* and the end of the message.
LEMMA EndSaid ==
  ASSUME NEW x, NEW s, NEW p, Told(p), Steady(x, s, p), x.think = None
  PROVE  Ended(Stream!Says(x, Stream!MessageStop), s, p)
  <1>1. PICK y : y = Stream!Says(x, Stream!MessageStop)
    OBVIOUS
  <1>2. PICK g : g = Stream!Consume(x.client, Stream!MessageStop)
    OBVIOUS
  <1>3. x.client.thinking = None /\ Reads(x.client, s, p) /\ TRUE \in BOOLEAN
    BY DEF Steady, Blocks
  <1>4. Heard(g) /\ Ledger(g, s) /\ Fragmented(g, p) /\ g.pending = x.client.pending /\ Over(g)
    BY <1>2, <1>3, MessageEnds
  <1>5. Translator(y) /\ y.client = g
    BY <1>1, <1>2, <1>4, SaysIs DEF Steady
  <1> QED BY <1>1, <1>4, <1>5 DEF Ended
-----------------------------------------------------------------------------
(* Chat completions *)

\* The same translator, with other keys for the calls it has open
LEMMA Renames ==
  ASSUME NEW x, NEW s, NEW p, Steady(x, s, p),
         NEW a, NEW v, Keyed(a, v),
         NEW y, y = Rebuilt(x.next, x.text, x.think, a, v, x.client)
  PROVE  Steady(y, s, p) /\ Renamed(x, y, a, v)
  <1>1. /\ x.next \in Nat /\ x.text \in Nat \cup {None} /\ x.think \in Nat \cup {None}
        /\ Heard(x.client) /\ DOMAIN x.client.pending \subseteq 0 .. x.next - 1
    BY TranslatorParts DEF Steady
  <1>2. /\ Translator(y) /\ y.next = x.next /\ y.text = x.text /\ y.think = x.think /\ y.client = x.client
        /\ y.active = a /\ y.given = v
    BY <1>1, Rebuilds DEF MayBe, Keyed
  <1> QED BY <1>2 DEF Steady, Blocks, Renamed

\* Two fields that are replaced are a translator rebuilt.
LEMMA Rekeys ==
  ASSUME NEW x, Translator(x), NEW a, NEW v
  PROVE  [x EXCEPT !.active = a, !.given = v] = Rebuilt(x.next, x.text, x.think, a, v, x.client)
  <1>1. PICK n, t, u, k, g, h : x = [next |-> n, text |-> t, think |-> u, active |-> k, given |-> g, client |-> h]
    BY DEF Translator
  <1>2. PICK y : y = [x EXCEPT !.active = a, !.given = v]
    OBVIOUS
  <1>3. y = [next |-> n, text |-> t, think |-> u, active |-> a, given |-> v, client |-> h]
    BY <1>1, <1>2
  <1>4. x.next = n /\ x.text = t /\ x.think = u /\ x.client = h
    BY <1>1
  <1> QED BY <1>2, <1>3, <1>4 DEF Rebuilt

\* The keys of chat completions hold as long as blocks and calls stay.
LEMMA ChatKeeps ==
  ASSUME NEW x, NEW s, NEW y, Chat(x, s), SameCalls(x, y), DOMAIN y.client.pending = DOMAIN x.client.pending,
         \A j \in DOMAIN x.client.pending : y.client.pending[j].call = x.client.pending[j].call
  PROVE  Chat(y, s)
  BY DEF Chat, SameCalls

\* A chunk with reasoning
LEMMA ChatThinks ==
  ASSUME NEW x, NEW s, NEW p, Sent(s), Told(p), Steady(x, s, p), Chat(x, s), p.think < MaxProse
  PROVE  LET y == Stream!ChatThink(x, p.think + 1)
         IN  Steady(y, s, MoreThought(p)) /\ Chat(y, s)
  <1>1. PICK o : o = IF x.think = None THEN [Stream!Opened(x, "think", None) EXCEPT !.think = x.next] ELSE x
    OBVIOUS
  <1>2. Steady(o, s, p) /\ o.think # None /\ SameCalls(x, o) /\ o.client.pending = x.client.pending
    <2>1. CASE x.think = None
      <3>1. x.next \in Nat /\ x.next # None
        BY TranslatorParts, StreamAssumption DEF Steady
      <3> QED BY <1>1, <2>1, <3>1, ThinkOpens
    <2>2. CASE x.think # None
      BY <1>1, <2>2 DEF SameCalls
    <2> QED BY <2>1, <2>2
  <1>3. PICK y : y = Stream!Says(o, Stream!Prose(o.think, "think", p.think + 1))
    OBVIOUS
  <1>4. Steady(y, s, MoreThought(p)) /\ KeepsBlocks(o, y)
    BY <1>2, <1>3, ThoughtSaid
  <1>5. Chat(y, s)
    BY <1>2, <1>4, ChatKeeps DEF KeepsBlocks, SameBlocks, SameCalls
  <1> QED BY <1>1, <1>3, <1>4, <1>5 DEF Stream!ChatThink

\* A translator that has a block of text open
Texted(x) == IF x.text = None THEN [Stream!Opened(x, "text", None) EXCEPT !.text = x.next] ELSE x

\* The block of text is there when a fragment comes.
LEMMA TextIsOpen ==
  ASSUME NEW x, NEW s, NEW p, Steady(x, s, p)
  PROVE  /\ Steady(Texted(x), s, p) /\ Texted(x).text # None /\ Texted(x).think = x.think
         /\ SameCalls(x, Texted(x)) /\ Texted(x).client = x.client
         /\ Texted(x).text = Texted(x).next - 1 \/ Texted(x) = x
  <1>1. CASE x.text = None
    <2>1. x.next \in Nat /\ x.next # None
      BY TranslatorParts, StreamAssumption DEF Steady
    <2>2. PICK y : y = [Stream!Opened(x, "text", None) EXCEPT !.text = x.next]
      OBVIOUS
    <2>3. /\ Steady(y, s, p) /\ y.text = x.next /\ y.think = x.think /\ SameCalls(x, y)
          /\ y.next = x.next + 1 /\ y.client = x.client
      BY <1>1, <2>2, TextOpens
    <2>4. Texted(x) = y
      BY <1>1, <2>2 DEF Texted
    <2>5. y.text = y.next - 1
      BY <2>1, <2>3
    <2> QED BY <2>1, <2>3, <2>4, <2>5
  <1>2. CASE x.text # None
    BY <1>2 DEF Texted, SameCalls
  <1> QED BY <1>1, <1>2

\* A chunk with text
LEMMA ChatSpeaks ==
  ASSUME NEW x, NEW s, NEW p, Sent(s), Told(p), Steady(x, s, p), Chat(x, s), p.text < MaxProse
  PROVE  LET y == Stream!ChatText(x, p.text + 1)
         IN  Steady(y, s, MoreText(p)) /\ Chat(y, s)
  <1>1. PICK z : z = Stream!CloseThink(x)
    OBVIOUS
  <1>2. Steady(z, s, p) /\ SameCalls(x, z) /\ z.client.pending = x.client.pending
    BY <1>1, ThinkCloses
  <1>3. PICK o : o = Texted(z)
    OBVIOUS
  <1>4. Steady(o, s, p) /\ SameCalls(z, o) /\ o.client = z.client
    BY <1>2, <1>3, TextIsOpen
  <1>5. PICK y : y = Stream!Says(o, Stream!Prose(o.text, "text", p.text + 1))
    OBVIOUS
  <1>6. Steady(y, s, MoreText(p)) /\ KeepsBlocks(o, y)
    BY <1>4, <1>5, TextSaid
  <1>7. Chat(y, s)
    BY <1>2, <1>4, <1>6, ChatKeeps DEF KeepsBlocks, SameBlocks, SameCalls
  <1>8. y = Stream!ChatText(x, p.text + 1)
    BY <1>1, <1>3, <1>5 DEF Stream!ChatText, Texted
  <1> QED BY <1>6, <1>7, <1>8

\* One more key
LEMMA WithIs ==
  ASSUME NEW D, NEW f \in [D -> Nat], NEW k, NEW e \in Nat
  PROVE  /\ Stream!With(f, k, e) \in [D \cup {k} -> Nat] /\ DOMAIN Stream!With(f, k, e) = D \cup {k}
         /\ Stream!With(f, k, e)[k] = e /\ \A j \in D : j # k => Stream!With(f, k, e)[j] = f[j]
  BY DEF Stream!With

\* A chunk with a call: the first one opens its block, the later ones find it.
LEMMA ChatCalls ==
  ASSUME NEW x, NEW s, NEW p, Sent(s), Told(p), Steady(x, s, p), Chat(x, s),
         NEW c \in Call, NEW n \in {0, 1}, s[c].is = "unsent" \/ n = 1,
         NEW r, r = Moved(s, c, At(s[c].parts + n, s[c].again, "open"))
  PROVE  LET y == Stream!ChatCall(x, c, IF n = 0 THEN <<>> ELSE <<s[c].parts + 1>>)
         IN  Steady(y, r, p) /\ Chat(y, r)
  <1> DEFINE ps == IF n = 0 THEN <<>> ELSE <<s[c].parts + 1>>
             z == Stream!CloseText(Stream!CloseThink(x))
             o == IF c \in DOMAIN x.active THEN x ELSE [Stream!Opened(z, "call", c) EXCEPT !.active = Stream!With(@, c, z.next)]
             q == Moved(s, c, At(s[c].parts, s[c].again, "open"))
  <1>1. /\ s[c].is \in {"unsent", "open"} /\ s[c].parts \in Nat /\ s[c].again \in Nat
        /\ (c \in DOMAIN x.active <=> s[c].is = "open") /\ s[c] = At(s[c].parts, s[c].again, s[c].is)
    BY DEF Sent, Chat, CallSent, At
  <1>2. /\ Sent(q) /\ q[c] = At(s[c].parts, s[c].again, "open") /\ q[c].is = "open" /\ \A d \in Call : d # c => q[d] = s[d]
        /\ r = Moved(q, c, At(s[c].parts + n, s[c].again, "open"))
    <2>1. At(s[c].parts, s[c].again, "open") \in CallSent /\ At(s[c].parts, s[c].again, "open").is = "open"
      BY <1>1 DEF CallSent, CallStatus, At
    <2>2. PICK v, w : v = At(s[c].parts, s[c].again, "open") /\ w = At(s[c].parts + n, s[c].again, "open")
      OBVIOUS
    <2> QED BY <2>1, <2>2 DEF Sent, Moved
  <1>3. Steady(o, q, p) /\ Chat(o, q) /\ c \in DOMAIN o.active
    <2>1. CASE s[c].is = "open"
      <3>1. q = s
        BY <1>1, <2>1 DEF Moved, Sent
      <3>2. o = x /\ c \in DOMAIN x.active
        BY <1>1, <2>1
      <3> QED BY <3>1, <3>2
    <2>2. CASE s[c].is = "unsent"
      <3>1. PICK y : y = Stream!CloseThink(x)
        OBVIOUS
      <3>2. Steady(y, s, p) /\ y.think = None /\ SameCalls(x, y) /\ y.client.pending = x.client.pending
        BY <3>1, ThinkCloses
      <3>3. PICK t : t = Stream!CloseText(y)
        OBVIOUS
      <3>4. Steady(t, s, p) /\ SameCalls(y, t) /\ t.client.pending = y.client.pending
        BY <3>2, <3>3, TextCloses
      <3>5. t = z /\ t.active = x.active /\ t.client.pending = x.client.pending
        BY <3>1, <3>2, <3>3, <3>4 DEF SameCalls
      <3>6. s[c].parts = 0 /\ s[c].again = 0
        BY <2>2 DEF Steady, Reads, Ledger, At
      <3>7. q = Moved(s, c, At(0, 0, "open"))
        BY <3>6
      <3>8. PICK u : u = Stream!Opened(t, "call", c)
        OBVIOUS
      <3> HIDE DEF q
      <3>9. /\ Steady(u, q, p) /\ SameCalls(t, u)
            /\ DOMAIN u.client.pending = DOMAIN t.client.pending \cup {t.next}
            /\ u.client.pending[t.next].call = c
            /\ \A j \in DOMAIN t.client.pending : u.client.pending[j] = t.client.pending[j]
        BY <2>2, <3>4, <3>7, <3>8, CallBlockOpens DEF Opens
      <3>10. PICK a : a = Stream!With(u.active, c, t.next)
        OBVIOUS
      <3>11. u.active = x.active /\ u.active \in [DOMAIN u.active -> Nat] /\ DOMAIN u.active \subseteq CallKey
             /\ u.given \in SUBSET CallKey /\ t.next \in Nat /\ c \in CallKey
        BY <3>4, <3>5, <3>9, TranslatorParts DEF Steady, SameCalls, CallKey
      <3>12. /\ a \in [DOMAIN a -> Nat] /\ DOMAIN a = DOMAIN x.active \cup {c} /\ DOMAIN a \subseteq CallKey
             /\ a[c] = t.next /\ \A d \in DOMAIN x.active : d # c => a[d] = x.active[d]
        <4>1. PICK b : b = u.active
          OBVIOUS
        <4>2. PICK e \in Nat : e = t.next
          BY <3>11
        <4>3. PICK D : D = DOMAIN b
          OBVIOUS
        <4>4. a = Stream!With(b, c, e) /\ b \in [D -> Nat]
          BY <3>10, <3>11, <4>1, <4>2, <4>3
        <4>5. /\ a \in [D \cup {c} -> Nat] /\ DOMAIN a = D \cup {c} /\ a[c] = e /\ \A d \in D : d # c => a[d] = b[d]
          BY <4>4 DEF Stream!With
        <4> QED BY <3>11, <4>1, <4>2, <4>3, <4>5
      <3>13. PICK w : w = Rebuilt(u.next, u.text, u.think, a, u.given, u.client)
        OBVIOUS
      <3>14. Steady(w, q, p) /\ w.client = u.client /\ w.active = a
        <4>1. Keyed(a, u.given) /\ Steady(u, q, p)
          BY <3>9, <3>11, <3>12 DEF Keyed
        <4>2. Steady(w, q, p) /\ Renamed(u, w, a, u.given)
          BY <3>13, <4>1, Renames
        <4> QED BY <4>2 DEF Renamed
      <3>15. w = [u EXCEPT !.active = a]
        BY <3>9, <3>13 DEF Steady, Translator, Rebuilt
      <3>16. [u EXCEPT !.active = Stream!With(@, c, t.next)] = [u EXCEPT !.active = a]
        BY <3>10
      <3>17. o = w
        BY <1>1, <2>2, <3>5, <3>8, <3>15, <3>16
      <3>18. Chat(w, q)
        <4>1. DOMAIN w.active = {d \in Call : q[d].is = "open"} /\ \A d \in Call : q[d].is \in {"unsent", "open"}
          BY <1>2, <3>12, <3>14 DEF Chat
        <4>2. ASSUME NEW d \in DOMAIN w.active
              PROVE  w.active[d] \in DOMAIN w.client.pending /\ w.client.pending[w.active[d]].call = d
          <5>1. CASE d = c
            BY <3>9, <3>12, <3>14, <5>1
          <5>2. CASE d # c
            <6>1. d \in DOMAIN x.active /\ w.active[d] = x.active[d]
              BY <3>12, <3>14, <4>2, <5>2
            <6>2. x.active[d] \in DOMAIN x.client.pending /\ x.client.pending[x.active[d]].call = d
              BY <6>1 DEF Chat
            <6> QED BY <3>5, <3>9, <3>14, <6>1, <6>2
          <5> QED BY <5>1, <5>2
        <4> QED BY <4>1, <4>2 DEF Chat
      <3>19. c \in DOMAIN w.active
        BY <3>12, <3>14
      <3> QED BY <3>14, <3>17, <3>18, <3>19
    <2> QED BY <1>1, <2>1, <2>2
  <1> HIDE DEF o, q
  <1>4. CASE n = 0
    <2>1. r = q
      <3>1. s[c].parts + n = s[c].parts
        BY <1>1, <1>4
      <3>2. r = Moved(q, c, q[c])
        BY <1>2, <3>1
      <3> QED BY <1>2, <3>2 DEF Moved, Sent
    <2>2. Stream!ChatCall(x, c, ps) = o
      BY <1>4 DEF Stream!ChatCall, o
    <2> QED BY <1>3, <2>1, <2>2
  <1>5. CASE n = 1
    <2>1. PICK i : i = o.active[c]
      OBVIOUS
    <2>2. i \in DOMAIN o.client.pending /\ o.client.pending[i].call = c
      BY <1>3, <2>1 DEF Chat
    <2>3. Continues(o.client, i, c, ps, q, r)
      <3>1. PICK m \in Nat, a \in Nat : m = s[c].parts /\ a = s[c].again
        BY <1>1
      <3>2. ps = <<m + 1>>
        BY <1>5, <3>1
      <3>6. NextPart(m, ps)
        BY <3>2 DEF NextPart
      <3>3. Lengthens(Stream!Arguments(At(m, a, "open")), ps, Stream!Arguments(At(m + 1, a, "open")))
        BY <3>6, MoreArguments
      <3>4. q[c] = At(m, a, "open") /\ r = Moved(q, c, At(m + 1, a, "open"))
        BY <1>2, <1>5, <3>1
      <3>5. At(m + 1, a, "open") \in CallSent /\ At(m + 1, a, "open").is \in UnderWay
        BY DEF At, CallSent, CallStatus, UnderWay
      <3> QED BY <2>2, <3>3, <3>4, <3>5 DEF Continues, Lengthens
    <2>10. PICK v : v = ps
      OBVIOUS
    <2> HIDE DEF ps
    <2>4. PICK y : y = Stream!Says(o, Stream!Json(i, v))
      OBVIOUS
    <2>5. /\ Steady(y, r, p) /\ SameBlocks(o, y) /\ DOMAIN y.client.pending = DOMAIN o.client.pending
          /\ \A j \in DOMAIN o.client.pending : y.client.pending[j].call = o.client.pending[j].call
      <3>1. Continues(o.client, i, c, v, q, r)
        BY <2>3, <2>10
      <3>2. Steady(y, r, p) /\ KeepsBlocks(o, y)
        BY <1>2, <1>3, <2>4, <3>1, ArgumentsSaid
      <3> QED BY <3>2 DEF KeepsBlocks
    <2>6. \A d \in Call : r[d].is = q[d].is
      BY <1>2 DEF Moved, Sent, At
    <2>7. Chat(y, r)
      BY <1>3, <2>5, <2>6 DEF Chat, SameBlocks, SameCalls
    <2>8. ps # <<>>
      BY <1>5 DEF ps
    <2>9. Stream!ChatCall(x, c, ps) = y
      BY <2>1, <2>4, <2>8, <2>10 DEF Stream!ChatCall, o
    <2> QED BY <2>5, <2>7, <2>9 DEF ps
  <1> QED BY <1>4, <1>5

\* The message of a provider that has finished: each call under way is closed, and these are cut.
Completed(s, cuts) ==
  [c \in Call |-> [s[c] EXCEPT !.is = IF c \in cuts THEN "cut" ELSE IF @ \in {"unsent"} \cup Stream!Closed THEN @ ELSE "done"]]

\* The others are as they were,
LEMMA CompletedIs ==
  ASSUME NEW s, Sent(s), NEW cuts, cuts \subseteq Live(s), NEW r, r = Completed(s, cuts)
  PROVE  /\ Sent(r) /\ Live(r) = {}
         /\ \A c \in Call :
              /\ r[c].parts = s[c].parts /\ r[c].again = s[c].again
              /\ c \in Live(s) => r[c].is \in Stream!Closed
              /\ c \notin Live(s) => r[c] = s[c]
  <1>1. ASSUME NEW c \in Call
        PROVE  /\ r[c] \in CallSent /\ r[c].parts = s[c].parts /\ r[c].again = s[c].again
               /\ r[c].is = IF c \in cuts THEN "cut" ELSE IF s[c].is \in {"unsent"} \cup Stream!Closed THEN s[c].is ELSE "done"
    <2>1. s[c] \in CallSent
      BY DEF Sent
    <2>2. r[c] = [s[c] EXCEPT !.is = IF c \in cuts THEN "cut" ELSE IF s[c].is \in {"unsent"} \cup Stream!Closed THEN s[c].is ELSE "done"]
      BY DEF Completed
    <2> QED BY <2>1, <2>2 DEF CallSent, CallStatus
  <1>2. Sent(r)
    BY <1>1 DEF Sent, Completed
  <1>3. \A c \in Call : c \in Live(s) => r[c].is \in Stream!Closed
    BY <1>1 DEF Live, UnderWay, Stream!Closed
  <1>4. ASSUME NEW c \in Call, c \notin Live(s) PROVE r[c] = s[c]
    <2>1. s[c] \in CallSent /\ s[c].is \in {"unsent"} \cup Stream!Closed /\ c \notin cuts
      BY <1>4 DEF Sent, Live, CallSent, CallStatus, UnderWay, Stream!Closed
    <2>2. r[c].is = s[c].is /\ r[c].parts = s[c].parts /\ r[c].again = s[c].again /\ r[c] \in CallSent
      BY <1>1, <2>1
    <2> QED BY <2>1, <2>2 DEF CallSent
  <1>5. Live(r) = {}
    BY <1>3, <1>4, ClosedIs DEF Live
  <1> QED BY <1>1, <1>2, <1>3, <1>4, <1>5

\* and with the blocks of all of them every call is closed.
LEMMA AllComplete ==
  ASSUME NEW h, NEW is, NEW s, Sent(s), NEW cuts, cuts \subseteq Live(s), NEW r, r = Completed(s, cuts),
         \A i \in DOMAIN h.pending : h.pending[i].call \in Live(s),
         \A c \in Live(s) : \E i \in is \cap DOMAIN h.pending : h.pending[i].call = c
  PROVE  Completes(h, is, s, r)
  <1>1. /\ Sent(r)
        /\ \A c \in Call :
             /\ r[c].parts = s[c].parts /\ r[c].again = s[c].again
             /\ c \in Live(s) => r[c].is \in Stream!Closed
             /\ c \notin Live(s) => r[c] = s[c]
    BY CompletedIs
  <1>2. \A i \in is \cap DOMAIN h.pending : h.pending[i].call \in Live(s)
    OBVIOUS
  <1> QED BY <1>1, <1>2 DEF Completes

\* With no call under way nobody's state changes at the end.
LEMMA NothingOpen ==
  ASSUME NEW s, Sent(s), Live(s) = {}
  PROVE  Completed(s, {}) = s
  <1>1. PICK r : r = Completed(s, {})
    OBVIOUS
  <1>2. \A c \in Call : r[c] = s[c]
    BY <1>1, CompletedIs
  <1> QED BY <1>1, <1>2 DEF Completed, Sent

\* The finish_reason closes every block, in the order of their indices.
LEMMA ChatFinishes ==
  ASSUME NEW x, NEW s, NEW p, Sent(s), Told(p), Steady(x, s, p), Chat(x, s), NEW cuts, cuts \subseteq Live(s)
  PROVE  Ended(Stream!ChatFinish(x), Completed(s, cuts), p)
  <1> DEFINE is == Stream!Indices(x)
  <1>1. PICK y : y = Stream!CloseThink(x)
    OBVIOUS
  <1>2. Steady(y, s, p) /\ y.think = None /\ SameCalls(x, y) /\ y.client.pending = x.client.pending
    BY <1>1, ThinkCloses
  <1>3. PICK z : z = Stream!CloseText(y)
    OBVIOUS
  <1>4. Steady(z, s, p) /\ z.think = None /\ SameCalls(y, z) /\ z.client.pending = y.client.pending
    BY <1>2, <1>3, TextCloses
  <1>5. PICK r : r = Completed(s, cuts)
    OBVIOUS
  <1>6. Live(s) = DOMAIN x.active
    BY DEF Chat, Live, UnderWay
  <1>7. Completes(z.client, is, s, r)
    <2>1. \A i \in DOMAIN z.client.pending : z.client.pending[i].call \in Live(s)
      BY <1>4 DEF Steady, Reads, Ledger
    <2>2. ASSUME NEW c \in Live(s) PROVE \E i \in is \cap DOMAIN z.client.pending : z.client.pending[i].call = c
      BY <1>2, <1>4, <1>6, <2>2 DEF Stream!Indices, Chat
    <2> HIDE DEF is
    <2> QED BY <1>5, <2>1, <2>2, AllComplete
  <1>8. PICK u : u = Stream!StopAll(z, is)
    OBVIOUS
  <1> HIDE DEF is
  <1>9. Steady(u, r, p) /\ SameBlocks(z, u)
    BY <1>4, <1>7, <1>8, AllStop DEF LosesBlocks
  <1>10. PICK w : w = Rebuilt(u.next, u.text, u.think, <<>>, u.given, u.client)
    OBVIOUS
  <1>11. w = [u EXCEPT !.active = <<>>]
    BY <1>9, <1>10 DEF Steady, Translator, Rebuilt
  <1>12. PICK a : a = <<>>
    OBVIOUS
  <1>13. a \in [{} -> Nat]
    BY <1>12
  <1>14. Steady(w, r, p) /\ w.think = None
    <2>1. u.given \in SUBSET CallKey
      BY <1>9, TranslatorParts DEF Steady
    <2>2. w = Rebuilt(u.next, u.text, u.think, a, u.given, u.client) /\ {} \in SUBSET CallKey
      BY <1>10, <1>12, <1>13
    <2>3. Steady(w, r, p) /\ Renamed(u, w, a, u.given)
      BY <1>9, <1>13, <2>1, <2>2, Renames DEF Keyed
    <2> QED BY <1>4, <1>9, <2>3 DEF SameBlocks, Renamed
  <1>15. Ended(Stream!Says(w, Stream!MessageStop), r, p)
    BY <1>14, EndSaid
  <1>16. Stream!ChatFinish(x) = Stream!Says(w, Stream!MessageStop)
    BY <1>1, <1>3, <1>8, <1>11 DEF Stream!ChatFinish, is
  <1> QED BY <1>5, <1>15, <1>16
-----------------------------------------------------------------------------
(* The Responses API *)

\* The two ids of a call differ,
LEMMA NamesDiffer ==
  ASSUME NEW c, NEW d
  PROVE  Stream!ByCall(c) # Stream!ByItem(d) /\ (Stream!ByCall(c) = Stream!ByCall(d) => c = d) /\ (Stream!ByItem(c) = Stream!ByItem(d) => c = d)
  BY DEF Stream!ByCall, Stream!ByItem

\* and no two calls share one.
LEMMA NamesApart ==
  ASSUME NEW c, NEW d, NEW k \in CallNames(c), k \in CallNames(d)
  PROVE  c = d
  BY NamesDiffer DEF CallNames

\* The item of text is done.
LEMMA RespTextStops ==
  ASSUME NEW x, NEW s, NEW p, Sent(s), Told(p), Steady(x, s, p), Responses(x, s)
  PROVE  LET y == Stream!StopText(x)
         IN  /\ Steady(y, s, p) /\ Responses(y, s) /\ y.text = None /\ y.think = None /\ SameCalls(x, y)
             /\ y.next = x.next /\ y.client.pending = x.client.pending
  <1>1. PICK y : y = Stream!CloseText(x)
    OBVIOUS
  <1>2. Stream!StopText(x) = Stream!CloseText(x)
    BY DEF Stream!StopText, Stream!CloseText, Responses
  <1>3. /\ Steady(y, s, p) /\ y.text = None /\ y.think = None /\ SameCalls(x, y)
        /\ y.next = x.next /\ y.client.pending = x.client.pending
    BY <1>1, TextCloses DEF Responses
  <1>4. Responses(y, s)
    BY <1>3 DEF Responses, SameCalls
  <1> QED BY <1>1, <1>2, <1>3, <1>4

\* Every call that is under way is closed.
LEMMA RespToolsClose ==
  ASSUME NEW x, NEW s, NEW p, Sent(s), Told(p), Steady(x, s, p), Responses(x, s),
         NEW r, Completes(x.client, Stream!Indices(x), s, r), Live(r) = {}
  PROVE  LET y == Stream!CloseTools(x)
         IN  /\ Steady(y, r, p) /\ Responses(y, r) /\ y.text = x.text /\ y.think = None /\ y.next = x.next
  <1>1. PICK is : is = Stream!Indices(x)
    OBVIOUS
  <1>2. PICK u : u = Stream!StopAll(x, is)
    OBVIOUS
  <1>4. Completes(x.client, is, s, r)
    BY <1>1
  <1>5. Steady(u, r, p) /\ SameBlocks(x, u)
    BY <1>2, <1>4, AllStop DEF LosesBlocks
  <1>6. PICK a : a = <<>>
    OBVIOUS
  <1>7. DOMAIN a = {} /\ Keyed(a, {})
    BY <1>6 DEF Keyed
  <1>8. PICK w : w = Rebuilt(u.next, u.text, u.think, a, {}, u.client)
    OBVIOUS
  <1>9. Steady(w, r, p) /\ Renamed(u, w, a, {})
    BY <1>5, <1>7, <1>8, Renames
  <1>10. w = [u EXCEPT !.active = a, !.given = {}]
    BY <1>5, <1>8, Rekeys DEF Steady
  <1>11. w = Stream!CloseTools(x)
    BY <1>1, <1>2, <1>6, <1>10 DEF Stream!CloseTools
  <1>12. w.text = x.text /\ w.think = None /\ w.next = x.next /\ w.active = a /\ w.given = {}
    BY <1>5, <1>9 DEF SameBlocks, Renamed, Responses
  <1>13. Responses(w, r)
    <2>1. \A c \in Call : Recalls({}, CallNames(c), r[c])
      BY DEF Live, UnderWay, Recalls
    <2> QED BY <1>7, <1>12, <2>1 DEF Responses
  <1> QED BY <1>9, <1>11, <1>12, <1>13

\* A delta of text
LEMMA RespSpeaks ==
  ASSUME NEW x, NEW s, NEW p, Sent(s), Told(p), Steady(x, s, p), Responses(x, s), Live(s) = {}, p.text < MaxProse
  PROVE  LET y == Stream!RespText(x, p.text + 1)
         IN  Steady(y, s, MoreText(p)) /\ Responses(y, s)
  <1>1. PICK z : z = Stream!CloseTools(x)
    OBVIOUS
  <1>2. Steady(z, s, p) /\ Responses(z, s)
    <2>1. DOMAIN x.client.pending = {}
      BY DEF Steady, Reads, Ledger
    <2>2. Completes(x.client, Stream!Indices(x), s, s)
      BY <2>1 DEF Completes
    <2> QED BY <1>1, <2>2, RespToolsClose
  <1>3. PICK o : o = Texted(z)
    OBVIOUS
  <1>4. /\ Steady(o, s, p) /\ o.text # None /\ o.think = z.think /\ SameCalls(z, o) /\ o.client = z.client
        /\ o.text = o.next - 1 \/ o = z
    BY <1>2, <1>3, TextIsOpen
  <1>5. PICK y : y = Stream!Says(o, Stream!Prose(o.next - 1, "text", p.text + 1))
    OBVIOUS
  <1>6. Steady(y, s, MoreText(p)) /\ KeepsBlocks(o, y)
    BY <1>4, <1>5, TextSaid
  <1>7. o.text = o.next - 1
    BY <1>2, <1>4 DEF Responses
  <1>8. /\ y.think = None /\ y.text = y.next - 1 /\ y.active = z.active /\ y.given = z.given
    BY <1>2, <1>4, <1>6, <1>7 DEF KeepsBlocks, SameBlocks, SameCalls, Responses
  <1>9. Responses(y, s)
    BY <1>2, <1>8 DEF Responses
  <1>10. y = Stream!RespText(x, p.text + 1)
    BY <1>1, <1>3, <1>5 DEF Stream!RespText, Texted
  <1> QED BY <1>6, <1>9, <1>10

\* A call is added under both of its ids,
LEMMA RespOpens ==
  ASSUME NEW x, NEW s, NEW p, Sent(s), Told(p), Steady(x, s, p), Responses(x, s),
         NEW c \in Call, s[c].is = "unsent", NEW r, r = Moved(s, c, At(0, 0, "open"))
  PROVE  Steady(Stream!RespAdded(x, c, <<>>), r, p) /\ Responses(Stream!RespAdded(x, c, <<>>), r)
  <1>1. PICK y : y = Stream!StopText(x)
    OBVIOUS
  <1>2. Steady(y, s, p) /\ Responses(y, s) /\ y.text = None /\ y.think = None
    BY <1>1, RespTextStops
  <1>3. PICK o : o = Stream!Opened(y, "call", c)
    OBVIOUS
  <1>4. Steady(o, r, p) /\ Opens(y, o, c)
    BY <1>2, <1>3, CallBlockOpens
  <1>5. PICK i : i = y.next
    OBVIOUS
  <1>6. i \in Nat /\ o.active = y.active /\ o.given = y.given
    BY <1>2, <1>4, <1>5, TranslatorParts DEF Steady, Opens, SameCalls
  <1>7. PICK a : a = Stream!With(Stream!With(o.active, Stream!ByCall(c), i), Stream!ByItem(c), i)
    OBVIOUS
  <1>8. /\ DOMAIN a = DOMAIN y.active \cup CallNames(c)
        /\ \A k \in DOMAIN a : a[k] = IF k \in CallNames(c) THEN i ELSE y.active[k]
    BY <1>6, <1>7 DEF Stream!With, CallNames
  <1>9. Keyed(a, y.given)
    <2>1. y.active \in [DOMAIN y.active -> Nat] /\ DOMAIN y.active \subseteq CallKey /\ y.given \in SUBSET CallKey
      BY <1>2, TranslatorParts DEF Steady
    <2>2. CallNames(c) \subseteq CallKey
      BY DEF CallNames, CallKey
    <2>3. \A k \in DOMAIN a : a[k] \in Nat
      BY <1>6, <1>8, <2>1
    <2>4. a = [k \in DOMAIN a |-> a[k]]
      BY <1>7 DEF Stream!With
    <2>5. a \in [DOMAIN a -> Nat]
      BY <2>3, <2>4
    <2> QED BY <1>8, <2>1, <2>2, <2>5 DEF Keyed
  <1>10. PICK w : w = Rebuilt(o.next, o.text, o.think, a, o.given, o.client)
    OBVIOUS
  <1>11. Steady(w, r, p) /\ Renamed(o, w, a, o.given)
    BY <1>4, <1>6, <1>9, <1>10, Renames
  <1>12. w = [o EXCEPT !.active = a]
    BY <1>4, <1>10 DEF Steady, Translator, Rebuilt
  <1>13. Stream!ByCall(c) \notin DOMAIN y.active
    <2>1. c \notin Live(s)
      BY DEF Live, UnderWay
    <2>2. \A d \in Live(s) : Stream!ByCall(c) \notin CallNames(d)
      <3>1. Stream!ByCall(c) \in CallNames(c)
        BY DEF CallNames
      <3> QED BY <2>1, <3>1, NamesApart
    <2> QED BY <1>2, <2>2 DEF Responses
  <1>14. Stream!RespAdded(x, c, <<>>) = w
    <2>1. [o EXCEPT !.active = Stream!With(Stream!With(@, Stream!ByCall(c), y.next), Stream!ByItem(c), y.next)] = [o EXCEPT !.active = a]
      BY <1>5, <1>7
    <2> QED BY <1>1, <1>3, <1>12, <1>13, <2>1 DEF Stream!RespAdded
  <1>15. /\ r[c] = At(0, 0, "open") /\ \A d \in Call : d # c => r[d] = s[d]
         /\ Live(r) = Live(s) \cup {c} /\ c \notin Live(s)
    BY DEF Moved, Sent, Live, UnderWay, At
  <1>16. /\ w.think = None /\ w.text = None /\ w.active = a /\ w.given = y.given /\ w.client = o.client
    BY <1>2, <1>4, <1>6, <1>11 DEF Renamed, Opens
  <1>17. Responses(w, r)
    <2>1. DOMAIN w.active = UNION {CallNames(d) : d \in Live(r)}
      BY <1>2, <1>8, <1>15, <1>16 DEF Responses
    <2>2. ASSUME NEW d \in Live(r), NEW k \in CallNames(d)
          PROVE  w.active[k] \in DOMAIN w.client.pending /\ w.client.pending[w.active[k]].call = d
      <3>1. k \in DOMAIN a
        BY <1>16, <2>1
      <3>2. CASE d = c
        BY <1>4, <1>5, <1>8, <1>16, <2>2, <3>1, <3>2 DEF Opens
      <3>3. CASE d # c
        <4>1. d \in Live(s) /\ k \notin CallNames(c)
          BY <1>15, <2>2, <3>3, NamesApart
        <4>2. a[k] = y.active[k]
          BY <1>8, <3>1, <4>1
        <4>3. y.active[k] \in DOMAIN y.client.pending /\ y.client.pending[y.active[k]].call = d
          BY <1>2, <2>2, <4>1 DEF Responses
        <4> QED BY <1>4, <1>16, <4>2, <4>3 DEF Opens
      <3> QED BY <3>2, <3>3
    <2>3. w.given \subseteq DOMAIN w.active
      BY <1>2, <1>8, <1>16 DEF Responses
    <2>4. ASSUME NEW d \in Call PROVE Recalls(w.given, CallNames(d), r[d])
      <3>1. CASE d = c
        <4>1. \A k \in CallNames(c) : k \notin DOMAIN y.active
          <5>1. \A e \in Live(s), k \in CallNames(c) : k \notin CallNames(e)
            BY <1>15, NamesApart
          <5> QED BY <1>2, <5>1 DEF Responses
        <4>2. CallNames(c) \cap w.given = {}
          BY <1>2, <1>16, <4>1 DEF Responses
        <4> QED BY <1>15, <3>1, <4>2 DEF Recalls, At
      <3>2. CASE d # c
        BY <1>2, <1>15, <1>16, <2>4, <3>2 DEF Responses
      <3> QED BY <3>1, <3>2
    <2> QED BY <1>16, <2>1, <2>2, <2>3, <2>4 DEF Responses
  <1> QED BY <1>11, <1>14, <1>17

\* A call under way has a block, and only that call.
LEMMA NameOf ==
  ASSUME NEW x, NEW s, NEW p, Steady(x, s, p), Responses(x, s), NEW c \in Live(s), NEW k \in CallNames(c)
  PROVE  /\ k \in DOMAIN x.active /\ x.active[k] \in DOMAIN x.client.pending
         /\ x.client.pending[x.active[k]].call = c
         /\ \A j \in DOMAIN x.active : x.active[j] = x.active[k] => j \in CallNames(c)
         /\ \A j \in CallNames(c) : x.active[j] = x.active[k]
  <1>1. k \in DOMAIN x.active /\ x.active[k] \in DOMAIN x.client.pending /\ x.client.pending[x.active[k]].call = c
    BY DEF Responses
  <1>2. ASSUME NEW j \in DOMAIN x.active, x.active[j] = x.active[k] PROVE j \in CallNames(c)
    <2>1. PICK d \in Live(s) : j \in CallNames(d)
      BY DEF Responses
    <2>2. x.client.pending[x.active[j]].call = d
      BY <2>1 DEF Responses
    <2> QED BY <1>1, <1>2, <2>1, <2>2
  <1>3. ASSUME NEW j \in CallNames(c) PROVE x.active[j] = x.active[k]
    <2>1. x.active[j] \in DOMAIN x.client.pending /\ x.client.pending[x.active[j]].call = c
      BY DEF Responses
    <2> QED BY <1>1, <2>1 DEF Steady, Reads, Ledger
  <1> QED BY <1>1, <1>2, <1>3

\* Of a call under way only the arguments and how far it is have changed.
LEMMA RespArgued ==
  ASSUME NEW x, NEW s, Sent(s), Responses(x, s), NEW y, KeepsBlocks(x, y),
         NEW c \in Live(s), NEW w \in CallSent, w.is \in UnderWay, NEW r, r = Moved(s, c, w),
         Recalls(x.given, CallNames(c), w)
  PROVE  Responses(y, r)
  <1>1. /\ Live(r) = Live(s) /\ \A d \in Call : d # c => r[d] = s[d]
        /\ r[c] = w
    BY DEF Moved, Sent, Live
  <1>2. /\ y.think = x.think /\ y.text = x.text /\ y.next = x.next /\ y.active = x.active /\ y.given = x.given
        /\ DOMAIN y.client.pending = DOMAIN x.client.pending
        /\ \A j \in DOMAIN x.client.pending : y.client.pending[j].call = x.client.pending[j].call
    BY DEF KeepsBlocks, SameBlocks, SameCalls
  <1>3. \A d \in Live(r) : \A k \in CallNames(d) :
          y.active[k] \in DOMAIN y.client.pending /\ y.client.pending[y.active[k]].call = d
    BY <1>1, <1>2 DEF Responses
  <1>4. \A d \in Call : Recalls(y.given, CallNames(d), r[d])
    BY <1>1, <1>2 DEF Responses
  <1> QED BY <1>1, <1>2, <1>3, <1>4 DEF Responses

\* and tells the arguments that came with its announcement.
LEMMA RespAdds ==
  ASSUME NEW x, NEW s, NEW p, Sent(s), Told(p), Steady(x, s, p), Responses(x, s),
         NEW c \in Call, s[c].is = "unsent", NEW n \in Nat,
         NEW r, r = Moved(s, c, At(n, 0, IF n = 0 THEN "open" ELSE "seeded"))
  PROVE  LET y == Stream!RespAdded(x, c, Stream!Upto(n))
         IN  Steady(y, r, p) /\ Responses(y, r)
  <1>1. PICK ps : ps = Stream!Upto(n)
    OBVIOUS
  <1>2. ps \in Seq(Nat) /\ (ps = <<>> <=> n = 0)
    BY <1>1, UptoEmpty
  <1>3. PICK w, q : w = Stream!RespAdded(x, c, <<>>) /\ q = Moved(s, c, At(0, 0, "open"))
    OBVIOUS
  <1>4. Steady(w, q, p) /\ Responses(w, q)
    BY <1>3, RespOpens
  <1>5. CASE n = 0
    BY <1>1, <1>2, <1>3, <1>4, <1>5
  <1>6. CASE n # 0
    <2>1. Sent(q) /\ q[c] = At(0, 0, "open") /\ c \in Live(q) /\ r = Moved(q, c, At(n, 0, "seeded"))
      <3>1. At(0, 0, "open") \in CallSent /\ At(0, 0, "open").is \in UnderWay
        BY DEF At, CallSent, CallStatus, UnderWay
      <3>2. PICK v : v = At(n, 0, "seeded")
        OBVIOUS
      <3>3. r = Moved(s, c, v)
        BY <1>6, <3>2
      <3>4. Sent(q) /\ q[c] = At(0, 0, "open") /\ c \in Live(q)
        BY <1>3, <3>1 DEF Moved, Sent, Live
      <3>5. r = Moved(q, c, v)
        BY <1>3, <3>3 DEF Moved, Sent
      <3> QED BY <3>2, <3>4, <3>5
    <2>2. PICK i : i = w.active[Stream!ByCall(c)]
      OBVIOUS
    <2>3. Stream!ByCall(c) \in CallNames(c)
      BY DEF CallNames
    <2>4. i \in DOMAIN w.client.pending /\ w.client.pending[i].call = c
      BY <1>4, <2>1, <2>2, <2>3, NameOf
    <2>5. Continues(w.client, i, c, ps, q, r)
      <3>1. Stream!Arguments(q[c]) = <<>>
        BY <2>1, NoArguments
      <3>2. <<>> \o ps = ps /\ Stream!Arguments(At(n, 0, "seeded")) = ps
        BY <1>1, AllArguments
      <3>3. At(n, 0, "seeded") \in CallSent /\ At(n, 0, "seeded").is \in UnderWay
        BY DEF At, CallSent, CallStatus, UnderWay
      <3>4. Stream!Arguments(q[c]) \o ps = Stream!Arguments(At(n, 0, "seeded"))
        BY <3>1, <3>2
      <3> QED BY <1>2, <2>1, <2>4, <3>3, <3>4 DEF Continues
    <2>6. PICK y : y = Stream!Says(w, Stream!Json(i, ps))
      OBVIOUS
    <2>7. Steady(y, r, p) /\ KeepsBlocks(w, y)
      BY <1>4, <2>1, <2>5, <2>6, ArgumentsSaid
    <2>8. Recalls(w.given, CallNames(c), At(n, 0, "seeded"))
      <3>1. Recalls(w.given, CallNames(c), At(0, 0, "open"))
        BY <1>4, <2>1 DEF Responses
      <3> QED BY <1>6, <3>1 DEF Recalls, At
    <2>9. Responses(y, r)
      <3>1. At(n, 0, "seeded") \in CallSent /\ At(n, 0, "seeded").is \in UnderWay
        BY DEF At, CallSent, CallStatus, UnderWay
      <3> QED BY <1>4, <2>1, <2>7, <2>8, <3>1, RespArgued
    <2>10. Stream!RespAdded(x, c, ps) = y
      BY <1>2, <1>3, <1>6, <2>2, <2>6 DEF Stream!RespAdded
    <2> QED BY <1>1, <2>7, <2>9, <2>10
  <1> QED BY <1>5, <1>6

\* A delta finds its call under either id.
LEMMA RespDeltas ==
  ASSUME NEW x, NEW s, NEW p, Sent(s), Told(p), Steady(x, s, p), Responses(x, s),
         NEW c \in Call, s[c].is \in {"open", "seeded"}, NEW key \in CallNames(c),
         NEW r, r = Moved(s, c, At(s[c].parts + 1, s[c].again, "open"))
  PROVE  LET y == Stream!RespDelta(x, c, key, <<s[c].parts + 1>>)
         IN  Steady(y, r, p) /\ Responses(y, r)
  <1>1. /\ c \in Live(s) /\ s[c].parts \in Nat /\ s[c].again = 0
        /\ s[c] = At(s[c].parts, s[c].again, s[c].is)
    BY DEF Live, Sent, UnderWay, CallSent, At, Responses, Recalls
  <1>2. PICK i : i = x.active[key]
    OBVIOUS
  <1>3. key \in DOMAIN x.active /\ i \in DOMAIN x.client.pending /\ x.client.pending[i].call = c
    BY <1>1, <1>2, NameOf
  <1>4. PICK v : v = x.given \cup {key}
    OBVIOUS
  <1>5. Keyed(x.active, v)
    <2>1. x.active \in [DOMAIN x.active -> Nat] /\ DOMAIN x.active \subseteq CallKey /\ x.given \in SUBSET CallKey
      BY TranslatorParts DEF Steady
    <2> QED BY <1>3, <1>4, <2>1 DEF Keyed
  <1>6. PICK w : w = Rebuilt(x.next, x.text, x.think, x.active, v, x.client)
    OBVIOUS
  <1>7. Steady(w, s, p) /\ Renamed(x, w, x.active, v)
    BY <1>5, <1>6, Renames
  <1>8. w = [x EXCEPT !.given = v]
    BY <1>6 DEF Steady, Translator, Rebuilt
  <1>9. PICK ps : ps = <<s[c].parts + 1>>
    OBVIOUS
  <1>10. Continues(w.client, i, c, ps, s, r)
    <2>1. PICK m, is : m \in Nat /\ m = s[c].parts /\ is = s[c].is
      BY <1>1
    <2>5. NextPart(m, ps)
      BY <1>9, <2>1 DEF NextPart
    <2>2. Lengthens(Stream!Arguments(At(m, 0, is)), ps, Stream!Arguments(At(m + 1, 0, "open")))
      BY <2>1, <2>5, MoreArguments
    <2>3. s[c] = At(m, 0, is) /\ r = Moved(s, c, At(m + 1, 0, "open"))
      BY <1>1, <2>1
    <2>4. At(m + 1, 0, "open") \in CallSent /\ At(m + 1, 0, "open").is \in UnderWay
      BY <2>1 DEF At, CallSent, CallStatus, UnderWay
    <2> QED BY <1>3, <1>7, <2>2, <2>3, <2>4 DEF Continues, Renamed, Lengthens
  <1>11. PICK y : y = Stream!Says(w, Stream!Json(i, ps))
    OBVIOUS
  <1>12. Steady(y, r, p) /\ KeepsBlocks(w, y)
    BY <1>7, <1>10, <1>11, ArgumentsSaid
  <1>13. y = Stream!RespDelta(x, c, key, ps)
    <2>1. w.active = x.active
      BY <1>7 DEF Renamed
    <2>2. [x EXCEPT !.given = @ \cup {key}] = w
      BY <1>4, <1>8
    <2> QED BY <1>2, <1>3, <1>11, <2>1, <2>2 DEF Stream!RespDelta
  <1>14. /\ Live(r) = Live(s) /\ \A d \in Call : d # c => r[d] = s[d]
         /\ r[c].is = "open" /\ r[c].parts > 0 /\ r[c].again = 0
    BY <1>1 DEF Moved, Sent, Live, UnderWay, At
  <1>15. /\ y.think = x.think /\ y.text = x.text /\ y.next = x.next /\ y.active = x.active /\ y.given = v
         /\ DOMAIN y.client.pending = DOMAIN x.client.pending
         /\ \A j \in DOMAIN x.client.pending : y.client.pending[j].call = x.client.pending[j].call
    BY <1>7, <1>12 DEF KeepsBlocks, SameBlocks, SameCalls, Renamed
  <1>16. Responses(y, r)
    <2>1. \A d \in Live(r) : \A k \in CallNames(d) :
            y.active[k] \in DOMAIN y.client.pending /\ y.client.pending[y.active[k]].call = d
      BY <1>14, <1>15 DEF Responses
    <2>2. ASSUME NEW d \in Call PROVE Recalls(y.given, CallNames(d), r[d])
      <3>1. CASE d = c
        BY <1>4, <1>14, <1>15, <3>1 DEF Recalls
      <3>2. CASE d # c
        <4>1. key \notin CallNames(d)
          BY <3>2, NamesApart
        <4>2. CallNames(d) \cap y.given = CallNames(d) \cap x.given
          BY <1>4, <1>15, <4>1
        <4>3. Recalls(x.given, CallNames(d), s[d]) /\ r[d] = s[d]
          BY <1>14, <3>2 DEF Responses
        <4> QED BY <4>2, <4>3 DEF Recalls
      <3> QED BY <3>1, <3>2
    <2>3. y.given \subseteq DOMAIN y.active
      BY <1>3, <1>4, <1>15 DEF Responses
    <2> QED BY <1>14, <1>15, <2>1, <2>2, <2>3 DEF Responses
  <1> QED BY <1>9, <1>12, <1>13, <1>16

\* arguments.done repeats what the deltas said, or brings it when none is remembered.
LEMMA RespArgues ==
  ASSUME NEW x, NEW s, NEW p, Sent(s), Told(p), Steady(x, s, p), Responses(x, s),
         NEW c \in Call, s[c].is \in {"open", "seeded"}, NEW key \in CallNames(c), NEW n \in Nat, s[c].parts \in {0, n},
         NEW r, r = Moved(s, c, At(n, IF s[c].is = "seeded" THEN n ELSE 0, "given"))
  PROVE  LET y == Stream!RespArguments(x, key, Stream!Upto(n))
         IN  Steady(y, r, p) /\ Responses(y, r)
  <1>1. /\ c \in Live(s) /\ s[c].parts \in Nat /\ s[c].again = 0 /\ Recalls(x.given, CallNames(c), s[c])
        /\ s[c] = At(s[c].parts, 0, s[c].is)
    BY DEF Live, Sent, UnderWay, CallSent, At, Responses, Recalls
  <1>2. /\ key \in DOMAIN x.active /\ x.active[key] \in DOMAIN x.client.pending
        /\ x.client.pending[x.active[key]].call = c
        /\ \A j \in DOMAIN x.active : x.active[j] = x.active[key] => j \in CallNames(c)
        /\ \A j \in CallNames(c) : x.active[j] = x.active[key]
    BY <1>1, NameOf
  <1>3. Stream!HasDeltas(x, key) <=> s[c].is = "open" /\ s[c].parts > 0
    <2>1. Stream!HasDeltas(x, key) <=> CallNames(c) \cap x.given # {}
      <3>1. x.given \subseteq DOMAIN x.active
        BY DEF Responses
      <3> QED BY <1>2, <3>1 DEF Stream!HasDeltas
    <2> QED BY <1>1, <2>1 DEF Recalls
  <1>4. PICK ps : ps = Stream!Upto(n)
    OBVIOUS
  <1>5. ps \in Seq(Nat) /\ (ps = <<>> <=> n = 0)
    BY <1>4, UptoEmpty
  <1>6. PICK m : m = IF s[c].is = "seeded" THEN n ELSE 0
    OBVIOUS
  <1>7. At(n, m, "given") \in CallSent /\ At(n, m, "given").is \in UnderWay /\ r = Moved(s, c, At(n, m, "given"))
    BY <1>6 DEF At, CallSent, CallStatus, UnderWay
  <1>8. Recalls(x.given, CallNames(c), At(n, m, "given"))
    BY DEF Recalls, At
  <1>9. CASE s[c].is = "open" /\ (s[c].parts > 0 \/ n = 0)
    <2>1. s[c].parts = n /\ m = 0 /\ Stream!RespArguments(x, key, ps) = x
      BY <1>1, <1>3, <1>5, <1>6, <1>9 DEF Stream!RespArguments
    <2>2. Steady(x, r, p)
      <3>1. r = Moved(s, c, At(s[c].parts, s[c].again, "given")) /\ Ledger(x.client, s)
        BY <1>1, <1>7, <2>1 DEF Steady, Reads
      <3>2. Ledger(x.client, r)
        BY <1>9, <3>1, ArgumentsEnd
      <3> QED BY <3>2 DEF Steady, Reads
    <2>3. KeepsBlocks(x, x)
      BY DEF KeepsBlocks, SameBlocks, SameCalls
    <2>4. Responses(x, r)
      BY <1>1, <1>7, <1>8, <2>3, RespArgued
    <2> QED BY <1>4, <2>1, <2>2, <2>4
  <1>10. CASE ~(s[c].is = "open" /\ (s[c].parts > 0 \/ n = 0))
    <2>1. ps # <<>> /\ ~Stream!HasDeltas(x, key)
      <3>1. s[c].is = "seeded" => n > 0
        BY <1>1 DEF Recalls
      <3> QED BY <1>3, <1>5, <1>10, <3>1
    <2>2. PICK i : i = x.active[key]
      OBVIOUS
    <2>3. PICK y : y = Stream!Says(x, Stream!Json(i, ps))
      OBVIOUS
    <2>4. Stream!RespArguments(x, key, ps) = y
      BY <1>2, <2>1, <2>2, <2>3 DEF Stream!RespArguments
    <2>5. Stream!Arguments(s[c]) \o ps = Stream!Arguments(At(n, m, "given"))
      <3>1. CASE s[c].is = "open"
        <4>1. s[c] = At(0, 0, "open") /\ m = 0
          BY <1>1, <1>6, <1>10, <3>1
        <4>2. Stream!Arguments(s[c]) = <<>>
          BY <4>1, NoArguments
        <4>3. <<>> \o ps = ps /\ Stream!Arguments(At(n, 0, "given")) = ps
          BY <1>4, AllArguments
        <4> QED BY <4>1, <4>2, <4>3
      <3>2. CASE s[c].is = "seeded"
        <4>1. s[c] = At(n, 0, "seeded") /\ m = n
          BY <1>1, <1>6, <3>2 DEF Recalls
        <4> QED BY <1>4, <4>1, ArgumentsAgain
      <3> QED BY <3>1, <3>2
    <2>6. Continues(x.client, i, c, ps, s, r)
      BY <1>2, <1>5, <1>7, <2>2, <2>5 DEF Continues
    <2>7. Steady(y, r, p) /\ KeepsBlocks(x, y)
      BY <2>3, <2>6, ArgumentsSaid
    <2>8. Responses(y, r)
      BY <1>1, <1>7, <1>8, <2>7, RespArgued
    <2> QED BY <1>4, <2>4, <2>7, <2>8
  <1> QED BY <1>9, <1>10

\* A call that is done loses both of its ids.
LEMMA RespDones ==
  ASSUME NEW x, NEW s, NEW p, Sent(s), Told(p), Steady(x, s, p), Responses(x, s),
         NEW c \in Live(s), NEW is \in Stream!Closed, NEW r, r = Moved(s, c, At(s[c].parts, s[c].again, is))
  PROVE  Steady(Stream!RespDone(x, c), r, p) /\ Responses(Stream!RespDone(x, c), r)
  <1>1. c \in Call /\ s[c].parts \in Nat /\ s[c].again \in Nat
        /\ is \in CallStatus /\ is \notin UnderWay /\ is # "unsent"
    BY ClosedIs DEF Live, Sent, CallSent
  <1>2. PICK i : i = x.active[Stream!ByCall(c)]
    OBVIOUS
  <1>3. Stream!ByCall(c) \in CallNames(c) /\ Stream!ByItem(c) \in CallNames(c)
    BY DEF CallNames
  <1>4. /\ Stream!ByCall(c) \in DOMAIN x.active /\ i \in DOMAIN x.client.pending /\ x.client.pending[i].call = c
        /\ {k \in DOMAIN x.active : x.active[k] = i} \cup {Stream!ByItem(c)} = CallNames(c)
    <2>1. /\ Stream!ByCall(c) \in DOMAIN x.active /\ i \in DOMAIN x.client.pending /\ x.client.pending[i].call = c
          /\ \A j \in DOMAIN x.active : x.active[j] = i => j \in CallNames(c)
          /\ \A j \in CallNames(c) : x.active[j] = i
      BY <1>1, <1>2, <1>3, NameOf
    <2>2. CallNames(c) \subseteq DOMAIN x.active
      BY <1>1 DEF Responses
    <2> QED BY <1>3, <2>1, <2>2
  <1>5. PICK a : a = Stream!Less(x.active, CallNames(c))
    OBVIOUS
  <1>6. PICK v : v = x.given \ CallNames(c)
    OBVIOUS
  <1>7. DOMAIN a = DOMAIN x.active \ CallNames(c) /\ \A k \in DOMAIN a : a[k] = x.active[k]
    BY <1>5 DEF Stream!Less
  <1>8. Keyed(a, v)
    <2>1. x.active \in [DOMAIN x.active -> Nat] /\ DOMAIN x.active \subseteq CallKey /\ x.given \in SUBSET CallKey
      BY TranslatorParts DEF Steady
    <2>2. a = [k \in DOMAIN a |-> a[k]]
      BY <1>5 DEF Stream!Less
    <2>3. \A k \in DOMAIN a : a[k] \in Nat
      BY <1>7, <2>1
    <2>4. a \in [DOMAIN a -> Nat]
      BY <2>2, <2>3
    <2> QED BY <1>6, <1>7, <2>1, <2>4 DEF Keyed
  <1>9. PICK w : w = Rebuilt(x.next, x.text, x.think, a, v, x.client)
    OBVIOUS
  <1>10. Steady(w, s, p) /\ Renamed(x, w, a, v)
    BY <1>8, <1>9, Renames
  <1>11. w = [x EXCEPT !.active = a, !.given = v]
    BY <1>9, Rekeys DEF Steady
  <1>12. PICK y : y = Stream!Says(w, Stream!Stop(i))
    OBVIOUS
  <1>13. Completes(w.client, {i}, s, r)
    <2>1. /\ r[c].parts = s[c].parts /\ r[c].again = s[c].again /\ r[c].is \in Stream!Closed
          /\ \A d \in Call : d # c => r[d] = s[d]
      BY <1>1 DEF Moved, Sent, At
    <2>2. At(s[c].parts, s[c].again, is) \in CallSent
      BY <1>1 DEF At, CallSent
    <2>3. Sent(r)
      BY <2>2 DEF Moved, Sent
    <2> QED BY <1>4, <1>10, <2>1, <2>3 DEF Completes, Renamed
  <1>14. w.think = None
    BY <1>10 DEF Renamed, Responses
  <1>15. Steady(y, r, p) /\ LosesBlocks(w, y, {i})
    BY <1>10, <1>12, <1>13, <1>14, StopSaid
  <1>16. y = Stream!RespDone(x, c)
    <2>1. [x EXCEPT !.active = Stream!Less(@, CallNames(c)), !.given = @ \ CallNames(c)] = w
      BY <1>5, <1>6, <1>11
    <2> QED BY <1>2, <1>4, <1>12, <2>1 DEF Stream!RespDone
  <1>17. /\ r[c].is \notin UnderWay /\ \A d \in Call : d # c => r[d] = s[d]
         /\ Live(r) = Live(s) \ {c}
    BY <1>1 DEF Moved, Sent, Live, At
  <1>18. /\ y.think = x.think /\ y.text = x.text /\ y.next = x.next /\ y.active = a /\ y.given = v
         /\ DOMAIN y.client.pending = DOMAIN x.client.pending \ {i}
         /\ \A j \in DOMAIN y.client.pending : y.client.pending[j] = x.client.pending[j]
    BY <1>10, <1>15 DEF LosesBlocks, SameBlocks, SameCalls, Renamed
  <1>19. Responses(y, r)
    <2>1. \A d \in Live(r) : \A k \in CallNames(d) : k \notin CallNames(c)
      BY <1>17, NamesApart
    <2>2. DOMAIN y.active = UNION {CallNames(d) : d \in Live(r)}
      <3>1. DOMAIN x.active = UNION {CallNames(d) : d \in Live(s)}
        BY DEF Responses
      <3> QED BY <1>7, <1>17, <1>18, <2>1, <3>1
    <2>3. ASSUME NEW d \in Live(r), NEW k \in CallNames(d)
          PROVE  y.active[k] \in DOMAIN y.client.pending /\ y.client.pending[y.active[k]].call = d
      <3>1. y.active[k] = x.active[k] /\ d # c /\ d \in Live(s)
        BY <1>7, <1>17, <1>18, <2>1, <2>2
      <3>2. x.active[k] \in DOMAIN x.client.pending /\ x.client.pending[x.active[k]].call = d
        BY <3>1 DEF Responses
      <3>3. x.active[k] # i
        BY <1>4, <3>1, <3>2
      <3> QED BY <1>18, <3>1, <3>2, <3>3
    <2>4. y.given \subseteq DOMAIN y.active
      BY <1>6, <1>7, <1>18 DEF Responses
    <2>5. ASSUME NEW d \in Call PROVE Recalls(y.given, CallNames(d), r[d])
      <3>1. CASE d = c
        BY <1>17, <3>1 DEF Recalls, UnderWay
      <3>2. CASE d # c
        <4>1. \A k \in CallNames(d) : k \notin CallNames(c)
          BY <3>2, NamesApart
        <4>2. CallNames(d) \cap y.given = CallNames(d) \cap x.given
          BY <1>6, <1>18, <4>1
        <4>3. Recalls(x.given, CallNames(d), s[d]) /\ r[d] = s[d]
          BY <1>17, <3>2 DEF Responses
        <4> QED BY <4>2, <4>3 DEF Recalls
      <3> QED BY <3>1, <3>2
    <2>6. y.think = None /\ (y.text # None => y.text = y.next - 1 /\ Live(r) = {})
      BY <1>17, <1>18 DEF Responses
    <2> QED BY <2>2, <2>3, <2>4, <2>5, <2>6 DEF Responses
  <1> QED BY <1>15, <1>16, <1>19

\* The response is completed: the calls under way are closed first.
LEMMA RespCompletes ==
  ASSUME NEW x, NEW s, NEW p, Sent(s), Told(p), Steady(x, s, p), Responses(x, s),
         NEW cuts, cuts \subseteq Live(s)
  PROVE  Ended(Stream!RespCompleted(x), Completed(s, cuts), p)
  <1>1. PICK y : y = Stream!StopText(x)
    OBVIOUS
  <1>2. Steady(y, s, p) /\ Responses(y, s)
    BY <1>1, RespTextStops
  <1>3. PICK z : z = Stream!CloseTools(y)
    OBVIOUS
  <1>4. PICK r : r = Completed(s, cuts)
    OBVIOUS
  <1>5. Completes(y.client, Stream!Indices(y), s, r) /\ Live(r) = {}
    <2>1. \A i \in DOMAIN y.client.pending : y.client.pending[i].call \in Live(s)
      BY <1>2 DEF Steady, Reads, Ledger
    <2>2. ASSUME NEW c \in Live(s) PROVE \E i \in Stream!Indices(y) \cap DOMAIN y.client.pending : y.client.pending[i].call = c
      <3>1. Stream!ByCall(c) \in CallNames(c)
        BY DEF CallNames
      <3>2. Stream!ByCall(c) \in DOMAIN y.active
        BY <1>2, <3>1 DEF Responses
      <3> QED BY <1>2, <3>1, <3>2 DEF Responses, Stream!Indices
    <2> QED BY <1>4, <2>1, <2>2, AllComplete, CompletedIs
  <1>6. Steady(z, r, p) /\ z.think = None
    BY <1>2, <1>3, <1>5, RespToolsClose
  <1>7. Ended(Stream!Says(z, Stream!MessageStop), r, p)
    BY <1>6, EndSaid
  <1> QED BY <1>1, <1>3, <1>4, <1>7 DEF Stream!RespCompleted
-----------------------------------------------------------------------------
(* Gemini and Anthropic *)

\* A part with text
LEMMA GeminiSpeaks ==
  ASSUME NEW x, NEW s, NEW p, Told(p), Steady(x, s, p), x.think = None, p.text < MaxProse
  PROVE  LET y == Stream!GeminiText(x, p.text + 1)
         IN  Steady(y, s, MoreText(p)) /\ y.think = None
  <1>1. PICK o : o = Texted(x)
    OBVIOUS
  <1>2. Steady(o, s, p) /\ o.think = x.think
    BY <1>1, TextIsOpen
  <1>3. PICK y : y = Stream!Says(o, Stream!Prose(o.text, "text", p.text + 1))
    OBVIOUS
  <1>4. Steady(y, s, MoreText(p)) /\ KeepsBlocks(o, y)
    BY <1>2, <1>3, TextSaid
  <1>5. y = Stream!GeminiText(x, p.text + 1)
    BY <1>1, <1>3 DEF Stream!GeminiText, Texted
  <1> QED BY <1>2, <1>4, <1>5 DEF KeepsBlocks, SameBlocks

\* With no call under way no block is pending.
LEMMA NothingPending ==
  ASSUME NEW x, NEW s, NEW p, Steady(x, s, p), Live(s) = {}
  PROVE  DOMAIN x.client.pending = {}
  BY DEF Steady, Reads, Ledger

\* A call that is under way is closed with its block.
LEMMA CallStops ==
  ASSUME NEW x, NEW s, NEW p, Sent(s), Told(p), Steady(x, s, p), x.think = None, NEW c \in Call, s[c].is = "open",
         NEW i \in DOMAIN x.client.pending, x.client.pending[i].call = c, NEW is \in Stream!Closed,
         NEW r, r = Moved(s, c, At(s[c].parts, s[c].again, is))
  PROVE  LET y == Stream!Says(x, Stream!Stop(i))
         IN  Steady(y, r, p) /\ LosesBlocks(x, y, {i}) /\ Live(r) = Live(s) \ {c} /\ Sent(r)
  <1>0. /\ Sent(r) /\ r[c] = At(s[c].parts, s[c].again, is) /\ \A d \in Call : d # c => r[d] = s[d]
        /\ is \notin UnderWay
    <2>1. PICK n, m : n \in Nat /\ m \in Nat /\ n = s[c].parts /\ m = s[c].again
      BY DEF Sent, CallSent
    <2>2. is \in CallStatus /\ is \notin UnderWay /\ r = Moved(s, c, At(n, m, is))
      BY <2>1, ClosedIs
    <2>3. Sent(r) /\ r[c] = At(n, m, is) /\ \A d \in Call : d # c => r[d] = s[d]
      BY <2>1, <2>2, MovesTo
    <2> QED BY <2>1, <2>2, <2>3
  <1>1. /\ Sent(r) /\ r[c].parts = s[c].parts /\ r[c].again = s[c].again /\ r[c].is = is
        /\ \A d \in Call : d # c => r[d] = s[d]
        /\ Live(r) = Live(s) \ {c}
    BY <1>0 DEF Live, At
  <1>2. Completes(x.client, {i}, s, r)
    BY <1>1 DEF Completes
  <1>3. PICK y : y = Stream!Says(x, Stream!Stop(i))
    OBVIOUS
  <1>4. Steady(y, r, p) /\ LosesBlocks(x, y, {i})
    BY <1>2, <1>3, StopSaid
  <1> QED BY <1>1, <1>3, <1>4

\* A part with a call, which is whole
LEMMA GeminiCalls ==
  ASSUME NEW x, NEW s, NEW p, Sent(s), Told(p), Steady(x, s, p), Gemini(x, s),
         NEW c \in Call, s[c].is = "unsent", NEW r, r = Moved(s, c, At(s[c].parts + 1, s[c].again, "done"))
  PROVE  LET y == Stream!GeminiCall(x, c, << 1 >>)
         IN  Steady(y, r, p) /\ Gemini(y, r)
  <1>1. PICK y : y = Stream!CloseText(x)
    OBVIOUS
  <1>2. Steady(y, s, p) /\ y.think = None
    BY <1>1, TextCloses DEF Gemini
  <1>3. s[c] = At(0, 0, "unsent") /\ s[c].parts = 0 /\ s[c].again = 0
    BY DEF Steady, Reads, Ledger, At
  <1>4. PICK q : q = Moved(s, c, At(0, 0, "open"))
    OBVIOUS
  <1>5. PICK o : o = Stream!Opened(y, "call", c)
    OBVIOUS
  <1>6. Steady(o, q, p) /\ Opens(y, o, c)
    BY <1>2, <1>4, <1>5, CallBlockOpens
  <1>7. PICK i : i = y.next
    OBVIOUS
  <1>8. i \in DOMAIN o.client.pending /\ o.client.pending[i].call = c /\ o.think = None
    BY <1>2, <1>6, <1>7 DEF Opens
  <1>9. PICK t : t = Moved(q, c, At(1, 0, "open"))
    OBVIOUS
  <1>10. Sent(q) /\ q[c] = At(0, 0, "open") /\ Sent(t) /\ t[c] = At(1, 0, "open")
         /\ \A d \in Call : d # c => q[d] = s[d] /\ t[d] = s[d]
    <2>1. "open" \in CallStatus /\ 0 \in Nat /\ 1 \in Nat
      BY DEF CallStatus
    <2>2. Sent(q) /\ q[c] = At(0, 0, "open") /\ \A d \in Call : d # c => q[d] = s[d]
      BY <1>4, <2>1, MovesTo
    <2>3. Sent(t) /\ t[c] = At(1, 0, "open") /\ \A d \in Call : d # c => t[d] = q[d]
      BY <1>9, <2>1, <2>2, MovesTo
    <2> QED BY <2>2, <2>3
  <1>20. Live(t) = Live(s) \cup {c} /\ t[c].parts = 1 /\ t[c].again = 0 /\ t[c].is = "open"
    BY <1>10 DEF Live, UnderWay, At
  <1>21. r = Moved(t, c, At(t[c].parts, t[c].again, "done"))
    <2>1. PICK k : k = At(1, 0, "done")
      OBVIOUS
    <2>2. s[c].parts + 1 = 1
      BY <1>3
    <2>3. r = Moved(s, c, k) /\ Moved(t, c, At(t[c].parts, t[c].again, "done")) = Moved(t, c, k)
      BY <1>3, <1>20, <2>1, <2>2
    <2>4. Moved(t, c, k) = Moved(s, c, k)
      BY <1>10 DEF Moved, Sent
    <2> QED BY <2>3, <2>4
  <1>11. PICK ps : ps = << 1 >>
    OBVIOUS
  <1>12. Continues(o.client, i, c, ps, q, t)
    <2>1. PICK w : w = At(1, 0, "open")
      OBVIOUS
    <2>2. w \in CallSent /\ w.is \in UnderWay
      BY <2>1 DEF At, CallSent, CallStatus, UnderWay
    <2>3. ps = <<0 + 1>> /\ 0 + 1 = 1
      BY <1>11
    <2>6. NextPart(0, ps)
      BY <2>3 DEF NextPart
    <2>4. Lengthens(Stream!Arguments(At(0, 0, "open")), ps, Stream!Arguments(At(0 + 1, 0, "open")))
      BY <2>6, MoreArguments
    <2>5. ps \in Seq(Nat) /\ Stream!Arguments(q[c]) \o ps = Stream!Arguments(w)
      BY <1>10, <2>1, <2>3, <2>4 DEF Lengthens
    <2> QED BY <1>8, <1>9, <2>1, <2>2, <2>5 DEF Continues
  <1>13. PICK u : u = Stream!Says(o, Stream!Json(i, ps))
    OBVIOUS
  <1>14. Steady(u, t, p) /\ KeepsBlocks(o, u)
    BY <1>6, <1>10, <1>12, <1>13, ArgumentsSaid
  <1>22. "done" \in Stream!Closed
    BY DEF Stream!Closed
  <1>15. i \in DOMAIN u.client.pending /\ u.client.pending[i].call = c /\ u.think = None
    BY <1>8, <1>14 DEF KeepsBlocks, SameBlocks
  <1>16. PICK w : w = Stream!Says(u, Stream!Stop(i))
    OBVIOUS
  <1>17. Steady(w, r, p) /\ LosesBlocks(u, w, {i}) /\ Live(r) = Live(t) \ {c}
    BY <1>10, <1>14, <1>15, <1>16, <1>20, <1>21, <1>22, CallStops
  <1>18. Gemini(w, r)
    BY <1>15, <1>17, <1>20 DEF Gemini, LosesBlocks, SameBlocks
  <1>19. w = Stream!GeminiCall(x, c, ps)
    BY <1>1, <1>5, <1>7, <1>13, <1>16 DEF Stream!GeminiCall
  <1> QED BY <1>11, <1>17, <1>18, <1>19

\* The finishReason closes the text and ends the message.
LEMMA GeminiFinishes ==
  ASSUME NEW x, NEW s, NEW p, Sent(s), Told(p), Steady(x, s, p), Gemini(x, s)
  PROVE  Ended(Stream!GeminiFinish(x), Completed(s, {}), p)
  <1>1. PICK y : y = Stream!CloseText(x)
    OBVIOUS
  <1>2. Steady(y, s, p) /\ y.think = None
    BY <1>1, TextCloses DEF Gemini
  <1>3. Ended(Stream!Says(y, Stream!MessageStop), s, p)
    BY <1>2, EndSaid
  <1>4. Completed(s, {}) = s
    BY NothingOpen DEF Gemini
  <1> QED BY <1>1, <1>3, <1>4 DEF Stream!GeminiFinish

\* A delta of text
LEMMA AnthropicSpeaks ==
  ASSUME NEW x, NEW s, NEW p, Sent(s), Told(p), Steady(x, s, p), Anthropic(x, s, p),
         Live(s) = {}, p.text < MaxProse
  PROVE  LET y == Stream!GeminiText(x, p.text + 1)
         IN  Steady(y, s, MoreText(p)) /\ Anthropic(y, s, MoreText(p))
  <1>1. PICK y : y = Stream!GeminiText(x, p.text + 1)
    OBVIOUS
  <1>2. PICK q : q = MoreText(p)
    OBVIOUS
  <1>3. Steady(y, s, q) /\ y.think = None
    BY <1>1, <1>2, GeminiSpeaks DEF Anthropic
  <1>4. q.think = 0
    BY <1>2 DEF MoreText, Told, Anthropic
  <1>5. Anthropic(y, s, q)
    BY <1>3, <1>4, NothingPending DEF Anthropic
  <1> QED BY <1>1, <1>2, <1>3, <1>5

\* The block of text stops.
LEMMA AnthropicCloses ==
  ASSUME NEW x, NEW s, NEW p, Sent(s), Told(p), Steady(x, s, p), Anthropic(x, s, p)
  PROVE  Steady(Stream!CloseText(x), s, p) /\ Anthropic(Stream!CloseText(x), s, p)
  <1>1. PICK y : y = Stream!CloseText(x)
    OBVIOUS
  <1>2. /\ Steady(y, s, p) /\ y.text = None /\ y.think = None
        /\ y.next = x.next /\ y.client.pending = x.client.pending
    BY <1>1, TextCloses DEF Anthropic
  <1> QED BY <1>1, <1>2 DEF Anthropic

\* A block of a call starts.
LEMMA AnthropicCalls ==
  ASSUME NEW x, NEW s, NEW p, Sent(s), Told(p), Steady(x, s, p), Anthropic(x, s, p), x.text = None,
         Live(s) = {}, NEW c \in Call, s[c].is = "unsent", NEW r, r = Moved(s, c, At(0, 0, "open"))
  PROVE  Steady(Stream!Opened(x, "call", c), r, p) /\ Anthropic(Stream!Opened(x, "call", c), r, p)
  <1>1. PICK y : y = Stream!Opened(x, "call", c)
    OBVIOUS
  <1>2. Steady(y, r, p) /\ Opens(x, y, c)
    BY <1>1, CallBlockOpens
  <1>3. DOMAIN x.client.pending = {}
    BY NothingPending
  <1>4. x.next \in Nat
    BY TranslatorParts DEF Steady
  <1>5. DOMAIN y.client.pending \subseteq {y.next - 1} /\ y.text = None /\ y.think = None
    BY <1>2, <1>3, <1>4 DEF Opens, Anthropic
  <1>6. \A d \in Call : r[d].is \notin {"seeded", "given"}
    BY DEF Moved, Sent, Anthropic, At
  <1> QED BY <1>1, <1>2, <1>5, <1>6 DEF Anthropic

\* The block of the call that is open is the last one.
LEMMA AnthropicBlock ==
  ASSUME NEW x, NEW s, NEW p, Steady(x, s, p), Anthropic(x, s, p), NEW c \in Call, s[c].is = "open"
  PROVE  /\ x.next - 1 \in DOMAIN x.client.pending /\ x.client.pending[x.next - 1].call = c /\ Live(s) = {c}
         /\ x.text = None
  <1>1. c \in Live(s)
    BY DEF Live, UnderWay
  <1>2. PICK i \in DOMAIN x.client.pending : x.client.pending[i].call = c
    BY <1>1 DEF Steady, Reads, Ledger
  <1>3. i = x.next - 1
    BY <1>2 DEF Anthropic
  <1>4. ASSUME NEW d \in Live(s) PROVE d = c
    <2>1. PICK j \in DOMAIN x.client.pending : x.client.pending[j].call = d
      BY DEF Steady, Reads, Ledger
    <2> QED BY <1>2, <2>1 DEF Anthropic
  <1> QED BY <1>1, <1>2, <1>3, <1>4 DEF Anthropic

\* A delta of its arguments
LEMMA AnthropicArgues ==
  ASSUME NEW x, NEW s, NEW p, Sent(s), Told(p), Steady(x, s, p), Anthropic(x, s, p),
         NEW c \in Call, s[c].is = "open", NEW r, r = Moved(s, c, At(s[c].parts + 1, s[c].again, "open"))
  PROVE  LET y == Stream!Says(x, Stream!Json(x.next - 1, <<s[c].parts + 1>>))
         IN  Steady(y, r, p) /\ Anthropic(y, r, p)
  <1>1. PICK i : i = x.next - 1
    OBVIOUS
  <1>2. i \in DOMAIN x.client.pending /\ x.client.pending[i].call = c /\ x.text = None
    BY <1>1, AnthropicBlock
  <1>3. PICK ps : ps = <<s[c].parts + 1>>
    OBVIOUS
  <1>4. Continues(x.client, i, c, ps, s, r)
    <2>1. PICK n \in Nat, m \in Nat : n = s[c].parts /\ m = s[c].again
      BY DEF Sent, CallSent
    <2>2. s[c] = At(n, m, "open")
      BY <2>1 DEF Sent, CallSent, At
    <2>3. PICK w : w = At(n + 1, m, "open")
      OBVIOUS
    <2>4. w \in CallSent /\ w.is \in UnderWay /\ r = Moved(s, c, w)
      BY <2>1, <2>3 DEF At, CallSent, CallStatus, UnderWay
    <2>5. ps = <<n + 1>>
      BY <1>3, <2>1
    <2>8. NextPart(n, ps)
      BY <2>5 DEF NextPart
    <2>6. Lengthens(Stream!Arguments(At(n, m, "open")), ps, Stream!Arguments(At(n + 1, m, "open")))
      BY <2>8, MoreArguments
    <2>7. ps \in Seq(Nat) /\ Stream!Arguments(s[c]) \o ps = Stream!Arguments(w)
      BY <2>2, <2>3, <2>6 DEF Lengthens
    <2> QED BY <1>2, <2>4, <2>7 DEF Continues
  <1>5. PICK y : y = Stream!Says(x, Stream!Json(i, ps))
    OBVIOUS
  <1>6. Steady(y, r, p) /\ KeepsBlocks(x, y)
    BY <1>4, <1>5, ArgumentsSaid
  <1>7. \A d \in Call : r[d].is \notin {"seeded", "given"}
    BY DEF Moved, Sent, Anthropic, At
  <1>8. Anthropic(y, r, p)
    BY <1>2, <1>6, <1>7 DEF Anthropic, KeepsBlocks, SameBlocks
  <1> QED BY <1>1, <1>3, <1>5, <1>6, <1>8

\* The block of the call stops: it is complete, or the output limit cuts it.
LEMMA AnthropicStops ==
  ASSUME NEW x, NEW s, NEW p, Sent(s), Told(p), Steady(x, s, p), Anthropic(x, s, p),
         NEW c \in Call, s[c].is = "open", NEW is \in Stream!Closed,
         NEW r, r = Moved(s, c, At(s[c].parts, s[c].again, is))
  PROVE  LET y == Stream!Says(x, Stream!Stop(x.next - 1))
         IN  Steady(y, r, p) /\ Anthropic(y, r, p)
  <1>1. PICK i : i = x.next - 1
    OBVIOUS
  <1>2. i \in DOMAIN x.client.pending /\ x.client.pending[i].call = c /\ Live(s) = {c} /\ x.think = None
    BY <1>1, AnthropicBlock DEF Anthropic
  <1>3. PICK y : y = Stream!Says(x, Stream!Stop(i))
    OBVIOUS
  <1>4. Steady(y, r, p) /\ LosesBlocks(x, y, {i}) /\ Live(r) = Live(s) \ {c}
    BY <1>2, <1>3, CallStops
  <1>5. \A d \in Call : r[d].is \notin {"seeded", "given"}
    BY ClosedIs DEF Moved, Sent, Anthropic, At, UnderWay
  <1>6. Anthropic(y, r, p)
    BY <1>2, <1>4, <1>5 DEF Anthropic, LosesBlocks, SameBlocks
  <1> QED BY <1>1, <1>3, <1>4, <1>6

\* message_stop
LEMMA AnthropicFinishes ==
  ASSUME NEW x, NEW s, NEW p, Sent(s), Told(p), Steady(x, s, p), Anthropic(x, s, p), Live(s) = {}
  PROVE  Ended(Stream!Says(x, Stream!MessageStop), Completed(s, {}), p)
  <1>1. Ended(Stream!Says(x, Stream!MessageStop), s, p)
    BY EndSaid DEF Anthropic
  <1> QED BY <1>1, NothingOpen
-----------------------------------------------------------------------------
(* An answer that comes whole *)

\* The calls of the answer in some order, each once
LEMMA CallsInOrder ==
  ASSUME NEW cs \in SUBSET Call
  PROVE  /\ Stream!Cardinality(cs) \in Nat /\ Stream!SetToSeq(cs) \in [1 .. Stream!Cardinality(cs) -> cs]
         /\ \A c \in cs : \E k \in 1 .. Stream!Cardinality(cs) : Stream!SetToSeq(cs)[k] = c
         /\ \A j, k \in 1 .. Stream!Cardinality(cs) : Stream!SetToSeq(cs)[j] = Stream!SetToSeq(cs)[k] => j = k
  <1> DEFINE n == Stream!Cardinality(cs)
  <1>1. IsFiniteSet(cs)
    BY StreamAssumption, FS_Subset
  <1>2. n \in Nat /\ \E f : f \in Bijection(1 .. n, cs)
    BY <1>1, FS_CardinalityType, StreamCounts DEF ExistsBijection
  <1>3. PICK f : f \in Bijection(1 .. n, cs)
    BY <1>2
  <1>4. f \in [1 .. n -> cs] /\ Stream!IsInjective(f)
    BY <1>3 DEF Bijection, Injection, IsInjective, Stream!IsInjective
  <1>5. Stream!SetToSeq(cs) \in [1 .. n -> cs] /\ Stream!IsInjective(Stream!SetToSeq(cs))
    BY <1>4 DEF Stream!SetToSeq
  <1>6. PICK q : q = Stream!SetToSeq(cs)
    OBVIOUS
  <1>7. \A j, k \in 1 .. n : q[j] = q[k] => j = k
    BY <1>5, <1>6 DEF Stream!IsInjective
  <1>8. q \in Injection(1 .. n, cs)
    BY <1>5, <1>6 DEF Injection, IsInjective, Stream!IsInjective
  <1>9. \A c \in cs : \E k \in 1 .. n : q[k] = c
    <2>1. IsFiniteSet(1 .. n) /\ Stream!Cardinality(1 .. n) = n
      BY <1>2, FS_Interval, StreamCounts
    <2>2. q \in Surjection(1 .. n, cs)
      <3> HIDE DEF n
      <3>1. Stream!Cardinality(1 .. n) = Stream!Cardinality(cs)
        BY <2>1 DEF n
      <3> QED BY <1>1, <1>8, <2>1, <3>1, FS_Injection, StreamCounts
    <2> QED BY <2>2 DEF Surjection
  <1> QED BY <1>2, <1>5, <1>6, <1>7, <1>9

\* What the reader has after such an answer: t fragments of text, then the calls
Whole(cs, n, t) ==
  [Stream!Nothing EXCEPT !.stopped = TRUE, !.events =
     [k \in 1 .. t |-> [kind |-> "text", parts |-> {k}]]
       \o [k \in 1 .. Stream!Cardinality(cs) |-> Stream!CallEvent([call |-> Stream!SetToSeq(cs)[k], args |-> Stream!Upto(n)])]
       \o <<[kind |-> "stop"]>>]

Joins(c, a, b) == c = a \o b
\* Two sequences joined
LEMMA Joined ==
  ASSUME NEW S, NEW a \in Seq(S), NEW b \in Seq(S), NEW c, Joins(c, a, b)
  PROVE  /\ c \in Seq(S) /\ Len(c) = Len(a) + Len(b)
         /\ \A k \in 1 .. Len(a) : c[k] = a[k]
         /\ \A k \in 1 .. Len(b) : c[Len(a) + k] = b[k]
  <1>1. PICK n \in Nat, m \in Nat : n = Len(a) /\ m = Len(b)
    OBVIOUS
  <1>2. /\ c \in Seq(S) /\ Len(c) = n + m
        /\ \A k \in 1 .. n + m : c[k] = IF k <= n THEN a[k] ELSE b[k - n]
    BY <1>1, ConcatProperties DEF Joins
  <1>3. ASSUME NEW k \in 1 .. m PROVE c[n + k] = b[k]
    <2>1. n + k \in 1 .. n + m /\ ~(n + k <= n) /\ (n + k) - n = k
      OBVIOUS
    <2> QED BY <1>2, <2>1
  <1>4. \A k \in 1 .. n : c[k] = a[k]
    BY <1>2
  <1>5. Len(c) = Len(a) + Len(b)
    BY <1>1, <1>2
  <1>6. \A k \in 1 .. Len(a) : c[k] = a[k]
    BY <1>1, <1>4
  <1>7. \A k \in 1 .. Len(b) : c[Len(a) + k] = b[k]
    BY <1>1, <1>3
  <1> QED BY <1>2, <1>5, <1>6, <1>7

Answered(cs, n, is) ==
  [c \in Call |-> IF c \in cs THEN At(n, 0, is) ELSE At(0, 0, "unsent")]

\* Such an answer has each of its calls and each fragment once, and an end.
LEMMA WholeIs ==
  ASSUME NEW cs \in SUBSET Call, NEW n \in Nat, NEW t \in 0 .. MaxProse,
         NEW is \in Stream!Closed, NEW r, r = Answered(cs, n, is),
         NEW p, Told(p), p.text = t, p.think = 0
  PROVE  Sent(r) /\ Heard(Whole(cs, n, t)) /\ Ledger(Whole(cs, n, t), r) /\ Fragmented(Whole(cs, n, t), p)
         /\ Over(Whole(cs, n, t)) /\ DOMAIN Whole(cs, n, t).pending = {}
  <1> DEFINE m == Stream!Cardinality(cs)
             q == Stream!SetToSeq(cs)
             a == [k \in 1 .. t |-> [kind |-> "text", parts |-> {k}]]
             b == [k \in 1 .. m |-> Stream!CallEvent([call |-> q[k], args |-> Stream!Upto(n)])]
             e == [kind |-> "stop"]
             w == a \o b \o <<e>>
  <1>1. /\ m \in Nat /\ q \in [1 .. m -> cs]
        /\ \A c \in cs : \E k \in 1 .. m : q[k] = c
        /\ \A j, k \in 1 .. m : q[j] = q[k] => j = k
    BY CallsInOrder
  <1>2. t \in Nat /\ t <= MaxProse /\ MaxProse \in Nat
    BY StreamAssumption
  <1>3. Stream!Upto(n) \in Seq(Nat)
    BY UptoGrows
  <1>4. a \in Seq(ReaderEvent) /\ Len(a) = t /\ \A k \in 1 .. t : a[k].kind = "text" /\ a[k].parts = {k}
    <2>1. \A k \in 1 .. t : [kind |-> "text", parts |-> {k}] \in ReaderEvent
      BY <1>2 DEF ReaderEvent, Fragment
    <2>2. a \in [1 .. t -> ReaderEvent]
      BY <2>1
    <2> QED BY <1>2, <2>2
  <1>5. b \in Seq(ReaderEvent) /\ Len(b) = m /\ \A k \in 1 .. m : b[k].kind = "call" /\ b[k].call = q[k] /\ b[k].args = Stream!Upto(n)
    <2> HIDE DEF m, q
    <2>1. \A k \in 1 .. m : Stream!CallEvent([call |-> q[k], args |-> Stream!Upto(n)]) \in ReaderEvent
      BY <1>1, <1>3 DEF ReaderEvent, Stream!CallEvent
    <2>2. b \in [1 .. m -> ReaderEvent]
      BY <2>1
    <2>3. \A k \in 1 .. m : b[k] = [kind |-> "call", call |-> q[k], args |-> Stream!Upto(n)]
      BY DEF Stream!CallEvent
    <2> HIDE DEF b
    <2> QED BY <1>1, <2>2, <2>3
  <1>6. e \in ReaderEvent /\ e.kind = "stop"
    BY DEF ReaderEvent
  <1> HIDE DEF a, b, e, m, q
  <1>7. /\ w \in Seq(ReaderEvent) /\ Len(w) = t + m + 1
        /\ \A k \in 1 .. t : w[k] = a[k]
        /\ \A k \in 1 .. m : w[t + k] = b[k]
        /\ w[t + m + 1] = e
    <2>1. PICK a1 \in Seq(ReaderEvent), b1 \in Seq(ReaderEvent) : a1 = a /\ b1 = b
      BY <1>4, <1>5
    <2>2. t = Len(a1) /\ m = Len(b1)
      BY <1>4, <1>5, <2>1
    <2>3. PICK c : c = a1 \o b1
      OBVIOUS
    <2>4. /\ c \in Seq(ReaderEvent) /\ Len(c) = t + m
          /\ \A k \in 1 .. t : c[k] = a1[k]
          /\ \A k \in 1 .. m : c[t + k] = b1[k]
      <3>1. Joins(c, a1, b1)
        BY <2>3 DEF Joins
      <3> QED BY <1>1, <1>2, <2>2, <3>1, Joined
    <2>5. PICK l : l = <<e>>
      OBVIOUS
    <2>6. l \in Seq(ReaderEvent) /\ 1 = Len(l) /\ l[1] = e
      BY <1>6, <2>5
    <2>7. PICK d : d = c \o l
      OBVIOUS
    <2>8. PICK u \in Nat, i \in Nat : u = t + m /\ i = 1
      BY <1>1, <1>2
    <2>13. u = Len(c) /\ i = Len(l)
      BY <2>4, <2>6, <2>8
    <2>9. /\ d \in Seq(ReaderEvent) /\ Len(d) = u + i
          /\ \A k \in 1 .. u : d[k] = c[k]
          /\ \A k \in 1 .. i : d[u + k] = l[k]
      <3>1. Joins(d, c, l)
        BY <2>7 DEF Joins
      <3>2. /\ d \in Seq(ReaderEvent) /\ Len(d) = Len(c) + Len(l)
            /\ \A k \in 1 .. Len(c) : d[k] = c[k]
            /\ \A k \in 1 .. Len(l) : d[Len(c) + k] = l[k]
        <4>1. c \in Seq(ReaderEvent) /\ l \in Seq(ReaderEvent)
          BY <2>4, <2>6
        <4> QED BY <3>1, <4>1, Joined
      <3> QED BY <2>13, <3>2
    <2>10. w = d
      BY <2>1, <2>3, <2>5, <2>7 DEF w
    <2>11. \A k \in 1 .. t : k \in 1 .. t + m
      BY <1>1, <1>2
    <2>12. \A k \in 1 .. m : t + k \in 1 .. t + m
      BY <1>1, <1>2
    <2>14. \A k \in 1 .. t : d[k] = a[k]
      BY <2>1, <2>4, <2>8, <2>9, <2>11
    <2>15. \A k \in 1 .. m : d[t + k] = b[k]
      BY <2>1, <2>4, <2>8, <2>9, <2>12
    <2>16. d[t + m + 1] = e
      BY <2>6, <2>8, <2>9
    <2>17. Len(d) = t + m + 1 /\ d \in Seq(ReaderEvent)
      BY <2>8, <2>9
    <2> QED BY <2>10, <2>14, <2>15, <2>16, <2>17
  <1>8. PICK v : v = w
    OBVIOUS
  <1>9. /\ v \in Seq(ReaderEvent) /\ DOMAIN v = 1 .. t + m + 1 /\ Len(v) = t + m + 1
        /\ \A k \in 1 .. t : v[k].kind = "text" /\ v[k].parts = {k}
        /\ \A k \in 1 .. m : v[t + k].kind = "call" /\ v[t + k].call = q[k] /\ v[t + k].args = Stream!Upto(n)
        /\ v[t + m + 1].kind = "stop"
    <2> HIDE DEF a, b, e, m, q, w
    <2> QED BY <1>1, <1>2, <1>4, <1>5, <1>6, <1>7, <1>8
  <1> HIDE DEF a, b, e, w, m, q
  <1>10. PICK h : h = Whole(cs, n, t)
    OBVIOUS
  <1>11. h = [pending |-> <<>>, thinking |-> None, events |-> v, stopped |-> TRUE]
    BY <1>8, <1>10 DEF Whole, Stream!Nothing, a, b, e, w, m, q
  <1>12. DOMAIN h.pending = {} /\ h.events = v /\ h.thinking = None /\ h.stopped = TRUE
    BY <1>11
  <1>13. Heard(h)
    <2>1. h.pending \in [DOMAIN h.pending -> CallBlock]
      BY <1>11, <1>12
    <2> QED BY <1>9, <1>11, <1>12, <2>1 DEF Heard
  <1>14. \A k \in DOMAIN v : \/ k \in 1 .. t \/ k = t + m + 1
                             \/ k - t \in 1 .. m /\ k = t + (k - t)
    BY <1>1, <1>2, <1>9
  <1>15. Over(h)
    <2>1. ASSUME NEW k \in DOMAIN v PROVE v[k].kind = "stop" <=> k = Len(v)
      <3>1. CASE k - t \in 1 .. m /\ k = t + (k - t)
        <4>1. v[t + (k - t)].kind = "call" /\ k # t + m + 1
          BY <1>1, <1>2, <1>9, <3>1
        <4> QED BY <1>9, <3>1, <4>1
      <3>2. CASE k \in 1 .. t
        <4>1. v[k].kind = "text" /\ k # t + m + 1
          BY <1>1, <1>2, <1>9, <3>2
        <4> QED BY <1>9, <4>1
      <3> QED BY <1>9, <1>14, <3>1, <3>2
    <2>2. v # <<>>
      BY <1>1, <1>2, <1>9
    <2> QED BY <1>12, <2>1, <2>2 DEF Over
  <1>16. Fragmented(h, p)
    <2>1. ASSUME NEW k \in DOMAIN v PROVE v[k].kind = "text" <=> k \in 1 .. t
      <3>1. CASE k \in 1 .. t
        BY <1>9, <3>1
      <3>2. CASE k = t + m + 1
        <4>1. v[k].kind = "stop" /\ k \notin 1 .. t
          BY <1>1, <1>2, <1>9, <3>2
        <4> QED BY <4>1
      <3>3. CASE k - t \in 1 .. m /\ k = t + (k - t)
        <4>1. v[t + (k - t)].kind = "call" /\ k \notin 1 .. t
          BY <1>1, <1>2, <1>9, <3>3
        <4> QED BY <3>3, <4>1
      <3> QED BY <1>14, <3>1, <3>2, <3>3
    <2>2. ASSUME NEW k \in DOMAIN v PROVE v[k].kind # "reasoning"
      <3>1. CASE k - t \in 1 .. m /\ k = t + (k - t)
        <4>1. v[t + (k - t)].kind = "call"
          BY <1>9, <3>1
        <4> QED BY <3>1, <4>1
      <3> QED BY <1>9, <1>14, <3>1
    <2>3. \A k \in 1 .. t : k \in DOMAIN v
      BY <1>1, <1>2, <1>9
    <2>4. Sorted(h, "text", t, {})
      BY <1>2, <1>9, <1>12, <2>1, <2>3 DEF Sorted
    <2>5. Sorted(h, "reasoning", 0, {})
      BY <1>12, <2>2 DEF Sorted
    <2> QED BY <1>12, <2>4, <2>5 DEF Fragmented, Waiting
  <1>17. /\ Sent(r) /\ Live(r) = {}
         /\ \A c \in Call : (r[c].is \in Stream!Closed <=> c \in cs) /\ (r[c].is = "unsent" => r[c] = At(0, 0, "unsent"))
         /\ \A c \in cs : Stream!Arguments(r[c]) = Stream!Upto(n)
    <2>1. is \in CallStatus /\ is \notin UnderWay /\ is # "unsent" /\ "unsent" \in CallStatus
          /\ "unsent" \notin Stream!Closed /\ "unsent" \notin UnderWay
      BY ClosedIs DEF CallStatus, UnderWay
    <2>2. \A c \in cs : c \in Call /\ r[c] = At(n, 0, is)
      BY DEF Answered
    <2>3. \A c \in Call \ cs : r[c] = At(0, 0, "unsent")
      BY DEF Answered
    <2>4. At(n, 0, is) \in CallSent /\ At(n, 0, is).is = is /\ At(0, 0, "unsent") \in CallSent /\ At(0, 0, "unsent").is = "unsent"
      BY <2>1 DEF At, CallSent
    <2>5. Sent(r)
      BY <2>4 DEF Sent, Answered
    <2>6. Live(r) = {}
      BY <2>1, <2>2, <2>3, <2>4 DEF Live
    <2>7. \A c \in Call : (r[c].is \in Stream!Closed <=> c \in cs) /\ (r[c].is = "unsent" => r[c] = At(0, 0, "unsent"))
      BY <2>1, <2>2, <2>3, <2>4
    <2>8. PICK ps : ps = Stream!Upto(n)
      OBVIOUS
    <2>9. \A c \in cs : Stream!Arguments(r[c]) = Stream!Upto(n)
      BY <2>2, <2>8, AllArguments
    <2> QED BY <2>5, <2>6, <2>7, <2>9
  <1>18. Ledger(h, r)
    <2>1. ASSUME NEW k \in DOMAIN v, v[k].kind = "call"
          PROVE  k - t \in 1 .. m /\ v[k].call = q[k - t] /\ v[k].args = Stream!Upto(n)
      <3>1. k - t \in 1 .. m /\ k = t + (k - t)
        BY <1>9, <1>14, <2>1
      <3>2. v[t + (k - t)].call = q[k - t] /\ v[t + (k - t)].args = Stream!Upto(n)
        BY <1>9, <3>1
      <3> QED BY <3>1, <3>2
    <2>2. ASSUME NEW k \in DOMAIN v, v[k].kind = "call"
          PROVE  /\ r[v[k].call].is \in Stream!Closed /\ v[k].args = Stream!Arguments(r[v[k].call])
                 /\ \A j \in DOMAIN v : v[j].kind = "call" /\ v[j].call = v[k].call => j = k
      <3>1. k - t \in 1 .. m /\ v[k].call = q[k - t] /\ v[k].args = Stream!Upto(n) /\ v[k].call \in cs
        BY <1>1, <2>1, <2>2
      <3>2. ASSUME NEW j \in DOMAIN v, v[j].kind = "call", v[j].call = v[k].call PROVE j = k
        <4>1. j - t \in 1 .. m /\ v[j].call = q[j - t]
          BY <2>1, <3>2
        <4>2. PICK a2 \in 1 .. m, b2 \in 1 .. m : a2 = j - t /\ b2 = k - t
          BY <3>1, <4>1
        <4>3. q[a2] = q[b2]
          BY <3>1, <3>2, <4>1, <4>2
        <4>4. a2 = b2
          BY <1>1, <4>3
        <4>5. j \in Int /\ k \in Int /\ t \in Int
          BY <1>1, <1>2, <1>9
        <4> QED BY <4>2, <4>4, <4>5
      <3> QED BY <1>17, <3>1, <3>2
    <2>3. ASSUME NEW c \in Call, r[c].is \in Stream!Closed PROVE \E k \in DOMAIN v : v[k].kind = "call" /\ v[k].call = c
      <3>1. PICK k \in 1 .. m : q[k] = c
        BY <1>1, <1>17, <2>3
      <3>2. t + k \in DOMAIN v
        BY <1>1, <1>2, <1>9
      <3> QED BY <1>9, <3>1, <3>2
    <2> QED BY <1>12, <1>17, <2>2, <2>3 DEF Ledger
  <1> QED BY <1>10, <1>12, <1>13, <1>15, <1>16, <1>17, <1>18
-----------------------------------------------------------------------------
(* What the turn loop is given *)

OfKind(h, kind) == {k \in DOMAIN h.events : h.events[k].kind = kind}
CallsWhole(h, s) ==
  \A k \in OfKind(h, "call") :
    /\ s[h.events[k].call].is \in Stream!Closed /\ h.events[k].args = Stream!Arguments(s[h.events[k].call])
    /\ \A j \in OfKind(h, "call") : h.events[j].call = h.events[k].call => j = k
Ordered(h, kind, n) ==
  /\ UNION {h.events[k].parts : k \in OfKind(h, kind)} = 1 .. n
  /\ \A j, k \in OfKind(h, kind) : j < k => \A a \in h.events[j].parts, b \in h.events[k].parts : a < b
MessageWhole(h, s, p) ==
  /\ \A c \in Call : s[c].is \in Stream!Closed => \E k \in OfKind(h, "call") : h.events[k].call = c
  /\ Ordered(h, "text", p.text) /\ Ordered(h, "reasoning", p.think)
  /\ OfKind(h, "stop") = {Len(h.events)}

\* The calls that were completed are events, whole,
LEMMA LedgerDelivers ==
  ASSUME NEW h, NEW s, Ledger(h, s)
  PROVE  CallsWhole(h, s)
  BY DEF Ledger, CallsWhole, OfKind

\* and of a kind whose fragments do not wait all are there, in their order.
LEMMA SortedDelivers ==
  ASSUME NEW h, NEW kind, NEW n \in Nat, Sorted(h, kind, n, {})
  PROVE  Ordered(h, kind, n)
  <1>1. \A m \in 1 .. n : \E k \in OfKind(h, kind) : m \in h.events[k].parts
    BY DEF Sorted, OfKind
  <1>2. \A k \in OfKind(h, kind) : h.events[k].parts \subseteq 1 .. n
    BY DEF Sorted, OfKind
  <1>3. \A j, k \in OfKind(h, kind) : j < k => \A a \in h.events[j].parts, b \in h.events[k].parts : a < b
    BY DEF Sorted, OfKind
  <1>4. UNION {h.events[k].parts : k \in OfKind(h, kind)} = 1 .. n
    BY <1>1, <1>2
  <1> QED BY <1>3, <1>4 DEF Ordered

\* A message that is over is delivered.
LEMMA OverDelivers ==
  ASSUME NEW h, NEW s, NEW p, Told(p), Heard(h), Ledger(h, s), Fragmented(h, p), Over(h)
  PROVE  MessageWhole(h, s, p)
  <1>1. p.text \in Nat /\ p.think \in Nat
    BY StreamAssumption DEF Told
  <1>2. Sorted(h, "text", p.text, {}) /\ Sorted(h, "reasoning", p.think, {})
    BY DEF Fragmented, Waiting, Over
  <1>3. Ordered(h, "text", p.text) /\ Ordered(h, "reasoning", p.think)
    BY <1>1, <1>2, SortedDelivers
  <1>4. OfKind(h, "stop") = {Len(h.events)}
    <2>1. Len(h.events) \in DOMAIN h.events
      BY DEF Heard, Over
    <2> QED BY <2>1 DEF Over, OfKind
  <1>5. \A c \in Call : s[c].is \in Stream!Closed => \E k \in OfKind(h, "call") : h.events[k].call = c
    BY DEF Ledger, OfKind
  <1> QED BY <1>3, <1>4, <1>5 DEF MessageWhole

-----------------------------------------------------------------------------
(* The steps of the stream *)

\* A frame before the end leaves everything in order,
LEMMA FrameKeeps ==
  ASSUME StreamInv, phase = "streaming", ~finished, UNCHANGED <<api, phase, tries, received, finished>>,
         NEW x, NEW s, NEW p, x = state', s = provided', p = prose', Sent(s), Told(p), Steady(x, s, p),
         api = "chat" => Chat(x, s), api = "responses" => Responses(x, s),
         api = "gemini" => Gemini(x, s), api = "anthropic" => Anthropic(x, s, p)
  PROVE  StreamInv'
  <1>1. /\ Translator(x) /\ Ledger(x.client, s) /\ Fragmented(x.client, p) /\ Endless(x.client) /\ Blocks(x)
    BY DEF Steady, Reads
  <1>2. Sent(provided)' /\ Told(prose)' /\ Translator(state)'
    BY <1>1
  <1>3. Ledger(Stream!client, provided)' /\ Fragmented(Stream!client, prose)' /\ Endless(Stream!client)' /\ Blocks(state)'
    <2>1. Stream!client' = x.client /\ state' = x /\ provided' = s /\ prose' = p
      BY DEF Stream!client
    <2>2. Ledger(Stream!client, provided)'
      BY <1>1, <2>1
    <2>3. Fragmented(Stream!client, prose)'
      BY <1>1, <2>1
    <2>4. Endless(Stream!client)' /\ Blocks(state)'
      BY <1>1, <2>1
    <2> QED BY <2>2, <2>3, <2>4
  <1>4. ByFormat'
    BY DEF ByFormat
  <1>5. (api = "anthropic" => prose.think = 0)'
    BY DEF Anthropic
  <1>6. Stream!CallsAreWhole' /\ Stream!MessageDelivered'
    BY DEF StreamInv, Stream!CallsAreWhole, Stream!MessageDelivered
  <1> QED BY <1>2, <1>3, <1>4, <1>5, <1>6 DEF StreamInv

\* and so does the one that ends the message.
LEMMA FrameEnds ==
  ASSUME StreamInv, phase = "streaming", UNCHANGED <<api, phase, tries, received, prose>>, finished' = TRUE,
         NEW x, NEW s, NEW p, x = state', s = provided', p = prose, Sent(s), Ended(x, s, p)
  PROVE  StreamInv'
  <1>1. /\ Translator(x) /\ Ledger(x.client, s) /\ Fragmented(x.client, p) /\ Over(x.client)
    BY DEF Ended
  <1>2. Sent(provided)' /\ Told(prose)' /\ Translator(state)'
    BY <1>1 DEF StreamInv
  <1>3. Ledger(Stream!client, provided)' /\ Fragmented(Stream!client, prose)' /\ Over(Stream!client)'
    <2>1. Stream!client' = x.client /\ provided' = s /\ prose' = p
      BY DEF Stream!client
    <2>2. Ledger(Stream!client, provided)'
      BY <1>1, <2>1
    <2>3. Fragmented(Stream!client, prose)'
      BY <1>1, <2>1
    <2>4. Over(Stream!client)'
      BY <1>1, <2>1
    <2> QED BY <2>2, <2>3, <2>4
  <1>4. Stream!CallsAreWhole' /\ Stream!MessageDelivered'
    BY DEF StreamInv, Stream!CallsAreWhole, Stream!MessageDelivered
  <1> QED BY <1>2, <1>3, <1>4 DEF StreamInv

\* What the provider has sent stays in its type, with one more fragment,
LEMMA MoreIsTold ==
  ASSUME NEW p, Told(p)
  PROVE  /\ p.text < MaxProse => Told(MoreText(p))
         /\ p.think < MaxProse => Told(MoreThought(p))
  BY StreamAssumption DEF Told, MoreText, MoreThought

\* with a call that has come further,
LEMMA Carried ==
  ASSUME NEW s, s = provided, Sent(s), NEW c \in Call, NEW n \in Nat, NEW is \in CallStatus, Stream!Carries(c, n, is),
         NEW r, r = provided'
  PROVE  /\ r = Moved(s, c, At(s[c].parts + n, s[c].again, is)) /\ Sent(r)
         /\ n = 0 => r = Moved(s, c, At(s[c].parts, s[c].again, is))
  <1>1. PICK m, k : m \in Nat /\ k \in Nat /\ m = s[c].parts /\ k = s[c].again
    BY DEF Sent, CallSent
  <1>2. r[c] = At(m + n, k, is) /\ r = [s EXCEPT ![c] = r[c]]
    BY <1>1 DEF Stream!Carries, Sent, CallSent, At
  <1>3. r = Moved(s, c, At(m + n, k, is)) /\ m + n \in Nat
    BY <1>1, <1>2 DEF Moved
  <1>4. Sent(r)
    BY <1>1, <1>3, MovesTo
  <1>5. n = 0 => m + n = m
    BY <1>1
  <1> QED BY <1>1, <1>3, <1>4, <1>5

\* and with the calls under way closed at the end.
LEMMA Finished ==
  ASSUME NEW s, s = provided, Sent(s), NEW cuts, cuts \subseteq Live(s), Stream!Finishes(cuts), NEW r, r = provided'
  PROVE  r = Completed(s, cuts) /\ Sent(r) /\ finished' = TRUE
  <1>1. r = Completed(s, cuts) /\ finished' = TRUE
    BY DEF Stream!Finishes, Completed
  <1> QED BY <1>1, CompletedIs

\* The calls that may go on are under way, and with all settled none is.
LEMMA OpenIs ==
  ASSUME NEW s, s = provided, Sent(s)
  PROVE  /\ \A c \in Stream!Open : c \in Live(s) /\ c \in Call /\ s[c].is \in {"open", "seeded"}
         /\ Stream!Settled => Live(s) = {}
  BY DEF Stream!Open, Stream!Settled, Live, UnderWay

\* A stream in its middle
LEMMA Streaming ==
  ASSUME StreamInv, phase = "streaming", ~finished
  PROVE  Sent(provided) /\ Told(prose) /\ Steady(state, provided, prose) /\ ByFormat
  BY DEF StreamInv, Steady, Reads, Translator, Stream!client

\* Each chunk of chat completions keeps the stream in order,
LEMMA ChatStep ==
  ASSUME StreamInv, Stream!ChatChunk
  PROVE  StreamInv'
  <1>1. phase = "streaming" /\ api = "chat" /\ ~finished
    BY DEF Stream!ChatChunk, Stream!Sending
  <1>2. Sent(provided) /\ Told(prose) /\ Steady(state, provided, prose) /\ Chat(state, provided)
    BY <1>1, Streaming DEF ByFormat
  <1>3. PICK x, s, p : x = state /\ s = provided /\ p = prose
    OBVIOUS
  <1>4. PICK y, r, q : y = state' /\ r = provided' /\ q = prose'
    OBVIOUS
  <1>5. Sent(s) /\ Told(p) /\ Steady(x, s, p) /\ Chat(x, s)
    BY <1>2, <1>3
  <1>6. ASSUME UNCHANGED <<api, phase, tries, received, finished>>, Sent(r), Told(q), Steady(y, r, q), Chat(y, r)
        PROVE  StreamInv'
    BY <1>1, <1>4, <1>6, FrameKeeps
  <1>7. CASE Stream!MaySay("think") /\ Stream!Said("think") /\ Stream!Takes(Stream!ChatThink(state, prose.think + 1)) /\ UNCHANGED <<provided, finished>>
    <2>1. p.think < MaxProse /\ y = Stream!ChatThink(x, p.think + 1) /\ r = s /\ q = MoreThought(p)
      BY <1>3, <1>4, <1>7 DEF Stream!MaySay, Stream!Said, Stream!Takes, MoreThought
    <2>2. Steady(y, r, q) /\ Chat(y, r) /\ Told(q)
      BY <1>5, <2>1, ChatThinks, MoreIsTold
    <2> QED BY <1>5, <1>6, <1>7, <2>1, <2>2 DEF Stream!Takes
  <1>8. CASE Stream!MaySay("text") /\ Stream!Said("text") /\ Stream!Takes(Stream!ChatText(state, prose.text + 1)) /\ UNCHANGED <<provided, finished>>
    <2>1. p.text < MaxProse /\ y = Stream!ChatText(x, p.text + 1) /\ r = s /\ q = MoreText(p)
      BY <1>3, <1>4, <1>8 DEF Stream!MaySay, Stream!Said, Stream!Takes, MoreText
    <2>2. Steady(y, r, q) /\ Chat(y, r) /\ Told(q)
      BY <1>5, <2>1, ChatSpeaks, MoreIsTold
    <2> QED BY <1>5, <1>6, <1>8, <2>1, <2>2 DEF Stream!Takes
  <1>9. ASSUME NEW c \in Call, NEW n \in {0, 1}, provided[c].is = "unsent" \/ n = 1, Stream!Carries(c, n, "open"),
               Stream!Takes(Stream!ChatCall(state, c, Stream!Fragments(c, n))), UNCHANGED <<prose, finished>>
        PROVE  StreamInv'
    <2>1. r = Moved(s, c, At(s[c].parts + n, s[c].again, "open")) /\ Sent(r)
      <3>1. n \in Nat /\ "open" \in CallStatus
        BY DEF CallStatus
      <3> QED BY <1>3, <1>4, <1>5, <1>9, <3>1, Carried
    <2>2. /\ y = Stream!ChatCall(x, c, IF n = 0 THEN <<>> ELSE <<s[c].parts + 1>>) /\ q = p
          /\ s[c].is = "unsent" \/ n = 1
      BY <1>3, <1>4, <1>9 DEF Stream!Takes, Stream!Fragments
    <2>3. Steady(y, r, p) /\ Chat(y, r)
      BY <1>5, <2>1, <2>2, ChatCalls
    <2> QED BY <1>5, <1>6, <1>9, <2>1, <2>2, <2>3 DEF Stream!Takes
  <1>10. ASSUME NEW cuts \in SUBSET Stream!Open, Stream!Finishes(cuts), Stream!Takes(Stream!ChatFinish(state)), UNCHANGED prose
         PROVE  StreamInv'
    <2>1. y = Stream!ChatFinish(x) /\ UNCHANGED <<api, phase, tries, received, prose>>
      BY <1>3, <1>4, <1>10 DEF Stream!Takes
    <2>2. cuts \subseteq Live(s)
      BY <1>3, <1>5, <1>10, OpenIs
    <2>3. r = Completed(s, cuts) /\ Sent(r) /\ finished' = TRUE
      BY <1>3, <1>4, <1>5, <1>10, <2>2, Finished
    <2>4. Ended(y, r, p)
      BY <1>5, <2>1, <2>2, <2>3, ChatFinishes
    <2> QED BY <1>1, <1>3, <1>4, <2>1, <2>3, <2>4, FrameEnds
  <1> QED BY <1>7, <1>8, <1>9, <1>10 DEF Stream!ChatChunk

\* each event of the Responses API,
LEMMA ResponsesStep ==
  ASSUME StreamInv, Stream!ResponsesEvent
  PROVE  StreamInv'
  <1>1. phase = "streaming" /\ api = "responses" /\ ~finished
    BY DEF Stream!ResponsesEvent, Stream!Sending
  <1>2. Sent(provided) /\ Told(prose) /\ Steady(state, provided, prose) /\ Responses(state, provided)
    BY <1>1, Streaming DEF ByFormat
  <1>3. PICK x, s, p : x = state /\ s = provided /\ p = prose
    OBVIOUS
  <1>4. PICK y, r, q : y = state' /\ r = provided' /\ q = prose'
    OBVIOUS
  <1>5. Sent(s) /\ Told(p) /\ Steady(x, s, p) /\ Responses(x, s)
    BY <1>2, <1>3
  <1>6. ASSUME UNCHANGED <<api, phase, tries, received, finished>>, Sent(r), Told(q), Steady(y, r, q), Responses(y, r)
        PROVE  StreamInv'
    BY <1>1, <1>4, <1>6, FrameKeeps
  <1>7. /\ Stream!Settled => Live(s) = {}
        /\ \A c \in Stream!Open : c \in Live(s) /\ c \in Call /\ s[c].is \in {"open", "seeded"}
    BY <1>3, <1>5, OpenIs
  <1>8. CASE Stream!MaySay("text") /\ Stream!Settled /\ Stream!Said("text") /\ Stream!Takes(Stream!RespText(state, prose.text + 1)) /\ UNCHANGED <<provided, finished>>
    <2>1. p.text < MaxProse /\ y = Stream!RespText(x, p.text + 1) /\ r = s /\ q = MoreText(p)
      BY <1>3, <1>4, <1>8 DEF Stream!MaySay, Stream!Said, Stream!Takes, MoreText
    <2>2. Steady(y, r, q) /\ Responses(y, r) /\ Told(q)
      BY <1>5, <1>7, <1>8, <2>1, RespSpeaks, MoreIsTold
    <2> QED BY <1>5, <1>6, <1>8, <2>1, <2>2 DEF Stream!Takes
  <1>9. CASE state.text # None /\ Stream!Takes(Stream!StopText(state)) /\ UNCHANGED <<provided, prose, finished>>
    <2>1. y = Stream!StopText(x) /\ r = s /\ q = p
      BY <1>3, <1>4, <1>9 DEF Stream!Takes
    <2>2. Steady(y, r, q) /\ Responses(y, r)
      BY <1>5, <2>1, RespTextStops
    <2> QED BY <1>5, <1>6, <1>9, <2>1, <2>2 DEF Stream!Takes
  <1>10. ASSUME NEW c \in Call, NEW n \in 0 .. MaxParts, provided[c].is = "unsent",
                Stream!Carries(c, n, IF n = 0 THEN "open" ELSE "seeded"),
                Stream!Takes(Stream!RespAdded(state, c, Stream!Upto(n))), UNCHANGED <<prose, finished>>
         PROVE  StreamInv'
    <2>1. n \in Nat /\ s[c].is = "unsent" /\ s[c] = At(0, 0, "unsent")
      BY <1>3, <1>5, <1>10 DEF Steady, Reads, Ledger
    <2>2. PICK is : is = IF n = 0 THEN "open" ELSE "seeded"
      OBVIOUS
    <2>3. r = Moved(s, c, At(s[c].parts + n, s[c].again, is)) /\ Sent(r)
      <3>1. is \in CallStatus /\ Stream!Carries(c, n, is)
        BY <1>10, <2>2 DEF CallStatus
      <3> QED BY <1>3, <1>4, <1>5, <2>1, <3>1, Carried
    <2>4. s[c].parts + n = n /\ s[c].again = 0
      BY <2>1 DEF At
    <2>5. r = Moved(s, c, At(n, 0, IF n = 0 THEN "open" ELSE "seeded"))
      BY <2>2, <2>3, <2>4
    <2>6. y = Stream!RespAdded(x, c, Stream!Upto(n)) /\ q = p
      BY <1>3, <1>4, <1>10 DEF Stream!Takes
    <2>7. Steady(y, r, p) /\ Responses(y, r)
      BY <1>5, <2>1, <2>5, <2>6, RespAdds
    <2> QED BY <1>5, <1>6, <1>10, <2>3, <2>6, <2>7 DEF Stream!Takes
  <1>11. ASSUME NEW c \in Stream!Open, NEW key \in {Stream!ByCall(c), Stream!ByItem(c)}, Stream!Carries(c, 1, "open"),
                Stream!Takes(Stream!RespDelta(state, c, key, Stream!Fragments(c, 1))), UNCHANGED <<prose, finished>>
         PROVE  StreamInv'
    <2>1. c \in Call /\ s[c].is \in {"open", "seeded"} /\ key \in CallNames(c) /\ "open" \in CallStatus
      BY <1>7, <1>11 DEF CallNames, CallStatus
    <2>2. r = Moved(s, c, At(s[c].parts + 1, s[c].again, "open")) /\ Sent(r)
      BY <1>3, <1>4, <1>5, <1>11, <2>1, Carried
    <2>3. y = Stream!RespDelta(x, c, key, <<s[c].parts + 1>>) /\ q = p
      BY <1>3, <1>4, <1>11 DEF Stream!Takes, Stream!Fragments
    <2>4. Steady(y, r, p) /\ Responses(y, r)
      BY <1>5, <2>1, <2>2, <2>3, RespDeltas
    <2> QED BY <1>5, <1>6, <1>11, <2>2, <2>3, <2>4 DEF Stream!Takes
  <1>12. ASSUME NEW c \in Stream!Open, NEW key \in {Stream!ByCall(c), Stream!ByItem(c)}, NEW n \in 0 .. MaxParts, provided[c].parts \in {0, n},
                provided' = [provided EXCEPT ![c] = [parts |-> n, is |-> "given", again |-> IF @.is = "seeded" THEN n ELSE 0]],
                Stream!Takes(Stream!RespArguments(state, key, Stream!Upto(n))), UNCHANGED <<prose, finished>>
         PROVE  StreamInv'
    <2>1. c \in Call /\ s[c].is \in {"open", "seeded"} /\ key \in CallNames(c) /\ n \in Nat /\ s[c].parts \in {0, n}
      BY <1>3, <1>7, <1>12 DEF CallNames
    <2>2. PICK m : m = IF s[c].is = "seeded" THEN n ELSE 0
      OBVIOUS
    <2>3. r = Moved(s, c, At(n, m, "given"))
      BY <1>3, <1>4, <1>5, <1>12, <2>1, <2>2 DEF Moved, At, Sent
    <2>4. Sent(r)
      <3>1. m \in Nat /\ "given" \in CallStatus
        BY <2>1, <2>2 DEF CallStatus
      <3> QED BY <1>5, <2>1, <2>3, <3>1, MovesTo
    <2>5. r = Moved(s, c, At(n, IF s[c].is = "seeded" THEN n ELSE 0, "given"))
      BY <2>2, <2>3
    <2>6. q = p /\ y = Stream!RespArguments(x, key, Stream!Upto(n))
      BY <1>3, <1>4, <1>12 DEF Stream!Takes
    <2>7. Steady(y, r, p) /\ Responses(y, r)
      BY <1>5, <2>1, <2>5, <2>6, RespArgues
    <2> QED BY <1>5, <1>6, <1>12, <2>4, <2>6, <2>7 DEF Stream!Takes
  <1>13. ASSUME NEW c \in Call,
                \/ provided[c].is = "given" /\ Stream!Carries(c, 0, "done")
                \/ c \in Stream!Open /\ Stream!Carries(c, 0, "cut"),
                Stream!Takes(Stream!RespDone(state, c)), UNCHANGED <<prose, finished>>
         PROVE  StreamInv'
    <2>1. PICK is \in Stream!Closed : Stream!Carries(c, 0, is)
      BY <1>13 DEF Stream!Closed
    <2>2. c \in Live(s) /\ is \in CallStatus /\ q = p /\ y = Stream!RespDone(x, c)
      BY <1>3, <1>4, <1>7, <1>13, ClosedIs DEF Stream!Takes, Live, UnderWay
    <2>3. r = Moved(s, c, At(s[c].parts, s[c].again, is)) /\ Sent(r)
      BY <1>3, <1>4, <1>5, <2>1, <2>2, Carried
    <2>4. Steady(y, r, p) /\ Responses(y, r)
      BY <1>5, <2>2, <2>3, RespDones
    <2> QED BY <1>5, <1>6, <1>13, <2>2, <2>3, <2>4 DEF Stream!Takes
  <1>14. CASE Stream!Finishes(Stream!Open) /\ Stream!Takes(Stream!RespCompleted(state)) /\ UNCHANGED prose
    <2>1. PICK cuts : cuts = Stream!Open
      OBVIOUS
    <2>2. cuts \subseteq Live(s) /\ Stream!Finishes(cuts)
      BY <1>7, <1>14, <2>1
    <2>3. r = Completed(s, cuts) /\ Sent(r) /\ finished' = TRUE
      BY <1>3, <1>4, <1>5, <2>2, Finished
    <2>4. y = Stream!RespCompleted(x) /\ UNCHANGED <<api, phase, tries, received, prose>>
      BY <1>3, <1>4, <1>14 DEF Stream!Takes
    <2>5. Ended(y, r, p)
      BY <1>5, <2>2, <2>3, <2>4, RespCompletes
    <2> QED BY <1>1, <1>3, <1>4, <2>3, <2>4, <2>5, FrameEnds
  <1> QED BY <1>8, <1>9, <1>10, <1>11, <1>12, <1>13, <1>14 DEF Stream!ResponsesEvent

\* each part of Gemini,
LEMMA GeminiStep ==
  ASSUME StreamInv, Stream!GeminiPart
  PROVE  StreamInv'
  <1>1. phase = "streaming" /\ api = "gemini" /\ ~finished
    BY DEF Stream!GeminiPart, Stream!Sending
  <1>2. Sent(provided) /\ Told(prose) /\ Steady(state, provided, prose) /\ Gemini(state, provided)
    BY <1>1, Streaming DEF ByFormat
  <1>3. PICK x, s, p : x = state /\ s = provided /\ p = prose
    OBVIOUS
  <1>4. PICK y, r, q : y = state' /\ r = provided' /\ q = prose'
    OBVIOUS
  <1>5. Sent(s) /\ Told(p) /\ Steady(x, s, p) /\ Gemini(x, s)
    BY <1>2, <1>3
  <1>6. ASSUME UNCHANGED <<api, phase, tries, received, finished>>, Sent(r), Told(q), Steady(y, r, q), Gemini(y, r)
        PROVE  StreamInv'
    BY <1>1, <1>4, <1>6, FrameKeeps
  <1>7. CASE Stream!MaySay("text") /\ Stream!Said("text") /\ Stream!Takes(Stream!GeminiText(state, prose.text + 1)) /\ UNCHANGED <<provided, finished>>
    <2>1. p.text < MaxProse /\ y = Stream!GeminiText(x, p.text + 1) /\ r = s /\ q = MoreText(p)
      BY <1>3, <1>4, <1>7 DEF Stream!MaySay, Stream!Said, Stream!Takes, MoreText
    <2>2. Steady(y, r, q) /\ y.think = None /\ Told(q)
      BY <1>5, <2>1, GeminiSpeaks, MoreIsTold DEF Gemini
    <2>3. Gemini(y, r)
      BY <1>5, <2>1, <2>2 DEF Gemini
    <2> QED BY <1>5, <1>6, <1>7, <2>1, <2>2, <2>3 DEF Stream!Takes
  <1>8. ASSUME NEW c \in Call, provided[c].is = "unsent", Stream!Carries(c, 1, "done"), Stream!Takes(Stream!GeminiCall(state, c, << 1 >>)),
               UNCHANGED <<prose, finished>>
        PROVE  StreamInv'
    <2>1. q = p /\ s[c].is = "unsent" /\ y = Stream!GeminiCall(x, c, << 1 >>) /\ "done" \in CallStatus
      BY <1>3, <1>4, <1>8 DEF Stream!Takes, CallStatus
    <2>2. r = Moved(s, c, At(s[c].parts + 1, s[c].again, "done")) /\ Sent(r)
      BY <1>3, <1>4, <1>5, <1>8, <2>1, Carried
    <2>3. Steady(y, r, p) /\ Gemini(y, r)
      BY <1>5, <2>1, <2>2, GeminiCalls
    <2> QED BY <1>5, <1>6, <1>8, <2>1, <2>2, <2>3 DEF Stream!Takes
  <1>9. CASE Stream!Finishes({}) /\ Stream!Takes(Stream!GeminiFinish(state)) /\ UNCHANGED prose
    <2>1. y = Stream!GeminiFinish(x) /\ UNCHANGED <<api, phase, tries, received, prose>>
      BY <1>3, <1>4, <1>9 DEF Stream!Takes
    <2>2. r = Completed(s, {}) /\ Sent(r) /\ finished' = TRUE
      <3>1. PICK cuts : cuts = {}
        OBVIOUS
      <3>2. cuts \subseteq Live(s) /\ Stream!Finishes(cuts)
        BY <1>9, <3>1
      <3> QED BY <1>3, <1>4, <1>5, <3>1, <3>2, Finished
    <2>3. Ended(y, r, p)
      BY <1>5, <2>1, <2>2, GeminiFinishes
    <2> QED BY <1>1, <1>3, <1>4, <2>1, <2>2, <2>3, FrameEnds
  <1> QED BY <1>7, <1>8, <1>9 DEF Stream!GeminiPart

\* and each event of Anthropic.
LEMMA AnthropicStep ==
  ASSUME StreamInv, Stream!AnthropicEvent
  PROVE  StreamInv'
  <1>1. phase = "streaming" /\ api = "anthropic" /\ ~finished
    BY DEF Stream!AnthropicEvent, Stream!Sending
  <1>2. Sent(provided) /\ Told(prose) /\ Steady(state, provided, prose) /\ Anthropic(state, provided, prose)
    BY <1>1, Streaming DEF ByFormat
  <1>3. PICK x, s, p : x = state /\ s = provided /\ p = prose
    OBVIOUS
  <1>4. PICK y, r, q : y = state' /\ r = provided' /\ q = prose'
    OBVIOUS
  <1>5. Sent(s) /\ Told(p) /\ Steady(x, s, p) /\ Anthropic(x, s, p)
    BY <1>2, <1>3
  <1>6. ASSUME UNCHANGED <<api, phase, tries, received, finished>>, Sent(r), Told(q), Steady(y, r, q), Anthropic(y, r, q)
        PROVE  StreamInv'
    BY <1>1, <1>4, <1>6, FrameKeeps
  <1>7. /\ Stream!Settled => Live(s) = {}
        /\ \A c \in Stream!Open : c \in Call /\ s[c].is = "open"
        /\ Stream!Open = {} => Live(s) = {}
    <2>1. \A c \in Call : s[c].is \notin {"seeded", "given"}
      BY <1>5 DEF Anthropic
    <2>2. Stream!Open = {} => Live(s) = {}
      BY <1>3, <2>1 DEF Stream!Open, Live, UnderWay
    <2> QED BY <1>3, <1>5, <2>1, <2>2, OpenIs
  <1>8. CASE Stream!MaySay("text") /\ Stream!Settled /\ Stream!Said("text") /\ Stream!Takes(Stream!GeminiText(state, prose.text + 1)) /\ UNCHANGED <<provided, finished>>
    <2>1. p.text < MaxProse /\ y = Stream!GeminiText(x, p.text + 1) /\ r = s /\ q = MoreText(p)
      BY <1>3, <1>4, <1>8 DEF Stream!MaySay, Stream!Said, Stream!Takes, MoreText
    <2>2. Steady(y, r, q) /\ Anthropic(y, r, q) /\ Told(q)
      BY <1>5, <1>7, <1>8, <2>1, AnthropicSpeaks, MoreIsTold
    <2> QED BY <1>5, <1>6, <1>8, <2>1, <2>2 DEF Stream!Takes
  <1>9. CASE state.text # None /\ Stream!Takes(Stream!CloseText(state)) /\ UNCHANGED <<provided, prose, finished>>
    <2>1. y = Stream!CloseText(x) /\ r = s /\ q = p
      BY <1>3, <1>4, <1>9 DEF Stream!Takes
    <2>2. Steady(y, r, q) /\ Anthropic(y, r, q)
      BY <1>5, <2>1, AnthropicCloses
    <2> QED BY <1>5, <1>6, <1>9, <2>1, <2>2 DEF Stream!Takes
  <1>10. ASSUME NEW c \in Call, provided[c].is = "unsent", Stream!Settled, state.text = None, Stream!Carries(c, 0, "open"),
                Stream!Takes(Stream!Opened(state, "call", c)), UNCHANGED <<prose, finished>>
         PROVE  StreamInv'
    <2>1. s[c].is = "unsent" /\ s[c] = At(0, 0, "unsent") /\ x.text = None /\ Live(s) = {} /\ "open" \in CallStatus
      BY <1>3, <1>5, <1>7, <1>10 DEF Steady, Reads, Ledger, CallStatus
    <2>2. r = Moved(s, c, At(s[c].parts, s[c].again, "open")) /\ Sent(r)
      BY <1>3, <1>4, <1>5, <1>10, <2>1, Carried
    <2>3. r = Moved(s, c, At(0, 0, "open"))
      <3>1. s[c].parts = 0 /\ s[c].again = 0
        BY <2>1 DEF At
      <3> QED BY <2>2, <3>1
    <2>4. q = p /\ y = Stream!Opened(x, "call", c)
      BY <1>3, <1>4, <1>10 DEF Stream!Takes
    <2>5. Steady(y, r, p) /\ Anthropic(y, r, p)
      BY <1>5, <2>1, <2>3, <2>4, AnthropicCalls
    <2> QED BY <1>5, <1>6, <1>10, <2>2, <2>4, <2>5 DEF Stream!Takes
  <1>11. ASSUME NEW c \in Stream!Open, Stream!Carries(c, 1, "open"), Stream!Passes(state, Stream!Json(state.next - 1, Stream!Fragments(c, 1))),
                UNCHANGED <<prose, finished>>
         PROVE  StreamInv'
    <2>1. c \in Call /\ s[c].is = "open" /\ "open" \in CallStatus
      BY <1>7, <1>11 DEF CallStatus
    <2>2. r = Moved(s, c, At(s[c].parts + 1, s[c].again, "open")) /\ Sent(r)
      BY <1>3, <1>4, <1>5, <1>11, <2>1, Carried
    <2>3. y = Stream!Says(x, Stream!Json(x.next - 1, <<s[c].parts + 1>>)) /\ q = p
      BY <1>3, <1>4, <1>11 DEF Stream!Takes, Stream!Passes, Stream!Fragments
    <2>4. Steady(y, r, p) /\ Anthropic(y, r, p)
      BY <1>5, <2>1, <2>2, <2>3, AnthropicArgues
    <2> QED BY <1>5, <1>6, <1>11, <2>2, <2>3, <2>4 DEF Stream!Takes, Stream!Passes
  <1>12. ASSUME NEW c \in Stream!Open, NEW is \in Stream!Closed, Stream!Carries(c, 0, is),
                Stream!Passes(state, Stream!Stop(state.next - 1)), UNCHANGED <<prose, finished>>
         PROVE  StreamInv'
    <2>1. c \in Call /\ s[c].is = "open" /\ is \in CallStatus
      BY <1>7, <1>12, ClosedIs
    <2>2. r = Moved(s, c, At(s[c].parts, s[c].again, is)) /\ Sent(r)
      BY <1>3, <1>4, <1>5, <1>12, <2>1, Carried
    <2>3. q = p /\ y = Stream!Says(x, Stream!Stop(x.next - 1))
      BY <1>3, <1>4, <1>12 DEF Stream!Takes, Stream!Passes
    <2>4. Steady(y, r, p) /\ Anthropic(y, r, p)
      BY <1>5, <1>12, <2>1, <2>2, <2>3, AnthropicStops
    <2> QED BY <1>5, <1>6, <1>12, <2>2, <2>3, <2>4 DEF Stream!Takes, Stream!Passes
  <1>13. CASE Stream!Open = {} /\ state.text = None /\ Stream!Finishes({}) /\ Stream!Passes(state, Stream!MessageStop) /\ UNCHANGED prose
    <2>1. y = Stream!Says(x, Stream!MessageStop) /\ UNCHANGED <<api, phase, tries, received, prose>> /\ Live(s) = {}
      BY <1>3, <1>4, <1>7, <1>13 DEF Stream!Takes, Stream!Passes
    <2>2. r = Completed(s, {}) /\ Sent(r) /\ finished' = TRUE
      <3>1. PICK cuts : cuts = {}
        OBVIOUS
      <3>2. cuts \subseteq Live(s) /\ Stream!Finishes(cuts)
        BY <1>13, <3>1
      <3> QED BY <1>3, <1>4, <1>5, <3>1, <3>2, Finished
    <2>3. Ended(y, r, p)
      BY <1>5, <2>1, <2>2, AnthropicFinishes
    <2> QED BY <1>1, <1>3, <1>4, <2>1, <2>2, <2>3, FrameEnds
  <1> QED BY <1>8, <1>9, <1>10, <1>11, <1>12, <1>13 DEF Stream!AnthropicEvent

\* The answer ends with what the reader holds,
LEMMA AnswerEnds ==
  ASSUME StreamInv, api' = api, tries' = tries, phase' = "ended", received' = "ok", finished' \in BOOLEAN,
         NEW h, NEW x, NEW s, NEW p, x = state', s = provided', p = prose', h = x.client,
         Translator(x), Sent(s), Told(p), CallsWhole(h, s), finished' => MessageWhole(h, s, p)
  PROVE  StreamInv'
  <1>1. Sent(provided)' /\ Told(prose)' /\ Translator(state)' /\ Stream!client' = h
    BY DEF Stream!client
  <1>2. Stream!CallsAreWhole'
    BY <1>1 DEF Stream!CallsAreWhole, CallsWhole, Stream!Of, OfKind
  <1>3. Stream!MessageDelivered'
    BY <1>1 DEF Stream!MessageDelivered, MessageWhole, Ordered, Stream!InOrder, Stream!Of, OfKind
  <1> QED BY <1>1, <1>2, <1>3 DEF StreamInv

\* or with an error.
LEMMA StreamFails ==
  ASSUME StreamInv, UNCHANGED <<api, provided, prose, finished, state>>, tries' \in Nat, phase' = "ended", received' = "error"
  PROVE  StreamInv'
  <1>1. Sent(provided)' /\ Told(prose)' /\ Translator(state)'
    BY DEF StreamInv
  <1>2. Stream!CallsAreWhole' /\ Stream!MessageDelivered'
    BY DEF Stream!CallsAreWhole, Stream!MessageDelivered
  <1> QED BY <1>1, <1>2 DEF StreamInv

\* The stream goes on with nothing changed but the request
LEMMA StreamGoesOn ==
  ASSUME StreamInv, UNCHANGED <<api, provided, prose, finished, state, received>>, tries' \in Nat,
         \/ phase' = phase
         \/ phase = "asking" /\ phase' = "streaming"
         \/ phase = "streaming" /\ phase' = "again" /\ api = "anthropic" /\ ~finished
  PROVE  StreamInv'
  <1>1. Sent(provided)' /\ Told(prose)' /\ Translator(state)'
    BY DEF StreamInv
  <1>2. Stream!CallsAreWhole' /\ Stream!MessageDelivered'
    <2>1. Stream!CallsAreWhole /\ Stream!MessageDelivered /\ Stream!client' = Stream!client
      BY DEF StreamInv, Stream!client
    <2>2. Stream!CallsAreWhole'
      BY <2>1 DEF Stream!CallsAreWhole, Stream!Of
    <2>3. Stream!MessageDelivered'
      BY <2>1 DEF Stream!MessageDelivered, Stream!Of, Stream!InOrder
    <2> QED BY <2>2, <2>3
  <1>3. ASSUME phase # "ended"
        PROVE  /\ Ledger(Stream!client, provided)' /\ Fragmented(Stream!client, prose)' /\ (finished => Over(Stream!client))'
               /\ phase # "again" => (~finished => Endless(Stream!client) /\ Blocks(state) /\ ByFormat)'
    <2>1. Ledger(Stream!client, provided) /\ Fragmented(Stream!client, prose) /\ (finished => Over(Stream!client))
      BY <1>3 DEF StreamInv
    <2>2. Stream!client' = Stream!client
      BY DEF Stream!client
    <2>3. Ledger(Stream!client, provided)'
      BY <2>1, <2>2
    <2>4. Fragmented(Stream!client, prose)'
      BY <2>1, <2>2
    <2>5. (finished => Over(Stream!client))'
      BY <2>1, <2>2
    <2>6. ASSUME phase # "again", ~finished
          PROVE  (Endless(Stream!client) /\ Blocks(state) /\ ByFormat)'
      <3>1. Endless(Stream!client) /\ Blocks(state) /\ ByFormat
        BY <1>3, <2>6 DEF StreamInv
      <3>2. Endless(Stream!client)'
        BY <2>2, <3>1
      <3>3. Blocks(state)'
        BY <3>1
      <3>4. ByFormat'
        BY <3>1 DEF ByFormat
      <3> QED BY <3>2, <3>3, <3>4
    <2> QED BY <2>3, <2>4, <2>5, <2>6
  <1> QED BY <1>1, <1>2, <1>3 DEF StreamInv

\* The stream starts in order.
LEMMA StreamStarts == Stream!Init => StreamInv
  <1> SUFFICES ASSUME Stream!Init PROVE StreamInv
    OBVIOUS
  <1>1. /\ state = Stream!Fresh /\ provided = Stream!Unsent /\ prose = [text |-> 0, think |-> 0] /\ ~finished /\ finished \in BOOLEAN
        /\ api \in Stream!Api /\ phase = "asking" /\ tries = 0 /\ received = "none"
    BY DEF Stream!Init
  <1>2. Stream!client = Stream!Nothing
    BY <1>1 DEF Stream!client, Stream!Fresh
  <1>3. Heard(Stream!Nothing) /\ DOMAIN Stream!Nothing.pending = {} /\ Stream!Nothing.events = <<>> /\ Stream!Nothing.thinking = None /\ ~Stream!Nothing.stopped
    BY DEF Heard, Stream!Nothing
  <1>4. Translator(state)
    <2>1. state = [next |-> 0, text |-> None, think |-> None, active |-> <<>>, given |-> {}, client |-> Stream!Nothing]
      BY <1>1 DEF Stream!Fresh
    <2>2. state.active = <<>> /\ state.client = Stream!Nothing /\ state.next = 0
      BY <2>1
    <2> QED BY <1>3, <2>1, <2>2 DEF Translator
  <1>5. Sent(provided) /\ Told(prose)
    BY <1>1, StreamAssumption DEF Sent, Told, Stream!Unsent, CallSent, CallStatus
  <1>6. Ledger(Stream!client, provided)
    BY <1>1, <1>2, <1>3 DEF Ledger, Stream!Unsent, Live, UnderWay, Stream!Closed, At
  <1>7. Fragmented(Stream!client, prose)
    BY <1>1, <1>2, <1>3 DEF Fragmented, Sorted, Waiting
  <1>8. Endless(Stream!client)
    BY <1>2, <1>3 DEF Endless
  <1>9. state.text = None /\ state.think = None /\ state.active = <<>> /\ state.given = {} /\ Live(provided) = {}
        /\ \A c \in Call : provided[c].is = "unsent"
    BY <1>1 DEF Stream!Fresh, Live, UnderWay, Stream!Unsent
  <1>10. Blocks(state)
    BY <1>2, <1>3, <1>9 DEF Blocks, Stream!client
  <1>11. ByFormat
    <2>1. DOMAIN state.active = {}
      BY <1>9
    <2>2. Chat(state, provided)
      BY <1>9, <2>1 DEF Chat
    <2>3. Responses(state, provided)
      <3>1. \A c \in Call : Recalls({}, CallNames(c), provided[c])
        BY <1>9 DEF Recalls
      <3> QED BY <1>9, <2>1, <3>1 DEF Responses
    <2>4. Gemini(state, provided)
      BY <1>9 DEF Gemini
    <2>5. Anthropic(state, provided, prose)
      BY <1>1, <1>2, <1>3, <1>9 DEF Anthropic, Stream!client
    <2> QED BY <2>2, <2>3, <2>4, <2>5 DEF ByFormat
  <1>12. Stream!CallsAreWhole /\ Stream!MessageDelivered
    BY <1>1 DEF Stream!CallsAreWhole, Stream!MessageDelivered
  <1> QED BY <1>1, <1>4, <1>5, <1>6, <1>7, <1>8, <1>10, <1>11, <1>12 DEF StreamInv

\* The body ends: the calls that were not completed are not delivered.
LEMMA BodyEndsStep ==
  ASSUME StreamInv, Stream!BodyEnds
  PROVE  StreamInv'
  <1>1. PICK x, h, s, p : x = state /\ h = Stream!client /\ s = provided /\ p = prose
    OBVIOUS
  <1>2. /\ phase = "streaming" /\ api \in Stream!Api /\ tries \in Nat /\ finished \in BOOLEAN /\ received = "none"
        /\ Sent(s) /\ Told(p) /\ Translator(x) /\ Ledger(h, s) /\ Fragmented(h, p) /\ h = x.client /\ Heard(h)
        /\ DOMAIN h.pending \subseteq 0 .. x.next - 1
        /\ finished => Over(h)
        /\ ~finished => Endless(h)
    BY <1>1 DEF Stream!BodyEnds, StreamInv, Stream!client, Translator
  <1>3. UNCHANGED <<api, tries, provided, prose, finished>>
    BY DEF Stream!BodyEnds
  <1>4. CASE finished
    <2>1. h.stopped /\ x = [x EXCEPT !.client = h] /\ Over(h)
      BY <1>2, <1>4 DEF Over, Translator
    <2>2. state' = x /\ phase' = "ended" /\ received' = "ok"
      BY <1>1, <2>1 DEF Stream!BodyEnds
    <2>3. CallsWhole(h, s) /\ MessageWhole(h, s, p)
      BY <1>2, <2>1, LedgerDelivers, OverDelivers
    <2> QED BY <1>1, <1>2, <1>3, <2>2, <2>3, AnswerEnds
  <1>5. CASE ~finished /\ ~Stream!Spoke
    <2>1. ~h.stopped /\ x = [x EXCEPT !.client = h]
      BY <1>2, <1>5 DEF Endless, Translator
    <2>2. state' = x
      BY <1>1, <1>5, <2>1 DEF Stream!BodyEnds
    <2>3. CASE api = "anthropic"
      <3>1. phase' = "again" /\ received' = received
        BY <1>1, <1>5, <2>1, <2>3 DEF Stream!BodyEnds
      <3> QED BY <1>1, <1>2, <1>3, <1>5, <2>2, <2>3, <3>1, StreamGoesOn
    <2>4. CASE api # "anthropic"
      <3>1. phase' = "ended" /\ received' = "ok"
        BY <1>1, <1>5, <2>1, <2>4 DEF Stream!BodyEnds
      <3>2. CallsWhole(h, s)
        BY <1>2, LedgerDelivers
      <3> QED BY <1>1, <1>2, <1>3, <1>5, <2>2, <3>1, <3>2, AnswerEnds
    <2> QED BY <2>3, <2>4
  <1>6. CASE ~finished /\ Stream!Spoke
    <2>1. PICK g : g = Stream!Consume(h, Stream!MessageStop)
      OBVIOUS
    <2>2. Reads(h, s, p)
      BY <1>2, <1>6 DEF Reads
    <2>3. Heard(g) /\ Ledger(g, s) /\ g.stopped /\ g.pending = h.pending
      BY <1>2, <2>1, <2>2, MessageEnds
    <2>4. ~h.stopped
      BY <2>2 DEF Reads, Endless
    <2>5. PICK y : y = [x EXCEPT !.client = g]
      OBVIOUS
    <2>6. state' = y /\ phase' = "ended" /\ received' = "ok"
      BY <1>1, <1>6, <2>1, <2>3, <2>4, <2>5 DEF Stream!BodyEnds
    <2>7. Translator(y) /\ y.client = g
      BY <1>2, <2>3, <2>5, Hears
    <2>8. CallsWhole(g, s)
      BY <2>3, LedgerDelivers
    <2> QED BY <1>1, <1>2, <1>3, <1>6, <2>6, <2>7, <2>8, AnswerEnds
  <1> QED BY <1>4, <1>5, <1>6

\* The answer that is asked for again comes whole.
LEMMA AnswersStep ==
  ASSUME StreamInv, Stream!AnswersWhole
  PROVE  StreamInv'
  <1>1. PICK x, p : x = state /\ p = prose
    OBVIOUS
  <1>2. phase = "again" /\ Translator(x) /\ Told(p) /\ p.think = 0 /\ x.next \in Nat
    BY <1>1 DEF Stream!AnswersWhole, StreamInv, Translator
  <1>3. PICK cs \in SUBSET Call, n \in 0 .. MaxParts, t \in 0 .. MaxProse, is \in Stream!Closed :
          /\ provided' = [c \in Call |-> IF c \in cs THEN [parts |-> n, again |-> 0, is |-> is] ELSE Stream!Unsent[c]]
          /\ prose' = [prose EXCEPT !.text = t]
          /\ state' = [state EXCEPT !.client = Whole(cs, n, t)]
    BY DEF Stream!AnswersWhole, Whole
  <1>4. PICK h, r, q, y : h = Whole(cs, n, t) /\ r = provided' /\ q = prose' /\ y = state'
    OBVIOUS
  <1>5. n \in Nat /\ y = [x EXCEPT !.client = h] /\ q = [p EXCEPT !.text = t]
    BY <1>1, <1>3, <1>4
  <1>6. r = Answered(cs, n, is)
    BY <1>3, <1>4 DEF Stream!Unsent, Answered, At
  <1>7. Told(q) /\ q.text = t /\ q.think = 0
    BY <1>2, <1>5 DEF Told
  <1>8. /\ Sent(r) /\ Heard(Whole(cs, n, t)) /\ Ledger(Whole(cs, n, t), r) /\ Fragmented(Whole(cs, n, t), q)
        /\ Over(Whole(cs, n, t)) /\ DOMAIN Whole(cs, n, t).pending = {}
    BY <1>5, <1>6, <1>7, WholeIs
  <1>9. Sent(r) /\ Heard(h) /\ Ledger(h, r) /\ Fragmented(h, q) /\ Over(h) /\ DOMAIN h.pending = {}
    BY <1>4, <1>8
  <1>10. Translator(y) /\ y.client = h
    <2>1. DOMAIN h.pending \subseteq 0 .. x.next - 1
      BY <1>9
    <2> QED BY <1>2, <1>5, <1>9, <2>1, Hears
  <1>11. CallsWhole(h, r) /\ MessageWhole(h, r, q)
    BY <1>7, <1>9, LedgerDelivers, OverDelivers
  <1>12. UNCHANGED <<api, tries>> /\ phase' = "ended" /\ received' = "ok" /\ finished' \in BOOLEAN
    BY DEF Stream!AnswersWhole
  <1> QED BY <1>4, <1>7, <1>9, <1>10, <1>11, <1>12, AnswerEnds

\* Every step of the stream keeps it in order.
LEMMA StreamKeeps ==
  StreamInv /\ (Stream!Next \/ UNCHANGED stream) => StreamInv'
  <1> SUFFICES ASSUME StreamInv, Stream!Next \/ UNCHANGED stream PROVE StreamInv'
    OBVIOUS
  <1>0. tries \in Nat /\ tries + 1 \in Nat
    BY DEF StreamInv
  <1>1. CASE Stream!Connects
    BY <1>0, <1>1, StreamGoesOn DEF Stream!Connects, Stream!Asked
  <1>2. CASE Stream!FailsForGood
    BY <1>0, <1>2, StreamFails DEF Stream!FailsForGood, Stream!Asked
  <1>3. CASE Stream!Refused
    <2>1. CASE api = "anthropic" /\ tries < MaxRetries
      BY <1>0, <1>3, <2>1, StreamGoesOn DEF Stream!Refused, Stream!Asked
    <2>2. CASE ~(api = "anthropic" /\ tries < MaxRetries)
      BY <1>0, <1>3, <2>2, StreamFails DEF Stream!Refused, Stream!Asked
    <2> QED BY <2>1, <2>2
  <1>4. CASE Stream!Breaks
    BY <1>0, <1>4, StreamFails DEF Stream!Breaks
  <1>5. CASE UNCHANGED stream
    BY <1>0, <1>5, StreamGoesOn DEF stream
  <1> QED BY <1>1, <1>2, <1>3, <1>4, <1>5, ChatStep, ResponsesStep, GeminiStep, AnthropicStep, BodyEndsStep, AnswersStep DEF Stream!Next

\* Steps of other parts leave the stream alone.
LEMMA StreamHolds == UnitsSpec => []StreamInv
  <1>1. UnitsInit => StreamInv
    BY StreamStarts DEF UnitsInit
  <1>2. StreamInv /\ [UnitsNext]_units => StreamInv'
    BY StreamKeeps DEF UnitsNext, units
  <1> QED BY <1>1, <1>2, PTL DEF UnitsSpec

\* For any number of calls, fragments and retries, in every format and wherever the
\* stream stops: each tool call that reaches the turn loop was completed by the provider, or
\* cut at its output limit, has all the arguments that came, those of no other call, and
\* comes once; and an answer the provider finished arrives as it was sent.  The arguments
\* that came with the announcement of a call of the Responses API, and in no delta after,
\* come twice (runtime_client.rs, provider/*.rs).
THEOREM AnswersArriveWhole == UnitsSpec => []DeliveredWhole
  <1>1. StreamInv => DeliveredWhole
    BY DEF StreamInv, DeliveredWhole
  <1> QED BY <1>1, StreamHolds, PTL
=============================================================================
