---------------------------- MODULE ModelStream ----------------------------
(***************************************************************************)
(* One answer of a language model, from the frames of the provider's      *)
(* stream to the assistant events the turn loop appends.  Every wire      *)
(* format is translated into content-block events (start, delta, stop),   *)
(* and LlmRuntimeClient::stream assembles text, reasoning and tool calls  *)
(* from those.  The formats differ in what they say: chat completions     *)
(* never close a block, the Responses API names a call by two ids, Gemini *)
(* sends a call in one piece, and Anthropic and Bedrock send the block    *)
(* events themselves.                                                      *)
(*                                                                         *)
(* A fragment is its number: of arguments within its call, of text or     *)
(* reasoning within the answer.  The provider is external: what it may    *)
(* send is its protocol, and it may stop, break or be cut anywhere.        *)
(***************************************************************************)
EXTENDS Naturals, Sequences, SequencesExt, FiniteSets

CONSTANTS
    Call,        \* the tool calls of the answer
    MaxParts,    \* bound: argument fragments of a call
    MaxProse,    \* bound: text fragments and reasoning fragments
    MaxRetries,  \* with_retry_policy: how often Anthropic is asked again
    None

Api == {"anthropic", "responses", "chat", "gemini"}

VARIABLES
    api,      \* the provider's wire format; Bedrock delivers Anthropic's events
    phase,    \* "asking", "streaming", "again" (send_message), "ended"
    tries,    \* requests sent by send_with_retry
    sent,     \* the provider: per call the fragments sent, how many of them came with its
              \* announcement and again at its end, and how far it is
    prose,    \* the provider: text and reasoning fragments sent
    finished, \* the provider has sent the end of the message
    state,    \* the translator of the format, with what its reader has assembled
    result    \* "none", "ok" or "error"

vars == <<api, phase, tries, sent, prose, finished, state, result>>

\* What LlmRuntimeClient::stream holds
Nothing == [pending |-> <<>>, thinking |-> None, events |-> <<>>, stopped |-> FALSE]
Fresh == [next |-> 0, text |-> None, think |-> None, active |-> <<>>, given |-> {}, client |-> Nothing]
client == state.client
\* A call is under way while it is open, seeded (its announcement had arguments and
\* nothing followed yet) or given (all its arguments are sent).  It ends done, or cut
\* where the answer reached its output limit.
Closed == {"done", "cut"}
Unsent == [c \in Call |-> [parts |-> 0, again |-> 0, is |-> "unsent"]]

Init ==
    /\ api \in Api
    /\ phase = "asking" /\ tries = 0
    /\ sent = Unsent /\ prose = [text |-> 0, think |-> 0] /\ finished = FALSE
    /\ state = Fresh /\ result = "none"

\* The content-block events.
Start(i, what, c) == [kind |-> "start", index |-> i, what |-> what, call |-> c]
Json(i, parts) == [kind |-> "json", index |-> i, parts |-> parts]
Prose(i, what, n) == [kind |-> what, index |-> i, part |-> n]
Stop(i) == [kind |-> "stop", index |-> i]
MessageStop == [kind |-> "message_stop"]

With(f, k, e) == [x \in DOMAIN f \cup {k} |-> IF x = k THEN e ELSE f[x]]
Less(f, ks) == [x \in DOMAIN f \ ks |-> f[x]]
Upto(n) == [k \in 1..n |-> k]
\* The members of a set of indices in ascending order, each once
Ascending(is) == [k \in 1..Cardinality(is) |-> CHOOSE i \in is : Cardinality({j \in is : j < i}) = k - 1]

(***************************************************************************)
(* The reader: one content-block event.                                    *)
(***************************************************************************)
CallEvent(p) == [kind |-> "call", call |-> p.call, args |-> p.args]

\* The calls of these blocks, if they are pending, as they are closed one by one
StoppedCalls(c, is) ==
    LET ended == Ascending(is \cap DOMAIN c.pending)
    IN  [c EXCEPT !.events = @ \o [k \in DOMAIN ended |-> CallEvent(c.pending[ended[k]])],
                  !.pending = Less(@, is)]

StoppedThinking(c) ==
    LET said == IF c.thinking \in {None, {}} THEN c.events
                ELSE Append(c.events, [kind |-> "reasoning", parts |-> c.thinking])
    IN  [c EXCEPT !.thinking = None, !.events = said]

Consume(c, e) ==
    CASE e.kind = "start" /\ e.what = "call" ->
            [c EXCEPT !.pending = With(@, e.index, [call |-> e.call, args |-> <<>>])]
      [] e.kind = "start" /\ e.what = "think" -> [c EXCEPT !.thinking = {}]
      [] e.kind = "json" /\ e.index \in DOMAIN c.pending -> [c EXCEPT !.pending[e.index].args = @ \o e.parts]
      [] e.kind = "text" -> [c EXCEPT !.events = Append(@, [kind |-> "text", parts |-> {e.part}])]
      [] e.kind = "think" /\ c.thinking # None -> [c EXCEPT !.thinking = @ \cup {e.part}]
      [] e.kind = "stop" -> StoppedThinking(StoppedCalls(c, {e.index}))
      [] e.kind = "message_stop" -> [c EXCEPT !.stopped = TRUE, !.events = Append(@, [kind |-> "stop"])]
      [] OTHER -> c

\* The reader takes each event before the translator goes on to the next frame.
Says(x, e) == [x EXCEPT !.client = Consume(@, e)]

(***************************************************************************)
(* Chat completions: blocks open with the first fragment of their kind.    *)
(***************************************************************************)
Opened(x, what, c) == Says([x EXCEPT !.next = @ + 1], Start(x.next, what, c))
CloseText(x) == IF x.text = None THEN x ELSE Says([x EXCEPT !.text = None], Stop(x.text))
CloseThink(x) == IF x.think = None THEN x ELSE Says([x EXCEPT !.think = None], Stop(x.think))

ChatThink(x, n) ==
    LET o == IF x.think = None THEN [Opened(x, "think", None) EXCEPT !.think = x.next] ELSE x
    IN  Says(o, Prose(o.think, "think", n))

ChatText(x, n) ==
    LET y == CloseThink(x)
        o == IF y.text = None THEN [Opened(y, "text", None) EXCEPT !.text = y.next] ELSE y
    IN  Says(o, Prose(o.text, "text", n))

ChatCall(x, c, parts) ==
    LET y == IF c \in DOMAIN x.active THEN x
             ELSE LET z == CloseText(CloseThink(x))
                  IN  [Opened(z, "call", c) EXCEPT !.active = With(@, c, z.next)]
    IN  IF parts = <<>> THEN y ELSE Says(y, Json(y.active[c], parts))

\* Closes several blocks in the order of their indices; no block of reasoning is open.
StopAll(x, is) == [x EXCEPT !.client = StoppedCalls(@, is)]
Indices(x) == {x.active[k] : k \in DOMAIN x.active}

ChatFinish(x) ==
    Says([StopAll(CloseText(CloseThink(x)), Indices(x)) EXCEPT !.active = <<>>], MessageStop)

(***************************************************************************)
(* The Responses API: a call is known by its call id and its item id.      *)
(***************************************************************************)
ByCall(c) == <<"call", c>>
ByItem(c) == <<"item", c>>

StopText(x) == IF x.text = None THEN x ELSE Says([x EXCEPT !.text = None], Stop(x.next - 1))
CloseTools(x) == [StopAll(x, Indices(x)) EXCEPT !.active = <<>>, !.given = {}]

RespText(x, n) ==
    LET y == CloseTools(x)
        o == IF y.text = None THEN [Opened(y, "text", None) EXCEPT !.text = y.next] ELSE y
    IN  Says(o, Prose(o.next - 1, "text", n))

\* The arguments an announcement carries are told, but not remembered as deltas.
RespAdded(x, c, parts) ==
    LET y == StopText(x)
        o == IF ByCall(c) \in DOMAIN y.active THEN y
             ELSE [Opened(y, "call", c) EXCEPT !.active = With(With(@, ByCall(c), y.next), ByItem(c), y.next)]
    IN  IF parts = <<>> THEN o ELSE Says(o, Json(o.active[ByCall(c)], parts))

RespDelta(x, c, key, parts) ==
    LET y == IF key \in DOMAIN x.active THEN x
             ELSE LET z == StopText(x) IN [Opened(z, "call", c) EXCEPT !.active = With(@, key, z.next)]
    IN  Says([y EXCEPT !.given = @ \cup {key}], Json(y.active[key], parts))

\* Mutant: the deltas are looked up under this id alone.
BadHasDeltas(x, key) == key \in x.given
HasDeltas(x, key) == \E k \in x.given : k \in DOMAIN x.active /\ x.active[k] = x.active[key]

RespArguments(x, key, parts) ==
    IF key \notin DOMAIN x.active \/ HasDeltas(x, key) \/ parts = <<>> THEN x
    ELSE Says(x, Json(x.active[key], parts))

RespDone(x, c) ==
    IF ByCall(c) \notin DOMAIN x.active THEN x
    ELSE LET i == x.active[ByCall(c)]
             aliases == {k \in DOMAIN x.active : x.active[k] = i} \cup {ByItem(c)}
         IN  Says([x EXCEPT !.active = Less(@, aliases), !.given = @ \ aliases], Stop(i))

RespCompleted(x) == Says(CloseTools(StopText(x)), MessageStop)

(***************************************************************************)
(* Gemini: a call arrives whole and has a block of its own.                *)
(***************************************************************************)
GeminiText(x, n) ==
    LET o == IF x.text = None THEN [Opened(x, "text", None) EXCEPT !.text = x.next] ELSE x
    IN  Says(o, Prose(o.text, "text", n))

GeminiCall(x, c, parts) ==
    LET y == CloseText(x) IN Says(Says(Opened(y, "call", c), Json(y.next, parts)), Stop(y.next))

GeminiFinish(x) == Says(CloseText(x), MessageStop)

(***************************************************************************)
(* The request.  Only Anthropic's client asks again.                       *)
(***************************************************************************)
Asked == phase = "asking" /\ tries' = tries + 1 /\ UNCHANGED <<api, sent, prose, finished, state>>

Connects == Asked /\ phase' = "streaming" /\ UNCHANGED result
FailsForGood == Asked /\ phase' = "ended" /\ result' = "error"
\* A status or a transport error that send_with_retry takes as passing.
Refused ==
    /\ Asked
    /\ IF api = "anthropic" /\ tries < MaxRetries THEN UNCHANGED <<phase, result>>
       ELSE phase' = "ended" /\ result' = "error"

(***************************************************************************)
(* The provider sends a frame; the stream translates it and the reader     *)
(* takes what comes out.                                                   *)
(***************************************************************************)
Takes(x) == state' = x /\ UNCHANGED <<api, phase, tries, result>>

Sending(a) == phase = "streaming" /\ api = a /\ ~finished
Open == {c \in Call : sent[c].is \in {"open", "seeded"}}
Settled == \A c \in Call : sent[c].is \in {"unsent", "done"}
MaySay(what) == prose[what] < MaxProse
Said(what) == prose' = [prose EXCEPT ![what] = @ + 1]
Carries(c, n, is) == sent' = [sent EXCEPT ![c].parts = @ + n, ![c].is = is]
\* The end of the message; these calls are cut.
Finishes(cut) ==
    /\ finished' = TRUE
    /\ sent' = [c \in Call |-> [sent[c] EXCEPT !.is =
                  IF c \in cut THEN "cut" ELSE IF @ \in {"unsent"} \cup Closed THEN @ ELSE "done"]]
Fragments(c, n) == IF n = 0 THEN <<>> ELSE <<sent[c].parts + 1>>

\* One chunk carries a fragment of one kind, or the finish_reason; of
\* several in a chunk the code takes one after the other.  Which of the calls the
\* output limit has cut (finish_reason "length") the format does not say.
ChatChunk ==
    /\ Sending("chat")
    /\ \/ MaySay("think") /\ Said("think") /\ Takes(ChatThink(state, prose.think + 1)) /\ UNCHANGED <<sent, finished>>
       \/ MaySay("text") /\ Said("text") /\ Takes(ChatText(state, prose.text + 1)) /\ UNCHANGED <<sent, finished>>
       \/ \E c \in Call, n \in {0, 1} :
            /\ sent[c].is = "unsent" \/ n = 1
            /\ sent[c].parts + n <= MaxParts
            /\ Carries(c, n, "open")
            /\ Takes(ChatCall(state, c, Fragments(c, n)))
            /\ UNCHANGED <<prose, finished>>
       \/ \E cut \in SUBSET Open : Finishes(cut) /\ Takes(ChatFinish(state)) /\ UNCHANGED prose

\* Output items follow one another or are calls streamed side by side; the
\* text of an item comes while no call is open.  A delta names its call by
\* either id.  arguments.done repeats all the arguments; they may come with the
\* announcement, in deltas, or with that alone.  The output limit cuts a call that is
\* open: its item is done, or the message is completed without (incomplete_details).
ResponsesEvent ==
    /\ Sending("responses")
    /\ \/ /\ MaySay("text") /\ Settled
          /\ Said("text") /\ Takes(RespText(state, prose.text + 1)) /\ UNCHANGED <<sent, finished>>
       \/ state.text # None /\ Takes(StopText(state)) /\ UNCHANGED <<sent, prose, finished>>
       \/ \E c \in Call, n \in 0..MaxParts :
            /\ sent[c].is = "unsent"
            /\ Carries(c, n, IF n = 0 THEN "open" ELSE "seeded")
            /\ Takes(RespAdded(state, c, Upto(n)))
            /\ UNCHANGED <<prose, finished>>
       \/ \E c \in Open : \E key \in {ByCall(c), ByItem(c)} :
            /\ sent[c].parts < MaxParts
            /\ Carries(c, 1, "open")
            /\ Takes(RespDelta(state, c, key, Fragments(c, 1)))
            /\ UNCHANGED <<prose, finished>>
       \/ \E c \in Open : \E key \in {ByCall(c), ByItem(c)}, n \in 0..MaxParts :
            /\ sent[c].parts \in {0, n}
            /\ sent' = [sent EXCEPT ![c] = [parts |-> n, is |-> "given",
                                            again |-> IF @.is = "seeded" THEN n ELSE 0]]
            /\ Takes(RespArguments(state, key, Upto(n)))
            /\ UNCHANGED <<prose, finished>>
       \/ \E c \in Call :
            /\ \/ sent[c].is = "given" /\ Carries(c, 0, "done")
               \/ c \in Open /\ Carries(c, 0, "cut")
            /\ Takes(RespDone(state, c)) /\ UNCHANGED <<prose, finished>>
       \/ Finishes(Open) /\ Takes(RespCompleted(state)) /\ UNCHANGED prose

GeminiPart ==
    /\ Sending("gemini")
    /\ \/ MaySay("text") /\ Said("text") /\ Takes(GeminiText(state, prose.text + 1)) /\ UNCHANGED <<sent, finished>>
       \/ \E c \in Call :
            /\ sent[c].is = "unsent"
            /\ Carries(c, 1, "done")
            /\ Takes(GeminiCall(state, c, <<1>>))
            /\ UNCHANGED <<prose, finished>>
       \/ Finishes({}) /\ Takes(GeminiFinish(state)) /\ UNCHANGED prose

\* Anthropic's events, and Bedrock's, are the content-block events
\* themselves, one block at a time: here state is the provider's.  The block that
\* the output limit cuts is the last one.
Passes(x, e) == Takes(Says(x, e))
AnthropicEvent ==
    /\ Sending("anthropic")
    /\ \/ /\ MaySay("text") /\ Settled
          /\ Said("text")
          /\ Takes(GeminiText(state, prose.text + 1))
          /\ UNCHANGED <<sent, finished>>
       \/ state.text # None /\ Takes(CloseText(state)) /\ UNCHANGED <<sent, prose, finished>>
       \/ \E c \in Call :
            /\ sent[c].is = "unsent" /\ Settled /\ state.text = None
            /\ Carries(c, 0, "open")
            /\ Takes(Opened(state, "call", c))
            /\ UNCHANGED <<prose, finished>>
       \/ \E c \in Open :
            /\ sent[c].parts < MaxParts
            /\ Carries(c, 1, "open")
            /\ Passes(state, Json(state.next - 1, Fragments(c, 1)))
            /\ UNCHANGED <<prose, finished>>
       \/ \E c \in Open, is \in Closed :
            /\ Carries(c, 0, is)
            /\ Passes(state, Stop(state.next - 1))
            /\ UNCHANGED <<prose, finished>>
       \/ Open = {} /\ state.text = None /\ Finishes({}) /\ Passes(state, MessageStop) /\ UNCHANGED prose

(***************************************************************************)
(* The end of the stream.                                                  *)
(***************************************************************************)
Spoke == \E k \in DOMAIN client.events : client.events[k].kind \in {"text", "call"}

\* The body ends, after the whole message or before: a last frame without
\* its blank line is taken as a frame, and one that is cut is an error for
\* every format whose parser sees it (Breaks).
BodyEnds ==
    /\ phase = "streaming"
    /\ LET ended == IF client.stopped \/ ~Spoke THEN client ELSE Consume(client, MessageStop)
       IN  /\ state' = [state EXCEPT !.client = ended]
           /\ IF ~ended.stopped /\ api = "anthropic" THEN phase' = "again" /\ UNCHANGED result
              ELSE phase' = "ended" /\ result' = "ok"
    /\ UNCHANGED <<api, tries, sent, prose, finished>>

\* A transport error, a frame that does not parse, an error event, or the
\* user's interrupt: what was assembled is dropped with the future.
Breaks ==
    /\ phase \in {"streaming", "again"}
    /\ phase' = "ended" /\ result' = "error"
    /\ UNCHANGED <<api, tries, sent, prose, finished, state>>

\* send_message asks once more without streaming and takes the whole answer.
AnswersWhole ==
    /\ phase = "again"
    /\ \E cs \in SUBSET Call, n \in 0..MaxParts, t \in 0..MaxProse, is \in Closed :
         /\ sent' = [c \in Call |-> IF c \in cs THEN [parts |-> n, again |-> 0, is |-> is] ELSE Unsent[c]]
         /\ prose' = [prose EXCEPT !.text = t]
         /\ state' = [state EXCEPT !.client = [Nothing EXCEPT !.stopped = TRUE, !.events =
                [k \in 1..t |-> [kind |-> "text", parts |-> {k}]]
                \o [k \in 1..Cardinality(cs) |-> CallEvent([call |-> SetToSeq(cs)[k], args |-> Upto(n)])]
                \o <<[kind |-> "stop"]>>]]
    /\ phase' = "ended" /\ result' = "ok" /\ finished' = TRUE
    /\ UNCHANGED <<api, tries>>

Next ==
    \/ Connects \/ Refused \/ FailsForGood
    \/ ChatChunk \/ ResponsesEvent \/ GeminiPart \/ AnthropicEvent
    \/ BodyEnds \/ Breaks \/ AnswersWhole

Spec == Init /\ [][Next]_vars

-----------------------------------------------------------------------------
Of(kind) == {k \in DOMAIN client.events : client.events[k].kind = kind}

\* A tool call the turn loop will execute is one the provider completed, or cut
\* at its output limit, with what it sent as arguments and nobody else's, and it
\* comes once: whatever fragments of several calls were interleaved, under whichever
\* id, and wherever the stream stopped.  The one exception is a call of the Responses
\* API that has its arguments with its announcement and no delta after: these come
\* twice (`again`).
Arguments(r) == Upto(r.again) \o Upto(r.parts)
CallsAreWhole ==
    result = "ok" => \A k \in Of("call") : LET e == client.events[k] IN
        /\ sent[e.call].is \in Closed /\ e.args = Arguments(sent[e.call])
        /\ \A j \in Of("call") : client.events[j].call = e.call => j = k

\* These n fragments are in the events of a kind, in their order and once
InOrder(kind, n) ==
    /\ UNION {client.events[k].parts : k \in Of(kind)} = 1..n
    /\ \A j, k \in Of(kind) : j < k => \A a \in client.events[j].parts, b \in client.events[k].parts : a < b

\* A message the provider finished reaches the turn loop as it was sent:
\* every call, every fragment of text and of reasoning, and then its end.
MessageDelivered ==
    result = "ok" /\ finished =>
        /\ \A c \in Call : sent[c].is \in Closed => \E k \in Of("call") : client.events[k].call = c
        /\ InOrder("text", prose.text) /\ InOrder("reasoning", prose.think)
        /\ Of("stop") = {Len(client.events)}
=============================================================================
