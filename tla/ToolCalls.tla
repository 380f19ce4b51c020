------------------------------ MODULE ToolCalls ------------------------------
(***************************************************************************)
(* The requests and tool calls of one agent, and what watches them: the    *)
(* cache of read-only answers, the loop detector, the planning checkpoints, *)
(* the ratings the model gives itself, and the budget.  Sources, under     *)
(* crates: agent/src/implementation/mod.rs (execute and what it calls),    *)
(* agent/src/{action_cache,loop_detector,confidence}.rs,                   *)
(* runtime/src/conversation/mod.rs, runtime/src/budget.rs.                 *)
(*                                                                         *)
(* Every switch of these is on.  A page is the version of it that is       *)
(* loaded, and a fingerprint tells two versions apart.  A tool has one     *)
(* input.  "read" stands for read_content, list_resources and a page_map   *)
(* with a scope, "click" for all that acts on a page.  A response costs 1. *)
(* A cancel and the retries of self-healing are left out; a child agent    *)
(* begins as the root does, with counters and slots of its own.            *)
(***************************************************************************)
EXTENDS Integers, FiniteSets

CONSTANTS
  Page,         \* versions of the page
  None,
  Interval,     \* setting planning_interval, 0 for none
  Window,       \* setting loop_detection_window
  Threshold,    \* setting loop_nudge_threshold
  WarnAt,       \* budget_warn_threshold_pct of the limit
  Limit,        \* setting budget_max_session_cost_usd
  MaxRequests,  \* bound: requests to the model
  MaxBatch,     \* bound: calls of a response
  MaxChanges    \* bound: changes of the page by nobody's call

VARIABLES
  linked,    \* the agent has the slots and the counter of its runtime
  mode,      \* setting budget_enforcement
  phase,     \* "asks" for a response, "calls" its tools, "ended"
  left,      \* calls of the response to come
  spent,     \* cumulative_cost of the runtime
  text,      \* last_assistant_text_slot: how the response rates itself
  prompt,    \* the guidance in the runtime's system prompt
  slot,      \* that of prompt_override_slot
  step,      \* step_count, modulo Interval
  lows,      \* consecutive_low, counted to 2
  page,
  known,     \* the last of page_fingerprints
  cache,     \* action_cache: by tool and fingerprint, the page an answer shows
  last,      \* the last tool in the detector's action_window
  repeats,   \* how often it stands there at the end
  still,     \* how often the last fingerprint does in its page_fingerprints
  changes,
  answer,    \* history: the page that an answer from the cache shows
  blind,     \* history: fingerprints an answer was cached under when the page
             \* was no longer the one they were taken of
  ran,       \* history: a call of this response has run to its end
  alert      \* history: the alert over low ratings that a call of this response
             \* wrote "stands", or a later call wrote "over" it, or there was "none"

mind == <<text, prompt, slot, lows, last, repeats, still, ran, alert>>
site == <<page, known, cache, changes, answer, blind>>
vars == <<linked, mode, phase, left, spent, step, mind, site>>

Cacheable == {"map", "read"}
Tool == Cacheable \cup {"navigate", "click"}
Planning == {"checkpoint", "onestep", "rate"}
Note == Planning \cup {"nudge", "alert", "warning"}
Least(a, b) == IF a < b THEN a ELSE b

\* run_goal and every child link them; the runtime of the terminal is built
\* with slots of its own (ui/src/app/runtime_builder.rs).
Init ==
  /\ linked \in BOOLEAN /\ mode \in {"warn", "block"}
  /\ phase = "asks" /\ left = 0 /\ spent = 0
  /\ text = None /\ prompt = {} /\ slot = None
  /\ step = 0 /\ lows = 0
  /\ page \in Page /\ known = None /\ cache = None
  /\ last = None /\ repeats = 0 /\ still = 0
  /\ changes = 0 /\ answer = None /\ blind = {}
  /\ ran = FALSE /\ alert = "none"

-----------------------------------------------------------------------------
\* prepare_iteration takes the override; a response without calls ends the turn.
Request(n, rating) ==
  /\ phase = "asks" /\ spent < MaxRequests
  /\ phase' = IF n = 0 THEN "ended" ELSE "calls"
  /\ left' = n
  /\ spent' = spent + 1
  /\ IF linked
     THEN /\ prompt' = IF slot = None THEN prompt ELSE slot
          /\ slot' = None /\ text' = rating
     ELSE UNCHANGED <<prompt, slot, text>>
  /\ ran' = FALSE /\ alert' = "none"
  /\ UNCHANGED <<linked, mode, step, lows, last, repeats, still, site>>

\* What every call does, and a cached or failing one does no more.
Begins ==
  /\ phase = "calls"
  /\ left' = left - 1
  /\ phase' = IF left = 1 THEN "asks" ELSE "calls"
  /\ step' = IF Interval = 0 THEN 0 ELSE (step + 1) % Interval
  /\ UNCHANGED <<linked, mode, spent>>


-----------------------------------------------------------------------------
(* The cache *)

\* lookup_cached_action makes the cache when it first has a fingerprint.
Opened(t) == IF t \in Cacheable /\ cache = None /\ known # None THEN << >> ELSE cache
Hit(t) == t \in Cacheable /\ cache # None /\ <<t, known>> \in DOMAIN cache

\* An error, before the cache was asked or after.
Fails ==
  /\ Begins
  /\ cache' \in {cache, Opened("read")}
  /\ answer' = None
  /\ UNCHANGED <<mind, page, known, changes, blind>>

FromCache(t) ==
  /\ Begins
  /\ Hit(t)
  /\ answer' = cache[<<t, known>>]
  /\ UNCHANGED <<mind, page, known, cache, changes, blind>>

\* The key of store_cached_action: the fingerprint as the tool has left it.
BadKeyed == known
Keyed == known'

Stores(t) ==
  LET keeps == t \in Cacheable /\ Opened(t) # None /\ known' # None
      k == <<t, Keyed>>
      old == Opened(t)
  IN /\ cache' = IF keeps
                 THEN [x \in DOMAIN old \cup {k} |-> IF x = k THEN page' ELSE old[x]]
                 ELSE old
     /\ blind' = IF keeps /\ known' # page' THEN blind \cup {known'} ELSE blind

\* An entry is older than action_cache_ttl_secs.
Expires(k) ==
  /\ cache # None /\ k \in DOMAIN cache
  /\ cache' = [x \in DOMAIN cache \ {k} |-> cache[x]]
  /\ UNCHANGED <<linked, mode, phase, left, spent, step, mind, page, known, changes,
                 answer, blind>>

-----------------------------------------------------------------------------
(* The guards of a call that ran to its end, in their order. *)

\* apply_loop_detection
Looping == repeats' >= Threshold \/ still' >= Threshold
Detects(t) ==
  /\ last' = t
  /\ repeats' = IF t = last THEN Least(repeats + 1, Window) ELSE 1
  /\ still' = IF known' = None THEN 0
              ELSE IF known' = known THEN Least(still + 1, Window) ELSE 1

\* apply_confidence_tracking takes the text: one rating for a response.
Rates ==
  /\ text' = None
  /\ lows' = CASE text = "low" -> Least(lows + 1, 2) [] text = "sure" -> 0 [] OTHER -> lows

\* The second low rating in a row, and every one after it.
Alerts == text = "low" /\ lows' >= 2

Cost == IF linked THEN spent ELSE 0
Blocked == mode = "block" /\ Cost >= Limit
Warned == ~Blocked /\ Cost >= WarnAt

\* write_prompt_override keeps what the call's earlier guards wrote (execute has emptied
\* accumulated_turn_ctx), and has one place for planning.
BadMerged(before, written) == IF written = {} THEN before ELSE written
Merged(before, written) ==
  written \cup {g \in before : g \in Planning => written \cap Planning = {}}

Guidance ==
  LET nudge == IF Looping THEN {"nudge"} ELSE {}
      plan == IF Interval = 0 THEN {}
              ELSE IF step' = 0 THEN {"checkpoint"} ELSE {"onestep"}
      rate == IF text \notin {"low", "sure"} THEN {}
              ELSE IF Alerts THEN {"rate", "alert"} ELSE {"rate"}
      warning == IF Warned THEN {"warning"} ELSE {}
  IN Merged(Merged(Merged(nudge, plan), rate), warning)

\* The tool succeeds.  The budget may still turn its result into an error, which
\* goes to the model as any other.
Runs(t) ==
  /\ Begins
  /\ ~Hit(t)
  /\ IF t \in Cacheable THEN UNCHANGED page ELSE page' \in Page
  /\ known' \in CASE t = "map" -> {page'}
                  [] t = "navigate" -> {page', known}
                  [] OTHER -> {known}
  /\ Stores(t) /\ Detects(t) /\ Rates
  /\ slot' = IF Guidance = {} THEN slot ELSE Guidance
  /\ ran' = TRUE
  /\ alert' = CASE Alerts -> "stands"
                [] Guidance # {} /\ alert = "stands" -> "over"
                [] OTHER -> alert
  /\ answer' = None
  /\ UNCHANGED <<prompt, changes>>

\* The site, a script or the user; no fingerprint is taken of it.
Changes ==
  /\ changes < MaxChanges /\ changes' = changes + 1
  /\ page' \in Page \ {page}
  /\ UNCHANGED <<linked, mode, phase, left, spent, step, mind, known, cache, answer, blind>>

Next ==
  \/ \E n \in 0 .. MaxBatch, rating \in {"low", "sure", "plain"} : Request(n, rating)
  \/ Fails \/ Changes
  \/ \E t \in Tool : FromCache(t) \/ Runs(t)
  \/ \E k \in Cacheable \X Page : Expires(k)

Spec == Init /\ [][Next]_vars

-----------------------------------------------------------------------------
\* The nudge and the warning of the last call of a response that ran are in the prompt
\* of the next request, whatever its other guards wrote and whatever failed or came from
\* the cache after it; and so is the alert over low ratings, which one call of a response
\* finds, unless a later call of that response has guidance of its own: every call
\* begins with none, and its own takes the slot over.
GuidanceReaches ==
  (linked /\ phase = "asks" /\ ran) =>
    LET next == IF slot = None THEN prompt ELSE slot
    IN /\ repeats >= Threshold \/ still >= Threshold => "nudge" \in next
       /\ Warned => "warning" \in next
       /\ alert = "stands" => "alert" \in next

\* An answer from the cache shows the page, if that is the one the last
\* fingerprint was taken of and nothing was cached unseen.
AnswerShowsPage ==
  answer # None /\ page = known /\ known \notin blind => answer = page
=============================================================================
