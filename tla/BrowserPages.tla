----------------------------- MODULE BrowserPages -----------------------------
(***************************************************************************)
(* The page array of the Playwright child (browser/src/playwright/         *)
(* bridge_script.rs) and the contexts that hold indices into it            *)
(* (browser/src/context.rs): those of an agent, its sub-agents, and its    *)
(* scripts with their branches.  All share one bridge behind a mutex.      *)
(*                                                                         *)
(* A command of the child is one step: between its awaits only the site    *)
(* runs, which opens pages at the end of the array, closes pages without   *)
(* removing them, and raises events.  What is in a page, its url, and the  *)
(* byte limit of a buffer are left out.                                    *)
(***************************************************************************)
EXTENDS Integers, Sequences, FiniteSets

CONSTANTS
  Ctx,         \* BrowserContexts there may be
  Root,        \* the context the session begins with
  None,        \* no context, no index
  MaxPages,    \* bound on the pages ever opened
  MaxEvents    \* bound on the requests pages make

Page == 1 .. MaxPages      \* pages in the order they were opened
Index == 0 .. MaxPages - 1

VARIABLES
  pages,      \* `pages` of the child
  tab,        \* `page`, the one every command acts on
  opened,     \* pages opened so far
  dead,       \* pages of the array that are closed all the same
  buffers,    \* observationBuffers: by index, the pages whose events lie there
  last,       \* lastKnownPageIndex of each page's listeners
  pending,    \* pages with a request under way
  events,     \* requests so far
  index,      \* BrowserContext.page_index, None for a context not in use
  slot,       \* the index the opener of a script's page keeps to close it by
  forkedBy,   \* the agent that tracks this context's agent in child_tasks
  holder,     \* the context that holds the lock of the bridge
  given,      \* history: the page the context was opened on or chose
  moved       \* history: a page went from the array that was, or lay in front
              \* of, somebody else's

child == <<pages, tab, opened, dead>>
observed == <<buffers, last, pending, events>>
contexts == <<index, slot, forkedBy, given>>
vars == <<child, observed, contexts, holder, moved>>

Init ==
  /\ pages = <<1>> /\ tab = 1 /\ opened = 1 /\ dead = {}
  /\ buffers = [i \in Index |-> {}]
  /\ last = [p \in Page |-> 0]
  /\ pending = {} /\ events = 0
  /\ index = [c \in Ctx |-> IF c = Root THEN 0 ELSE None]
  /\ slot = [c \in Ctx |-> None]
  /\ forkedBy = [c \in Ctx |-> None]
  /\ given = [c \in Ctx |-> IF c = Root THEN 1 ELSE None]
  /\ holder = None /\ moved = FALSE

InUse == {c \in Ctx : index[c] # None}
InArray == {pages[n] : n \in DOMAIN pages}
InRange(i) == i < Len(pages)
PageAt(i) == pages[i + 1]
IndexOf(p) == CHOOSE i \in Index : InRange(i) /\ PageAt(i) = p

\* switch_tab fails on an index out of range, and on a closed page in
\* bringToFront, when it has already made it the active one.
Reachable(i) == InRange(i) /\ PageAt(i) \notin dead
TabAfterSwitch(i) == IF InRange(i) THEN PageAt(i) ELSE tab

\* new_page: the page is pushed and becomes the active one.
NewPage ==
  /\ opened < MaxPages
  /\ opened' = opened + 1
  /\ pages' = Append(pages, opened + 1)
  /\ tab' = opened + 1
  /\ last' = [last EXCEPT ![opened + 1] = Len(pages)]
  /\ UNCHANGED <<dead, buffers, pending, events>>

-----------------------------------------------------------------------------
(* BrowserContext::acquire_bridge: by the context's own index, whatever tab *)
(* was active; a context that finds no page there opens one of its own.     *)

BadAcquireOwn(c) ==
  /\ holder = None /\ c \in InUse /\ Reachable(index[c])
  /\ holder' = c
  /\ UNCHANGED <<child, observed, contexts, moved>>
AcquireOwn(c) ==
  /\ holder = None /\ c \in InUse /\ Reachable(index[c])
  /\ tab' = PageAt(index[c])
  /\ holder' = c
  /\ UNCHANGED <<pages, opened, dead, observed, contexts, moved>>

AcquireReopen(c) ==
  /\ holder = None /\ c \in InUse /\ ~Reachable(index[c])
  /\ NewPage
  /\ index' = [index EXCEPT ![c] = Len(pages)]
  /\ given' = [given EXCEPT ![c] = opened + 1]
  /\ holder' = c
  /\ UNCHANGED <<slot, forkedBy, moved>>

AcquireFails(c) ==
  /\ holder = None /\ c \in InUse /\ ~Reachable(index[c])
  /\ tab' = TabAfterSwitch(index[c])
  /\ UNCHANGED <<pages, opened, dead, observed, contexts, holder, moved>>

\* The guard is dropped.
Release ==
  /\ holder # None
  /\ holder' = None
  /\ UNCHANGED <<child, observed, contexts, moved>>

\* The switch_tab tool; -1 is the last page.
SwitchTab(c, n) ==
  LET i == IF n = -1 THEN Len(pages) - 1 ELSE n IN
  /\ holder = None /\ c \in InUse /\ i >= 0
  /\ tab' = TabAfterSwitch(i)
  /\ IF Reachable(i)
     THEN /\ index' = [index EXCEPT ![c] = i]
          /\ given' = [given EXCEPT ![c] = PageAt(i)]
     ELSE UNCHANGED <<index, given>>
  /\ UNCHANGED <<pages, opened, dead, observed, slot, forkedBy, holder, moved>>

-----------------------------------------------------------------------------
(* Contexts come and go *)

\* A sub-agent (by = its parent), a script, or a branch of one (by = None).
OpenContext(c, by) ==
  /\ holder = None /\ c \notin InUse
  /\ by \in InUse \cup {None}
  /\ NewPage
  /\ index' = [index EXCEPT ![c] = Len(pages)]
  /\ slot' = [slot EXCEPT ![c] = IF by = None THEN Len(pages) ELSE None]
  /\ given' = [given EXCEPT ![c] = opened + 1]
  /\ forkedBy' = [forkedBy EXCEPT ![c] = by]
  /\ UNCHANGED <<holder, moved>>

\* goto fails after the page was pushed: the caller gets no index.
OpenFails ==
  /\ holder = None
  /\ NewPage
  /\ UNCHANGED <<contexts, holder, moved>>

\* A script started over MCP gets a clone of the session's context.
CloneContext(c, of) ==
  /\ c \notin InUse /\ of \in InUse
  /\ index' = [index EXCEPT ![c] = index[of]]
  /\ given' = [given EXCEPT ![c] = given[of]]
  /\ UNCHANGED <<child, observed, slot, forkedBy, holder, moved>>

Gone(c) ==
  /\ index' = [index EXCEPT ![c] = None]
  /\ slot' = [slot EXCEPT ![c] = None]
  /\ given' = [given EXCEPT ![c] = None]
  /\ forkedBy' = [d \in Ctx |-> IF c \in {d, forkedBy[d]} THEN None ELSE forkedBy[d]]

\* A sub-agent or a script ends; its tab stays.
EndContext(c) ==
  /\ c \in InUse \ {Root} /\ holder # c
  /\ Gone(c)
  /\ UNCHANGED <<child, observed, holder, moved>>

\* close_page splices the array and shifts the buffers behind the page.
TakenOut(i) == SubSeq(pages, 1, i) \o SubSeq(pages, i + 2, Len(pages))
Shifted(i) ==
  [j \in Index |-> IF j < i THEN buffers[j]
                   ELSE IF j + 1 \in Index THEN buffers[j + 1] ELSE {}]
TabAfterClose(i) ==
  IF tab # PageAt(i) \/ Len(pages) = 1 THEN tab
  ELSE TakenOut(i)[(IF i < Len(pages) - 2 THEN i ELSE Len(pages) - 2) + 1]

HeldByOthers(c) == {given[d] : d \in InUse \ {c}}
ClosePage(c, i) ==
  /\ pages' = TakenOut(i)
  /\ dead' = dead \ {PageAt(i)}
  /\ buffers' = Shifted(i)
  /\ tab' = TabAfterClose(i)
  /\ moved' = (moved \/ \E j \in i .. Len(pages) - 1 : PageAt(j) \in HeldByOthers(c))
  /\ UNCHANGED <<opened, last, pending, events>>

\* The end of a branch, or of a script that was refused after its page was
\* opened: the page is closed by the index it was opened with.
CloseContext(c) ==
  /\ holder = None /\ slot[c] # None
  /\ Gone(c)
  /\ IF InRange(slot[c])
     THEN ClosePage(c, slot[c])
     ELSE UNCHANGED <<child, observed, moved>>
  /\ UNCHANGED holder

\* The set_device tool, refused to an agent with sub-agents of its own.  The
\* page's url is opened in a new browser context, then the array is emptied and
\* the old context closed with all its pages; one that a page of it opens
\* meanwhile ends up in the new array.
SetDevice(c) ==
  /\ holder = c /\ c \notin {forkedBy[d] : d \in Ctx}
  /\ opened < MaxPages
  /\ tab' = opened + 1
  /\ \/ /\ opened' = opened + 1
        /\ pages' = <<opened + 1>> /\ dead' = {}
     \/ /\ opened + 2 <= MaxPages /\ opened' = opened + 2
        /\ pages' = <<opened + 1, opened + 2>> /\ dead' = {opened + 2}
  /\ buffers' = [i \in Index |-> {}]
  /\ last' = [p \in Page |-> IF p = opened + 2 /\ p = opened' THEN 1 ELSE
                             IF p = opened + 1 THEN 0 ELSE last[p]]
  /\ given' = [given EXCEPT ![c] = opened + 1]
  /\ moved' = (moved \/ InUse # {c} \/ index[c] # 0)
  /\ UNCHANGED <<pending, events, index, slot, forkedBy, holder>>

-----------------------------------------------------------------------------
(* What the sites do, and the observation buffers *)

\* context.on('page'): a popup goes to the end of the array.
Popup(p) ==
  /\ p \in InArray \ dead /\ opened < MaxPages
  /\ opened' = opened + 1
  /\ pages' = Append(pages, opened + 1)
  /\ last' = [last EXCEPT ![opened + 1] = Len(pages)]
  /\ UNCHANGED <<tab, dead, buffers, pending, events, contexts, holder, moved>>

\* A page that closes itself, or that the user closes, stays in the array.
ClosesItself(p) ==
  /\ p \in InArray \ dead
  /\ dead' = dead \cup {p}
  /\ UNCHANGED <<pages, tab, opened, observed, contexts, holder, moved>>

\* currentPageIndex of attachObservationListeners
CurrentPageIndex(p) == IF p \in InArray THEN IndexOf(p) ELSE last[p]

\* request: buffered at once; the request is pending until it finishes.
Request(p) ==
  /\ p \in (InArray \ dead) \ pending /\ events < MaxEvents
  /\ events' = events + 1
  /\ buffers' = [buffers EXCEPT ![IndexOf(p)] = @ \cup {p}]
  /\ last' = [last EXCEPT ![p] = IndexOf(p)]
  /\ pending' = pending \cup {p}
  /\ UNCHANGED <<child, contexts, holder, moved>>

\* requestfinished buffers after its awaits, the page may be gone by then.
BadBufferAs(p) == last[p]
BufferAs(p) == CurrentPageIndex(p)
RequestFinished(p) ==
  /\ p \in pending
  /\ buffers' = [buffers EXCEPT ![BufferAs(p)] = @ \cup {p}]
  /\ last' = [last EXCEPT ![p] = BufferAs(p)]
  /\ pending' = pending \ {p}
  /\ UNCHANGED <<child, events, contexts, holder, moved>>

\* poll_observations hands out the buffer of the active page and empties it.
Poll(c) ==
  /\ holder = c
  /\ buffers' = IF tab \in InArray THEN [buffers EXCEPT ![IndexOf(tab)] = {}]
                ELSE buffers
  /\ UNCHANGED <<child, last, pending, events, contexts, holder, moved>>

Next ==
  \/ \E c \in Ctx :
       \/ AcquireOwn(c) \/ AcquireReopen(c) \/ AcquireFails(c)
       \/ EndContext(c) \/ CloseContext(c) \/ SetDevice(c) \/ Poll(c)
       \/ \E n \in Index \cup {-1} : SwitchTab(c, n)
       \/ \E by \in Ctx \cup {None} : OpenContext(c, by)
       \/ \E of \in Ctx : CloneContext(c, of)
  \/ Release \/ OpenFails
  \/ \E p \in Page :
       Popup(p) \/ ClosesItself(p) \/ Request(p) \/ RequestFinished(p)

Spec == Init /\ [][Next]_vars

-----------------------------------------------------------------------------

\* "pages can shift a page's index ... otherwise they'd keep buffering events
\* under a stale index forever, out of step with observationBuffers"
\* (bridge_script.rs:397): what a page of the array has raised lies under the
\* index it has now, whatever was closed between its request and the answer.
EventsUnderTheirPage ==
  \A i \in Index : \A p \in buffers[i] \cap InArray : InRange(i) /\ PageAt(i) = p

\* A context that holds the bridge acts on the tab it was opened on or chose,
\* whatever tab the others left active, as long as no page is taken from the
\* array that is, or lies in front of, somebody else's.
OnOwnTab == holder # None /\ ~moved => tab = given[holder]

=============================================================================
