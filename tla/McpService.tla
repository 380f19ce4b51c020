----------------------------- MODULE McpService -----------------------------
(***************************************************************************)
(* acrawl as an MCP server.  One loop takes a request, answers it and takes*)
(* the next; the browser is kept from one request to the next, while       *)
(* another process may change `browser_backend` in settings.json at any    *)
(* time, the extension comes and goes, CloakBrowser dies, and scripts that *)
(* earlier requests started go on in the background with the browser they  *)
(* were given.  run_goal has a browser of its own: a CloakBrowser that it  *)
(* launches, or a tab of its own in the extension, closed at its end.      *)
(*                                                                         *)
(* Requests that touch no browser (initialize, lists, malformed ones, the  *)
(* waits of ScriptManager) leave this state as it is and are left out, and *)
(* so are the pages, which ExtensionTabs and BrowserPages model.           *)
(***************************************************************************)
EXTENDS Integers

CONSTANTS
  None,          \* no request, no browser, no choice yet
  MaxRequests,   \* bound: requests taken
  MaxChanges     \* bound: saves of settings.json, ends of a browser, lost connections

VARIABLES
  setting,   \* browser_backend, as the last save left it
  torn,      \* settings.json is being written: what a reader gets does not parse
  linked,    \* an extension is connected to the bridge
  manager,   \* McpSession.bridge_manager is Some: the bridge listens
  session,   \* McpSession.browser and backend: None, or the browser's kind and life
  alive,     \* the CloakBrowsers that run, by life
  lives,     \* CloakBrowsers launched so far
  crashed,   \* history: those that died by themselves
  request,   \* what the loop is serving, or None
  scripts,   \* the browsers that running scripts hold
  tabs,      \* the goals' tabs in the extension: "open" while the goal runs, "left"
  answer,    \* the last answer: the request, and the browser that was driven
  served, changes

vars == <<setting, torn, linked, manager, session, alive, lives, crashed, request,
          scripts, tabs, answer, served, changes>>
outside == <<setting, torn, linked, changes>>
browsers == <<alive, lives, crashed>>
server == <<manager, session, request, scripts, tabs, answer, served>>

Kind == {"cloak", "extension"}
Work == {"tool", "script", "goal"}
Browser == [kind : Kind, life : 0..MaxRequests]
Extension == [kind |-> "extension", life |-> 0]
Request == [work : Work, stage : {"select", "launch", "bridge", "tab", "drive"},
            chosen : Kind \cup {None}, meant : Kind \cup {None}, browser : Browser \cup {None}]

TypeOK ==
  /\ setting \in Kind /\ torn \in BOOLEAN /\ linked \in BOOLEAN /\ manager \in BOOLEAN
  /\ session \in Browser \cup {None} /\ request \in Request \cup {None}
  /\ alive \subseteq 1..MaxRequests /\ lives \in 0..MaxRequests /\ crashed \subseteq 1..MaxRequests
  /\ scripts \subseteq Browser /\ tabs \subseteq {"open", "left"}

Init ==
  /\ setting \in Kind /\ torn = FALSE /\ linked = FALSE /\ manager = FALSE
  /\ session = None /\ alive = {} /\ lives = 0 /\ crashed = {} /\ request = None
  /\ scripts = {} /\ tabs = {} /\ answer = None /\ served = 0 /\ changes = 0

Lives(b) == IF b = Extension THEN linked ELSE b.life \in alive
At(stage) == request # None /\ request.stage = stage
On(stage, browser) ==
  [work |-> request.work, stage |-> stage, chosen |-> request.chosen,
   meant |-> request.meant, browser |-> browser]

\* send_response or send_error, and back to read_protocol_message.
Answers(browser) ==
  /\ request' = None
  /\ answer' = [work |-> request.work, meant |-> request.meant, browser |-> browser]
AnswersError == Answers(None)

\* A CloakBrowser ends with the last context that shares its bridge (kill_on_drop).
InRequest == IF request = None THEN {} ELSE {request.browser}
Held(holders) == {l \in alive : [kind |-> "cloak", life |-> l] \in holders}

-----------------------------------------------------------------------------
(* Around the server.                                                      *)

\* Another process saves settings.json: truncated first, then written.
SaveStarts ==
  /\ ~torn /\ changes < MaxChanges
  /\ torn' = TRUE /\ setting' \in Kind /\ changes' = changes + 1
  /\ UNCHANGED <<linked, browsers, server>>
SaveEnds ==
  /\ torn /\ torn' = FALSE
  /\ UNCHANGED <<setting, linked, changes, browsers, server>>

\* The extension dials in when the bridge listens, and may be gone again.
Links ==
  /\ manager /\ ~linked /\ linked' = TRUE
  /\ UNCHANGED <<setting, torn, changes, browsers, server>>
Unlinks ==
  /\ linked /\ changes < MaxChanges /\ linked' = FALSE /\ changes' = changes + 1
  /\ UNCHANGED <<setting, torn, browsers, server>>

CloakDies ==
  /\ changes < MaxChanges /\ changes' = changes + 1
  /\ \E l \in alive : alive' = alive \ {l} /\ crashed' = crashed \cup {l}
  /\ UNCHANGED <<setting, torn, linked, lives, server>>

-----------------------------------------------------------------------------
(* A request.                                                              *)

Takes(work) ==
  /\ request = None /\ served < MaxRequests
  /\ served' = served + 1
  /\ request' = [work |-> work, stage |-> "select", chosen |-> None, meant |-> None,
                 browser |-> None]
  /\ UNCHANGED <<outside, browsers, manager, session, scripts, tabs, answer>>

\* extension_backend_selected, which gets the defaults from a file it cannot parse.
Selected == IF torn THEN "cloak" ELSE setting

\* ensure_browser_context keeps the browser it has while that is of the kind selected,
\* whether it lives or not.
BadReusable(kind) == session # None
Reusable(kind) == session # None /\ session.kind = kind

\* What to do next: a goal gets a browser of its own, CloakBrowser only when a tool
\* of its agent asks for one.
Selects ==
  /\ At("select")
  /\ LET reuse == request.work # "goal" /\ Reusable(Selected) IN
       request' =
         [work |-> request.work, chosen |-> Selected,
          meant |-> IF torn THEN None ELSE setting,
          browser |-> IF reuse THEN session ELSE None,
          stage |-> IF reuse \/ (request.work = "goal" /\ Selected = "cloak") THEN "drive"
                    ELSE IF Selected = "cloak" THEN "launch" ELSE "bridge"]
  /\ UNCHANGED <<outside, browsers, manager, session, scripts, tabs, answer, served>>

\* PlaywrightBridge::new for the session: the context it replaces is dropped.
Launch ==
  /\ At("launch")
  /\ LET b == [kind |-> "cloak", life |-> lives + 1] IN
       /\ lives' = lives + 1 /\ alive' = Held(scripts) \cup {lives + 1}
       /\ request' = On("drive", b)
       /\ session' = b
  /\ UNCHANGED <<outside, crashed, manager, scripts, tabs, answer, served>>

\* ensure_extension_bridge: start the bridge once, then wait for a connection.
StartBridge ==
  /\ At("bridge") /\ ~manager /\ manager' = TRUE
  /\ UNCHANGED <<outside, browsers, session, request, scripts, tabs, answer, served>>
Attach ==
  /\ At("bridge") /\ manager /\ linked
  /\ IF request.work = "goal"
     THEN /\ request' = On("tab", None)
          /\ UNCHANGED <<session, alive>>
     ELSE /\ request' = On("drive", Extension)
          /\ session' = Extension /\ alive' = Held(scripts)
  /\ UNCHANGED <<outside, lives, crashed, manager, scripts, tabs, answer, served>>
\* The port is taken, no extension within the timeout, or no browser to launch: an
\* error, and the session keeps what it had.
Refuses ==
  /\ At("launch") \/ (At("bridge") /\ (~manager \/ ~linked))
  /\ AnswersError
  /\ UNCHANGED <<outside, browsers, manager, session, scripts, tabs, served>>

\* execute_browser_tool.
ToolRuns ==
  /\ At("drive") /\ request.work = "tool"
  /\ (Lives(request.browser) /\ Answers(request.browser)) \/ AnswersError
  /\ UNCHANGED <<outside, browsers, manager, session, scripts, tabs, served>>

\* run_script: the script gets a clone of the session's browser, page included.
ScriptStarts ==
  /\ At("drive") /\ request.work = "script"
  /\ \/ scripts' = scripts \cup {request.browser} /\ Answers(request.browser)
     \/ UNCHANGED scripts /\ AnswersError    \* too many run, or no such script
  /\ UNCHANGED <<outside, browsers, manager, session, tabs, served>>
ScriptEnds(b) ==
  /\ scripts' = scripts \ {b} /\ alive' = Held(scripts' \cup {session} \cup InRequest)
  /\ UNCHANGED <<outside, lives, crashed, manager, session, request, tabs, answer, served>>

\* The goal's tab; after a timeout of new_page the extension may still open it.
OpensTab ==
  /\ At("tab") /\ linked
  /\ tabs' = tabs \cup {"open"}
  /\ request' = On("drive", Extension)
  /\ UNCHANGED <<outside, browsers, manager, session, scripts, answer, served>>
TabFails ==
  /\ At("tab") /\ AnswersError
  /\ tabs' \in {tabs, tabs \cup {"left"}}
  /\ UNCHANGED <<outside, browsers, manager, session, scripts, served>>

\* CrawlerAgent::ensure_browser in the goal's agent.
GoalLaunches ==
  /\ At("drive") /\ request.work = "goal" /\ request.browser = None
  /\ lives' = lives + 1 /\ alive' = alive \cup {lives + 1}
  /\ request' = On("drive", [kind |-> "cloak", life |-> lives + 1])
  /\ UNCHANGED <<outside, crashed, manager, session, scripts, tabs, answer, served>>

\* Whatever came of the goal, its tab is closed, or its CloakBrowser ends with its agent.
\* An error of close_page is ignored (the extension is gone, the browser refuses, the
\* answer is late), and the tab may then have been left open or not.
GoalEnds ==
  /\ At("drive") /\ request.work = "goal"
  /\ Answers(request.browser)
  /\ IF "open" \in tabs
     THEN \E after \in SUBSET {"left"} : tabs' = (tabs \ {"open"}) \cup after
     ELSE tabs' = tabs
  /\ alive' = Held(scripts \cup {session})
  /\ UNCHANGED <<outside, lives, crashed, manager, session, scripts, served>>

Next ==
  \/ SaveStarts \/ SaveEnds \/ Links \/ Unlinks \/ CloakDies
  \/ \E work \in Work : Takes(work)
  \/ Selects \/ Launch \/ StartBridge \/ Attach \/ Refuses
  \/ ToolRuns \/ ScriptStarts \/ OpensTab \/ TabFails \/ GoalLaunches \/ GoalEnds
  \/ \E b \in scripts : ScriptEnds(b)

Spec == Init /\ [][Next]_vars

-----------------------------------------------------------------------------
(* What the server promises.                                               *)

\* A request that was answered drove the kind of browser selected as it was taken up,
\* whatever changed before, meanwhile or since: extension mode never substitutes
\* CloakBrowser, and leaving it never keeps the user's own browser.  Not so while
\* settings.json is being saved: a reader that finds it half written gets the default.
BackendAsSelected ==
  answer # None /\ answer.browser # None /\ answer.meant # None
    => answer.browser.kind = answer.meant

\* A CloakBrowser lives exactly as long as somebody has it: a script keeps the one it
\* was started with when the session goes to another, and a goal leaves none behind.  A
\* tab of a goal's own is driven only by the goal that runs: once that was answered its
\* tab is closed or, when closing it failed, left in the browser with nobody to drive it.
BrowsersAreHeld ==
  LET holders == scripts \cup {session} \cup InRequest
  IN /\ alive = {b.life : b \in {h \in holders : h # None /\ h # Extension}} \ crashed
     /\ "open" \in tabs => At("drive") /\ request.work = "goal" /\ request.browser = Extension
=============================================================================
