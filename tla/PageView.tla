------------------------------- MODULE PageView -------------------------------
(***************************************************************************)
(* Which page a tool acts on, and which page its agent believes it is on.  *)
(* navigate fetches over plain HTTP when it can and only notes the url;    *)
(* the next tool that takes the bridge loads it, if the url noted differs  *)
(* from the one the browser was last sent to.  Meanwhile the page of the   *)
(* tab changes by clicks and redirects, by itself, by a script that runs   *)
(* on the same tab, and it may be closed.  Sources, under crates:          *)
(* browser/src/{context,fetch}.rs, agent/src/tools/{navigate,go_back,      *)
(* refresh,feedback}.rs, agent/src/implementation/mod.rs,                  *)
(* mcp-server/src/server.rs.                                               *)
(*                                                                         *)
(* Abstractions.  What makes the router prefer the browser (status codes,  *)
(* framework markers, headed mode, an HTTP error) is a free choice, one    *)
(* url redirects to at most one other, and a tool is one step: the bridge  *)
(* is free between its calls, which a script may use, but the last call    *)
(* tells the agent where the page then is.                                 *)
(***************************************************************************)
EXTENDS Naturals

CONSTANTS
  Url,         \* urls of sites
  Redirect,    \* [Url -> Url]: where a url leads; that url leads to itself
  Blank,       \* about:blank
  None,
  MaxTabs,     \* bound: tabs
  MaxSteps     \* bound: tool calls and changes of a page

Tab == 0 .. MaxTabs - 1
Owner == {"agent", "script"}

VARIABLES
  host,      \* who runs the scripts: "agent" or "mcp"
  shows,     \* what each tab shows; None when it is not open
  ctx,       \* the BrowserContexts: page_index, current_url, browser_has_url
  crawlUrl,  \* CrawlState.current_url of the agent
  believes,  \* the url the last answer to each context named
  acted,     \* the page the last tool acted on, and what its context believed
  unseen,    \* history: the page changed and its context was not told
  skipped,   \* history: a url fetched over HTTP was not going to be loaded
  steps      \* counter of the bound

vars == <<host, shows, ctx, crawlUrl, believes, acted, unseen, skipped, steps>>

Context(t, url) == [tab |-> t, current |-> url, loaded |-> url]
Exists(c) == ctx[c] # None

TypeOK ==
  /\ host \in {"agent", "mcp"}
  /\ shows \in [Tab -> Url \cup {Blank, None}]
  /\ \A c \in Owner : Exists(c) =>
       ctx[c] \in [tab : Tab, current : Url \cup {None}, loaded : Url \cup {None}]
  /\ crawlUrl \in Url \cup {None}
  /\ believes \in [Owner -> Url \cup {Blank, None}]
  /\ {unseen, skipped} \subseteq SUBSET Owner
  /\ steps \in 0 .. MaxSteps

Init ==
  /\ host \in {"agent", "mcp"}
  /\ shows = [t \in Tab |-> IF t = 0 THEN Blank ELSE None]
  /\ ctx = [c \in Owner |-> IF c = "agent" THEN Context(0, None) ELSE None]
  /\ crawlUrl = None
  /\ believes = [c \in Owner |-> IF c = "agent" THEN Blank ELSE None]
  /\ acted = None
  /\ unseen = {} /\ skipped = {}
  /\ steps = 0

Step == steps < MaxSteps /\ steps' = steps + 1 /\ UNCHANGED host

\* The others whose tab is t: nobody tells them.
Sharers(c, t) == {d \in Owner \ {c} : Exists(d) /\ ctx[d].tab = t}

-----------------------------------------------------------------------------
(* acquire_bridge: a tab that is gone is opened anew, blank; the url noted *)
(* is loaded if it is not the one the browser was sent to last.            *)

Spare == {t \in Tab : shows[t] = None}
Held(c) == IF shows[ctx[c].tab] # None THEN {ctx[c].tab} ELSE Spare
BadDue(c) == ctx[c].current # None /\ ctx[c].loaded = None
Due(c) == ctx[c].current # None /\ ctx[c].current # ctx[c].loaded
Loaded(c, t) == [tab |-> t, current |-> ctx[c].current,
                 loaded |-> IF Due(c) THEN ctx[c].current ELSE ctx[c].loaded]
Found(c, t) == IF Due(c) THEN Redirect[ctx[c].current]
               ELSE IF shows[t] # None THEN shows[t] ELSE Blank

\* A tool of c has taken the bridge on tab t, where it finds a page, and leaves
\* the page `after`; the context's agent is told `tells`.
Acts(c, t, after, tells) ==
  /\ acted' = [on |-> Found(c, t), by |-> c, believed |-> believes[c],
               unseen |-> c \in unseen \/ shows[ctx[c].tab] = None, skipped |-> c \in skipped]
  /\ ctx' = [ctx EXCEPT ![c] = Loaded(c, t)]
  /\ shows' = [shows EXCEPT ![t] = after]
  /\ believes' = [believes EXCEPT ![c] = tells]
  /\ unseen' = (IF tells = after THEN unseen \ {c} ELSE unseen \cup {c})
                 \cup (IF after = shows[t] THEN {} ELSE Sharers(c, t))
  /\ skipped' = IF tells = after THEN skipped \ {c} ELSE skipped
  /\ UNCHANGED crawlUrl

\* A tool that leaves the page where it is, and says where (page_map, the
\* feedback of an action) or does not (read_content, screenshot).
Look(c) ==
  /\ Step /\ Exists(c)
  /\ \E t \in Held(c) : \E tells \in {Found(c, t), believes[c]} :
       Acts(c, t, Found(c, t), tells)

\* click, press_key, fill_form, go_back and the like, when they lead to another
\* page: the feedback names it unless it is lost, nothing is noted in the context.
Interact(c) ==
  /\ Step /\ Exists(c)
  /\ \E t \in Held(c), u \in Url : \E tells \in {Redirect[u], believes[c]} :
       Acts(c, t, Redirect[u], tells)

-----------------------------------------------------------------------------
(* navigate *)

\* The HTTP path: the final url is noted, the browser stays where it is.
NavigateHttp(c, u) ==
  /\ Step /\ Exists(c)
  /\ LET final == Redirect[u] IN
       /\ ctx' = [ctx EXCEPT ![c].current = final]
       /\ believes' = [believes EXCEPT ![c] = final]
       /\ skipped' = IF final = ctx[c].loaded /\ shows[ctx[c].tab] # final
                     THEN skipped \cup {c} ELSE skipped \ {c}
       /\ unseen' = unseen \ {c}
       /\ crawlUrl' = IF c = "agent" THEN final ELSE crawlUrl
  /\ UNCHANGED <<shows, acted>>

\* fetch_via_browser: what was noted is loaded first; the url reported and noted
\* is the one that was asked for, wherever it led.
NavigateBrowser(c, u) ==
  /\ Step /\ Exists(c)
  /\ \E t \in Held(c) :
       /\ ctx' = [ctx EXCEPT ![c] = Context(t, u)]
       /\ shows' = [shows EXCEPT ![t] = Redirect[u]]
       /\ unseen' = (unseen \ {c}) \cup Sharers(c, t)
                      \cup (IF Redirect[u] # u THEN {c} ELSE {})
  /\ believes' = [believes EXCEPT ![c] = u]
  /\ skipped' = skipped \ {c}
  /\ crawlUrl' = IF c = "agent" THEN u ELSE crawlUrl
  /\ UNCHANGED acted

\* The browser refuses the url: what was noted may have been loaded on the way.
NavigateFails(c) ==
  /\ Step /\ Exists(c) /\ Due(c)
  /\ \E t \in Held(c) :
       /\ ctx' = [ctx EXCEPT ![c] = Loaded(c, t)]
       /\ shows' = [shows EXCEPT ![t] = Found(c, t)]
       /\ unseen' = (unseen \ {c}) \cup Sharers(c, t)
  /\ UNCHANGED <<crawlUrl, believes, acted, skipped>>

-----------------------------------------------------------------------------
(* Scripts *)

\* run_script of an agent opens a tab of its own at the url the agent navigated
\* to last; run_script of the MCP server clones the session's context.
StartScript ==
  /\ Step /\ ~Exists("script")
  /\ IF host = "mcp"
     THEN /\ ctx' = [ctx EXCEPT !["script"] = ctx["agent"]]
          /\ believes' = [believes EXCEPT !["script"] = believes["agent"]]
          /\ unseen' = IF "agent" \in unseen THEN Owner ELSE unseen
          /\ skipped' = IF "agent" \in skipped THEN Owner ELSE skipped
          /\ UNCHANGED shows
     ELSE \E t \in Spare :
            /\ ctx' = [ctx EXCEPT !["script"] = Context(t, crawlUrl)]
            /\ shows' = [shows EXCEPT ![t] =
                           IF crawlUrl = None THEN Blank ELSE Redirect[crawlUrl]]
            /\ believes' = [believes EXCEPT !["script"] =
                              IF crawlUrl = None THEN Blank ELSE crawlUrl]
            /\ unseen' = IF crawlUrl # None /\ Redirect[crawlUrl] # crawlUrl
                         THEN unseen \cup {"script"} ELSE unseen
            /\ UNCHANGED skipped
  /\ UNCHANGED <<crawlUrl, acted>>

\* The executor's end: nobody closes its tab.
EndScript ==
  /\ Step /\ Exists("script")
  /\ ctx' = [ctx EXCEPT !["script"] = None]
  /\ believes' = [believes EXCEPT !["script"] = None]
  /\ unseen' = unseen \ {"script"} /\ skipped' = skipped \ {"script"}
  /\ UNCHANGED <<shows, crawlUrl, acted>>

-----------------------------------------------------------------------------
(* The page goes on by itself (a timer, a redirect by its own code), or    *)
(* the tab is closed under its contexts.                                   *)
PageMoves(t) ==
  /\ Step /\ shows[t] \in Url
  /\ \E p \in (Url \cup {None}) \ {shows[t]} : shows' = [shows EXCEPT ![t] = p]
  /\ unseen' = unseen \cup {d \in Owner : Exists(d) /\ ctx[d].tab = t}
  /\ UNCHANGED <<ctx, crawlUrl, believes, acted, skipped>>

Next ==
  \/ \E c \in Owner : \/ Look(c) \/ Interact(c) \/ NavigateFails(c)
                    \/ \E u \in Url : NavigateHttp(c, u) \/ NavigateBrowser(c, u)
  \/ StartScript \/ EndScript
  \/ \E t \in Tab : PageMoves(t)

Spec == Init /\ [][Next]_vars

-----------------------------------------------------------------------------
\* A tool acts on the page its agent believes it is on.  There are two ways out:
\* the page changed and nobody said so, or navigate fetched over HTTP the url the
\* browser had been sent to last, from which it had moved on.  A load that is due
\* is that of the page the agent was told of.
ActsOnBelievedPage ==
  /\ acted # None => acted.on = acted.believed \/ acted.unseen \/ acted.skipped
  /\ \A c \in Owner : Exists(c) /\ Due(c) => believes[c] = ctx[c].current
=============================================================================
