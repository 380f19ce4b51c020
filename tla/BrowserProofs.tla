---------------------------- MODULE BrowserProofs -----------------------------
(***************************************************************************)
(* Theorems about tabs and pages, for any number of contexts, tabs, pages  *)
(* and urls: which page a tool acts on (PageView), what lies under an      *)
(* index of the Playwright child (BrowserPages), and which tabs the        *)
(* extension manages (ExtensionTabs).                                      *)
(***************************************************************************)
EXTENDS MCBrowser, FiniteSetTheorems, SequenceTheorems, WellFoundedInduction, TLAPS

-----------------------------------------------------------------------------
(* The page a tool acts on (View). *)

Shown == Url \cup {Blank}

ViewTypes ==
  /\ shows \in [View!Tab -> Shown \cup {None}]
  /\ ctx \in [View!Owner -> [tab : View!Tab, current : Url \cup {None}, loaded : Url \cup {None}]
                              \cup {None}]
  /\ crawlUrl \in Url \cup {None}
  /\ believes \in [View!Owner -> Shown \cup {None}]
  /\ \A c \in View!Owner : View!Exists(c) => believes[c] \in Shown

\* What is due was told; what is not due is what the tab shows, unless nobody
\* told, or the url was taken for loaded.
Believed(c) ==
  /\ View!Due(c) => /\ believes[c] = ctx[c].current
                    /\ MCRedirect[ctx[c].current] = ctx[c].current
  /\ ~View!Due(c) => shows[ctx[c].tab] = believes[c] \/ c \in unseen \cup skipped

\* The inductive invariant.
ViewInv ==
  /\ ViewTypes
  /\ \A c \in View!Owner : View!Exists(c) => Believed(c)
  /\ acted # None => acted.on = acted.believed \/ acted.unseen \/ acted.skipped

LEMMA RedirectIs ==
  ASSUME NEW u \in Url
  PROVE  MCRedirect[u] \in Url /\ MCRedirect[MCRedirect[u]] = MCRedirect[u]
  BY ViewAssumption DEF MCRedirect

\* What a tool of c finds on its tab, and what its context then is.
LEMMA FoundIs ==
  ASSUME ViewInv, NEW c \in View!Owner, View!Exists(c), NEW t \in View!Held(c)
  PROVE  /\ t \in View!Tab /\ View!Found(c, t) \in Shown
         /\ View!Loaded(c, t) \in [tab : View!Tab, current : Url \cup {None}, loaded : Url \cup {None}]
         /\ View!Loaded(c, t).tab = t /\ View!Loaded(c, t).current = ctx[c].current
         /\ View!Loaded(c, t).current # None =>
              View!Loaded(c, t).loaded = View!Loaded(c, t).current
         /\ shows[ctx[c].tab] # None => t = ctx[c].tab
         /\ View!Due(c) => View!Found(c, t) = believes[c]
         /\ shows[ctx[c].tab] # None /\ c \notin unseen \cup skipped => View!Found(c, t) = believes[c]
  <1>1. /\ ctx[c] \in [tab : View!Tab, current : Url \cup {None}, loaded : Url \cup {None}]
        /\ believes[c] \in Shown /\ Believed(c) /\ ctx[c] # None
        /\ \A s \in View!Tab : shows[s] \in Shown \cup {None}
    BY DEF ViewInv, ViewTypes, View!Exists
  <1>2. t \in View!Tab /\ (shows[ctx[c].tab] # None => t = ctx[c].tab)
    BY <1>1 DEF View!Held, View!Spare
  <1>3. View!Due(c) => ctx[c].current \in Url /\ View!Found(c, t) = believes[c]
    BY <1>1 DEF View!Due, View!Found, Believed
  <1>4. ~View!Due(c) => View!Found(c, t) = (IF shows[t] # None THEN shows[t] ELSE Blank)
    BY DEF View!Found
  <1>5. View!Found(c, t) \in Shown
    BY <1>1, <1>2, <1>3, <1>4 DEF Shown
  <1>6. shows[ctx[c].tab] # None /\ c \notin unseen \cup skipped => View!Found(c, t) = believes[c]
    BY <1>1, <1>2, <1>3, <1>4 DEF Believed
  <1> DEFINE l == IF View!Due(c) THEN ctx[c].current ELSE ctx[c].loaded
             r == [tab |-> t, current |-> ctx[c].current, loaded |-> l]
  <1>7. View!Loaded(c, t) = r
    BY DEF View!Loaded
  <1>8. l \in Url \cup {None} /\ (ctx[c].current # None => l = ctx[c].current)
    BY <1>1 DEF View!Due
  <1>9. r \in [tab : View!Tab, current : Url \cup {None}, loaded : Url \cup {None}]
    BY <1>1, <1>2, <1>8
  <1> QED BY <1>2, <1>3, <1>5, <1>6, <1>7, <1>8, <1>9

\* A tool takes the bridge and leaves its page in some state.
LEMMA ActsKeeps ==
  ASSUME ViewInv, NEW c \in View!Owner, View!Exists(c), NEW t \in View!Held(c),
         NEW after \in Shown, NEW tells \in Shown, View!Acts(c, t, after, tells)
  PROVE  ViewInv'
  <1> DEFINE l == View!Loaded(c, t)
  <1>1. /\ t \in View!Tab /\ View!Found(c, t) \in Shown
        /\ l \in [tab : View!Tab, current : Url \cup {None}, loaded : Url \cup {None}]
        /\ l.tab = t /\ (l.current # None => l.loaded = l.current)
        /\ shows[ctx[c].tab] # None /\ c \notin unseen \cup skipped => View!Found(c, t) = believes[c]
    BY FoundIs
  <1>2. /\ acted' = [on |-> View!Found(c, t), by |-> c, believed |-> believes[c],
               unseen |-> c \in unseen \/ shows[ctx[c].tab] = None, skipped |-> c \in skipped]
        /\ ctx' = [ctx EXCEPT ![c] = l]
        /\ shows' = [shows EXCEPT ![t] = after]
        /\ believes' = [believes EXCEPT ![c] = tells]
        /\ unseen' = (IF tells = after THEN unseen \ {c} ELSE unseen \cup {c})
                       \cup (IF after = shows[t] THEN {} ELSE View!Sharers(c, t))
        /\ skipped' = IF tells = after THEN skipped \ {c} ELSE skipped
        /\ crawlUrl' = crawlUrl
    BY DEF View!Acts
  <1> HIDE DEF l
  <1>0. ViewTypes
    BY DEF ViewInv
  <1>3. ViewTypes'
    <2>1. shows' \in [View!Tab -> Shown \cup {None}]
      BY <1>0, <1>1, <1>2 DEF ViewTypes
    <2>2. ctx' \in [View!Owner -> [tab : View!Tab, current : Url \cup {None}, loaded : Url \cup {None}]
                                    \cup {None}]
      BY <1>0, <1>1, <1>2 DEF ViewTypes
    <2>3. believes' \in [View!Owner -> Shown \cup {None}]
      BY <1>0, <1>2 DEF ViewTypes
    <2>4. \A d \in View!Owner : ctx'[d] # None => believes'[d] \in Shown
      BY <1>0, <1>2 DEF ViewTypes, View!Exists
    <2> QED BY <1>0, <1>2, <2>1, <2>2, <2>3, <2>4 DEF ViewTypes, View!Exists
  <1>4. ctx'[c] = l /\ believes'[c] = tells /\ shows'[t] = after
    BY <1>0, <1>1, <1>2 DEF ViewTypes
  <1>5. Believed(c)'
    <2>1. ~View!Due(c)'
      BY <1>1, <1>4 DEF View!Due
    <2>2. tells = after \/ c \in unseen'
      BY <1>2
    <2> QED BY <1>1, <1>4, <2>1, <2>2 DEF Believed
  <1>6. ASSUME NEW d \in View!Owner, d # c, ctx'[d] # None PROVE Believed(d)'
    <2>1. /\ ctx'[d] = ctx[d] /\ believes'[d] = believes[d] /\ Believed(d) /\ View!Exists(d)
          /\ (d \in unseen => d \in unseen') /\ (d \in skipped => d \in skipped')
      BY <1>0, <1>2, <1>6 DEF ViewInv, ViewTypes, View!Exists
    <2>2. View!Due(d)' <=> View!Due(d)
      BY <2>1 DEF View!Due
    <2>3. ctx[d].tab \in View!Tab
      BY <1>0, <2>1 DEF ViewTypes, View!Exists
    <2>4. shows'[ctx[d].tab] = shows[ctx[d].tab] \/ d \in unseen'
      <3>1. CASE ctx[d].tab # t
        BY <1>0, <1>2, <2>3, <3>1 DEF ViewTypes
      <3>2. CASE ctx[d].tab = t
        BY <1>2, <1>4, <1>6, <2>1, <3>2 DEF View!Sharers
      <3> QED BY <3>1, <3>2
    <2> QED BY <2>1, <2>2, <2>4 DEF Believed
  <1>7. acted'.on = acted'.believed \/ acted'.unseen \/ acted'.skipped
    BY <1>1, <1>2
  <1> QED BY <1>3, <1>5, <1>6, <1>7 DEF ViewInv, View!Exists

LEMMA LookStep ==
  ASSUME ViewInv, NEW c \in View!Owner, View!Look(c)
  PROVE  ViewInv'
  <1>1. PICK t \in View!Held(c) : \E tells \in {View!Found(c, t), believes[c]} :
                                     View!Acts(c, t, View!Found(c, t), tells)
    BY DEF View!Look
  <1>2. View!Exists(c) /\ believes[c] \in Shown
    BY DEF View!Look, ViewInv, ViewTypes
  <1>3. View!Found(c, t) \in Shown
    BY <1>2, FoundIs
  <1> QED BY <1>1, <1>2, <1>3, ActsKeeps

LEMMA InteractStep ==
  ASSUME ViewInv, NEW c \in View!Owner, View!Interact(c)
  PROVE  ViewInv'
  <1>1. PICK t \in View!Held(c), u \in Url : \E tells \in {MCRedirect[u], believes[c]} :
                                               View!Acts(c, t, MCRedirect[u], tells)
    BY DEF View!Interact
  <1>2. View!Exists(c) /\ believes[c] \in Shown
    BY DEF View!Interact, ViewInv, ViewTypes
  <1>3. MCRedirect[u] \in Shown
    BY RedirectIs DEF Shown
  <1> QED BY <1>1, <1>2, <1>3, ActsKeeps

\* A context that a step leaves alone, and whose page it changes only unseen.
LEMMA BelievedKept ==
  ASSUME ViewInv, NEW d \in View!Owner, ctx'[d] # None,
         ctx'[d] = ctx[d], believes'[d] = believes[d],
         shows'[ctx[d].tab] = shows[ctx[d].tab] \/ d \in unseen',
         d \in unseen \cup skipped => d \in unseen' \cup skipped'
  PROVE  Believed(d)'
  <1>1. Believed(d)
    BY DEF ViewInv, View!Exists
  <1>2. View!Due(d)' <=> View!Due(d)
    BY DEF View!Due
  <1> QED BY <1>1, <1>2 DEF Believed

LEMMA NavigateHttpStep ==
  ASSUME ViewInv, NEW c \in View!Owner, NEW u \in Url, View!NavigateHttp(c, u)
  PROVE  ViewInv'
  <1> DEFINE final == MCRedirect[u]
             r == [tab |-> ctx[c].tab, current |-> final, loaded |-> ctx[c].loaded]
  <1>1. final \in Url /\ MCRedirect[final] = final
    BY RedirectIs
  <1>0. ViewTypes /\ View!Exists(c)
    BY DEF ViewInv, View!NavigateHttp
  <1>2. /\ ctx' = [ctx EXCEPT ![c].current = final]
        /\ believes' = [believes EXCEPT ![c] = final]
        /\ skipped' = IF final = ctx[c].loaded /\ shows[ctx[c].tab] # final
                      THEN skipped \cup {c} ELSE skipped \ {c}
        /\ unseen' = unseen \ {c}
        /\ crawlUrl' = (IF c = "agent" THEN final ELSE crawlUrl)
        /\ UNCHANGED <<shows, acted>>
    BY DEF View!NavigateHttp
  <1> HIDE DEF final
  <1>3. ctx[c] \in [tab : View!Tab, current : Url \cup {None}, loaded : Url \cup {None}]
    BY <1>0 DEF ViewTypes, View!Exists
  <1>4. r \in [tab : View!Tab, current : Url \cup {None}, loaded : Url \cup {None}]
        /\ [ctx[c] EXCEPT !.current = final] = r
    BY <1>1, <1>3
  <1>5. ctx' = [ctx EXCEPT ![c] = r]
    BY <1>2, <1>4
  <1>r. r.tab = ctx[c].tab /\ r.current = final /\ r.loaded = ctx[c].loaded
    OBVIOUS
  <1> HIDE DEF r
  <1>6. ctx'[c] = r /\ believes'[c] = final
    BY <1>0, <1>2, <1>5 DEF ViewTypes
  <1>7. ViewTypes'
    <2>1. ctx' \in [View!Owner -> [tab : View!Tab, current : Url \cup {None}, loaded : Url \cup {None}]
                                    \cup {None}]
      BY <1>0, <1>4, <1>5 DEF ViewTypes
    <2>2. believes' \in [View!Owner -> Shown \cup {None}] /\ final \in Shown
      BY <1>0, <1>1, <1>2 DEF ViewTypes, Shown
    <2>3. \A d \in View!Owner : ctx'[d] # None => believes'[d] \in Shown
      BY <1>0, <1>2, <1>5, <2>2 DEF ViewTypes, View!Exists
    <2> QED BY <1>0, <1>1, <1>2, <2>1, <2>2, <2>3 DEF ViewTypes, View!Exists
  <1>8. Believed(c)'
    <2>1. CASE final = ctx[c].loaded
      BY <1>1, <1>2, <1>6, <1>r, <2>1 DEF Believed, View!Due
    <2>2. CASE final # ctx[c].loaded
      BY <1>1, <1>6, <1>r, <2>2, ViewAssumption DEF Believed, View!Due
    <2> QED BY <2>1, <2>2
  <1>9. ASSUME NEW d \in View!Owner, d # c, ctx'[d] # None PROVE Believed(d)'
    BY <1>0, <1>2, <1>5, <1>9, BelievedKept DEF ViewTypes
  <1> QED BY <1>2, <1>7, <1>8, <1>9 DEF ViewInv, View!Exists

LEMMA NavigateBrowserStep ==
  ASSUME ViewInv, NEW c \in View!Owner, NEW u \in Url, View!NavigateBrowser(c, u)
  PROVE  ViewInv'
  <1>0. ViewTypes /\ View!Exists(c)
    BY DEF ViewInv, View!NavigateBrowser
  <1>1. PICK t \in View!Held(c) :
          /\ ctx' = [ctx EXCEPT ![c] = View!Context(t, u)]
          /\ shows' = [shows EXCEPT ![t] = MCRedirect[u]]
          /\ unseen' = (unseen \ {c}) \cup View!Sharers(c, t)
                         \cup (IF MCRedirect[u] # u THEN {c} ELSE {})
    BY DEF View!NavigateBrowser
  <1>2. /\ believes' = [believes EXCEPT ![c] = u]
        /\ skipped' = skipped \ {c}
        /\ crawlUrl' = (IF c = "agent" THEN u ELSE crawlUrl)
        /\ acted' = acted
    BY DEF View!NavigateBrowser
  <1>3. t \in View!Tab
    BY <1>0, FoundIs
  <1> DEFINE r == View!Context(t, u)
  <1>4. /\ r \in [tab : View!Tab, current : Url \cup {None}, loaded : Url \cup {None}]
        /\ r.tab = t /\ r.current = u /\ r.loaded = u
    BY <1>3 DEF View!Context
  <1> HIDE DEF r
  <1>5. MCRedirect[u] \in Url
    BY RedirectIs
  <1>6. ctx' = [ctx EXCEPT ![c] = r] /\ ctx'[c] = r /\ believes'[c] = u /\ shows'[t] = MCRedirect[u]
    BY <1>0, <1>1, <1>2, <1>3 DEF ViewTypes, r
  <1>7. ViewTypes'
    <2>1. ctx' \in [View!Owner -> [tab : View!Tab, current : Url \cup {None}, loaded : Url \cup {None}]
                                    \cup {None}]
      BY <1>0, <1>4, <1>6 DEF ViewTypes
    <2>2. believes' \in [View!Owner -> Shown \cup {None}] /\ u \in Shown
      BY <1>0, <1>2 DEF ViewTypes, Shown
    <2>3. \A d \in View!Owner : ctx'[d] # None => believes'[d] \in Shown
      BY <1>0, <1>2, <1>6, <2>2 DEF ViewTypes, View!Exists
    <2>4. shows' \in [View!Tab -> Shown \cup {None}]
      BY <1>0, <1>1, <1>3, <1>5 DEF ViewTypes, Shown
    <2> QED BY <1>0, <1>2, <2>1, <2>2, <2>3, <2>4 DEF ViewTypes, View!Exists
  <1>8. Believed(c)'
    BY <1>1, <1>4, <1>6 DEF Believed, View!Due
  <1>9. ASSUME NEW d \in View!Owner, d # c, ctx'[d] # None PROVE Believed(d)'
    <2>1. ctx'[d] = ctx[d] /\ believes'[d] = believes[d]
      BY <1>0, <1>2, <1>6, <1>9 DEF ViewTypes
    <2>2. ctx[d].tab \in View!Tab
      BY <1>0, <1>9, <2>1 DEF ViewTypes
    <2>3. shows'[ctx[d].tab] = shows[ctx[d].tab] \/ d \in unseen'
      <3>1. CASE ctx[d].tab # t
        BY <1>0, <1>1, <2>2, <3>1 DEF ViewTypes
      <3>2. CASE ctx[d].tab = t
        BY <1>1, <1>9, <2>1, <3>2 DEF View!Sharers, View!Exists
      <3> QED BY <3>1, <3>2
    <2>4. d \in unseen \cup skipped => d \in unseen' \cup skipped'
      BY <1>1, <1>2, <1>9
    <2> QED BY <1>9, <2>1, <2>3, <2>4, BelievedKept
  <1> QED BY <1>2, <1>7, <1>8, <1>9 DEF ViewInv, View!Exists

\* What was due was loaded on the way, and is what the agent was told of.
LEMMA NavigateFailsStep ==
  ASSUME ViewInv, NEW c \in View!Owner, View!NavigateFails(c)
  PROVE  ViewInv'
  <1>0. ViewTypes /\ View!Exists(c) /\ View!Due(c)
    BY DEF ViewInv, View!NavigateFails
  <1>1. PICK t \in View!Held(c) :
          /\ ctx' = [ctx EXCEPT ![c] = View!Loaded(c, t)]
          /\ shows' = [shows EXCEPT ![t] = View!Found(c, t)]
          /\ unseen' = (unseen \ {c}) \cup View!Sharers(c, t)
    BY DEF View!NavigateFails
  <1>2. UNCHANGED <<crawlUrl, believes, acted, skipped>>
    BY DEF View!NavigateFails
  <1> DEFINE r == View!Loaded(c, t)
             p == View!Found(c, t)
  <1>3. /\ t \in View!Tab /\ p \in Shown /\ p = believes[c]
        /\ r \in [tab : View!Tab, current : Url \cup {None}, loaded : Url \cup {None}]
        /\ r.tab = t /\ (r.current # None => r.loaded = r.current)
    BY <1>0, FoundIs
  <1> HIDE DEF r, p
  <1>6. ctx' = [ctx EXCEPT ![c] = r] /\ ctx'[c] = r /\ shows' = [shows EXCEPT ![t] = p] /\ shows'[t] = p
    BY <1>0, <1>1, <1>3 DEF ViewTypes, r, p
  <1>7. ViewTypes'
    <2>1. ctx' \in [View!Owner -> [tab : View!Tab, current : Url \cup {None}, loaded : Url \cup {None}]
                                    \cup {None}]
      BY <1>0, <1>3, <1>6 DEF ViewTypes
    <2>3. \A d \in View!Owner : ctx'[d] # None => believes'[d] \in Shown
      BY <1>0, <1>2, <1>6 DEF ViewTypes, View!Exists
    <2>4. shows' \in [View!Tab -> Shown \cup {None}]
      BY <1>0, <1>3, <1>6 DEF ViewTypes
    <2> QED BY <1>0, <1>2, <2>1, <2>3, <2>4 DEF ViewTypes, View!Exists
  <1>8. Believed(c)'
    BY <1>2, <1>3, <1>6 DEF Believed, View!Due
  <1>9. ASSUME NEW d \in View!Owner, d # c, ctx'[d] # None PROVE Believed(d)'
    <2>1. ctx'[d] = ctx[d] /\ believes'[d] = believes[d]
      BY <1>0, <1>2, <1>6, <1>9 DEF ViewTypes
    <2>2. ctx[d].tab \in View!Tab
      BY <1>0, <1>9, <2>1 DEF ViewTypes
    <2>3. shows'[ctx[d].tab] = shows[ctx[d].tab] \/ d \in unseen'
      <3>1. CASE ctx[d].tab # t
        BY <1>0, <1>6, <2>2, <3>1 DEF ViewTypes
      <3>2. CASE ctx[d].tab = t
        BY <1>1, <1>9, <2>1, <3>2 DEF View!Sharers, View!Exists
      <3> QED BY <3>1, <3>2
    <2>4. d \in unseen \cup skipped => d \in unseen' \cup skipped'
      BY <1>1, <1>2, <1>9
    <2> QED BY <1>9, <2>1, <2>3, <2>4, BelievedKept
  <1> QED BY <1>2, <1>7, <1>8, <1>9 DEF ViewInv, View!Exists

LEMMA StartScriptStep ==
  ASSUME ViewInv, View!StartScript
  PROVE  ViewInv'
  <1>0. ViewTypes /\ ~View!Exists("script") /\ UNCHANGED <<crawlUrl, acted>>
        /\ "script" \in View!Owner /\ "agent" \in View!Owner
        /\ \A c \in View!Owner : c # "script" => c = "agent"
    BY DEF ViewInv, View!StartScript, View!Owner
  <1>1. CASE host = "mcp"
    <2>1. /\ ctx' = [ctx EXCEPT !["script"] = ctx["agent"]]
          /\ believes' = [believes EXCEPT !["script"] = believes["agent"]]
          /\ unseen' = (IF "agent" \in unseen THEN View!Owner ELSE unseen)
          /\ skipped' = (IF "agent" \in skipped THEN View!Owner ELSE skipped)
          /\ UNCHANGED shows
      BY <1>1 DEF View!StartScript
    <2>2. ViewTypes'
      BY <1>0, <2>1 DEF ViewTypes, View!Exists
    <2>3. ASSUME NEW d \in View!Owner, ctx'[d] # None PROVE Believed(d)'
      <3>1. ctx'[d] = ctx["agent"] /\ believes'[d] = believes["agent"]
        BY <1>0, <2>1 DEF ViewTypes
      <3>2. Believed("agent")
        BY <1>0, <2>3, <3>1 DEF ViewInv, View!Exists
      <3>3. View!Due(d)' <=> View!Due("agent")
        BY <3>1 DEF View!Due
      <3>4. "agent" \in unseen \cup skipped => d \in unseen' \cup skipped'
        BY <2>1
      <3> QED BY <2>1, <3>1, <3>2, <3>3, <3>4 DEF Believed
    <2> QED BY <1>0, <2>2, <2>3 DEF ViewInv, View!Exists
  <1>2. CASE host # "mcp"
    <2>1. PICK t \in View!Spare :
            /\ ctx' = [ctx EXCEPT !["script"] = View!Context(t, crawlUrl)]
            /\ shows' = [shows EXCEPT ![t] =
                           IF crawlUrl = None THEN Blank ELSE MCRedirect[crawlUrl]]
            /\ believes' = [believes EXCEPT !["script"] =
                              IF crawlUrl = None THEN Blank ELSE crawlUrl]
            /\ unseen' = (IF crawlUrl # None /\ MCRedirect[crawlUrl] # crawlUrl
                          THEN unseen \cup {"script"} ELSE unseen)
            /\ UNCHANGED skipped
      BY <1>2 DEF View!StartScript
    <2> DEFINE r == View!Context(t, crawlUrl)
               p == IF crawlUrl = None THEN Blank ELSE MCRedirect[crawlUrl]
               b == IF crawlUrl = None THEN Blank ELSE crawlUrl
    <2>2. t \in View!Tab /\ shows[t] = None
      BY DEF View!Spare
    <2>3. /\ r \in [tab : View!Tab, current : Url \cup {None}, loaded : Url \cup {None}]
          /\ r.tab = t /\ r.current = crawlUrl /\ r.loaded = crawlUrl
      BY <1>0, <2>2 DEF View!Context, ViewTypes
    <2>4. p \in Shown /\ b \in Shown
      BY <1>0, RedirectIs DEF Shown, ViewTypes
    <2>5. p = b \/ "script" \in unseen'
      BY <2>1
    <2>6. /\ ctx' = [ctx EXCEPT !["script"] = r] /\ shows' = [shows EXCEPT ![t] = p]
          /\ believes' = [believes EXCEPT !["script"] = b]
      BY <2>1
    <2> HIDE DEF r, p, b
    <2>7. ViewTypes'
      <3>1. ctx' \in [View!Owner -> [tab : View!Tab, current : Url \cup {None}, loaded : Url \cup {None}]
                                    \cup {None}]
        BY <1>0, <2>3, <2>6 DEF ViewTypes
      <3>2. shows' \in [View!Tab -> Shown \cup {None}] /\ believes' \in [View!Owner -> Shown \cup {None}]
        BY <1>0, <2>2, <2>4, <2>6 DEF ViewTypes
      <3>3. \A d \in View!Owner : ctx'[d] # None => believes'[d] \in Shown
        BY <1>0, <2>4, <2>6 DEF ViewTypes, View!Exists
      <3> QED BY <1>0, <3>1, <3>2, <3>3 DEF ViewTypes, View!Exists
    <2>8. Believed("script")'
      <3>1. ctx'["script"] = r /\ shows'[t] = p /\ believes'["script"] = b
        BY <1>0, <2>2, <2>6 DEF ViewTypes
      <3> QED BY <2>3, <2>5, <3>1 DEF Believed, View!Due
    <2>9. ASSUME ctx'["agent"] # None PROVE Believed("agent")'
      <3>1. ctx'["agent"] = ctx["agent"] /\ believes'["agent"] = believes["agent"]
        BY <1>0, <2>6 DEF ViewTypes
      <3>2. Believed("agent") /\ believes["agent"] \in Shown /\ ctx["agent"].tab \in View!Tab
        BY <1>0, <2>9, <3>1 DEF ViewInv, ViewTypes, View!Exists
      <3>3. View!Due("agent")' <=> View!Due("agent")
        BY <3>1 DEF View!Due
      <3>4. "agent" \in unseen \cup skipped => "agent" \in unseen' \cup skipped'
        BY <2>1
      <3>5. CASE ctx["agent"].tab # t
        <4>1. shows'[ctx["agent"].tab] = shows[ctx["agent"].tab]
          BY <1>0, <2>6, <3>2, <3>5 DEF ViewTypes
        <4> QED BY <1>0, <2>9, <3>1, <3>4, <4>1, BelievedKept
      <3>6. CASE ctx["agent"].tab = t
        <4>1. View!Due("agent") \/ "agent" \in unseen \cup skipped
          BY <2>2, <3>2, <3>6, ViewAssumption DEF Believed, Shown
        <4> QED BY <3>1, <3>2, <3>3, <3>4, <4>1 DEF Believed
      <3> QED BY <3>5, <3>6
    <2> QED BY <1>0, <2>7, <2>8, <2>9 DEF ViewInv, View!Exists
  <1> QED BY <1>1, <1>2

LEMMA EndScriptStep ==
  ASSUME ViewInv, View!EndScript
  PROVE  ViewInv'
  <1>0. ViewTypes /\ "script" \in View!Owner
    BY DEF ViewInv, View!Owner
  <1>1. /\ ctx' = [ctx EXCEPT !["script"] = None]
        /\ believes' = [believes EXCEPT !["script"] = None]
        /\ unseen' = unseen \ {"script"} /\ skipped' = skipped \ {"script"}
        /\ UNCHANGED <<shows, crawlUrl, acted>>
    BY DEF View!EndScript
  <1>2. ViewTypes'
    BY <1>0, <1>1 DEF ViewTypes, View!Exists
  <1>3. ASSUME NEW d \in View!Owner, ctx'[d] # None PROVE Believed(d)'
    <2>1. d # "script" /\ ctx'[d] = ctx[d] /\ believes'[d] = believes[d]
      BY <1>0, <1>1, <1>3 DEF ViewTypes
    <2> QED BY <1>1, <1>3, <2>1, BelievedKept
  <1> QED BY <1>1, <1>2, <1>3 DEF ViewInv, View!Exists

LEMMA PageMovesStep ==
  ASSUME ViewInv, NEW t \in View!Tab, View!PageMoves(t)
  PROVE  ViewInv'
  <1>0. ViewTypes
    BY DEF ViewInv
  <1>1. /\ \E p \in Url \cup {None} : shows' = [shows EXCEPT ![t] = p]
        /\ unseen' = unseen \cup {d \in View!Owner : View!Exists(d) /\ ctx[d].tab = t}
        /\ UNCHANGED <<ctx, crawlUrl, believes, acted, skipped>>
    BY DEF View!PageMoves
  <1>2. ViewTypes'
    BY <1>0, <1>1 DEF ViewTypes, View!Exists, Shown
  <1>3. ASSUME NEW d \in View!Owner, ctx'[d] # None PROVE Believed(d)'
    <2>1. ctx[d].tab \in View!Tab /\ View!Exists(d)
      BY <1>0, <1>1, <1>3 DEF ViewTypes, View!Exists
    <2>2. shows'[ctx[d].tab] = shows[ctx[d].tab] \/ d \in unseen'
      BY <1>0, <1>1, <2>1 DEF ViewTypes
    <2> QED BY <1>1, <1>3, <2>2, BelievedKept
  <1> QED BY <1>1, <1>2, <1>3 DEF ViewInv, View!Exists

\* In BrowserSpec the view moves or stays.
LEMMA ViewHolds == BrowserSpec => []ViewInv
  <1>1. BrowserInit => ViewInv
    <2> SUFFICES ASSUME BrowserInit PROVE ViewInv
      OBVIOUS
    <2>1. /\ shows = [t \in View!Tab |-> IF t = 0 THEN Blank ELSE None]
          /\ ctx = [c \in View!Owner |-> IF c = "agent" THEN View!Context(0, None) ELSE None]
          /\ crawlUrl = None /\ acted = None
          /\ believes = [c \in View!Owner |-> IF c = "agent" THEN Blank ELSE None]
      BY DEF BrowserInit, View!Init
    <2>2. 0 \in View!Tab
      BY TabsAssumption DEF View!Tab
    <2> DEFINE r == View!Context(0, None)
    <2>3. r \in [tab : View!Tab, current : Url \cup {None}, loaded : Url \cup {None}]
          /\ r.tab = 0 /\ r.current = None
      BY <2>2 DEF View!Context
    <2> HIDE DEF r
    <2>4. ViewTypes
      BY <2>1, <2>3 DEF ViewTypes, View!Exists, Shown, r
    <2>5. ASSUME NEW d \in View!Owner, ctx[d] # None PROVE Believed(d)
      BY <2>1, <2>2, <2>3, <2>5 DEF Believed, View!Due, r
    <2> QED BY <2>1, <2>4, <2>5 DEF ViewInv, View!Exists
  <1>2. ViewInv /\ UNCHANGED view => ViewInv'
    BY DEF view, ViewInv, ViewTypes, Believed, View!Exists, View!Due
  <1>3. ViewInv /\ View!Next => ViewInv'
    <2> SUFFICES ASSUME ViewInv, View!Next PROVE ViewInv'
      OBVIOUS
    <2> QED BY LookStep, InteractStep, NavigateHttpStep, NavigateBrowserStep, NavigateFailsStep,
               StartScriptStep, EndScriptStep, PageMovesStep DEF View!Next
  <1>4. ViewInv /\ [BrowserNext]_<<part, vars, child, view>> => ViewInv'
    BY <1>2, <1>3 DEF BrowserNext
  <1> QED BY <1>1, <1>4, PTL DEF BrowserSpec

\* A tool acts on the page its agent was told of, for any number of urls and
\* tabs: fetching over HTTP, reopened tabs, scripts on the same tab and
\* redirects hide no page from the agent but where nobody said so
\* (browser/src/context.rs acquire_bridge, agent/src/tools/navigate.rs).
THEOREM ToolActsOnBelievedPage == BrowserSpec => []ActsOnBelievedPage
  <1>1. ViewInv => ActsOnBelievedPage
    BY DEF ViewInv, Believed, ActsOnBelievedPage, View!ActsOnBelievedPage
  <1> QED BY <1>1, ViewHolds, PTL

-----------------------------------------------------------------------------
(* The pages of the child (Pages). *)

\* The array and the buffers: no page is in it twice, and what a page of it has
\* raised lies under its index.
ArrayInv ==
  /\ opened \in Nat /\ opened <= MaxPages
  /\ pages \in Seq(1 .. opened) /\ Len(pages) <= opened
  /\ buffers \in [Pages!Index -> SUBSET (1 .. opened)]
  /\ pending \subseteq 1 .. opened
  /\ \A m, n \in 1 .. Len(pages) : pages[m] = pages[n] => m = n
  /\ Pages!EventsUnderTheirPage

\* The contexts: as long as no page of another was taken, each finds its own
\* under its index.
ContextsInv ==
  /\ pageIndex \in [Ctx -> Pages!Index \cup {None}]
  /\ slot \in [Ctx -> Pages!Index \cup {None}]
  /\ givenPage \in [Ctx -> Nat \cup {None}]
  /\ holder \in Pages!InUse \cup {None}
  /\ ~moved => \A c \in Pages!InUse : /\ Pages!InRange(pageIndex[c])
                                      /\ Pages!PageAt(pageIndex[c]) = givenPage[c]
  /\ Pages!OnOwnTab

\* The inductive invariant.
PagesInv == ArrayInv /\ ContextsInv

LEMMA IndicesAreNumbers ==
  /\ MaxPages \in Nat \ {0} /\ Pages!Index = 0 .. MaxPages - 1
  /\ None \notin Pages!Index /\ None \notin Ctx /\ None \notin Nat /\ Session \in Ctx
  BY PagesAssumption, TabsAssumption DEF Pages!Index

\* A page of the array and the index it has.
LEMMA IndexOfIs ==
  ASSUME ArrayInv, NEW p \in Pages!InArray
  PROVE  /\ Pages!IndexOf(p) \in Pages!Index /\ Pages!InRange(Pages!IndexOf(p))
         /\ Pages!PageAt(Pages!IndexOf(p)) = p /\ p \in 1 .. opened
  <1>1. PICK n \in 1 .. Len(pages) : pages[n] = p
    BY DEF ArrayInv, Pages!InArray
  <1>2. /\ n - 1 \in Pages!Index /\ Pages!InRange(n - 1) /\ Pages!PageAt(n - 1) = p
        /\ p \in 1 .. opened
    BY <1>1, IndicesAreNumbers DEF ArrayInv, Pages!InRange, Pages!PageAt
  <1> QED BY <1>2 DEF Pages!IndexOf

\* A page is added behind the others.
LEMMA ArrayGrows ==
  ASSUME ArrayInv, opened < MaxPages, opened' = opened + 1,
         pages' = Append(pages, opened + 1), buffers' = buffers, pending' = pending
  PROVE  /\ ArrayInv' /\ Len(pages) \in Pages!Index /\ Len(pages') = Len(pages) + 1
         /\ pages'[Len(pages) + 1] = opened + 1
         /\ \A n \in 1 .. Len(pages) : pages'[n] = pages[n]
  <1>1. /\ opened \in Nat /\ opened' \in Nat /\ opened' <= MaxPages /\ MaxPages \in Nat
        /\ pages \in Seq(1 .. opened) /\ Len(pages) <= opened /\ Len(pages) \in Nat
    BY IndicesAreNumbers DEF ArrayInv
  <1>2. pages \in Seq(1 .. opened')
    <2>1. 1 .. opened \subseteq 1 .. opened'
      BY <1>1
    <2> QED BY <1>1, <2>1
  <1>3. /\ pages' \in Seq(1 .. opened') /\ Len(pages') = Len(pages) + 1
        /\ pages'[Len(pages) + 1] = opened + 1
        /\ \A n \in 1 .. Len(pages) : pages'[n] = pages[n]
    BY <1>1, <1>2
  <1>4. \A m, n \in 1 .. Len(pages') : pages'[m] = pages'[n] => m = n
    <2> SUFFICES ASSUME NEW m \in 1 .. Len(pages'), NEW n \in 1 .. Len(pages'), pages'[m] = pages'[n]
                 PROVE  m = n
      OBVIOUS
    <2>1. CASE m \in 1 .. Len(pages) /\ n \in 1 .. Len(pages)
      BY <1>3, <2>1 DEF ArrayInv
    <2>2. \A k \in 1 .. Len(pages) : pages[k] # opened + 1
      BY <1>1
    <2>3. CASE m = Len(pages) + 1 \/ n = Len(pages) + 1
      BY <1>1, <1>3, <2>2, <2>3
    <2> QED BY <1>1, <1>3, <2>1, <2>3
  <1>5. Pages!EventsUnderTheirPage'
    <2> SUFFICES ASSUME NEW i \in Pages!Index, NEW p \in buffers[i], p \in Pages!InArray'
                 PROVE  i < Len(pages') /\ pages'[i + 1] = p
      BY DEF Pages!EventsUnderTheirPage, Pages!InRange, Pages!PageAt
    <2>1. p \in 1 .. opened
      BY DEF ArrayInv
    <2>2. PICK n \in 1 .. Len(pages') : pages'[n] = p
      BY <1>3 DEF Pages!InArray
    <2>3. n \in 1 .. Len(pages) /\ pages[n] = p
      BY <1>1, <1>3, <2>1, <2>2
    <2>4. p \in Pages!InArray
      BY <1>1, <2>3 DEF Pages!InArray
    <2>5. i < Len(pages) /\ pages[i + 1] = p
      BY <2>4 DEF ArrayInv, Pages!EventsUnderTheirPage, Pages!InRange, Pages!PageAt
    <2> QED BY <1>1, <1>3, <2>5, IndicesAreNumbers
  <1>6. Len(pages) \in Pages!Index
    BY <1>1, IndicesAreNumbers
  <1>7. buffers' \in [Pages!Index -> SUBSET (1 .. opened')] /\ pending' \subseteq 1 .. opened'
    BY <1>1 DEF ArrayInv
  <1>8. Len(pages') <= opened'
    BY <1>1, <1>3
  <1> QED BY <1>1, <1>3, <1>4, <1>5, <1>6, <1>7, <1>8 DEF ArrayInv

\* A page is added to a buffer: under the index it has, or when it has none.
LEMMA Buffered ==
  ASSUME ArrayInv, NEW p \in 1 .. opened, NEW n,
         p \in Pages!InArray => n = Pages!IndexOf(p),
         buffers' = [buffers EXCEPT ![n] = @ \cup {p}],
         pending' \subseteq 1 .. opened, UNCHANGED <<pages, opened>>
  PROVE  ArrayInv'
  <1>1. buffers' \in [Pages!Index -> SUBSET (1 .. opened)]
    BY DEF ArrayInv
  <1>2. Pages!EventsUnderTheirPage'
    <2> SUFFICES ASSUME NEW i \in Pages!Index, NEW q \in buffers'[i], q \in Pages!InArray
                 PROVE  Pages!InRange(i) /\ Pages!PageAt(i) = q
      BY DEF Pages!EventsUnderTheirPage, Pages!InRange, Pages!PageAt, Pages!InArray
    <2>1. CASE q \in buffers[i]
      BY <2>1 DEF ArrayInv, Pages!EventsUnderTheirPage
    <2>2. CASE q \notin buffers[i]
      <3>1. i = n /\ q = p
        BY <2>2 DEF ArrayInv
      <3> QED BY <3>1, IndexOfIs
    <2> QED BY <2>1, <2>2
  <1> QED BY <1>1, <1>2 DEF ArrayInv

\* Nothing but what is read elsewhere changes.
LEMMA ArrayStays ==
  ASSUME ArrayInv, UNCHANGED <<pages, opened, buffers, pending>>
  PROVE  ArrayInv'
  BY DEF ArrayInv, Pages!EventsUnderTheirPage, Pages!InRange, Pages!PageAt, Pages!InArray

\* The array without one page: those in front of it stay, those behind it move up.
LEMMA TakenOutIs ==
  ASSUME ArrayInv, NEW i \in Pages!Index, Pages!InRange(i)
  PROVE  /\ Pages!TakenOut(i) \in Seq(1 .. opened)
         /\ Len(Pages!TakenOut(i)) = Len(pages) - 1
         /\ \A n \in 1 .. i : Pages!TakenOut(i)[n] = pages[n]
         /\ \A n \in i + 1 .. Len(pages) - 1 : Pages!TakenOut(i)[n] = pages[n + 1]
  <1>1. i \in Nat /\ Len(pages) \in Nat /\ i < Len(pages) /\ pages \in Seq(1 .. opened)
    BY IndicesAreNumbers DEF ArrayInv, Pages!InRange
  <1>0. \A n \in 1 .. Len(pages) : pages[n] \in 1 .. opened
    BY <1>1, ElementOfSeq
  <1> DEFINE a == SubSeq(pages, 1, i)
             b == SubSeq(pages, i + 2, Len(pages))
  <1>2. /\ a \in Seq(1 .. opened) /\ Len(a) = i
        /\ \A n \in 1 .. i : a[n] = pages[n]
    BY <1>0, <1>1, SubSeqProperties
  <1>3. /\ b \in Seq(1 .. opened) /\ Len(b) = Len(pages) - (i + 1)
        /\ \A n \in 1 .. Len(pages) - (i + 1) : b[n] = pages[n + i + 1]
    <2>1. \A n \in i + 2 .. Len(pages) : pages[n] \in 1 .. opened
      BY <1>0, <1>1
    <2>2. /\ b \in Seq(1 .. opened)
          /\ Len(b) = IF i + 2 <= Len(pages) THEN Len(pages) - (i + 2) + 1 ELSE 0
          /\ \A n \in 1 .. Len(pages) - (i + 2) + 1 : b[n] = pages[(i + 2) + n - 1]
      BY <1>1, <2>1, SubSeqProperties
    <2> HIDE DEF b
    <2>3. \A n \in 1 .. Len(pages) - (i + 2) + 1 : (i + 2) + n - 1 = n + i + 1
      BY <1>1
    <2> QED BY <1>1, <2>2, <2>3
  <1> HIDE DEF a, b
  <1>4. /\ a \o b \in Seq(1 .. opened) /\ Len(a \o b) = Len(pages) - 1
        /\ \A n \in 1 .. i : (a \o b)[n] = a[n]
        /\ \A n \in i + 1 .. Len(pages) - 1 : (a \o b)[n] = b[n - i]
    <2>1. /\ a \o b \in Seq(1 .. opened) /\ Len(a \o b) = Len(a) + Len(b)
          /\ \A n \in 1 .. Len(a) + Len(b) : (a \o b)[n] = IF n <= Len(a) THEN a[n] ELSE b[n - Len(a)]
      BY <1>2, <1>3, ConcatProperties
    <2> QED BY <1>1, <1>2, <1>3, <2>1
  <1>5. \A n \in i + 1 .. Len(pages) - 1 : b[n - i] = pages[n + 1]
    BY <1>1, <1>3
  <1> QED BY <1>2, <1>4, <1>5 DEF Pages!TakenOut, a, b

LEMMA CloseKeepsArray ==
  ASSUME ArrayInv, NEW c, NEW i \in Pages!Index, Pages!InRange(i), Pages!ClosePage(c, i)
  PROVE  ArrayInv'
  <1>1. /\ i \in Nat /\ Len(pages) \in Nat /\ i < Len(pages) /\ opened \in Nat
        /\ Len(pages) <= opened /\ MaxPages \in Nat /\ Pages!Index = 0 .. MaxPages - 1
        /\ opened <= MaxPages /\ i < MaxPages
    BY IndicesAreNumbers DEF ArrayInv, Pages!InRange
  <1>2. /\ pages' \in Seq(1 .. opened) /\ Len(pages') = Len(pages) - 1
        /\ \A n \in 1 .. i : pages'[n] = pages[n]
        /\ \A n \in i + 1 .. Len(pages) - 1 : pages'[n] = pages[n + 1]
    BY TakenOutIs DEF Pages!ClosePage
  <1>3. \A m, n \in 1 .. Len(pages') : pages'[m] = pages'[n] => m = n
    <2> SUFFICES ASSUME NEW m \in 1 .. Len(pages'), NEW n \in 1 .. Len(pages'), pages'[m] = pages'[n]
                 PROVE  m = n
      OBVIOUS
    <2>0. \A k, l \in 1 .. Len(pages) : pages[k] = pages[l] => k = l
      BY DEF ArrayInv
    <2>1. \A k \in 1 .. Len(pages') :
            pages'[k] = pages[IF k <= i THEN k ELSE k + 1] /\ (IF k <= i THEN k ELSE k + 1) \in 1 .. Len(pages)
      BY <1>1, <1>2
    <2>2. (IF m <= i THEN m ELSE m + 1) = (IF n <= i THEN n ELSE n + 1)
      BY <2>0, <2>1
    <2> QED BY <1>1, <1>2, <2>2
  <1>4. /\ buffers' = [j \in Pages!Index |-> IF j < i THEN buffers[j]
                       ELSE IF j + 1 \in Pages!Index THEN buffers[j + 1] ELSE {}]
        /\ opened' = opened /\ pending' = pending
    BY DEF Pages!ClosePage, Pages!Shifted
  <1>5. buffers' \in [Pages!Index -> SUBSET (1 .. opened)]
    BY <1>4 DEF ArrayInv
  <1>6. Pages!EventsUnderTheirPage'
    <2> SUFFICES ASSUME NEW j \in Pages!Index, NEW q \in buffers'[j], q \in Pages!InArray'
                 PROVE  j < Len(pages') /\ pages'[j + 1] = q
      BY DEF Pages!EventsUnderTheirPage, Pages!InRange, Pages!PageAt
    <2>1. PICK n \in 1 .. Len(pages') : pages'[n] = q
      BY <1>2 DEF Pages!InArray
    <2>2. q = pages[IF n <= i THEN n ELSE n + 1] /\ (IF n <= i THEN n ELSE n + 1) \in 1 .. Len(pages)
      BY <1>1, <1>2, <2>1
    <2>3. q \in Pages!InArray
      BY <1>1, <2>2 DEF Pages!InArray
    <2>4. CASE j < i
      <3>1. q \in buffers[j]
        BY <1>4, <2>4
      <3>2. j < Len(pages) /\ pages[j + 1] = q
        BY <2>3, <3>1 DEF ArrayInv, Pages!EventsUnderTheirPage, Pages!InRange, Pages!PageAt
      <3> QED BY <1>1, <1>2, <2>4, <3>2
    <2>5. CASE ~(j < i)
      <3>1. j + 1 \in Pages!Index /\ q \in buffers[j + 1]
        BY <1>4, <2>5
      <3>2. j + 1 < Len(pages) /\ pages[j + 1 + 1] = q
        BY <2>3, <3>1 DEF ArrayInv, Pages!EventsUnderTheirPage, Pages!InRange, Pages!PageAt
      <3>3. j + 1 \in i + 1 .. Len(pages) - 1 /\ j < Len(pages')
        BY <1>1, <1>2, <2>5, <3>2
      <3> QED BY <1>2, <3>2, <3>3
    <2> QED BY <2>4, <2>5
  <1>7. Len(pages') <= opened'
    BY <1>1, <1>2, <1>4
  <1>8. pages' \in Seq(1 .. opened') /\ opened' \in Nat /\ opened' <= MaxPages
        /\ pending' \subseteq 1 .. opened'
    BY <1>2, <1>4 DEF ArrayInv
  <1>9. buffers' \in [Pages!Index -> SUBSET (1 .. opened')]
    BY <1>4, <1>5
  <1> QED BY <1>3, <1>6, <1>7, <1>8, <1>9 DEF ArrayInv

\* A context opens a page of its own and takes its index.
LEMMA TakesNewPage ==
  ASSUME PagesInv, NEW c \in Ctx, holder = None, Pages!NewPage,
         pageIndex' = [pageIndex EXCEPT ![c] = Len(pages)],
         givenPage' = [givenPage EXCEPT ![c] = opened + 1],
         slot' \in [Ctx -> Pages!Index \cup {None}], holder' \in {None, c}, moved' = moved
  PROVE  PagesInv'
  <1>1. /\ opened < MaxPages /\ opened' = opened + 1 /\ pages' = Append(pages, opened + 1)
        /\ buffers' = buffers /\ pending' = pending /\ tab' = opened + 1
    BY DEF Pages!NewPage
  <1>2. /\ ArrayInv' /\ Len(pages) \in Pages!Index /\ Len(pages') = Len(pages) + 1
        /\ pages'[Len(pages) + 1] = opened + 1
        /\ \A n \in 1 .. Len(pages) : pages'[n] = pages[n]
    BY <1>1, ArrayGrows DEF PagesInv
  <1>3. /\ pageIndex' \in [Ctx -> Pages!Index \cup {None}] /\ givenPage' \in [Ctx -> Nat \cup {None}]
        /\ pageIndex'[c] = Len(pages) /\ givenPage'[c] = opened + 1
    BY <1>2 DEF PagesInv, ContextsInv, ArrayInv
  <1>4. holder' \in Pages!InUse' \cup {None}
    BY <1>2, <1>3, IndicesAreNumbers DEF Pages!InUse
  <1>5. ASSUME ~moved', NEW d \in Pages!InUse'
        PROVE  pageIndex'[d] < Len(pages') /\ pages'[pageIndex'[d] + 1] = givenPage'[d]
    <2>1. CASE d = c
      BY <1>2, <1>3, <2>1, IndicesAreNumbers
    <2>2. CASE d # c
      <3>1. d \in Pages!InUse /\ pageIndex'[d] = pageIndex[d] /\ givenPage'[d] = givenPage[d]
        BY <1>5, <2>2 DEF PagesInv, ContextsInv, Pages!InUse
      <3>2. pageIndex[d] < Len(pages) /\ pages[pageIndex[d] + 1] = givenPage[d] /\ pageIndex[d] \in Pages!Index
        BY <1>5, <3>1 DEF PagesInv, ContextsInv, Pages!InRange, Pages!PageAt, Pages!InUse
      <3> QED BY <1>2, <3>1, <3>2, IndicesAreNumbers
    <2> QED BY <2>1, <2>2
  <1>6. Pages!OnOwnTab'
    BY <1>1, <1>3 DEF Pages!OnOwnTab
  <1>7. ContextsInv'
    BY <1>3, <1>4, <1>5, <1>6 DEF ContextsInv, Pages!InRange, Pages!PageAt
  <1> QED BY <1>2, <1>7 DEF PagesInv

\* The bridge goes to nobody, or to a context whose tab was made the active one.
LEMMA BridgeGoes ==
  ASSUME ContextsInv, UNCHANGED <<pages, pageIndex, slot, givenPage, moved>>,
         \/ holder' = None
         \/ holder' \in Pages!InUse /\ tab' = Pages!PageAt(pageIndex[holder'])
         \/ holder' = holder /\ tab' = tab
  PROVE  ContextsInv'
  <1>1. holder' \in Pages!InUse \cup {None}
    BY DEF ContextsInv
  <1>2. Pages!OnOwnTab'
    BY <1>1 DEF ContextsInv, Pages!OnOwnTab
  <1> QED BY <1>1, <1>2 DEF ContextsInv, Pages!InUse, Pages!InRange, Pages!PageAt

LEMMA AcquiresStep ==
  ASSUME PagesInv, NEW c \in Ctx,
         Pages!AcquireOwn(c) \/ Pages!AcquireReopen(c) \/ Pages!AcquireFails(c)
  PROVE  PagesInv'
  <1>1. CASE Pages!AcquireOwn(c)
    <2>1. ArrayInv'
      BY <1>1, ArrayStays DEF PagesInv, Pages!AcquireOwn, Pages!observed
    <2>2. ContextsInv'
      BY <1>1, BridgeGoes DEF PagesInv, Pages!AcquireOwn, Pages!contexts
    <2> QED BY <2>1, <2>2 DEF PagesInv
  <1>2. CASE Pages!AcquireReopen(c)
    BY <1>2, TakesNewPage DEF PagesInv, ContextsInv, Pages!AcquireReopen
  <1>3. CASE Pages!AcquireFails(c)
    <2>1. ArrayInv'
      BY <1>3, ArrayStays DEF PagesInv, Pages!AcquireFails, Pages!observed
    <2>2. ContextsInv'
      BY <1>3, BridgeGoes DEF PagesInv, Pages!AcquireFails, Pages!contexts
    <2> QED BY <2>1, <2>2 DEF PagesInv
  <1> QED BY <1>1, <1>2, <1>3

LEMMA ReleaseStep ==
  ASSUME PagesInv, Pages!Release
  PROVE  PagesInv'
  <1>1. ArrayInv'
    BY ArrayStays DEF PagesInv, Pages!Release, Pages!observed, Pages!child
  <1>2. ContextsInv'
    BY BridgeGoes DEF PagesInv, Pages!Release, Pages!contexts, Pages!child
  <1> QED BY <1>1, <1>2 DEF PagesInv

LEMMA SwitchTabStep ==
  ASSUME PagesInv, NEW c \in Ctx, NEW n \in Pages!Index \cup {-1}, Pages!SwitchTab(c, n)
  PROVE  PagesInv'
  <1> DEFINE i == IF n = -1 THEN Len(pages) - 1 ELSE n
  <1>1. /\ holder = None /\ c \in Pages!InUse /\ i >= 0 /\ UNCHANGED <<pages, slot, holder, moved>>
        /\ IF Pages!Reachable(i)
           THEN /\ pageIndex' = [pageIndex EXCEPT ![c] = i]
                /\ givenPage' = [givenPage EXCEPT ![c] = Pages!PageAt(i)]
           ELSE UNCHANGED <<pageIndex, givenPage>>
    BY DEF Pages!SwitchTab
  <1>2. Pages!Reachable(i) => i \in Pages!Index /\ i < Len(pages) /\ pages[i + 1] \in Nat
    <2>1. SUFFICES ASSUME Pages!Reachable(i)
                   PROVE  i \in Pages!Index /\ i < Len(pages) /\ pages[i + 1] \in Nat
      OBVIOUS
    <2>2. Len(pages) \in Nat /\ Len(pages) <= opened /\ opened \in Nat /\ opened <= MaxPages
          /\ MaxPages \in Nat /\ Pages!Index = 0 .. MaxPages - 1
      BY IndicesAreNumbers DEF PagesInv, ArrayInv
    <2>3. i \in Int /\ i < Len(pages)
      BY <2>1, <2>2 DEF Pages!Reachable, Pages!InRange
    <2>4. i \in Pages!Index /\ i + 1 \in 1 .. Len(pages)
      BY <1>1, <2>2, <2>3
    <2> HIDE DEF i
    <2>5. pages[i + 1] \in 1 .. opened
      BY <2>4, ElementOfSeq DEF PagesInv, ArrayInv
    <2> QED BY <2>2, <2>3, <2>4, <2>5
  <1> HIDE DEF i
  <1>3. ArrayInv'
    BY ArrayStays DEF PagesInv, Pages!SwitchTab, Pages!observed
  <1>4. /\ pageIndex' \in [Ctx -> Pages!Index \cup {None}]
        /\ givenPage' \in [Ctx -> Nat \cup {None}]
    BY <1>1, <1>2 DEF PagesInv, ContextsInv, Pages!PageAt
  <1>5. ASSUME ~moved, NEW d \in Pages!InUse'
        PROVE  pageIndex'[d] < Len(pages) /\ pages[pageIndex'[d] + 1] = givenPage'[d]
    <2>1. CASE d = c /\ Pages!Reachable(i)
      BY <1>1, <1>2, <2>1 DEF PagesInv, ContextsInv, Pages!PageAt
    <2>2. CASE ~(d = c /\ Pages!Reachable(i))
      <3>1. d \in Pages!InUse /\ pageIndex'[d] = pageIndex[d] /\ givenPage'[d] = givenPage[d]
        BY <1>1, <1>5, <2>2 DEF PagesInv, ContextsInv, Pages!InUse
      <3> QED BY <1>5, <3>1 DEF PagesInv, ContextsInv, Pages!InRange, Pages!PageAt
    <2> QED BY <2>1, <2>2
  <1>6. ContextsInv'
    BY <1>1, <1>4, <1>5 DEF PagesInv, ContextsInv, Pages!InRange, Pages!PageAt, Pages!OnOwnTab
  <1> QED BY <1>3, <1>6 DEF PagesInv

\* Pages are added behind the others, and no context is concerned.
LEMMA ContextsKept ==
  ASSUME PagesInv, UNCHANGED <<pageIndex, slot, givenPage, holder, moved>>,
         Len(pages') = Len(pages) + 1, \A n \in 1 .. Len(pages) : pages'[n] = pages[n],
         tab' = tab \/ holder = None
  PROVE  ContextsInv'
  <1>1. ASSUME ~moved, NEW d \in Pages!InUse
        PROVE  pageIndex[d] < Len(pages') /\ pages'[pageIndex[d] + 1] = givenPage[d]
    <2>1. pageIndex[d] < Len(pages) /\ pages[pageIndex[d] + 1] = givenPage[d] /\ pageIndex[d] \in Pages!Index
      BY <1>1 DEF PagesInv, ContextsInv, Pages!InRange, Pages!PageAt, Pages!InUse
    <2>2. Len(pages) \in Nat
      BY DEF PagesInv, ArrayInv
    <2> QED BY <2>1, <2>2, IndicesAreNumbers
  <1>2. Pages!OnOwnTab'
    BY DEF PagesInv, ContextsInv, Pages!OnOwnTab
  <1> QED BY <1>1, <1>2 DEF PagesInv, ContextsInv, Pages!InUse, Pages!InRange, Pages!PageAt

LEMMA OpensStep ==
  ASSUME PagesInv,
         (\E c \in Ctx, by \in Ctx \cup {None} : Pages!OpenContext(c, by)) \/ Pages!OpenFails
  PROVE  PagesInv'
  <1>1. ASSUME NEW c \in Ctx, NEW by \in Ctx \cup {None}, Pages!OpenContext(c, by)
        PROVE  PagesInv'
    <2>1. Pages!NewPage /\ holder = None /\ slot' = [slot EXCEPT ![c] = IF by = None THEN Len(pages) ELSE None]
          /\ pageIndex' = [pageIndex EXCEPT ![c] = Len(pages)]
          /\ givenPage' = [givenPage EXCEPT ![c] = opened + 1] /\ holder' = holder /\ moved' = moved
      BY <1>1 DEF Pages!OpenContext
    <2>2. Len(pages) \in Pages!Index
      BY <2>1, ArrayGrows DEF PagesInv, Pages!NewPage
    <2>3. slot' \in [Ctx -> Pages!Index \cup {None}]
      BY <2>1, <2>2 DEF PagesInv, ContextsInv
    <2> QED BY <2>1, <2>3, TakesNewPage
  <1>2. ASSUME Pages!OpenFails
        PROVE  PagesInv'
    <2>1. /\ opened < MaxPages /\ opened' = opened + 1 /\ pages' = Append(pages, opened + 1)
          /\ buffers' = buffers /\ pending' = pending /\ holder = None
          /\ UNCHANGED <<pageIndex, slot, givenPage, holder, moved>>
      BY <1>2 DEF Pages!OpenFails, Pages!NewPage, Pages!contexts
    <2>2. /\ ArrayInv' /\ Len(pages') = Len(pages) + 1
          /\ \A n \in 1 .. Len(pages) : pages'[n] = pages[n]
      BY <2>1, ArrayGrows DEF PagesInv
    <2> QED BY <2>1, <2>2, ContextsKept DEF PagesInv
  <1> QED BY <1>1, <1>2

LEMMA CloneContextStep ==
  ASSUME PagesInv, NEW c \in Ctx, NEW of \in Ctx, Pages!CloneContext(c, of)
  PROVE  PagesInv'
  <1>1. /\ c \notin Pages!InUse /\ of \in Pages!InUse
        /\ pageIndex' = [pageIndex EXCEPT ![c] = pageIndex[of]]
        /\ givenPage' = [givenPage EXCEPT ![c] = givenPage[of]]
        /\ UNCHANGED <<pages, tab, slot, holder, moved>>
    BY DEF Pages!CloneContext, Pages!child
  <1>2. ArrayInv'
    BY ArrayStays DEF PagesInv, Pages!CloneContext, Pages!child, Pages!observed
  <1>3. \A d \in Ctx : /\ pageIndex'[d] = IF d = c THEN pageIndex[of] ELSE pageIndex[d]
                       /\ givenPage'[d] = IF d = c THEN givenPage[of] ELSE givenPage[d]
    BY <1>1 DEF PagesInv, ContextsInv
  <1>4. Pages!InUse' = Pages!InUse \cup {c} /\ holder # c
    BY <1>1, <1>3, IndicesAreNumbers DEF PagesInv, ContextsInv, Pages!InUse
  <1>5. \A d \in Pages!InUse' : \E e \in Pages!InUse : pageIndex'[d] = pageIndex[e] /\ givenPage'[d] = givenPage[e]
    BY <1>1, <1>3 DEF Pages!InUse
  <1>6. Pages!OnOwnTab'
    BY <1>1, <1>3, <1>4 DEF PagesInv, ContextsInv, Pages!OnOwnTab, Pages!InUse
  <1>7. /\ pageIndex' \in [Ctx -> Pages!Index \cup {None}]
        /\ givenPage' \in [Ctx -> Nat \cup {None}]
    BY <1>1 DEF PagesInv, ContextsInv
  <1>8. ContextsInv'
    BY <1>1, <1>4, <1>5, <1>6, <1>7 DEF PagesInv, ContextsInv, Pages!InRange, Pages!PageAt
  <1> QED BY <1>2, <1>8 DEF PagesInv

\* A context goes, nobody else's page does.
LEMMA GoneKeeps ==
  ASSUME ContextsInv, NEW c \in Ctx, holder # c, Pages!Gone(c), holder' = holder, tab' = tab \/ holder = None,
         ~moved' => ~moved,
         ~moved' => \A d \in Pages!InUse \ {c} : /\ pageIndex[d] < Len(pages')
                                                 /\ pages'[pageIndex[d] + 1] = givenPage[d]
  PROVE  ContextsInv'
  <1>1. /\ pageIndex' = [pageIndex EXCEPT ![c] = None] /\ slot' = [slot EXCEPT ![c] = None]
        /\ givenPage' = [givenPage EXCEPT ![c] = None]
    BY DEF Pages!Gone
  <1>2. /\ pageIndex' \in [Ctx -> Pages!Index \cup {None}] /\ slot' \in [Ctx -> Pages!Index \cup {None}]
        /\ givenPage' \in [Ctx -> Nat \cup {None}] /\ Pages!InUse' = Pages!InUse \ {c}
        /\ \A d \in Ctx \ {c} : pageIndex'[d] = pageIndex[d] /\ givenPage'[d] = givenPage[d]
    BY <1>1 DEF ContextsInv, Pages!InUse
  <1>3. holder' \in Pages!InUse' \cup {None}
    BY <1>2 DEF ContextsInv
  <1>4. Pages!OnOwnTab'
    BY <1>2 DEF ContextsInv, Pages!OnOwnTab, Pages!InUse
  <1>5. \A d \in Pages!InUse' : d \in Pages!InUse \ {c} /\ d \in Ctx \ {c}
    BY <1>2 DEF Pages!InUse
  <1> QED BY <1>2, <1>3, <1>4, <1>5 DEF ContextsInv, Pages!InRange, Pages!PageAt

LEMMA EndContextStep ==
  ASSUME PagesInv, NEW c \in Ctx, Pages!EndContext(c)
  PROVE  PagesInv'
  <1>1. ArrayInv'
    BY ArrayStays DEF PagesInv, Pages!EndContext, Pages!child, Pages!observed
  <1>2. holder # c /\ Pages!Gone(c) /\ UNCHANGED <<pages, tab, holder, moved>>
    BY DEF Pages!EndContext, Pages!child
  <1>3. ~moved => \A d \in Pages!InUse : /\ pageIndex[d] < Len(pages)
                                         /\ pages[pageIndex[d] + 1] = givenPage[d]
    BY DEF PagesInv, ContextsInv, Pages!InRange, Pages!PageAt
  <1>4. ContextsInv'
    BY <1>2, <1>3, GoneKeeps DEF PagesInv
  <1> QED BY <1>1, <1>4 DEF PagesInv

LEMMA CloseContextStep ==
  ASSUME PagesInv, NEW c \in Ctx, Pages!CloseContext(c)
  PROVE  PagesInv'
  <1>1. holder = None /\ slot[c] # None /\ Pages!Gone(c) /\ holder' = holder /\ holder # c
    BY IndicesAreNumbers DEF Pages!CloseContext
  <1>2. \A d \in Pages!InUse : pageIndex[d] \in Pages!Index
    BY DEF PagesInv, ContextsInv, Pages!InUse
  <1>3. ~moved => \A d \in Pages!InUse : /\ pageIndex[d] < Len(pages)
                                         /\ pages[pageIndex[d] + 1] = givenPage[d]
    BY DEF PagesInv, ContextsInv, Pages!InRange, Pages!PageAt
  <1>4. CASE ~Pages!InRange(slot[c])
    <2>1. ArrayInv' /\ UNCHANGED <<pages, tab, moved>>
      BY <1>4, ArrayStays DEF PagesInv, Pages!CloseContext, Pages!child, Pages!observed
    <2>2. ContextsInv'
      BY <1>1, <1>3, <2>1, GoneKeeps DEF PagesInv
    <2> QED BY <2>1, <2>2 DEF PagesInv
  <1>5. CASE Pages!InRange(slot[c])
    <2> DEFINE i == slot[c]
    <2>1. i \in Pages!Index /\ Pages!InRange(i) /\ Pages!ClosePage(c, i)
      BY <1>1, <1>5 DEF PagesInv, ContextsInv, Pages!CloseContext
    <2> HIDE DEF i
    <2>2. ArrayInv'
      BY <2>1, CloseKeepsArray DEF PagesInv
    <2>3. /\ Len(pages') = Len(pages) - 1 /\ i \in Nat /\ Len(pages) \in Nat
          /\ \A n \in 1 .. i : pages'[n] = pages[n]
      BY <2>1, TakenOutIs, IndicesAreNumbers DEF PagesInv, ArrayInv, Pages!ClosePage
    <2>4. moved' = (moved \/ \E j \in i .. Len(pages) - 1 : Pages!PageAt(j) \in Pages!HeldByOthers(c))
      BY <2>1 DEF Pages!ClosePage
    <2>5. ASSUME ~moved', NEW d \in Pages!InUse \ {c}
          PROVE  pageIndex[d] < Len(pages') /\ pages'[pageIndex[d] + 1] = givenPage[d]
      <3>1. pageIndex[d] < Len(pages) /\ pages[pageIndex[d] + 1] = givenPage[d] /\ pageIndex[d] \in Nat
        <4>1. ~moved /\ d \in Pages!InUse
          BY <2>4, <2>5
        <4>2. pageIndex[d] < Len(pages) /\ pages[pageIndex[d] + 1] = givenPage[d]
          BY <1>3, <4>1
        <4>3. pageIndex[d] \in Nat
          BY <1>2, <4>1, IndicesAreNumbers
        <4> QED BY <4>2, <4>3
      <3>2. Pages!PageAt(pageIndex[d]) \in Pages!HeldByOthers(c)
        BY <2>5, <3>1 DEF Pages!HeldByOthers, Pages!PageAt
      <3>3. pageIndex[d] < i
        <4>1. pageIndex[d] \notin i .. Len(pages) - 1
          BY <2>4, <2>5, <3>2
        <4> QED BY <2>3, <3>1, <4>1
      <3> QED BY <2>1, <2>3, <3>1, <3>3 DEF Pages!InRange
    <2>6. ContextsInv'
      BY <1>1, <2>4, <2>5, GoneKeeps DEF PagesInv
    <2> QED BY <2>2, <2>6 DEF PagesInv
  <1> QED BY <1>4, <1>5

LEMMA SetDeviceStep ==
  ASSUME PagesInv, NEW c \in Ctx, Pages!SetDevice(c)
  PROVE  PagesInv'
  <1>0. /\ opened \in Nat /\ opened < MaxPages /\ MaxPages \in Nat \ {0}
        /\ opened' \in {opened + 1, opened + 2} /\ opened' <= MaxPages
    BY IndicesAreNumbers DEF PagesInv, ArrayInv, Pages!SetDevice
  <1>1. /\ holder = c /\ holder' = c /\ tab' = opened + 1
        /\ buffers' = [i \in Pages!Index |-> {}] /\ pending' = pending
        /\ givenPage' = [givenPage EXCEPT ![c] = opened + 1]
        /\ moved' = (moved \/ Pages!InUse # {c} \/ pageIndex[c] # 0)
        /\ UNCHANGED <<pageIndex, slot>>
    BY DEF Pages!SetDevice
  <1>2. /\ pages' \in Seq(1 .. opened') /\ Len(pages') <= opened' /\ Len(pages') > 0
        /\ pages'[1] = opened + 1
        /\ \A m, n \in 1 .. Len(pages') : pages'[m] = pages'[n] => m = n
    <2>1. CASE opened' = opened + 1 /\ pages' = <<opened + 1>>
      BY <1>0, <2>1
    <2>2. CASE opened' = opened + 2 /\ pages' = <<opened + 1, opened + 2>>
      BY <1>0, <2>2
    <2> QED BY <2>1, <2>2 DEF Pages!SetDevice
  <1>3. Pages!EventsUnderTheirPage'
    BY <1>1 DEF Pages!EventsUnderTheirPage
  <1>4. pending' \subseteq 1 .. opened'
    BY <1>0, <1>1 DEF PagesInv, ArrayInv
  <1>5. ArrayInv'
    BY <1>0, <1>1, <1>2, <1>3, <1>4 DEF ArrayInv
  <1>6. /\ givenPage' \in [Ctx -> Nat \cup {None}] /\ givenPage'[c] = opened + 1
        /\ Pages!InUse' = Pages!InUse /\ c \in Pages!InUse
    BY <1>0, <1>1, IndicesAreNumbers DEF PagesInv, ContextsInv, Pages!InUse
  <1>7. ~moved' => \A d \in Pages!InUse : pageIndex[d] = 0 /\ d = c
    BY <1>1
  <1>8. ContextsInv'
    BY <1>1, <1>2, <1>6, <1>7 DEF PagesInv, ContextsInv, Pages!OnOwnTab, Pages!InRange, Pages!PageAt
  <1> QED BY <1>5, <1>8 DEF PagesInv

LEMMA SiteSteps ==
  ASSUME PagesInv, NEW p \in Pages!Page,
         Pages!Popup(p) \/ Pages!ClosesItself(p) \/ Pages!Request(p) \/ Pages!RequestFinished(p)
  PROVE  PagesInv'
  <1>1. CASE Pages!Popup(p)
    <2>1. /\ opened < MaxPages /\ opened' = opened + 1 /\ pages' = Append(pages, opened + 1)
          /\ buffers' = buffers /\ pending' = pending
          /\ UNCHANGED <<tab, pageIndex, slot, givenPage, holder, moved>>
      BY <1>1 DEF Pages!Popup, Pages!contexts
    <2>2. /\ ArrayInv' /\ Len(pages') = Len(pages) + 1
          /\ \A n \in 1 .. Len(pages) : pages'[n] = pages[n]
      BY <2>1, ArrayGrows DEF PagesInv
    <2> QED BY <2>1, <2>2, ContextsKept DEF PagesInv
  <1>2. CASE Pages!ClosesItself(p)
    <2>1. ArrayInv'
      BY <1>2, ArrayStays DEF PagesInv, Pages!ClosesItself, Pages!observed
    <2>2. ContextsInv'
      BY <1>2, BridgeGoes DEF PagesInv, Pages!ClosesItself, Pages!contexts
    <2> QED BY <2>1, <2>2 DEF PagesInv
  <1>3. CASE Pages!Request(p)
    <2>1. p \in 1 .. opened
      BY <1>3, IndexOfIs DEF PagesInv, Pages!Request
    <2>2. ArrayInv'
      BY <1>3, <2>1, Buffered DEF PagesInv, ArrayInv, Pages!Request, Pages!child
    <2>3. ContextsInv'
      BY <1>3, BridgeGoes DEF PagesInv, Pages!Request, Pages!contexts, Pages!child
    <2> QED BY <2>2, <2>3 DEF PagesInv
  <1>4. CASE Pages!RequestFinished(p)
    <2>1. p \in 1 .. opened /\ (p \in Pages!InArray => Pages!BufferAs(p) = Pages!IndexOf(p))
      BY <1>4 DEF PagesInv, ArrayInv, Pages!RequestFinished, Pages!BufferAs, Pages!CurrentPageIndex
    <2>2. ArrayInv'
      BY <1>4, <2>1, Buffered DEF PagesInv, ArrayInv, Pages!RequestFinished, Pages!child
    <2>3. ContextsInv'
      BY <1>4, BridgeGoes DEF PagesInv, Pages!RequestFinished, Pages!contexts, Pages!child
    <2> QED BY <2>2, <2>3 DEF PagesInv
  <1> QED BY <1>1, <1>2, <1>3, <1>4

LEMMA PollStep ==
  ASSUME PagesInv, NEW c \in Ctx, Pages!Poll(c)
  PROVE  PagesInv'
  <1>1. /\ buffers' = buffers \/ buffers' = [buffers EXCEPT ![Pages!IndexOf(tab)] = {}]
        /\ UNCHANGED <<pages, opened, pending>>
    BY DEF Pages!Poll, Pages!child
  <1>2. buffers' \in [Pages!Index -> SUBSET (1 .. opened)] /\ \A i \in Pages!Index : buffers'[i] \subseteq buffers[i]
    BY <1>1 DEF PagesInv, ArrayInv
  <1>3. ArrayInv'
    BY <1>1, <1>2 DEF PagesInv, ArrayInv, Pages!EventsUnderTheirPage, Pages!InRange, Pages!PageAt, Pages!InArray
  <1>4. ContextsInv'
    BY BridgeGoes DEF PagesInv, Pages!Poll, Pages!contexts, Pages!child
  <1> QED BY <1>3, <1>4 DEF PagesInv

\* In BrowserSpec the pages move or stay.
LEMMA PagesHold == BrowserSpec => []PagesInv
  <1>1. BrowserInit => PagesInv
    <2> SUFFICES ASSUME BrowserInit PROVE PagesInv
      OBVIOUS
    <2>1. /\ pages = <<1>> /\ opened = 1 /\ pending = {} /\ holder = None /\ moved = FALSE
          /\ buffers = [i \in Pages!Index |-> {}]
          /\ pageIndex = [c \in Ctx |-> IF c = Session THEN 0 ELSE None]
          /\ slot = [c \in Ctx |-> None]
          /\ givenPage = [c \in Ctx |-> IF c = Session THEN 1 ELSE None]
      BY DEF BrowserInit, Pages!Init
    <2>2. 0 \in Pages!Index /\ 1 <= MaxPages
      BY IndicesAreNumbers
    <2>3. pages \in Seq(1 .. 1) /\ Len(pages) = 1 /\ pages[1] = 1
      BY <2>1
    <2>4. ArrayInv
      BY <2>1, <2>2, <2>3 DEF ArrayInv, Pages!EventsUnderTheirPage
    <2>5. ContextsInv
      BY <2>1, <2>2, <2>3 DEF ContextsInv, Pages!OnOwnTab, Pages!InUse, Pages!InRange, Pages!PageAt
    <2> QED BY <2>4, <2>5 DEF PagesInv
  <1>2. PagesInv /\ UNCHANGED child => PagesInv'
    BY DEF child, PagesInv, ArrayInv, ContextsInv, Pages!EventsUnderTheirPage, Pages!OnOwnTab,
           Pages!InUse, Pages!InRange, Pages!PageAt, Pages!InArray
  <1>3. PagesInv /\ Pages!Next => PagesInv'
    <2> SUFFICES ASSUME PagesInv, Pages!Next PROVE PagesInv'
      OBVIOUS
    <2> QED BY AcquiresStep, EndContextStep, CloseContextStep, SetDeviceStep, PollStep, SwitchTabStep,
               OpensStep, CloneContextStep, ReleaseStep, SiteSteps DEF Pages!Next
  <1>4. PagesInv /\ [BrowserNext]_<<part, vars, child, view>> => PagesInv'
    BY <1>2, <1>3 DEF BrowserNext
  <1> QED BY <1>1, <1>4, PTL DEF BrowserSpec

\* Whatever is opened, closed or finished between two commands, what a page of
\* the child's array has raised lies under the index it has now, and a context
\* that holds the bridge acts on its own tab unless somebody took a page in
\* front of it (browser/src/playwright/bridge_script.rs currentPageIndex and
\* close_page, browser/src/context.rs acquire_bridge).
THEOREM PagesAreKept == BrowserSpec => []PagesKept
  <1>1. PagesInv => PagesKept
    BY DEF PagesInv, ArrayInv, ContextsInv, PagesKept
  <1> QED BY <1>1, PagesHold, PTL

-----------------------------------------------------------------------------
(* The tabs of the extension: the indices and the group. *)

\* What the extension may have in memory, or saved.
Kept(m) ==
  /\ m[1] \in [Index -> Tab \cup {None}] /\ m[2] \in 0 .. MaxIndex /\ m[3] \in Index
  /\ m[4] = None \/ m[4] \in 1 .. groups
  /\ m[5] \subseteq Tab
  /\ \A i \in Index : m[1][i] # None => i < m[2] /\ m[1][i] <= born

Slot == {"now", "late"}

\* A command that nobody handles yet.
Waits(j) ==
  /\ j.at = "start" /\ j.tab = None /\ j.grp = None
  /\ j.kind \in {"switch", "act", "close", "new"}
  /\ j.kind \in {"switch", "close"} => j.i \in Index

TabTypes ==
  /\ group \in [Tab -> Int] /\ born \in Tab /\ groups \in Nat
  /\ Kept(memory) /\ Kept(saved)
  /\ jobs \in [Slot -> Job \cup {None}]
  /\ index \in [Ctx -> Index \cup {None}] /\ given \in [Ctx -> Tab \cup {None}]
  /\ doing \in Turn \cup {None}
  /\ slipped \in BOOLEAN /\ grouping \subseteq Tab
  /\ \A t \in Tab : group[t] <= groups /\ (t > born => group[t] = Gone)

\* The command that is awaited is the one its context needs.
Awaited ==
  /\ doing = None <=> jobs["now"] = None
  /\ doing # None =>
       /\ doing.stage \in {"switch", "reswitch", "open", "fork", "act", "end"}
       /\ doing.stage \in {"switch", "reswitch"} => jobs["now"].kind = "switch"
       /\ doing.stage \in {"open", "fork"} => jobs["now"].kind = "new"
       /\ doing.stage = "act" => jobs["now"].kind = "act"
       /\ doing.stage = "end" => jobs["now"].kind = "close"
       /\ doing.stage = "switch" => jobs["now"].i = index[doing.by] /\ index[doing.by] # None

\* The place of a context's tab
PlacesKept ==
  \A c \in Ctx : index[c] # None /\ given[c] # None =>
    /\ index[c] < next /\ index[c] < saved[2]
    /\ managed[index[c]] \in {given[c], None} /\ saved[1][index[c]] \in {given[c], None}

Opening(j) == j.kind = "new" /\ j.at # "start"
Closing(j) == j.kind = "close" /\ j.at \in {"check", "go"}
Making(j) == j.kind = "new" /\ j.at = "name" /\ j.grp # None

\* One that is about to let a tab of the group go, and the tab
Parting(j) == j.kind = "close" /\ j.at \in {"release", "ungroup", "remove"}
Parts(s) == jobs[s] # None /\ Parting(jobs[s])
Releasing(t) == \E s \in Slot : Parts(s) /\ jobs[s].tab = t

\* A command that is being handled
Handled(j) ==
  /\ j.at # "start" =>
       /\ j.tab \in Tab /\ j.tab <= born
       /\ j.kind = "new" => j.at \in {"group", "join", "name", "done"}
       /\ j.kind # "new" => j.at \in {"check", "go", "release", "ungroup", "remove", "forget"} /\ j.grp = None
       /\ j.kind \in {"switch", "close"} => j.i \in Index
       /\ j.grp # None => j.grp \in 1 .. groups
       /\ j.at = "name" => j.grp # None
  /\ Opening(j) \/ Closing(j) =>
       /\ j.i \in Index /\ j.i < next
       /\ managed[j.i] \in {j.tab, None}
  /\ Opening(j) =>
       /\ j.tab \in grouping
       /\ \A i \in Index : managed[i] = j.tab => i = j.i
  /\ Making(j) =>
       /\ agentGroup # j.grp
       /\ ~slipped => \A t \in Tab : group[t] = j.grp => t = j.tab

JobInv ==
  /\ \A s \in Slot : jobs[s] # None => Handled(jobs[s]) /\ (jobs[s].at = "start" => Waits(jobs[s]))
  /\ \A s, r \in Slot : s # r /\ jobs[s] # None /\ jobs[r] # None /\ Opening(jobs[s]) /\ Opening(jobs[r]) =>
       /\ jobs[s].tab # jobs[r].tab
       /\ Making(jobs[s]) => jobs[s].grp # jobs[r].grp
  /\ \A t \in grouping : \E s \in Slot : jobs[s] # None /\ Opening(jobs[s]) /\ jobs[s].tab = t

GroupInv ==
  /\ \A i \in Index : managed[i] # None =>
        managed[i] \in grouping \/ \E k \in Index : saved[1][k] = managed[i]
  /\ ~slipped =>
       /\ \A t \in grouping : group[t] # Gone => t \in Managed
       /\ \A t \in Tab : InGroup(t) =>
            t \in Managed \/ Releasing(t)

TabInv == TabTypes /\ Awaited /\ PlacesKept /\ JobInv /\ GroupInv

-----------------------------------------------------------------------------
(* Induction *)

\* Every set of natural numbers that is not empty has a least member.
LEMMA Least ==
  ASSUME NEW T \in SUBSET Nat, T # {}
  PROVE  \E m \in T : \A k \in T : m <= k
  <1> DEFINE R == {p \in Nat \X Nat : p[1] < p[2]}
  <1>1. IsWellFoundedOn(R, Nat)
    BY NatLessThanWellFounded DEF OpToRel
  <1>2. \A x, y \in T : y < x => <<y, x>> \in R
    OBVIOUS
  <1> HIDE DEF R
  <1>3. PICK m \in T : \A k \in T : <<k, m>> \notin R
    BY <1>1, WFMin
  <1>4. \A k \in T : ~ (k < m)
    BY <1>2, <1>3
  <1>5. \A k \in T : k \in Nat /\ m \in Nat
    OBVIOUS
  <1> QED BY <1>4, <1>5

\* A finite one has a greatest member.
LEMMA Greatest ==
  ASSUME NEW S \in SUBSET Nat, S # {}, IsFiniteSet(S)
  PROVE  \E m \in S : \A k \in S : k <= m
  <1> DEFINE Tops(s) == {m \in s : \A k \in s : k <= m}
             B == {s \in SUBSET S : s # {} /\ Tops(s) = {}}
             T == {Cardinality(s) : s \in B}
  <1>1. \A s \in SUBSET S : IsFiniteSet(s) /\ Cardinality(s) \in Nat
    BY FS_Subset, FS_CardinalityType
  <1>2. ASSUME B # {} PROVE FALSE
    <2>1. T \in SUBSET Nat /\ T # {}
      BY <1>1, <1>2
    <2>2. PICK m \in T : \A k \in T : m <= k
      <3> HIDE DEF T
      <3> QED BY <2>1, Least
    <2>3. PICK s \in B : m = Cardinality(s)
      BY <2>2
    <2>4. PICK x \in s : TRUE
      BY <2>3
    <2>5. s \in SUBSET S /\ Tops(s) = {} /\ x \in Nat
      BY <2>3, <2>4
    <2> DEFINE r == s \ {x}
    <2>6. Cardinality(r) = Cardinality(s) - 1 /\ Cardinality(s) \in Nat
      BY <1>1, <2>4, <2>5, FS_RemoveElement
    <2>7. r \notin B
      <3>1. r \in B => Cardinality(r) \in T
        OBVIOUS
      <3>2. Cardinality(r) \in T => m <= Cardinality(r)
        BY <2>2
      <3> HIDE DEF B, T, r
      <3> QED BY <3>1, <3>2, <2>3, <2>6
    <2>8. r = {} \/ \E n \in r : \A k \in r : k <= n
      BY <2>5, <2>7
    <2>9. CASE r = {}
      BY <2>4, <2>5, <2>9
    <2>10. CASE \E n \in r : \A k \in r : k <= n
      <3>1. PICK n \in r : \A k \in r : k <= n
        BY <2>10
      <3>2. n \in Nat /\ \A k \in s : k \in Nat /\ (k = x \/ k \in r)
        BY <2>5, <3>1
      <3>3. CASE n <= x
        <4>1. \A k \in s : k <= x
          BY <2>5, <3>1, <3>2, <3>3
        <4> QED BY <2>4, <2>5, <4>1
      <3>4. CASE ~(n <= x)
        <4>1. \A k \in s : k <= n
          BY <2>5, <3>1, <3>2, <3>4
        <4> QED BY <2>5, <3>1, <4>1
      <3> QED BY <3>3, <3>4
    <2> QED BY <2>8, <2>9, <2>10
  <1>3. S \notin B
    BY <1>2
  <1> QED BY <1>3

\* None is nothing else.
LEMMA NoneIsNothing ==
  /\ None \notin Tab /\ None \notin Index /\ None \notin Ctx /\ None \notin Int
  /\ None \notin Job /\ None \notin Turn /\ Tab \subseteq Nat /\ Index \subseteq Nat
  BY TabsAssumption, CommandAssumption DEF Tab, Index

\* The context that waits goes on: its place stays, is given up, or is the one it was told.
GoesOn(i) ==
  /\ doing' \in Turn \cup {None}
  /\ index' \in [Ctx -> Index \cup {None}] /\ given' \in [Ctx -> Tab \cup {None}]
  /\ \A c \in Ctx :
       \/ index'[c] = None
       \/ index'[c] = index[c] /\ given'[c] = given[c]
       \/ i \in Index /\ index'[c] = i /\ given'[c] = managed[i]

LEMMA CommandIs ==
  ASSUME NEW k \in {"switch", "act", "close", "new"}, NEW i \in Index \cup {None},
         k \in {"switch", "close"} => i \in Index
  PROVE  Command(k, i) \in Job /\ Waits(Command(k, i)) /\ Command(k, i).kind = k /\ Command(k, i).i = i
  BY DEF Command, Job, Waits, Index

LEMMA ContinueIs ==
  ASSUME TabTypes, Awaited, doing # None,
         NEW ok \in BOOLEAN, NEW i \in Index \cup {None}, NEW late \in Job \cup {None},
         Continue(ok, i, late),
         ok /\ doing.stage \in {"open", "fork"} => i \in Index,
         ok /\ doing.stage = "switch" => i = index[doing.by]
  PROVE  /\ GoesOn(i) /\ Awaited'
         /\ \E n \in Job \cup {None} : /\ jobs' = [now |-> n, late |-> late]
                                       /\ n # None => Waits(n)
<1> USE NoneIsNothing
<1> DEFINE c == doing.by
           Then(stage, job) ==
             /\ doing' = [by |-> c, stage |-> stage]
             /\ jobs' = [now |-> job, late |-> late]
           Done == doing' = None /\ jobs' = [now |-> None, late |-> late]
           Gets == /\ index' = [index EXCEPT ![c] = i]
                   /\ given' = [given EXCEPT ![c] = managed[i]]
<1>0. /\ doing \in Turn /\ c \in Ctx
      /\ index \in [Ctx -> Index \cup {None}] /\ given \in [Ctx -> Tab \cup {None}]
      /\ managed \in [Index -> Tab \cup {None}]
  BY DEF TabTypes, Turn, Kept, memory
<1>1. ASSUME NEW stage \in {"switch", "open", "reswitch", "act", "fork", "end"}, NEW job \in Job, Then(stage, job) PROVE doing' \in Turn /\ doing' # None /\ doing'.stage = stage /\ doing'.by = c /\ jobs' = [now |-> job, late |-> late] /\ jobs'["now"] = job /\ job # None
  BY <1>0, <1>1 DEF Turn
<1>2. ASSUME Done PROVE doing' = None /\ jobs'["now"] = None
  BY <1>2
<1>3. ASSUME Done PROVE Awaited'
  BY <1>2, <1>3 DEF Awaited
<1>4. ASSUME UNCHANGED <<index, given>>, doing' \in Turn \cup {None} PROVE GoesOn(i)
  BY <1>0, <1>4 DEF GoesOn
<1>5. ASSUME Gets, i \in Index, doing' \in Turn \cup {None} PROVE GoesOn(i)
  BY <1>0, <1>5 DEF GoesOn
<1>6. \/ doing.stage = "switch" /\ ok /\ Then("act", Command("act", None))
         /\ given' = [given EXCEPT ![c] = IF @ = None THEN managed[i] ELSE @] /\ UNCHANGED index
      \/ doing.stage = "switch" /\ ~ok /\ Then("open", Command("new", None)) /\ UNCHANGED <<index, given>>
      \/ doing.stage = "open" /\ ok /\ Then("reswitch", Command("switch", i)) /\ Gets
      \/ doing.stage = "reswitch" /\ ok /\ Then("act", Command("act", None)) /\ UNCHANGED <<index, given>>
      \/ doing.stage = "fork" /\ ok /\ Done /\ Gets
      \/ doing.stage = "end" /\ Done /\ index' = [index EXCEPT ![c] = None] /\ given' = [given EXCEPT ![c] = None]
      \/ Done /\ UNCHANGED <<index, given>>
  BY DEF Continue
<1> HIDE DEF Then, Done, Gets
<1>7. CASE doing.stage = "switch" /\ ok /\ Then("act", Command("act", None))
         /\ given' = [given EXCEPT ![c] = IF @ = None THEN managed[i] ELSE @] /\ UNCHANGED index
  <2>1. Command("act", None) \in Job /\ Waits(Command("act", None)) /\ Command("act", None).kind = "act"
    BY CommandIs
  <2>2. GoesOn(i)
    <3>1. index[c] # None /\ i = index[c] /\ i \in Index
      BY <1>7 DEF Awaited
    <3>2. doing' \in Turn
      BY <1>1, <1>7, <2>1
    <3> QED BY <1>0, <1>7, <3>1, <3>2 DEF GoesOn
  <2>3. Awaited'
    BY <1>1, <1>7, <2>1 DEF Awaited
  <2> QED BY <1>1, <1>7, <2>1, <2>2, <2>3
<1>8. CASE doing.stage = "switch" /\ ~ok /\ Then("open", Command("new", None)) /\ UNCHANGED <<index, given>>
  <2>1. Command("new", None) \in Job /\ Waits(Command("new", None)) /\ Command("new", None).kind = "new"
    BY CommandIs
  <2>2. Awaited'
    BY <1>1, <1>8, <2>1 DEF Awaited
  <2> QED BY <1>1, <1>4, <1>8, <2>1, <2>2
<1>9. CASE doing.stage = "open" /\ ok /\ Then("reswitch", Command("switch", i)) /\ Gets
  <2>0. i \in Index
    BY <1>9
  <2>1. Command("switch", i) \in Job /\ Waits(Command("switch", i)) /\ Command("switch", i).kind = "switch"
    BY <2>0, CommandIs
  <2>2. Awaited'
    BY <1>1, <1>9, <2>1 DEF Awaited
  <2> QED BY <1>1, <1>5, <1>9, <2>0, <2>1, <2>2
<1>10. CASE doing.stage = "reswitch" /\ ok /\ Then("act", Command("act", None)) /\ UNCHANGED <<index, given>>
  <2>1. Command("act", None) \in Job /\ Waits(Command("act", None)) /\ Command("act", None).kind = "act"
    BY CommandIs
  <2>2. Awaited'
    BY <1>1, <1>10, <2>1 DEF Awaited
  <2> QED BY <1>1, <1>4, <1>10, <2>1, <2>2
<1>11. CASE doing.stage = "fork" /\ ok /\ Done /\ Gets
  BY <1>2, <1>3, <1>5, <1>11 DEF Done
<1>12. CASE doing.stage = "end" /\ Done /\ index' = [index EXCEPT ![c] = None] /\ given' = [given EXCEPT ![c] = None]
  <2>1. GoesOn(i)
    BY <1>0, <1>2, <1>12 DEF GoesOn
  <2> QED BY <1>3, <1>12, <2>1 DEF Done
<1>13. CASE Done /\ UNCHANGED <<index, given>>
  BY <1>2, <1>3, <1>4, <1>13 DEF Done
<1> QED BY <1>6, <1>7, <1>8, <1>9, <1>10, <1>11, <1>12, <1>13

\* The answer to a command, or the end of one that nobody awaits.
LEMMA AnswerIs ==
  ASSUME TabTypes, Awaited, NEW s \in Slot, jobs[s] # None,
         NEW ok \in BOOLEAN, NEW i \in Index \cup {None}, Answer(s, ok, i),
         s = "now" /\ ok /\ doing.stage \in {"open", "fork"} => i \in Index,
         s = "now" /\ ok /\ doing.stage = "switch" => i = index[doing.by]
  PROVE  /\ GoesOn(i) /\ Awaited'
         /\ jobs' \in [Slot -> Job \cup {None}]
         /\ jobs'[s] # None => Waits(jobs'[s])
         /\ \A r \in Slot \ {s} : jobs'[r] = jobs[r]
<1>1. CASE s = "now"
  <2>1. doing # None
    BY <1>1 DEF Awaited
  <2>2. jobs["late"] \in Job \cup {None} /\ jobs \in [Slot -> Job \cup {None}]
    BY DEF TabTypes, Slot
  <2>3. Continue(ok, i, jobs["late"])
    BY <1>1 DEF Answer
  <2>4. PICK n \in Job \cup {None} : jobs' = [now |-> n, late |-> jobs["late"]] /\ (n # None => Waits(n))
    BY <1>1, <2>1, <2>2, <2>3, ContinueIs
  <2>5. jobs' \in [Slot -> Job \cup {None}] /\ jobs'["now"] = n /\ jobs'["late"] = jobs["late"]
    <3>1. jobs' = [r \in Slot |-> IF r = "now" THEN n ELSE jobs["late"]]
      BY <2>4 DEF Slot
    <3> QED BY <2>2, <3>1 DEF Slot
  <2>6. GoesOn(i) /\ Awaited'
    BY <1>1, <2>1, <2>2, <2>3, ContinueIs
  <2> QED BY <1>1, <2>4, <2>5, <2>6 DEF Slot
<1>2. CASE s = "late"
  <2>1. jobs' = [jobs EXCEPT !["late"] = None] /\ UNCHANGED <<doing, index, given>>
    BY <1>2 DEF Answer, rust
  <2>2. jobs'["now"] = jobs["now"]
    BY <2>1 DEF TabTypes, Slot
  <2>3. GoesOn(i)
    BY <2>1 DEF GoesOn, TabTypes
  <2>4. Awaited'
    BY <2>1, <2>2 DEF Awaited
  <2> QED BY <1>2, <2>1, <2>3, <2>4 DEF TabTypes, Slot
<1> QED BY <1>1, <1>2 DEF Slot

\* A command goes on being handled while the tables keep what it has taken.
LEMMA HandledAfter ==
  ASSUME TabTypes, NEW j \in Job, Handled(j),
         groups \in Nat, groups' \in Nat, groups <= groups', born' \in Nat, born <= born',
         next' \in Nat, next <= next',
         \A k \in Index : k < next => managed'[k] \in {managed[k], None},
         Opening(j) => j.tab \in grouping' /\ \A k \in Index : managed'[k] = j.tab => managed[k] = j.tab,
         Making(j) => /\ agentGroup' # j.grp
                      /\ ~slipped' => ~slipped /\ \A t \in Tab : group'[t] = j.grp => group[t] = j.grp
  PROVE  Handled(j)'
<1> USE NoneIsNothing DEF Handled
<1>1. next \in Nat /\ born \in Nat /\ managed \in [Index -> Tab \cup {None}]
  BY DEF TabTypes, Kept, memory
<1>2. j.at # "start" =>
       /\ j.tab \in Tab /\ j.tab <= born'
       /\ j.kind = "new" => j.at \in {"group", "join", "name", "done"}
       /\ j.kind # "new" => j.at \in {"check", "go", "release", "ungroup", "remove", "forget"} /\ j.grp = None
       /\ j.kind \in {"switch", "close"} => j.i \in Index
       /\ j.grp # None => j.grp \in 1 .. groups'
       /\ j.at = "name" => j.grp # None
  BY <1>1
<1>3. Opening(j) \/ Closing(j) =>
       /\ j.i \in Index /\ j.i < next'
       /\ managed'[j.i] \in {j.tab, None}
  BY <1>1
<1>4. Opening(j) =>
       /\ j.tab \in grouping'
       /\ \A k \in Index : managed'[k] = j.tab => k = j.i
  OBVIOUS
<1>5. Making(j) =>
       /\ agentGroup' # j.grp
       /\ ~slipped' => \A t \in Tab : group'[t] = j.grp => t = j.tab
  OBVIOUS
<1> QED BY <1>2, <1>3, <1>4, <1>5 DEF Opening, Closing, Making

\* A command ends, and another one may wait in its place.
LEMMA JobsAfter ==
  ASSUME TabTypes, JobInv, NEW s \in Slot, jobs' \in [Slot -> Job \cup {None}],
         jobs'[s] # None => Waits(jobs'[s]),
         \A r \in Slot \ {s} : jobs'[r] = jobs[r],
         \A j \in Job : (\E r \in Slot \ {s} : jobs[r] = j) /\ Handled(j) => Handled(j)',
         \A t \in grouping' : t \in grouping /\ ~(jobs[s] # None /\ Opening(jobs[s]) /\ jobs[s].tab = t)
  PROVE  JobInv'
<1> USE NoneIsNothing
<1>1. jobs \in [Slot -> Job \cup {None}]
  BY DEF TabTypes
<1>2. ASSUME NEW j \in Job, Waits(j) PROVE Handled(j)' /\ ~Opening(j) /\ ~Making(j) /\ j.at = "start"
  BY <1>2 DEF Waits, Handled, Opening, Closing, Making
<1>3. ASSUME NEW r \in Slot, NEW j \in Job, jobs'[r] = j PROVE Handled(j)' /\ (j.at = "start" => Waits(j))
  <2>1. CASE r = s
    BY <1>2, <1>3, <2>1
  <2>2. CASE r # s
    <3>1. jobs[r] = j /\ jobs[r] # None
      BY <1>3, <2>2
    <3>2. Handled(j) /\ (j.at = "start" => Waits(j))
      BY <3>1 DEF JobInv
    <3> QED BY <2>2, <3>1, <3>2
  <2> QED BY <2>1, <2>2
<1>4. \A r \in Slot : jobs'[r] # None => Handled(jobs[r])' /\ (jobs'[r].at = "start" => Waits(jobs'[r]))
  <2> SUFFICES ASSUME NEW r \in Slot, jobs'[r] # None
               PROVE  Handled(jobs[r])' /\ (jobs'[r].at = "start" => Waits(jobs'[r]))
    OBVIOUS
  <2>1. PICK j \in Job : jobs'[r] = j
    OBVIOUS
  <2>2. Handled(j)' /\ (j.at = "start" => Waits(j))
    BY <1>3, <2>1
  <2> QED BY <2>1, <2>2 DEF Handled, Opening, Closing, Making
<1>5. \A q, r \in Slot : q # r /\ jobs'[q] # None /\ jobs'[r] # None /\ Opening(jobs'[q]) /\ Opening(jobs'[r]) =>
        /\ jobs'[q].tab # jobs'[r].tab
        /\ Making(jobs'[q]) => jobs'[q].grp # jobs'[r].grp
  BY <1>2 DEF JobInv
<1>6. \A t \in grouping' : \E r \in Slot : jobs'[r] # None /\ Opening(jobs'[r]) /\ jobs'[r].tab = t
  BY DEF JobInv
<1> QED BY <1>4, <1>5, <1>6 DEF JobInv, Opening, Making, Waits

\* A command takes its next step.
LEMMA JobMoves ==
  ASSUME TabTypes, JobInv, NEW s \in Slot, NEW n \in Job, jobs' = [jobs EXCEPT ![s] = n],
         n.at # "start", Handled(n)',
         \A j \in Job : (\E r \in Slot \ {s} : jobs[r] = j) /\ Handled(j) => Handled(j)',
         \A r \in Slot \ {s} : Opening(n) /\ jobs[r] # None /\ Opening(jobs[r]) =>
            /\ jobs[r].tab # n.tab
            /\ Making(n) \/ Making(jobs[r]) => jobs[r].grp # n.grp,
         \A t \in grouping' : \/ Opening(n) /\ n.tab = t
                              \/ t \in grouping /\ ~(jobs[s] # None /\ Opening(jobs[s]) /\ jobs[s].tab = t)
  PROVE  JobInv' /\ jobs' \in [Slot -> Job \cup {None}]
<1> USE NoneIsNothing
<1>1. jobs \in [Slot -> Job \cup {None}]
  BY DEF TabTypes
<1>2. jobs' \in [Slot -> Job \cup {None}] /\ jobs'[s] = n /\ \A r \in Slot \ {s} : jobs'[r] = jobs[r]
  BY <1>1
<1>3. ASSUME NEW r \in Slot, NEW j \in Job, jobs'[r] = j PROVE Handled(j)' /\ (j.at = "start" => Waits(j))
  <2>1. CASE r = s
    BY <1>2, <1>3, <2>1
  <2>2. CASE r # s
    <3>1. jobs[r] = j /\ jobs[r] # None
      BY <1>2, <1>3, <2>2
    <3>2. Handled(j) /\ (j.at = "start" => Waits(j))
      BY <3>1 DEF JobInv
    <3> QED BY <2>2, <3>1, <3>2
  <2> QED BY <2>1, <2>2
<1>4. \A r \in Slot : jobs'[r] # None => Handled(jobs[r])' /\ (jobs'[r].at = "start" => Waits(jobs'[r]))
  <2> SUFFICES ASSUME NEW r \in Slot, jobs'[r] # None
               PROVE  Handled(jobs[r])' /\ (jobs'[r].at = "start" => Waits(jobs'[r]))
    OBVIOUS
  <2>1. PICK j \in Job : jobs'[r] = j
    BY <1>2
  <2>2. Handled(j)' /\ (j.at = "start" => Waits(j))
    BY <1>3, <2>1
  <2> QED BY <2>1, <2>2 DEF Handled, Opening, Closing, Making
<1>5. \A q, r \in Slot : q # r /\ jobs'[q] # None /\ jobs'[r] # None /\ Opening(jobs'[q]) /\ Opening(jobs'[r]) =>
        /\ jobs'[q].tab # jobs'[r].tab
        /\ Making(jobs'[q]) => jobs'[q].grp # jobs'[r].grp
  BY <1>2 DEF JobInv
<1>6. \A t \in grouping' : \E r \in Slot : jobs'[r] # None /\ Opening(jobs'[r]) /\ jobs'[r].tab = t
  BY <1>2 DEF JobInv
<1>7. JobInv'
  BY <1>4, <1>5, <1>6 DEF JobInv, Opening, Making, Waits
<1> QED BY <1>2, <1>7

\* The contexts keep their places.
LEMMA PlacesAfter ==
  ASSUME TabTypes, PlacesKept, NEW i \in Index \cup {None}, GoesOn(i),
         next' \in Nat, next <= next',
         \A k \in Index : k < next => managed'[k] \in {managed[k], None},
         \/ saved' = memory'
         \/ saved' = saved,
         i \in Index => saved' = memory' /\ managed' = managed /\ next' = next
  PROVE  PlacesKept'
<1> USE NoneIsNothing
<1>1. next \in Nat /\ managed \in [Index -> Tab \cup {None}] /\ saved[2] \in Nat
      /\ \A k \in Index : managed[k] # None => k < next
  BY DEF TabTypes, Kept, memory
<1>2. saved' = memory' => saved'[1] = managed' /\ saved'[2] = next'
  BY DEF memory
<1> SUFFICES ASSUME NEW c \in Ctx, index'[c] # None, given'[c] # None
             PROVE  /\ index'[c] < next' /\ index'[c] < saved'[2]
                    /\ managed'[index'[c]] \in {given'[c], None}
                    /\ saved'[1][index'[c]] \in {given'[c], None}
  BY DEF PlacesKept
<1>3. CASE index'[c] = index[c] /\ given'[c] = given[c]
  <2>1. /\ index[c] \in Index /\ index[c] < next /\ index[c] < saved[2]
        /\ managed[index[c]] \in {given[c], None} /\ saved[1][index[c]] \in {given[c], None}
    BY <1>3 DEF PlacesKept, TabTypes
  <2>2. managed'[index[c]] \in {managed[index[c]], None} /\ index[c] < next'
    BY <1>1, <2>1 DEF Index
  <2> QED BY <1>2, <1>3, <2>1, <2>2
<1>4. CASE i \in Index /\ index'[c] = i /\ given'[c] = managed[i]
  <2>1. i < next
    BY <1>1, <1>4
  <2>2. saved' = memory' /\ managed' = managed /\ next' = next
    BY <1>4
  <2> QED BY <1>2, <1>4, <2>1, <2>2
<1> QED BY <1>3, <1>4 DEF GoesOn

\* What a step leaves alone that only the commands and the contexts go through.
Quiet == UNCHANGED <<group, born, groups, managed, next, active, agentGroup, adopted, grouping, saved, slipped>>

LEMMA HandledQuietly ==
  ASSUME TabTypes, Quiet, NEW j \in Job, Handled(j)
  PROVE  Handled(j)'
<1>1. groups' = groups /\ groups \in Nat /\ born' = born /\ born \in Nat /\ next' = next /\ next \in Nat
  BY NoneIsNothing DEF TabTypes, Quiet, Kept, memory
<1>2. managed' = managed /\ grouping' = grouping /\ group' = group /\ agentGroup' = agentGroup /\ slipped' = slipped
  BY DEF Quiet
<1>3. Opening(j) => j.tab \in grouping' /\ \A k \in Index : managed'[k] = j.tab => managed[k] = j.tab
  BY <1>2 DEF Handled
<1>4. Making(j) => /\ agentGroup' # j.grp
                   /\ ~slipped' => ~slipped /\ \A t \in Tab : group'[t] = j.grp => group[t] = j.grp
  BY <1>2 DEF Handled
<1> QED BY <1>1, <1>2, <1>3, <1>4, HandledAfter

\* Who is being released stays so.
LEMMA QuietKept ==
  ASSUME TabInv, Quiet, GoesOn(None), Awaited', JobInv', jobs' \in [Slot -> Job \cup {None}],
         \A s \in Slot : Parts(s) =>
            \E r \in Slot : Parts(r)' /\ jobs'[r].tab = jobs[s].tab
  PROVE  TabInv'
<1> USE DEF TabInv
<1>1. TabTypes'
  BY DEF TabTypes, Quiet, Kept, memory, GoesOn
<1>2. PlacesKept'
  <2>1. /\ next' = next /\ next \in Nat /\ managed' = managed /\ saved' = saved
    BY NoneIsNothing DEF TabTypes, Quiet, Kept, memory
  <2>2. \A k \in Index : k < next => managed'[k] \in {managed[k], None}
    BY <2>1
  <2>3. next' \in Nat /\ next <= next' /\ None \in Index \cup {None} /\ None \notin Index
    BY <2>1, NoneIsNothing
  <2> QED BY <2>1, <2>2, <2>3, PlacesAfter
<1>3. GroupInv'
  <2>1. \A t \in Tab : InGroup(t)' <=> InGroup(t)
    BY DEF Quiet, InGroup
  <2>2. Managed' = Managed
    BY DEF Quiet, Managed
  <2>3. GroupInv
    OBVIOUS
  <2>4. ~slipped => \A t \in Tab : InGroup(t) => t \in Managed \/ Releasing(t)'
    BY DEF GroupInv, Releasing
  <2> QED BY <2>1, <2>2, <2>3, <2>4 DEF GroupInv, Quiet
<1> QED BY <1>1, <1>2, <1>3

\* The context takes the bridge.
LEMMA BeginKept ==
  ASSUME TabInv, NEW c \in Ctx, NEW stage \in {"switch", "fork", "end"}, NEW job \in Job,
         Waits(job), Begin(c, stage, job),
         job.kind = IF stage = "switch" THEN "switch" ELSE IF stage = "fork" THEN "new" ELSE "close",
         stage = "switch" => job.i = index[c] /\ index[c] # None
  PROVE  TabInv'
<1> USE NoneIsNothing DEF TabInv
<1>1. /\ doing = None /\ jobs["now"] = None /\ doing' = [by |-> c, stage |-> stage]
      /\ jobs' = [jobs EXCEPT !["now"] = job] /\ UNCHANGED <<index, given>> /\ Quiet
  BY DEF Begin, browser, memory, history, Quiet, Awaited
<1>2. /\ jobs' \in [Slot -> Job \cup {None}] /\ jobs'["now"] = job /\ job # None
      /\ \A r \in Slot \ {"now"} : jobs'[r] = jobs[r]
  BY <1>1 DEF TabTypes, Slot
<1>3. GoesOn(None)
  BY <1>1 DEF GoesOn, TabTypes, Turn
<1>4. Awaited'
  <2>1. doing' \in Turn /\ doing'.stage = stage /\ doing'.by = c
    BY <1>1 DEF Turn
  <2> QED BY <1>1, <1>2, <2>1 DEF Awaited
<1>5. JobInv'
  <2>1. \A j \in Job : Handled(j) => Handled(j)'
    BY <1>1, HandledQuietly
  <2>2. \A t \in grouping' : t \in grouping
    BY <1>1 DEF Quiet
  <2>3. "now" \in Slot
    BY DEF Slot
  <2> QED BY <1>1, <1>2, <2>1, <2>2, <2>3, JobsAfter
<1>6. \A s \in Slot : Parts(s) => Parts(s)' /\ jobs'[s] = jobs[s]
  BY <1>1, <1>2 DEF Parts, Parting
<1> QED BY <1>1, <1>2, <1>3, <1>4, <1>5, <1>6, QuietKept

LEMMA TurnsBegin ==
  ASSUME TabInv, NEW c \in Ctx, Acquire(c) \/ Open(c) \/ Close(c)
  PROVE  TabInv'
<1> USE NoneIsNothing
<1>1. index \in [Ctx -> Index \cup {None}]
  BY DEF TabInv, TabTypes
<1>2. CASE Acquire(c)
  <2>1. index[c] \in Index
    BY <1>1, <1>2 DEF Acquire, InUse
  <2>2. Command("switch", index[c]) \in Job /\ Waits(Command("switch", index[c]))
        /\ Command("switch", index[c]).kind = "switch" /\ Command("switch", index[c]).i = index[c]
    BY <2>1, CommandIs
  <2> QED BY <1>2, <2>1, <2>2, BeginKept DEF Acquire
<1>3. CASE Open(c)
  <2>1. Command("new", None) \in Job /\ Waits(Command("new", None)) /\ Command("new", None).kind = "new"
    BY CommandIs
  <2> QED BY <1>3, <2>1, BeginKept DEF Open
<1>4. CASE Close(c)
  <2>1. index[c] \in Index
    BY <1>1, <1>4 DEF Close, InUse
  <2>2. Command("close", index[c]) \in Job /\ Waits(Command("close", index[c])) /\ Command("close", index[c]).kind = "close"
    BY <2>1, CommandIs
  <2> QED BY <1>4, <2>2, BeginKept DEF Close
<1> QED BY <1>2, <1>3, <1>4

\* Nobody waits for the command any more; it is handled on.
LEMMA TimesOutKept ==
  ASSUME TabInv, TimesOut
  PROVE  TabInv'
<1> USE NoneIsNothing DEF TabInv
<1>1. /\ jobs["now"] # None /\ jobs["late"] = None /\ Continue(FALSE, None, jobs["now"]) /\ Quiet
  BY DEF TimesOut, browser, memory, Quiet
<1>2. doing # None /\ jobs["now"] \in Job
  BY <1>1 DEF Awaited, TabTypes, Slot
<1>3. PICK n \in Job \cup {None} : jobs' = [now |-> n, late |-> jobs["now"]] /\ (n # None => Waits(n))
  BY <1>1, <1>2, ContinueIs
<1>4. GoesOn(None) /\ Awaited'
  BY <1>1, <1>2, ContinueIs
<1>5. jobs' \in [Slot -> Job \cup {None}] /\ jobs'["now"] = n /\ jobs'["late"] = jobs["now"]
  <2>1. jobs' = [r \in Slot |-> IF r = "now" THEN n ELSE jobs["now"]]
    BY <1>3 DEF Slot
  <2> QED BY <1>2, <2>1 DEF Slot
<1>6. JobInv'
  <2>1. \A j \in Job : Handled(j) => Handled(j)'
    BY <1>1, HandledQuietly
  <2>2. n # None => Handled(n)' /\ ~Opening(n) /\ ~Making(n)
    BY <1>3 DEF Waits, Handled, Opening, Closing, Making
  <2>3. PICK l \in Job : jobs["now"] = l
    BY <1>2
  <2>4. Handled(l)' /\ l # None /\ jobs'["late"] = l /\ (l.at = "start" => Waits(l))
    BY <1>1, <1>5, <2>1, <2>3 DEF JobInv, Slot
  <2>5. \A r \in Slot : jobs'[r] # None => Handled(jobs[r])' /\ (jobs'[r].at = "start" => Waits(jobs'[r]))
    <3>1. n # None => Handled(jobs["now"])' /\ Waits(jobs'["now"])
      BY <1>3, <1>5, <2>2 DEF Handled, Opening, Closing, Making
    <3>2. Handled(jobs["late"])' /\ (jobs'["late"].at = "start" => Waits(jobs'["late"]))
      BY <2>4 DEF Handled, Opening, Closing, Making
    <3> QED BY <1>5, <3>1, <3>2 DEF Slot
  <2>6. \A q, r \in Slot : q # r /\ jobs'[q] # None /\ jobs'[r] # None => ~(Opening(jobs'[q]) /\ Opening(jobs'[r]))
    BY <1>5, <2>2 DEF Slot
  <2>7. \A t \in grouping' : \E r \in Slot : jobs'[r] # None /\ Opening(jobs'[r]) /\ jobs'[r].tab = t
    <3> SUFFICES ASSUME NEW t \in grouping PROVE jobs'["late"] # None /\ Opening(jobs'["late"]) /\ jobs'["late"].tab = t
      BY <1>1 DEF Quiet, Slot
    <3>1. PICK r \in Slot : jobs[r] # None /\ Opening(jobs[r]) /\ jobs[r].tab = t
      BY DEF JobInv
    <3>2. r = "now"
      BY <1>1, <3>1 DEF Slot
    <3> QED BY <2>3, <2>4, <3>1, <3>2
  <2> QED BY <2>5, <2>6, <2>7 DEF JobInv, Opening, Making, Waits
<1>7. ASSUME NEW s \in Slot, Parts(s) PROVE \E r \in Slot : Parts(r)' /\ jobs'[r].tab = jobs[s].tab
  <2>1. s = "now" /\ jobs'["late"] = jobs[s]
    BY <1>1, <1>5, <1>7 DEF Parts, Slot
  <2> QED BY <1>7, <2>1 DEF Parts, Parting, Slot
<1> QED BY <1>1, <1>4, <1>5, <1>6, <1>7, QuietKept

\* A command takes its next step and nothing else happens.
LEMMA MovesIs ==
  ASSUME TabTypes, NEW s \in Slot, jobs[s] # None, NEW a \in {"check", "go", "release", "ungroup", "remove", "forget"}, NEW t \in Tab, Moves(s, a, t)
  PROVE  \E n \in Job : /\ jobs' = [jobs EXCEPT ![s] = n]
                        /\ n.kind = jobs[s].kind /\ n.i = jobs[s].i /\ n.grp = jobs[s].grp
                        /\ n.at = a /\ n.tab = t
<1> USE NoneIsNothing
<1>1. jobs \in [Slot -> Job \cup {None}] /\ jobs[s] \in Job
  BY DEF TabTypes
<1>2. PICK j \in Job : jobs[s] = j
  BY <1>1
<1> DEFINE m == [j EXCEPT !.at = a]
           n == [m EXCEPT !.tab = t]
<1>3. m \in Job /\ m.kind = j.kind /\ m.i = j.i /\ m.grp = j.grp /\ m.at = a
  BY DEF Job
<1>5. n \in Job /\ n.kind = m.kind /\ n.i = m.i /\ n.grp = m.grp /\ n.at = m.at /\ n.tab = t
  <2> HIDE DEF m
  <2> QED BY <1>3 DEF Job
<1>4. jobs' = [jobs EXCEPT ![s] = n]
  BY <1>1, <1>2 DEF Moves
<1> HIDE DEF m, n
<1> QED BY <1>2, <1>3, <1>4, <1>5

\* An answer that goes nowhere near the tables.
LEMMA QuietAnswer ==
  ASSUME TabInv, Quiet, NEW s \in Slot, jobs[s] # None, jobs[s].kind # "new" \/ jobs[s].at = "start",
         ~Parting(jobs[s]),
         NEW ok \in BOOLEAN, Answer(s, ok, None), ok => jobs[s].kind \in {"act", "close"}
  PROVE  TabInv'
<1> USE NoneIsNothing DEF TabInv
<1>1. s = "now" /\ ok => doing.stage \in {"act", "end"}
  BY DEF Awaited
<1>2. GoesOn(None) /\ Awaited' /\ jobs' \in [Slot -> Job \cup {None}]
      /\ (jobs'[s] # None => Waits(jobs'[s])) /\ \A r \in Slot \ {s} : jobs'[r] = jobs[r]
  BY <1>1, AnswerIs
<1>3. JobInv'
  <2>1. \A j \in Job : Handled(j) => Handled(j)'
    BY HandledQuietly
  <2>2. \A t \in grouping' : t \in grouping
    BY DEF Quiet
  <2> QED BY <1>2, <2>1, <2>2, JobsAfter DEF Opening
<1>4. \A r \in Slot : Parts(r) => Parts(r)' /\ jobs'[r].tab = jobs[r].tab
  BY <1>2 DEF Parts, Parting
<1> QED BY <1>2, <1>3, <1>4, QuietKept

\* A command that is handled one step further.
LEMMA QuietMove ==
  ASSUME TabInv, Quiet, UNCHANGED <<doing, index, given>>, NEW s \in Slot, jobs[s] # None,
         jobs[s].kind # "new",
         NEW n \in Job, jobs' = [jobs EXCEPT ![s] = n], n.kind = jobs[s].kind, n.i = jobs[s].i,
         n.at # "start", Handled(n), Parting(jobs[s]) => Parting(n) /\ n.tab = jobs[s].tab
  PROVE  TabInv'
<1> USE NoneIsNothing DEF TabInv
<1>1. \A j \in Job : Handled(j) => Handled(j)'
  BY HandledQuietly
<1>2. JobInv' /\ jobs' \in [Slot -> Job \cup {None}]
  <2>1. \A t \in grouping' : t \in grouping
    BY DEF Quiet
  <2>2. Handled(n)'
    BY <1>1
  <2>3. ~Opening(n) /\ ~Opening(jobs[s])
    BY DEF Opening
  <2> QED BY <1>1, <2>1, <2>2, <2>3, JobMoves
<1>3. jobs'[s] = n /\ \A r \in Slot \ {s} : jobs'[r] = jobs[r]
  BY DEF TabTypes
<1>4. GoesOn(None)
  BY DEF GoesOn, TabTypes
<1>5. Awaited'
  <2>1. jobs'["now"] = None <=> jobs["now"] = None
    BY <1>3 DEF Slot
  <2>2. jobs["now"] # None => jobs'["now"].kind = jobs["now"].kind /\ jobs'["now"].i = jobs["now"].i
    BY <1>3 DEF Slot
  <2> QED BY <2>1, <2>2 DEF Awaited
<1>6. ASSUME NEW r \in Slot, Parts(r) PROVE Parts(r)' /\ jobs'[r].tab = jobs[r].tab
  BY <1>3, <1>6 DEF Parts, Parting
<1> QED BY <1>2, <1>4, <1>5, <1>6, QuietKept

LEMMA StartsKept ==
  ASSUME TabInv, NEW s \in Slot, Starts(s)
  PROVE  TabInv'
<1> USE NoneIsNothing DEF TabInv
<1>1. /\ jobs[s] # None /\ jobs[s].kind \in {"switch", "act", "close"} /\ jobs[s].at = "start" /\ Quiet
      /\ IF Target(s) = None THEN Answer(s, jobs[s].kind = "close", None)
         ELSE Moves(s, "check", Target(s)) /\ UNCHANGED <<doing, index, given>>
  BY DEF Starts, At, browser, memory, history, rust, Quiet
<1>2. jobs[s] \in Job /\ Waits(jobs[s])
  BY <1>1 DEF TabTypes, JobInv
<1>3. managed \in [Index -> Tab \cup {None}] /\ active \in Index
      /\ \A i \in Index : managed[i] # None => i < next /\ managed[i] <= born
  BY DEF TabTypes, Kept, memory
<1>4. CASE Target(s) = None
  <2>1. (jobs[s].kind = "close") \in BOOLEAN
    OBVIOUS
  <2> QED BY <1>1, <1>4, <2>1, QuietAnswer DEF Parting
<1>5. CASE Target(s) # None
  <2>1. jobs[s].kind # "act" => jobs[s].i \in Index /\ Target(s) = managed[jobs[s].i]
    BY <1>1, <1>2 DEF Waits, Target
  <2>2. Target(s) \in Tab /\ Target(s) <= born
    <3>1. CASE jobs[s].kind # "act"
      BY <1>3, <1>5, <2>1, <3>1
    <3>2. CASE jobs[s].kind = "act"
      <4>1. Target(s) = ActiveTab
        BY <3>2 DEF Target
      <4>2. CASE managed[active] # None
        BY <1>3, <4>1, <4>2 DEF ActiveTab
      <4>3. CASE managed[active] = None
        <5>1. Managed # {}
          BY <1>5, <4>1, <4>3 DEF ActiveTab
        <5> DEFINE top == CHOOSE i \in Index : managed[i] # None /\ \A j \in Index : managed[j] # None => j <= i
        <5>2. \E i \in Index : managed[i] # None /\ \A j \in Index : managed[j] # None => j <= i
          <6> DEFINE I == {i \in Index : managed[i] # None}
          <6>1. I \subseteq Nat /\ I # {}
            BY <5>1 DEF Managed
          <6>2. IsFiniteSet(I)
            <7>1. IsFiniteSet(Index)
              BY TabsAssumption, FS_Interval DEF Index
            <7>2. I \subseteq Index
              OBVIOUS
            <7> HIDE DEF I
            <7> QED BY <7>1, <7>2, FS_Subset
          <6>3. \E m \in I : \A k \in I : k <= m
            <7> HIDE DEF I
            <7> QED BY <6>1, <6>2, Greatest
          <6> QED BY <6>3
        <5>3. top \in Index /\ managed[top] # None
          BY <5>2
        <5>4. Target(s) = managed[top]
          BY <4>1, <4>3, <5>1 DEF ActiveTab
        <5> HIDE DEF top
        <5> QED BY <1>3, <5>3, <5>4
      <4> QED BY <4>2, <4>3
    <3> QED BY <3>1, <3>2
  <2>3. PICK n \in Job : /\ jobs' = [jobs EXCEPT ![s] = n]
                         /\ n.kind = jobs[s].kind /\ n.i = jobs[s].i /\ n.grp = jobs[s].grp
                         /\ n.at = "check" /\ n.tab = Target(s)
    <3>1. PICK t \in Tab : t = Target(s)
      BY <2>2
    <3>2. Moves(s, "check", t)
      BY <1>1, <1>5, <3>1
    <3>3. TabTypes /\ jobs[s] # None /\ "check" \in {"check", "go", "release", "ungroup", "remove", "forget"}
      BY <1>1
    <3>4. \E n \in Job : /\ jobs' = [jobs EXCEPT ![s] = n]
                         /\ n.kind = jobs[s].kind /\ n.i = jobs[s].i /\ n.grp = jobs[s].grp
                         /\ n.at = "check" /\ n.tab = t
      BY ONLY <3>1, <3>2, <3>3, MovesIs
    <3> QED BY <3>1, <3>4
  <2>4. Handled(n)
    BY <1>1, <1>2, <1>3, <1>5, <2>1, <2>2, <2>3 DEF Handled, Opening, Closing, Making, Waits
  <2> QED BY <1>1, <1>5, <2>3, <2>4, QuietMove DEF Parting
<1> QED BY <1>4, <1>5

LEMMA ActsKept ==
  ASSUME TabInv, NEW s \in Slot, Acts(s)
  PROVE  TabInv'
<1>1. /\ jobs[s] # None /\ jobs[s].kind = "act" /\ jobs[s].at = "go" /\ Quiet /\ Answer(s, TRUE, None)
  BY DEF Acts, At, browser, memory, history, Quiet
<1> QED BY <1>1, QuietAnswer DEF Parting

\* What a step may take away: entries, places on the way, and tabs from their group.
Shrinks ==
  /\ managed' \in [Index -> Tab \cup {None}]
  /\ \A k \in Index : managed'[k] \in {managed[k], None}
  /\ UNCHANGED <<born, groups, next>> /\ active' \in Index
  /\ agentGroup' \in {agentGroup, KnownGroup}
  /\ adopted' \subseteq adopted /\ grouping' \subseteq grouping
  /\ group' \in [Tab -> Int]
  /\ \A t \in Tab : /\ group'[t] \in {group[t], Ungrouped, Gone}
                    /\ group[t] = Gone => group'[t] = Gone
  /\ \/ saved' = memory'
     \/ saved' = saved
  /\ slipped' \in BOOLEAN /\ (slipped => slipped')

\* Nobody is in a group without a number.
LEMMA GroupsKnown ==
  ASSUME TabTypes
  PROVE  /\ agentGroup = None \/ agentGroup \in Nat \ {0}
         /\ saved[4] = None \/ saved[4] \in Nat \ {0}
         /\ KnownGroup \in {agentGroup, None}
         /\ KnownGroup = None => agentGroup = None \/ ~Exists(agentGroup)
  BY DEF TabTypes, Kept, memory, KnownGroup, Exists

\* Who joined the group while something was taken away was in it before.
LEMMA ShrunkGroups ==
  ASSUME TabTypes, Shrinks
  PROVE  /\ \A t \in Tab : InGroup(t)' => InGroup(t) /\ agentGroup' = agentGroup
         /\ \A g \in Nat \ {0} : Exists(g)' => Exists(g)
<1>1. /\ agentGroup = None \/ agentGroup \in Nat \ {0}
      /\ agentGroup' \in {agentGroup, None}
  BY GroupsKnown DEF Shrinks
<1>2. ASSUME NEW t \in Tab, NEW g \in Nat \ {0}, group'[t] = g PROVE group[t] = g
  BY <1>2 DEF Shrinks, Ungrouped, Gone
<1>3. ASSUME NEW t \in Tab, InGroup(t)' PROVE InGroup(t) /\ agentGroup' = agentGroup
  <2>1. agentGroup' = agentGroup /\ agentGroup \in Nat \ {0} /\ group'[t] = agentGroup
    BY <1>1, <1>3 DEF InGroup
  <2> QED BY <1>2, <1>3, <2>1 DEF InGroup
<1>4. ASSUME NEW g \in Nat \ {0}, Exists(g)' PROVE Exists(g)
  <2>1. PICK t \in Tab : group'[t] = g
    BY <1>4 DEF Exists
  <2>2. group[t] = g /\ g # None
    BY <1>2, <1>4, <2>1 DEF Exists
  <2> QED BY <2>2 DEF Exists
<1> QED BY <1>3, <1>4

\* The commands that are handled stay so.
LEMMA HandledShrinks ==
  ASSUME TabTypes, Shrinks, NEW j \in Job, Handled(j), Opening(j) => j.tab \in grouping'
  PROVE  Handled(j)'
<1> USE NoneIsNothing
<1>1. groups' = groups /\ groups \in Nat /\ born' = born /\ born \in Nat /\ next' = next /\ next \in Nat
  BY DEF TabTypes, Shrinks, Kept, memory
<1>2. managed' \in [Index -> Tab \cup {None}] /\ \A k \in Index : managed'[k] \in {managed[k], None}
  BY DEF Shrinks
<1>3. Opening(j) => j.tab \in grouping' /\ \A k \in Index : managed'[k] = j.tab => managed[k] = j.tab
  BY <1>2 DEF Handled, Opening
<1>4. ASSUME Making(j)
      PROVE  /\ agentGroup' # j.grp
             /\ ~slipped' => ~slipped /\ \A t \in Tab : group'[t] = j.grp => group[t] = j.grp
  <2>1. j.grp \in Nat \ {0} /\ agentGroup # j.grp
    BY <1>1, <1>4 DEF Handled, Making
  <2>2. agentGroup' \in {agentGroup, None}
    BY GroupsKnown DEF Shrinks
  <2>3. \A t \in Tab : group'[t] = j.grp => group[t] = j.grp
    BY <2>1 DEF Shrinks, Ungrouped, Gone
  <2>4. slipped => slipped'
    BY DEF Shrinks
  <2>5. agentGroup' # j.grp
    BY <2>1, <2>2 DEF TabsAssumption
  <2> HIDE DEF Shrinks
  <2> QED BY <2>3, <2>4, <2>5
<1>5. \A k \in Index : k < next => managed'[k] \in {managed[k], None}
  BY <1>2
<1> QED BY <1>1, <1>3, <1>4, <1>5, HandledAfter

\* Nothing that is left loses what it needs.
LEMMA ShrinkKept ==
  ASSUME TabInv, Shrinks, NEW i \in Index \cup {None}, GoesOn(i), Awaited', JobInv',
         jobs' \in [Slot -> Job \cup {None}],
         i \in Index => saved' = memory' /\ managed' = managed,
         \A k \in Index : managed'[k] # None /\ managed[k] \in grouping /\ saved' = saved => managed[k] \in grouping',
         ~slipped' => \A t \in grouping' : group'[t] # Gone /\ t \in Managed => t \in Managed',
         ~slipped' => \A t \in Tab : InGroup(t)' /\ (t \in Managed \/ Releasing(t)) => t \in Managed' \/ Releasing(t)'
  PROVE  TabInv'
<1> USE NoneIsNothing DEF TabInv
<1>1. /\ next \in Nat /\ born \in Nat /\ groups \in Nat /\ UNCHANGED <<next, born, groups>>
      /\ managed' \in [Index -> Tab \cup {None}] /\ \A k \in Index : managed'[k] \in {managed[k], None}
  BY DEF TabTypes, Shrinks, Kept, memory
<1>2. agentGroup' \in {agentGroup, None}
  BY GroupsKnown DEF Shrinks
<1>3. Kept(memory)'
  <2>1. Kept(memory)
    BY DEF TabTypes
  <2> QED BY <1>1, <1>2, <2>1 DEF Shrinks, Kept, memory
<1>4. Kept(saved)'
  <2>1. CASE saved' = memory'
    BY <1>3, <2>1 DEF Kept
  <2>2. CASE saved' = saved
    BY <1>1, <2>2 DEF TabTypes, Kept
  <2> QED BY <2>1, <2>2 DEF Shrinks
<1>5. TabTypes'
  <2>1. group' \in [Tab -> Int] /\ grouping' \subseteq Tab /\ slipped' \in BOOLEAN
    BY DEF Shrinks, TabTypes
  <2>2. \A t \in Tab : group'[t] <= groups' /\ (t > born' => group'[t] = Gone)
    BY <1>1 DEF Shrinks, TabTypes, Ungrouped, Gone
  <2> QED BY <1>1, <1>3, <1>4, <2>1, <2>2 DEF TabTypes, GoesOn
<1>6. PlacesKept'
  <2>1. \A k \in Index : k < next => managed'[k] \in {managed[k], None}
    BY <1>1
  <2>2. saved' = memory' \/ saved' = saved
    BY DEF Shrinks
  <2>3. i \in Index => saved' = memory' /\ managed' = managed /\ next' = next
    BY <1>1
  <2> QED BY <1>1, <2>1, <2>2, <2>3, PlacesAfter
<1>7. GroupInv'
  <2>1. \A k \in Index : managed'[k] # None => managed'[k] \in grouping' \/ \E l \in Index : saved'[1][l] = managed'[k]
    <3>1. saved' = memory' => saved'[1] = managed'
      BY DEF memory
    <3>2. ASSUME NEW k \in Index, managed'[k] # None, saved' = saved
          PROVE  managed'[k] \in grouping' \/ \E l \in Index : saved'[1][l] = managed'[k]
      BY <1>1, <3>2 DEF GroupInv
    <3> QED BY <3>1, <3>2 DEF Shrinks
  <2>3. ASSUME ~slipped' PROVE \A t \in grouping' : group'[t] # Gone => t \in Managed'
    <3> SUFFICES ASSUME NEW t \in grouping', group'[t] # Gone PROVE t \in Managed'
      OBVIOUS
    <3>1. t \in grouping /\ group[t] # Gone /\ ~slipped
      BY <2>3 DEF Shrinks, TabTypes
    <3>2. t \in Managed
      BY <3>1 DEF GroupInv
    <3> QED BY <2>3, <3>2
  <2>4. ASSUME ~slipped' PROVE \A t \in Tab : InGroup(t)' => t \in Managed' \/ Releasing(t)'
    <3> SUFFICES ASSUME NEW t \in Tab, InGroup(t)' PROVE t \in Managed' \/ Releasing(t)'
      OBVIOUS
    <3>1. ~slipped /\ InGroup(t)
      BY <2>4, ShrunkGroups DEF Shrinks
    <3>2. t \in Managed \/ Releasing(t)
      BY <3>1 DEF GroupInv, Releasing
    <3> QED BY <2>4, <3>2
  <2> QED BY <2>1, <2>3, <2>4 DEF GroupInv
<1> QED BY <1>5, <1>6, <1>7

\* The entries of one tab are taken away.
LEMMA NotManagingIs ==
  ASSUME TabTypes, NEW t \in Tab, managed' = NotManaging(t)
  PROVE  /\ managed' \in [Index -> Tab \cup {None}]
         /\ \A k \in Index : managed'[k] \in {managed[k], None}
         /\ \A u \in Tab : u \in Managed /\ u # t => u \in Managed'
<1>1. managed \in [Index -> Tab \cup {None}]
  BY DEF TabTypes, Kept, memory
<1>2. /\ managed' \in [Index -> Tab \cup {None}]
      /\ \A k \in Index : managed'[k] = IF managed[k] = t THEN None ELSE managed[k]
  BY <1>1 DEF NotManaging
<1>3. ASSUME NEW u \in Tab, u \in Managed, u # t PROVE u \in Managed'
  BY <1>2, <1>3, NoneIsNothing DEF Managed
<1> QED BY <1>2, <1>3

\* A command is answered while entries are taken away.
LEMMA AnsweredKept ==
  ASSUME TabInv, Shrinks, NEW s \in Slot, jobs[s] # None,
         NEW ok \in BOOLEAN, NEW i \in Index \cup {None}, Answer(s, ok, i),
         ok => jobs[s].kind \in {"act", "close"} \/ (jobs[s].kind = "switch" /\ i = jobs[s].i),
         i \in Index => saved' = memory' /\ managed' = managed,
         \A k \in Index : managed'[k] # None /\ managed[k] \in grouping /\ saved' = saved => managed[k] \in grouping',
         \A t \in grouping : t \in grouping' <=> ~(Opening(jobs[s]) /\ jobs[s].tab = t),
         ~slipped' => \A t \in grouping' : group'[t] # Gone /\ t \in Managed => t \in Managed',
         ~slipped' => \A t \in Tab : InGroup(t)' /\ t \in Managed => t \in Managed',
         \A t \in Tab : Parts(s) /\ jobs[s].tab = t => ~InGroup(t)'
  PROVE  TabInv'
<1> USE NoneIsNothing DEF TabInv
<1>1. GoesOn(i) /\ Awaited' /\ jobs' \in [Slot -> Job \cup {None}]
      /\ (jobs'[s] # None => Waits(jobs'[s])) /\ \A r \in Slot \ {s} : jobs'[r] = jobs[r]
  <2>1. s = "now" /\ ok => doing.stage \notin {"open", "fork"} /\ (doing.stage = "switch" => i = index[doing.by])
    BY DEF Awaited
  <2> QED BY <2>1, AnswerIs
<1>2. grouping' \subseteq grouping
  BY DEF Shrinks
<1>3. JobInv'
  <2>1. ASSUME NEW j \in Job, NEW r \in Slot \ {s}, jobs[r] = j, Handled(j) PROVE Handled(j)'
    <3>1. Opening(j) => j.tab \in grouping /\ ~(Opening(jobs[s]) /\ jobs[s].tab = j.tab)
      BY <2>1 DEF JobInv, Handled
    <3>2. Opening(j) => j.tab \in grouping'
      BY <3>1
    <3> QED BY <2>1, <3>2, HandledShrinks
  <2>2. \A t \in grouping' : t \in grouping /\ ~(jobs[s] # None /\ Opening(jobs[s]) /\ jobs[s].tab = t)
    BY <1>2
  <2> QED BY <1>1, <2>1, <2>2, JobsAfter
<1>4. \A t \in Tab : InGroup(t)' /\ Releasing(t) => Releasing(t)'
  <2> SUFFICES ASSUME NEW t \in Tab, InGroup(t)', Releasing(t) PROVE Releasing(t)'
    OBVIOUS
  <2>1. PICK r \in Slot : Parts(r) /\ jobs[r].tab = t
    BY DEF Releasing
  <2>2. r # s
    BY <2>1
  <2>3. Parts(r)' /\ jobs'[r].tab = t
    BY <1>1, <2>1, <2>2 DEF Parts, Parting
  <2> QED BY <2>3 DEF Releasing
<1>5. \A k \in Index : managed'[k] # None /\ managed[k] \in grouping /\ saved' = saved => managed[k] \in grouping'
  OBVIOUS
<1>6. ~slipped' => \A t \in Tab : InGroup(t)' /\ (t \in Managed \/ Releasing(t)) => t \in Managed' \/ Releasing(t)'
  BY <1>4
<1> QED BY <1>1, <1>3, <1>5, <1>6, ShrinkKept

\* A command takes a step while entries are taken away.
LEMMA MovedKept ==
  ASSUME TabInv, Shrinks, UNCHANGED <<doing, index, given, grouping>>, NEW s \in Slot, jobs[s] # None,
         NEW n \in Job, jobs' = [jobs EXCEPT ![s] = n], n.kind = jobs[s].kind, n.kind # "new", n.i = jobs[s].i,
         n.at # "start", Handled(n)',
         ~slipped' => \A t \in grouping : group'[t] # Gone /\ t \in Managed => t \in Managed',
         ~slipped' => \A t \in Tab : InGroup(t)' /\ (t \in Managed \/ (Parts(s) /\ jobs[s].tab = t))
                        => t \in Managed' \/ (Parting(n) /\ n.tab = t)
  PROVE  TabInv'
<1> USE NoneIsNothing DEF TabInv
<1>1. jobs'[s] = n /\ n # None /\ \A r \in Slot \ {s} : jobs'[r] = jobs[r]
  BY DEF TabTypes
<1>2. JobInv' /\ jobs' \in [Slot -> Job \cup {None}]
  <2>1. \A j \in Job : (\E r \in Slot \ {s} : jobs[r] = j) /\ Handled(j) => Handled(j)'
    BY HandledShrinks DEF Handled
  <2>2. ~Opening(n) /\ ~Opening(jobs[s])
    BY DEF Opening
  <2> QED BY <2>1, <2>2, JobMoves
<1>3. GoesOn(None)
  BY DEF GoesOn, TabTypes
<1>4. Awaited'
  <2>1. jobs'["now"] = None <=> jobs["now"] = None
    BY <1>1 DEF Slot
  <2>2. jobs["now"] # None => jobs'["now"].kind = jobs["now"].kind /\ jobs'["now"].i = jobs["now"].i
    BY <1>1 DEF Slot
  <2> QED BY <2>1, <2>2 DEF Awaited
<1>5. ASSUME ~slipped', NEW t \in Tab, InGroup(t)', t \in Managed \/ Releasing(t)
      PROVE  t \in Managed' \/ Releasing(t)'
  <2>1. CASE t \in Managed \/ (Parts(s) /\ jobs[s].tab = t)
    <3>1. t \in Managed' \/ (Parting(n) /\ n.tab = t)
      BY <1>5, <2>1
    <3> QED BY <1>1, <3>1 DEF Releasing, Parts, Parting
  <2>2. CASE \E r \in Slot \ {s} : Parts(r) /\ jobs[r].tab = t
    BY <1>1, <2>2 DEF Releasing, Parts, Parting
  <2> QED BY <1>5, <2>1, <2>2 DEF Releasing
<1>6. \A k \in Index : managed'[k] # None /\ managed[k] \in grouping /\ saved' = saved => managed[k] \in grouping'
  OBVIOUS
<1> QED BY <1>1, <1>2, <1>3, <1>4, <1>5, <1>6, ShrinkKept

\* What no step of a command that only takes things away touches.
LEMMA TypeFacts ==
  ASSUME TabTypes
  PROVE  /\ managed \in [Index -> Tab \cup {None}] /\ active \in Index /\ next \in Nat
         /\ adopted \subseteq Tab /\ grouping \subseteq Tab /\ group \in [Tab -> Int]
         /\ slipped \in BOOLEAN /\ agentGroup \in {agentGroup, KnownGroup}
         /\ \A t \in Tab : group[t] \in {group[t], Ungrouped, Gone}
         /\ \A s \in Slot : jobs[s] # None => jobs[s] \in Job
  BY DEF TabTypes, Kept, memory

LEMMA CheckKept ==
  ASSUME TabInv, NEW s \in Slot, Check(s)
  PROVE  TabInv'
<1> USE NoneIsNothing
<1>0. TabTypes /\ JobInv
  BY DEF TabInv
<1>1. /\ jobs[s] # None /\ jobs[s].kind \in {"switch", "act", "close"} /\ jobs[s].at = "check"
      /\ UNCHANGED <<group, born, groups, next, active, agentGroup, grouping>>
  BY DEF Check, At, browser
<1>2. PICK t \in Tab : t = jobs[s].tab
  BY <1>0, <1>1 DEF JobInv, Handled
<1>3. CASE InGroup(t) /\ Moves(s, "go", t) /\ UNCHANGED <<rust, managed, adopted, saved, slipped>>
  <2>1. PICK n \in Job : /\ jobs' = [jobs EXCEPT ![s] = n]
                         /\ n.kind = jobs[s].kind /\ n.i = jobs[s].i /\ n.grp = jobs[s].grp
                         /\ n.at = "go" /\ n.tab = t
    <3>1. "go" \in {"check", "go", "release", "ungroup", "remove", "forget"} /\ Moves(s, "go", t)
      BY <1>3
    <3> QED BY ONLY <1>0, <1>1, <3>1, MovesIs
  <2>2. Handled(n)
    <3>1. Handled(jobs[s])
      BY <1>0, <1>1 DEF JobInv
    <3> QED BY <1>1, <1>2, <2>1, <3>1 DEF Handled, Opening, Closing, Making
  <2>3. Quiet /\ UNCHANGED <<doing, index, given>>
    BY <1>1, <1>3 DEF Quiet, rust
  <2> QED BY <1>1, <2>1, <2>2, <2>3, QuietMove DEF Parting
<1>4. CASE /\ ~InGroup(t) /\ slipped' = (slipped \/ t \in grouping) /\ Answer(s, FALSE, None)
           /\ IF t \in Managed THEN Revoke(t) /\ Saves ELSE UNCHANGED <<managed, adopted, saved>>
  <2>1. /\ managed' \in [Index -> Tab \cup {None}]
        /\ \A k \in Index : managed'[k] \in {managed[k], None}
        /\ \A u \in Tab : u \in Managed /\ u # t => u \in Managed'
        /\ adopted' \subseteq adopted
        /\ saved' = memory' \/ (saved' = saved /\ managed' = managed)
    <3>1. CASE t \in Managed
      BY <1>0, <1>4, <3>1, NotManagingIs DEF Revoke, Saves
    <3>2. CASE t \notin Managed
      BY <1>0, <1>4, <3>2, TypeFacts DEF Managed
    <3> QED BY <3>1, <3>2
  <2>2. Shrinks
    BY <1>0, <1>1, <1>4, <2>1, TypeFacts DEF Shrinks
  <2>3. ~Opening(jobs[s])
    BY <1>1 DEF Opening
  <2>4. ~slipped' => \A u \in grouping' : group'[u] # Gone /\ u \in Managed => u \in Managed'
    BY <1>0, <1>1, <1>4, <2>1, TypeFacts
  <2>5. \A u \in Tab : InGroup(u)' /\ u \in Managed => u \in Managed'
    BY <1>1, <1>4, <2>1 DEF InGroup
  <2>6. \A k \in Index : managed'[k] # None /\ managed[k] \in grouping /\ saved' = saved => managed[k] \in grouping'
    BY <1>1
  <2>7. \A u \in grouping : u \in grouping' <=> ~(Opening(jobs[s]) /\ jobs[s].tab = u)
    BY <1>1, <2>3
  <2>8. Answer(s, FALSE, None) /\ jobs[s] # None /\ ~Parts(s)
    BY <1>1, <1>4 DEF Parts, Parting
  <2> QED BY <2>2, <2>4, <2>5, <2>6, <2>7, <2>8, AnsweredKept
<1> QED BY <1>2, <1>3, <1>4 DEF Check

LEMMA SwitchGoesKept ==
  ASSUME TabInv, NEW s \in Slot, SwitchGoes(s)
  PROVE  TabInv'
<1> USE NoneIsNothing
<1>0. TabTypes /\ JobInv
  BY DEF TabInv
<1>1. /\ jobs[s] # None /\ jobs[s].kind = "switch" /\ jobs[s].at = "go"
      /\ UNCHANGED <<group, born, groups, managed, next, agentGroup, adopted, grouping, slipped>>
  BY DEF SwitchGoes, At, browser, history
<1>2. jobs[s].i \in Index
  BY <1>0, <1>1 DEF JobInv, Handled
<1>3. /\ \/ Answer(s, FALSE, None) /\ UNCHANGED <<active, saved>>
         \/ active' = jobs[s].i /\ saved' = memory' /\ Answer(s, TRUE, jobs[s].i)
  BY DEF SwitchGoes, Switched, Saves
<1>4. Shrinks
  BY <1>0, <1>1, <1>2, <1>3, TypeFacts DEF Shrinks
<1>5. /\ \A k \in Index : managed'[k] # None /\ managed[k] \in grouping /\ saved' = saved => managed[k] \in grouping'
      /\ \A u \in grouping : u \in grouping' <=> ~(Opening(jobs[s]) /\ jobs[s].tab = u)
      /\ \A u \in Tab : u \in Managed => u \in Managed'
      /\ grouping' \subseteq Tab /\ ~Parts(s)
  BY <1>0, <1>1, TypeFacts DEF Opening, Managed, Parts, Parting
<1>6. CASE Answer(s, FALSE, None)
  BY <1>1, <1>4, <1>5, <1>6, AnsweredKept
<1>7. CASE saved' = memory' /\ Answer(s, TRUE, jobs[s].i)
  BY <1>1, <1>2, <1>4, <1>5, <1>7, AnsweredKept
<1> QED BY <1>3, <1>6, <1>7

LEMMA UnlistsKept ==
  ASSUME TabInv, NEW s \in Slot, Unlists(s)
  PROVE  TabInv'
<1> USE NoneIsNothing
<1>0. TabTypes /\ JobInv
  BY DEF TabInv
<1>1. /\ jobs[s] # None /\ jobs[s].kind = "close" /\ jobs[s].at = "go"
      /\ UNCHANGED <<group, born, groups, next, active, agentGroup, adopted, grouping, saved, doing, index, given>>
      /\ managed' = [managed EXCEPT ![jobs[s].i] = None]
      /\ slipped' = (slipped \/ jobs[s].tab \in grouping)
      /\ Moves(s, "release", jobs[s].tab)
  BY DEF Unlists, At, browser, rust
<1>2. Handled(jobs[s])
  BY <1>0, <1>1 DEF JobInv
<1>3. /\ jobs[s].i \in Index /\ managed[jobs[s].i] \in {jobs[s].tab, None} /\ jobs[s].tab \in Tab
  BY <1>1, <1>2 DEF Handled, Closing
<1>4. /\ managed' \in [Index -> Tab \cup {None}]
      /\ \A k \in Index : managed'[k] = IF k = jobs[s].i THEN None ELSE managed[k]
  BY <1>0, <1>1, <1>3, TypeFacts
<1>5. Shrinks
  BY <1>0, <1>1, <1>4, TypeFacts DEF Shrinks
<1>6. \A u \in Tab : u \in Managed /\ u # jobs[s].tab => u \in Managed'
  BY <1>3, <1>4 DEF Managed
<1>7. PICK n \in Job : /\ jobs' = [jobs EXCEPT ![s] = n]
                       /\ n.kind = jobs[s].kind /\ n.i = jobs[s].i /\ n.grp = jobs[s].grp
                       /\ n.at = "release" /\ n.tab = jobs[s].tab
  <2>1. PICK t \in Tab : t = jobs[s].tab
    BY <1>3
  <2>2. "release" \in {"check", "go", "release", "ungroup", "remove", "forget"} /\ Moves(s, "release", t)
    BY <1>1, <2>1
  <2>3. \E n \in Job : /\ jobs' = [jobs EXCEPT ![s] = n]
                       /\ n.kind = jobs[s].kind /\ n.i = jobs[s].i /\ n.grp = jobs[s].grp
                       /\ n.at = "release" /\ n.tab = t
    BY ONLY <1>0, <1>1, <2>1, <2>2, MovesIs
  <2> QED BY <2>1, <2>3
<1>8. Handled(n)'
  <2>1. Handled(n)
    BY <1>1, <1>2, <1>7 DEF Handled, Opening, Closing, Making
  <2> QED BY <1>1, <1>5, <1>7, <2>1, <1>0, HandledShrinks DEF Opening
<1>9. ~slipped' => \A u \in grouping : group'[u] # Gone /\ u \in Managed => u \in Managed'
  BY <1>0, <1>1, <1>6, TypeFacts
<1>10. \A u \in Tab : InGroup(u)' /\ (u \in Managed \/ (Parts(s) /\ jobs[s].tab = u))
                        => u \in Managed' \/ (Parting(n) /\ n.tab = u)
  BY <1>1, <1>6, <1>7 DEF Parts, Parting
<1> QED BY <1>1, <1>5, <1>7, <1>8, <1>9, <1>10, MovedKept

LEMMA ReleasesKept ==
  ASSUME TabInv, NEW s \in Slot, Releases(s)
  PROVE  TabInv'
<1> USE NoneIsNothing
<1>0. TabTypes /\ JobInv
  BY DEF TabInv
<1>1. /\ jobs[s] # None /\ jobs[s].kind = "close" /\ jobs[s].at \in {"ungroup", "remove"}
      /\ UNCHANGED <<born, groups, active, agentGroup, grouping, doing, index, given, slipped>>
      /\ (saved' = memory' \/ saved' = saved)
  BY DEF Releases, At, rust, history
<1>2. Handled(jobs[s])
  BY <1>0, <1>1 DEF JobInv
<1>3. PICK t \in Tab : t = jobs[s].tab
  BY <1>1, <1>2 DEF Handled
<1> DEFINE to == IF group[t] = Gone \/ jobs[s].at = "remove" THEN Gone ELSE Ungrouped
<1>4. /\ group' = [group EXCEPT ![t] = to]
      /\ \/ group'[t] = group[t] /\ UNCHANGED <<managed, next, adopted>>
         \/ group'[t] # group[t] /\ group'[t] = Gone /\ Removed(t) /\ UNCHANGED next
         \/ group'[t] # group[t] /\ group'[t] # Gone /\ Updated(t, group'[t])
      /\ Moves(s, "forget", t)
  BY <1>3 DEF Releases
<1>5. /\ group' \in [Tab -> Int] /\ \A u \in Tab \ {t} : group'[u] = group[u]
      /\ group'[t] \in {Ungrouped, Gone} /\ (group[t] = Gone => group'[t] = Gone)
  BY <1>0, <1>4, TypeFacts DEF Ungrouped, Gone
<1> HIDE DEF to
<1>6. /\ managed' \in [Index -> Tab \cup {None}]
      /\ \A k \in Index : managed'[k] \in {managed[k], None}
      /\ \A u \in Tab : u \in Managed /\ u # t => u \in Managed'
      /\ adopted' \subseteq adopted /\ next' = next
      /\ group'[t] # Gone /\ t \in grouping => managed' = managed
  <2>1. CASE UNCHANGED <<managed, next, adopted>>
    BY <1>0, <2>1, TypeFacts DEF Managed
  <2>2. CASE group'[t] = Gone /\ Removed(t) /\ UNCHANGED next
    BY <1>0, <2>2, NotManagingIs DEF Removed
  <2>3. CASE group'[t] = Ungrouped /\ Updated(t, Ungrouped)
    <3>1. agentGroup # Ungrouped
      BY <1>0, GroupsKnown DEF Ungrouped
    <3>2. CASE t \notin grouping /\ Revoke(t) /\ UNCHANGED next
      BY <1>0, <3>2, NotManagingIs DEF Revoke
    <3>3. UNCHANGED <<managed, next, adopted>> \/ (t \notin grouping /\ Revoke(t) /\ UNCHANGED next)
      BY <2>3, <3>1 DEF Updated
    <3> QED BY <2>1, <3>2, <3>3
  <2>4. group'[t] # group[t] /\ group'[t] # Gone => group'[t] = Ungrouped
    BY <1>5
  <2>5. group'[t] # group[t] /\ group'[t] # Gone => Updated(t, Ungrouped)
    BY <1>4, <2>4
  <2> QED BY <1>4, <2>1, <2>2, <2>3, <2>4, <2>5
<1>7. Shrinks
  <2>1. \A u \in Tab : /\ group'[u] \in {group[u], Ungrouped, Gone}
                       /\ group[u] = Gone => group'[u] = Gone
    BY <1>5
  <2> QED BY <1>0, <1>1, <1>5, <1>6, <2>1, TypeFacts DEF Shrinks
<1>8. ~InGroup(t)'
  BY <1>0, <1>1, <1>5, GroupsKnown DEF InGroup, Gone, Ungrouped
<1>9. PICK n \in Job : /\ jobs' = [jobs EXCEPT ![s] = n]
                       /\ n.kind = jobs[s].kind /\ n.i = jobs[s].i /\ n.grp = jobs[s].grp
                       /\ n.at = "forget" /\ n.tab = t
  <2>1. "forget" \in {"check", "go", "release", "ungroup", "remove", "forget"} /\ Moves(s, "forget", t)
    BY <1>4
  <2> QED BY ONLY <1>0, <1>1, <2>1, MovesIs
<1>10. Handled(n)'
  <2>1. Handled(n)
    BY <1>1, <1>2, <1>3, <1>9 DEF Handled, Opening, Closing, Making
  <2> QED BY <1>0, <1>1, <1>7, <1>9, <2>1, HandledShrinks DEF Opening
<1>11. \A u \in grouping : group'[u] # Gone /\ u \in Managed => u \in Managed'
  BY <1>0, <1>6, TypeFacts DEF Managed
<1>12. \A u \in Tab : InGroup(u)' /\ (u \in Managed \/ (Parts(s) /\ jobs[s].tab = u))
                        => u \in Managed' \/ (Parting(n) /\ n.tab = u)
  BY <1>3, <1>6, <1>8
<1> QED BY <1>1, <1>7, <1>9, <1>10, <1>11, <1>12, MovedKept

LEMMA ForgetsKept ==
  ASSUME TabInv, NEW s \in Slot, Forgets(s)
  PROVE  TabInv'
<1> USE NoneIsNothing
<1>0. TabTypes /\ JobInv
  BY DEF TabInv
<1>1. /\ jobs[s] # None /\ jobs[s].kind = "close" /\ jobs[s].at \in {"forget", "release"}
      /\ jobs[s].at = "release" => ~InGroup(jobs[s].tab)
      /\ UNCHANGED <<group, born, groups, managed, next, active, agentGroup, grouping, slipped>>
      /\ adopted' \subseteq adopted /\ saved' = memory' /\ Answer(s, TRUE, None)
  BY DEF Forgets, At, browser, Saves
<1>2. Shrinks
  BY <1>0, <1>1, TypeFacts DEF Shrinks
<1>3. /\ \A k \in Index : managed'[k] # None /\ managed[k] \in grouping /\ saved' = saved => managed[k] \in grouping'
      /\ \A u \in grouping : u \in grouping' <=> ~(Opening(jobs[s]) /\ jobs[s].tab = u)
      /\ \A u \in Tab : u \in Managed => u \in Managed'
      /\ grouping' \subseteq Tab
  BY <1>0, <1>1, TypeFacts DEF Opening, Managed
<1>4. \A t \in Tab : Parts(s) /\ jobs[s].tab = t => ~InGroup(t)'
  BY <1>1 DEF Parts, Parting, InGroup
<1> QED BY <1>1, <1>2, <1>3, <1>4, AnsweredKept

\* releaseTab is told where the tab is.
LEMMA DecidesKept ==
  ASSUME TabInv, NEW s \in Slot, Decides(s)
  PROVE  TabInv'
<1> USE NoneIsNothing
<1>0. TabTypes /\ JobInv
  BY DEF TabInv
<1>1. /\ jobs[s] # None /\ jobs[s].kind = "close" /\ jobs[s].at = "release"
      /\ Quiet /\ UNCHANGED <<doing, index, given>>
      /\ Moves(s, Release(jobs[s].tab), jobs[s].tab)
  BY DEF Decides, At, browser, memory, rust, history, Quiet
<1>2. Handled(jobs[s])
  BY <1>0, <1>1 DEF JobInv
<1>3. PICK t \in Tab : t = jobs[s].tab
  BY <1>1, <1>2 DEF Handled
<1>4. PICK a \in {"ungroup", "remove"} : a = Release(t)
  BY DEF Release
<1>5. PICK n \in Job : /\ jobs' = [jobs EXCEPT ![s] = n]
                       /\ n.kind = jobs[s].kind /\ n.i = jobs[s].i /\ n.grp = jobs[s].grp
                       /\ n.at = a /\ n.tab = t
  <2>1. a \in {"check", "go", "release", "ungroup", "remove", "forget"} /\ Moves(s, a, t)
    BY <1>1, <1>3, <1>4
  <2> QED BY ONLY <1>0, <1>1, <2>1, MovesIs
<1>6. Handled(n) /\ Parting(n)
  BY <1>1, <1>2, <1>3, <1>5 DEF Handled, Opening, Closing, Making, Parting
<1> QED BY <1>1, <1>3, <1>5, <1>6, QuietMove

LEMMA NotJoinedKept ==
  ASSUME TabInv, NEW s \in Slot, NotJoined(s)
  PROVE  TabInv'
<1> USE NoneIsNothing
<1>0. TabTypes /\ JobInv
  BY DEF TabInv
<1>1. /\ jobs[s] # None /\ jobs[s].kind = "new" /\ jobs[s].at \in {"join", "done"} /\ ~Parts(s)
      /\ UNCHANGED <<born, groups, next, active, agentGroup, saved, slipped>>
      /\ managed' = [managed EXCEPT ![jobs[s].i] = None]
      /\ Answer(s, FALSE, None)
  BY DEF NotJoined, At, history, Parts, Parting
<1>2. Handled(jobs[s]) /\ Opening(jobs[s])
  BY <1>0, <1>1 DEF JobInv, Opening
<1>3. PICK t \in Tab : t = jobs[s].tab
  BY <1>1, <1>2 DEF Handled
<1>4. /\ group' = [group EXCEPT ![t] = Gone] /\ adopted' = adopted \ {t} /\ grouping' = grouping \ {t}
  BY <1>3 DEF NotJoined
<1>5. /\ jobs[s].i \in Index /\ \A k \in Index : managed[k] = t => k = jobs[s].i
      /\ managed[jobs[s].i] \in {t, None}
  BY <1>2, <1>3 DEF Handled
<1>6. /\ managed' \in [Index -> Tab \cup {None}]
      /\ \A k \in Index : managed'[k] = IF k = jobs[s].i THEN None ELSE managed[k]
  BY <1>0, <1>1, <1>5, TypeFacts
<1>7. /\ group' \in [Tab -> Int] /\ group'[t] = Gone /\ \A u \in Tab \ {t} : group'[u] = group[u]
  BY <1>0, <1>4, TypeFacts DEF Gone
<1>8. Shrinks
  <2>1. \A u \in Tab : /\ group'[u] \in {group[u], Ungrouped, Gone}
                       /\ group[u] = Gone => group'[u] = Gone
    BY <1>7
  <2> QED BY <1>0, <1>1, <1>4, <1>6, <1>7, <2>1, TypeFacts DEF Shrinks
<1>9. \A u \in Tab : u \in Managed /\ u # t => u \in Managed'
  BY <1>5, <1>6 DEF Managed
<1>10. \A k \in Index : managed'[k] # None /\ managed[k] \in grouping /\ saved' = saved => managed[k] \in grouping'
  BY <1>4, <1>5, <1>6
<1>11. \A u \in grouping : u \in grouping' <=> ~(Opening(jobs[s]) /\ jobs[s].tab = u)
  BY <1>2, <1>3, <1>4
<1>12. \A u \in grouping' : group'[u] # Gone /\ u \in Managed => u \in Managed'
  BY <1>0, <1>4, <1>9, TypeFacts
<1>13. \A u \in Tab : InGroup(u)' /\ u \in Managed => u \in Managed'
  <2>1. ~InGroup(t)'
    BY <1>0, <1>1, <1>7, GroupsKnown DEF InGroup, Gone
  <2> QED BY <1>9, <2>1
<1> QED BY <1>1, <1>8, <1>10, <1>11, <1>12, <1>13, AnsweredKept

\* A change that nobody asked for takes entries away.
LEMMA StillKept ==
  ASSUME TabInv, Shrinks, UNCHANGED <<jobs, doing, index, given, grouping>>,
         ~slipped' => \A t \in grouping : group'[t] # Gone /\ t \in Managed => t \in Managed',
         ~slipped' => \A t \in Tab : InGroup(t)' /\ t \in Managed => t \in Managed'
  PROVE  TabInv'
<1> USE NoneIsNothing DEF TabInv
<1>1. JobInv'
  <2>1. \A j \in Job : Handled(j) /\ (Opening(j) => j.tab \in grouping') => Handled(j)'
    BY HandledShrinks
  <2>2. \A s \in Slot : jobs[s] # None => Handled(jobs[s])'
    <3> SUFFICES ASSUME NEW s \in Slot, jobs[s] # None PROVE Handled(jobs[s])'
      OBVIOUS
    <3>1. PICK j \in Job : jobs[s] = j
      BY TypeFacts
    <3>2. Handled(j) /\ (Opening(j) => j.tab \in grouping') /\ jobs'[s] = j
      BY <3>1 DEF JobInv, Handled
    <3>3. Handled(j)'
      BY <2>1, <3>2
    <3> QED BY <3>2, <3>3 DEF Handled, Opening, Closing, Making
  <2> QED BY <2>2 DEF JobInv, Opening, Making, Waits
<1>2. GoesOn(None) /\ Awaited' /\ jobs' \in [Slot -> Job \cup {None}]
  BY DEF GoesOn, TabTypes, Awaited
<1>3. \A t \in Tab : Releasing(t)' <=> Releasing(t)
  BY DEF Releasing, Parts, Parting
<1>4. \A k \in Index : managed'[k] # None /\ managed[k] \in grouping /\ saved' = saved => managed[k] \in grouping'
  OBVIOUS
<1> QED BY <1>1, <1>2, <1>3, <1>4, ShrinkKept

\* What a tab keeps that leaves its group, or is closed.
LEMMA LeavesIs ==
  ASSUME TabTypes, NEW t \in Tab, group[t] # Gone, NEW g \in {Ungrouped, Gone}, group' = [group EXCEPT ![t] = g]
  PROVE  /\ group' \in [Tab -> Int] /\ group'[t] = g
         /\ \A u \in Tab : /\ group'[u] \in {group[u], Ungrouped, Gone}
                           /\ group[u] = Gone => group'[u] = Gone
                           /\ u # t => group'[u] = group[u]
<1>1. group \in [Tab -> Int]
  BY TypeFacts
<1> QED BY <1>1 DEF Ungrouped, Gone

LEMMA UserClosesKept ==
  ASSUME TabInv, NEW t \in Tab, UserCloses(t)
  PROVE  TabInv'
<1> USE NoneIsNothing
<1>0. TabTypes /\ JobInv
  BY DEF TabInv
<1>1. /\ group[t] # Gone /\ group' = [group EXCEPT ![t] = Gone] /\ Gone \in {Ungrouped, Gone}
      /\ managed' = NotManaging(t) /\ adopted' \subseteq adopted
      /\ UNCHANGED <<next, active, agentGroup, born, groups, grouping, jobs, doing, index, given, slipped>>
      /\ (saved' = memory' \/ saved' = saved)
  BY DEF UserCloses, Removed, rust
<1>2. /\ group' \in [Tab -> Int] /\ group'[t] = Gone
      /\ \A u \in Tab : /\ group'[u] \in {group[u], Ungrouped, Gone}
                        /\ group[u] = Gone => group'[u] = Gone
  BY <1>0, <1>1, LeavesIs
<1>3. /\ managed' \in [Index -> Tab \cup {None}]
      /\ \A k \in Index : managed'[k] \in {managed[k], None}
      /\ \A u \in Tab : u \in Managed /\ u # t => u \in Managed'
  BY <1>0, <1>1, NotManagingIs
<1>4. Shrinks
  BY <1>0, <1>1, <1>2, <1>3, TypeFacts DEF Shrinks
<1>5. ~InGroup(t)'
  BY <1>0, <1>1, <1>2, GroupsKnown DEF InGroup, Gone
<1>6. \A u \in grouping : group'[u] # Gone /\ u \in Managed => u \in Managed'
  BY <1>0, <1>2, <1>3, TypeFacts
<1>7. \A u \in Tab : InGroup(u)' /\ u \in Managed => u \in Managed'
  BY <1>3, <1>5
<1> QED BY <1>1, <1>4, <1>6, <1>7, StillKept

LEMMA UserMovesOutKept ==
  ASSUME TabInv, NEW t \in Tab, UserMovesOut(t)
  PROVE  TabInv'
<1> USE NoneIsNothing
<1>0. TabTypes /\ JobInv
  BY DEF TabInv
<1>1. /\ group[t] # Gone /\ group' = [group EXCEPT ![t] = Ungrouped] /\ Ungrouped \in {Ungrouped, Gone}
      /\ Updated(t, Ungrouped)
      /\ UNCHANGED <<active, agentGroup, born, groups, grouping, jobs, doing, index, given, slipped>>
      /\ (saved' = memory' \/ saved' = saved)
  BY DEF UserMovesOut, rust, Group, Gone
<1>2. /\ group' \in [Tab -> Int] /\ group'[t] = Ungrouped
      /\ \A u \in Tab : /\ group'[u] \in {group[u], Ungrouped, Gone}
                        /\ group[u] = Gone => group'[u] = Gone
  BY <1>0, <1>1, LeavesIs
<1>3. agentGroup # Ungrouped
  BY <1>0, GroupsKnown DEF Ungrouped
<1>4. /\ managed' \in [Index -> Tab \cup {None}]
      /\ \A k \in Index : managed'[k] \in {managed[k], None}
      /\ \A u \in Tab : u \in Managed /\ u # t => u \in Managed'
      /\ adopted' \subseteq adopted /\ next' = next
      /\ t \in grouping => managed' = managed
  <2>1. CASE UNCHANGED <<managed, next, adopted>>
    BY <1>0, <2>1, TypeFacts DEF Managed
  <2>2. CASE t \notin grouping /\ Revoke(t) /\ UNCHANGED next
    BY <1>0, <2>2, NotManagingIs DEF Revoke
  <2> QED BY <1>1, <1>3, <2>1, <2>2 DEF Updated
<1>5. Shrinks
  BY <1>0, <1>1, <1>2, <1>4, TypeFacts DEF Shrinks
<1>6. ~InGroup(t)'
  BY <1>0, <1>1, <1>2, <1>3 DEF InGroup
<1>7. \A u \in grouping : u \in Managed => u \in Managed'
  BY <1>0, <1>4, TypeFacts DEF Managed
<1>8. \A u \in Tab : InGroup(u)' /\ u \in Managed => u \in Managed'
  BY <1>4, <1>6
<1> QED BY <1>1, <1>5, <1>7, <1>8, StillKept

\* A new page on its way takes a step, alone.
LEMMA FindsGroupKept ==
  ASSUME TabInv, NEW s \in Slot, FindsGroup(s)
  PROVE  TabInv'
<1> USE NoneIsNothing
<1>0. TabTypes /\ JobInv /\ Awaited
  BY DEF TabInv
<1>1. /\ jobs[s] # None /\ jobs[s].kind = "new" /\ jobs[s].at = "group"
      /\ UNCHANGED <<group, born, groups, managed, next, active, adopted, grouping, saved, slipped, doing, index, given>>
      /\ agentGroup' = KnownGroup
      /\ jobs' = [jobs EXCEPT ![s].at = "join", ![s].grp = KnownGroup]
  BY DEF FindsGroup, At, browser, rust, history
<1>2. PICK j \in Job : jobs[s] = j
  BY <1>0, <1>1, TypeFacts
<1>3. PICK g \in Int \cup {None} : g = KnownGroup
  <2>1. agentGroup \in Int \cup {None} /\ KnownGroup \in {agentGroup, None}
    BY <1>0, GroupsKnown
  <2> QED BY <2>1
<1>4. Handled(j) /\ Opening(j) /\ (g # None => g \in 1 .. groups /\ g = agentGroup)
  <2>1. Handled(j) /\ Opening(j)
    BY <1>0, <1>1, <1>2 DEF JobInv, Opening
  <2>2. g \in {agentGroup, None}
    BY <1>0, <1>3, GroupsKnown
  <2> QED BY <1>0, <2>1, <2>2 DEF TabTypes, Kept, memory
<1> DEFINE m == [j EXCEPT !.at = "join"]
           n == [m EXCEPT !.grp = g]
<1>5. m \in Job /\ m.kind = j.kind /\ m.i = j.i /\ m.tab = j.tab /\ m.at = "join"
  BY DEF Job
<1>6. n \in Job /\ n.kind = m.kind /\ n.i = m.i /\ n.grp = g /\ n.at = m.at /\ n.tab = m.tab
  <2> HIDE DEF m
  <2> QED BY <1>5 DEF Job
<1>7. jobs' = [jobs EXCEPT ![s] = n]
  BY <1>0, <1>1, <1>2, <1>3 DEF TabTypes
<1> HIDE DEF m, n
<1>8. jobs'[s] = n /\ n # None /\ \A r \in Slot \ {s} : jobs'[r] = jobs[r]
  BY <1>0, <1>6, <1>7 DEF TabTypes
<1>9. Shrinks
  BY <1>0, <1>1, TypeFacts DEF Shrinks
<1>10. Handled(n)'
  <2>1. Handled(n)
    BY <1>1, <1>2, <1>4, <1>5, <1>6 DEF Handled, Opening, Closing, Making
  <2>2. n.tab \in grouping'
    BY <1>1, <1>4, <1>5, <1>6 DEF Handled
  <2> QED BY <1>0, <1>6, <1>9, <2>1, <2>2, HandledShrinks
<1>11. JobInv' /\ jobs' \in [Slot -> Job \cup {None}]
  <2>1. \A k \in Job : Handled(k) => Handled(k)'
    BY <1>0, <1>1, <1>9, HandledShrinks DEF Handled
  <2>2. \A r \in Slot \ {s} : Opening(n) /\ jobs[r] # None /\ Opening(jobs[r]) =>
            /\ jobs[r].tab # n.tab
            /\ Making(n) \/ Making(jobs[r]) => jobs[r].grp # n.grp
    <3> SUFFICES ASSUME NEW r \in Slot \ {s}, jobs[r] # None, Opening(jobs[r])
                 PROVE  /\ jobs[r].tab # n.tab
                        /\ Making(n) \/ Making(jobs[r]) => jobs[r].grp # n.grp
      OBVIOUS
    <3>1. jobs[r].tab # n.tab
      BY <1>0, <1>1, <1>2, <1>4, <1>5, <1>6 DEF JobInv
    <3>2. ~Making(n)
      BY <1>5, <1>6 DEF Making
    <3>3. Making(jobs[r]) => agentGroup # jobs[r].grp /\ jobs[r].grp # None
      BY <1>0 DEF JobInv, Handled, Making
    <3> QED BY <1>4, <1>6, <3>1, <3>2, <3>3
  <2>3. \A t \in grouping' : \/ Opening(n) /\ n.tab = t
                             \/ t \in grouping /\ ~(jobs[s] # None /\ Opening(jobs[s]) /\ jobs[s].tab = t)
    BY <1>1, <1>2, <1>4, <1>5, <1>6 DEF Opening
  <2>4. n.at # "start"
    BY <1>5, <1>6
  <2> QED BY <1>0, <1>6, <1>7, <1>10, <2>1, <2>2, <2>3, <2>4, JobMoves
<1>12. GoesOn(None)
  BY <1>0, <1>1 DEF GoesOn, TabTypes
<1>13. Awaited'
  <2>1. jobs'["now"] = None <=> jobs["now"] = None
    BY <1>1, <1>8 DEF Slot
  <2>2. jobs["now"] # None => jobs'["now"].kind = jobs["now"].kind /\ jobs'["now"].i = jobs["now"].i
    BY <1>2, <1>5, <1>6, <1>8 DEF Slot
  <2> QED BY <1>0, <1>1, <2>1, <2>2 DEF Awaited
<1>14. Managed' = Managed /\ \A t \in Tab : Releasing(t) => Releasing(t)'
  <2>1. \A r \in Slot : Parts(r) => r # s
    BY <1>1 DEF Parts, Parting
  <2> QED BY <1>1, <1>8, <2>1 DEF Releasing, Parts, Parting, Managed
<1>15. \A k \in Index : managed'[k] # None /\ managed[k] \in grouping /\ saved' = saved => managed[k] \in grouping'
  BY <1>1
<1> QED BY <1>9, <1>11, <1>12, <1>13, <1>14, <1>15, ShrinkKept

\* The page cannot be made.
LEMMA CreatesNothingKept ==
  ASSUME TabInv, NEW s \in Slot, Creates(s), Answer(s, FALSE, None),
         UNCHANGED <<born, group, managed, next, grouping>>
  PROVE  TabInv'
<1> USE NoneIsNothing
<1>0. TabTypes /\ JobInv
  BY DEF TabInv
<1>1. /\ jobs[s] # None /\ jobs[s].kind = "new" /\ jobs[s].at = "start" /\ agentGroup' = KnownGroup
      /\ UNCHANGED <<groups, active, adopted, saved, slipped>>
  BY DEF Creates, At, history
<1>2. Shrinks
  BY <1>0, <1>1, TypeFacts DEF Shrinks
<1>3. /\ \A k \in Index : managed'[k] # None /\ managed[k] \in grouping /\ saved' = saved => managed[k] \in grouping'
      /\ \A u \in grouping : u \in grouping' <=> ~(Opening(jobs[s]) /\ jobs[s].tab = u)
      /\ \A u \in Tab : u \in Managed => u \in Managed'
      /\ grouping' \subseteq Tab /\ ~Parts(s)
  BY <1>0, <1>1, TypeFacts DEF Opening, Managed, Parts, Parting
<1> QED BY <1>1, <1>2, <1>3, AnsweredKept

\* The next index is free.
LEMMA TakeIndexIs ==
  ASSUME TabTypes, NEW t \in Tab, TakeIndex(t)
  PROVE  /\ next \in Index /\ managed[next] = None /\ next' = next + 1 /\ next' \in 0 .. MaxIndex
         /\ managed' \in [Index -> Tab \cup {None}] /\ managed'[next] = t
         /\ \A k \in Index \ {next} : managed'[k] = managed[k]
         /\ \A k \in Index : k < next => k # next
         /\ \A u \in Tab : u \in Managed => u \in Managed'
         /\ t \in Managed'
<1> USE NoneIsNothing
<1>1. managed \in [Index -> Tab \cup {None}] /\ next \in 0 .. MaxIndex /\ MaxIndex \in Nat
      /\ \A i \in Index : managed[i] # None => i < next
  BY TabsAssumption DEF TabTypes, Kept, memory
<1>2. next \in Index /\ next' = next + 1 /\ next' \in 0 .. MaxIndex
  BY <1>1 DEF TakeIndex, Index
<1>3. managed[next] = None
  BY <1>1, <1>2
<1>4. /\ managed' \in [Index -> Tab \cup {None}] /\ managed'[next] = t
      /\ \A k \in Index \ {next} : managed'[k] = managed[k]
  BY <1>1, <1>2 DEF TakeIndex
<1>5. \A u \in Tab : u \in Managed => u \in Managed'
  BY <1>3, <1>4 DEF Managed
<1>6. t \in Managed'
  BY <1>2, <1>4 DEF Managed
<1>7. \A k \in Index : k < next => k # next
  BY <1>1
<1> QED BY <1>2, <1>3, <1>4, <1>5, <1>6, <1>7

\* A page is made, at the next index.
LEMMA CreatesKept ==
  ASSUME TabInv, NEW s \in Slot, Creates(s)
  PROVE  TabInv'
<1> USE NoneIsNothing
<1>0. TabTypes /\ JobInv /\ Awaited /\ PlacesKept /\ GroupInv
  BY DEF TabInv
<1>1. /\ jobs[s] # None /\ jobs[s].kind = "new" /\ jobs[s].at = "start" /\ agentGroup' = KnownGroup
      /\ UNCHANGED <<groups, active, adopted, saved, slipped>>
  BY DEF Creates, At, history
<1>2. CASE Answer(s, FALSE, None) /\ UNCHANGED <<born, group, managed, next, grouping>>
  BY <1>2, CreatesNothingKept
<1>3. CASE /\ born < MaxTabs /\ born' = born + 1
           /\ group' = [group EXCEPT ![born + 1] = Ungrouped]
           /\ TakeIndex(born + 1)
           /\ grouping' = grouping \cup {born + 1}
           /\ jobs' = [jobs EXCEPT ![s].at = "group", ![s].tab = born + 1, ![s].i = next]
           /\ UNCHANGED <<doing, index, given>>
  <2>1. PICK b \in Tab : b = born + 1
    BY <1>0, <1>3, TabsAssumption DEF TabTypes, Tab
  <2>2. /\ born' = b /\ group' = [group EXCEPT ![b] = Ungrouped] /\ grouping' = grouping \cup {b}
        /\ b \notin grouping /\ group[b] = Gone /\ born \in Nat /\ born < b /\ groups \in Nat
    <3>1. born \in Nat /\ groups \in Nat /\ born < b
      BY <1>0, <2>1 DEF TabTypes
    <3>2. group[b] = Gone
      BY <1>0, <3>1 DEF TabTypes
    <3>3. b \notin grouping
      <4> SUFFICES ASSUME b \in grouping PROVE FALSE
        OBVIOUS
      <4>1. PICK r \in Slot : jobs[r] # None /\ Opening(jobs[r]) /\ jobs[r].tab = b
        BY <1>0 DEF JobInv
      <4>2. b <= born
        BY <1>0, <4>1 DEF JobInv, Handled, Opening
      <4> QED BY <3>1, <4>2
    <3> QED BY <1>3, <2>1, <3>1, <3>2, <3>3
  <2>3. /\ next \in Index /\ managed[next] = None /\ next' = next + 1 /\ next' \in 0 .. MaxIndex
        /\ managed' \in [Index -> Tab \cup {None}] /\ managed'[next] = b
        /\ \A k \in Index \ {next} : managed'[k] = managed[k]
        /\ \A k \in Index : k < next => k # next
        /\ \A u \in Tab : u \in Managed => u \in Managed'
        /\ b \in Managed'
    <3>1. TakeIndex(b)
      BY <1>3, <2>1
    <3> QED BY ONLY <1>0, <3>1, TakeIndexIs
  <2>4. PICK j \in Job : jobs[s] = j
    BY <1>0, <1>1, TypeFacts
  <2>5. Waits(j)
    BY <1>0, <1>1, <2>4 DEF JobInv
  <2> DEFINE m == [j EXCEPT !.at = "group"]
             l == [m EXCEPT !.tab = b]
             n == [l EXCEPT !.i = next]
  <2>6. m \in Job /\ m.kind = j.kind /\ m.i = j.i /\ m.grp = j.grp /\ m.at = "group"
    BY DEF Job
  <2>7. l \in Job /\ l.kind = m.kind /\ l.i = m.i /\ l.grp = m.grp /\ l.at = m.at /\ l.tab = b
    <3> HIDE DEF m
    <3> QED BY <2>6 DEF Job
  <2>8. n \in Job /\ n.kind = l.kind /\ n.i = next /\ n.grp = l.grp /\ n.at = l.at /\ n.tab = l.tab
    <3> HIDE DEF l
    <3>1. next \in Int \cup {None}
      BY <2>3
    <3> QED BY <2>7, <3>1 DEF Job
  <2>9. jobs' = [jobs EXCEPT ![s] = n]
    BY <1>0, <1>3, <2>1, <2>4 DEF TabTypes
  <2> HIDE DEF m, l, n
  <2>10. PICK w \in Job : w = n
    BY <2>8
  <2>11. /\ w.kind = "new" /\ w.at = "group" /\ w.tab = b /\ w.i = next /\ w.grp = None
         /\ jobs' = [jobs EXCEPT ![s] = w] /\ jobs'[s] = w /\ \A r \in Slot \ {s} : jobs'[r] = jobs[r]
    BY <1>0, <1>1, <2>4, <2>5, <2>6, <2>7, <2>8, <2>9, <2>10 DEF Waits, TabTypes
  <2>12. /\ group' \in [Tab -> Int] /\ group'[b] = Ungrouped /\ \A u \in Tab \ {b} : group'[u] = group[u]
    BY <1>0, <2>2, TypeFacts DEF Ungrouped
  <2>13. /\ agentGroup' \in {agentGroup, None} /\ (agentGroup = None \/ agentGroup \in Nat \ {0})
    BY <1>0, <1>1, GroupsKnown
  <2>13a. /\ next \in Nat /\ next' = next + 1 /\ next' \in Nat /\ next <= next'
         /\ born \in Nat /\ born' = born + 1 /\ born' \in Nat /\ born <= born'
    <3>1. next \in Nat /\ next' = next + 1
      BY <2>3
    <3>2. born \in Nat /\ born' = born + 1
      BY <2>1, <2>2
    <3> QED BY <3>1, <3>2
  <2>14. ASSUME NEW k \in Job, Handled(k) PROVE Handled(k)'
    <3>1. /\ groups' = groups /\ born' \in Nat /\ born <= born' /\ next \in Nat /\ next' \in Nat /\ next <= next'
      BY <1>1, <2>13a
    <3>2. \A x \in Index : x < next => managed'[x] \in {managed[x], None}
      BY <2>3
    <3>3. Opening(k) => k.tab \in grouping' /\ \A x \in Index : managed'[x] = k.tab => managed[x] = k.tab
      <4>1. Opening(k) => k.tab \in grouping /\ k.tab # b
        BY <2>2, <2>14 DEF Handled
      <4> QED BY <2>2, <2>3, <4>1
    <3>4. Making(k) => /\ agentGroup' # k.grp
                       /\ ~slipped' => ~slipped /\ \A t \in Tab : group'[t] = k.grp => group[t] = k.grp
      <4>1. Making(k) => k.grp \in Nat \ {0} /\ agentGroup # k.grp
        BY <2>2, <2>14 DEF Handled, Making
      <4>2. Making(k) => agentGroup' # k.grp
        BY <2>13, <4>1
      <4>3. Making(k) => \A t \in Tab : group'[t] = k.grp => group[t] = k.grp
        BY <2>12, <4>1 DEF Ungrouped
      <4> QED BY <1>1, <4>2, <4>3
    <3> QED BY <1>0, <2>2, <2>14, <3>1, <3>2, <3>3, <3>4, HandledAfter
  <2>15. Handled(w)'
    <3>1. \A k \in Index : managed'[k] = b => k = next
      <4>1. \A k \in Index : managed[k] # b
        BY <1>0, <2>2 DEF TabTypes, Kept, memory
      <4> QED BY <2>3, <4>1
    <3>2. next < next' /\ b <= born' /\ b \in grouping'
      BY <2>1, <2>2, <2>3
    <3> QED BY <2>3, <2>11, <3>1, <3>2 DEF Handled, Opening, Closing, Making
  <2>16. JobInv' /\ jobs' \in [Slot -> Job \cup {None}]
    <3>1. \A r \in Slot \ {s} : Opening(w) /\ jobs[r] # None /\ Opening(jobs[r]) =>
              /\ jobs[r].tab # w.tab
              /\ Making(w) \/ Making(jobs[r]) => jobs[r].grp # w.grp
      <4>1. \A r \in Slot : jobs[r] # None /\ Opening(jobs[r]) => jobs[r].tab \in grouping
        BY <1>0 DEF JobInv, Handled
      <4> QED BY <2>2, <2>11, <4>1 DEF Making
    <3>2. \A t \in grouping' : \/ Opening(w) /\ w.tab = t
                               \/ t \in grouping /\ ~(jobs[s] # None /\ Opening(jobs[s]) /\ jobs[s].tab = t)
      BY <1>1, <2>2, <2>11 DEF Opening
    <3> QED BY <1>0, <2>11, <2>14, <2>15, <3>1, <3>2, JobMoves
  <2>17. GoesOn(None)
    BY <1>0, <1>3 DEF GoesOn, TabTypes
  <2>18. Awaited'
    <3>1. jobs'["now"] = None <=> jobs["now"] = None
      BY <1>1, <2>11 DEF Slot
    <3>2. jobs["now"] # None => jobs'["now"].kind = jobs["now"].kind
      BY <1>1, <2>11 DEF Slot
    <3>3. jobs'["now"].i = jobs["now"].i \/ jobs'["now"].kind = "new"
      BY <2>11 DEF Slot
    <3>4. doing # None => (doing.stage = "switch" => jobs'["now"].i = jobs["now"].i)
      BY <1>0, <3>2, <3>3 DEF Awaited
    <3> QED BY <1>0, <1>3, <3>1, <3>2, <3>4 DEF Awaited
  <2>19. TabTypes'
    <3>1. Kept(memory)
      BY <1>0 DEF TabTypes
    <3>2. Kept(memory)'
      <4>1. \A k \in Index : managed'[k] # None => k < next' /\ managed'[k] <= born'
        <5> SUFFICES ASSUME NEW k \in Index, managed'[k] # None PROVE k < next' /\ managed'[k] <= born'
          OBVIOUS
        <5>1. CASE k = next
          BY <2>1, <2>2, <2>3, <5>1
        <5>2. CASE k # next
          <6>1. managed'[k] = managed[k] /\ managed[k] \in Tab
            BY <1>0, <2>3, <5>2, TypeFacts
          <6>2. k < next /\ managed[k] <= born
            BY <3>1, <6>1 DEF Kept, memory
          <6>3. k \in Nat /\ managed[k] \in Nat
            BY <6>1
          <6> QED BY <2>13a, <6>1, <6>2, <6>3
        <5> QED BY <5>1, <5>2
      <4> QED BY <1>1, <2>3, <2>13, <3>1, <4>1 DEF Kept, memory
    <3>3. Kept(saved)'
      <4>1. Kept(saved)
        BY <1>0 DEF TabTypes
      <4>2. \A k \in Index : saved[1][k] # None => saved[1][k] <= born'
        <5> SUFFICES ASSUME NEW k \in Index, saved[1][k] # None PROVE saved[1][k] <= born'
          OBVIOUS
        <5>1. saved[1][k] <= born /\ saved[1][k] \in Nat
          BY <4>1 DEF Kept
        <5> QED BY <2>13a, <5>1
      <4> QED BY <1>1, <4>1, <4>2 DEF Kept
    <3>4. \A t \in Tab : group'[t] <= groups' /\ (t > born' => group'[t] = Gone)
      BY <1>0, <1>1, <2>1, <2>2, <2>12 DEF TabTypes, Ungrouped
    <3>5. born' \in Tab /\ groups' \in Nat /\ slipped' \in BOOLEAN /\ grouping' \subseteq Tab
      BY <1>0, <1>1, <2>2, TypeFacts
    <3> QED BY <2>12, <2>16, <2>17, <3>2, <3>3, <3>4, <3>5 DEF TabTypes, GoesOn
  <2>20. PlacesKept'
    <3>1. \A x \in Index : x < next => managed'[x] \in {managed[x], None}
      BY <2>3
    <3>2. next' \in Nat /\ next <= next' /\ None \in Index \cup {None} /\ None \notin Index
      BY <2>3
    <3> QED BY <1>0, <1>1, <2>17, <3>1, <3>2, PlacesAfter
  <2>21. GroupInv'
    <3>1. \A k \in Index : managed'[k] # None => managed'[k] \in grouping' \/ \E x \in Index : saved'[1][x] = managed'[k]
      BY <1>0, <1>1, <2>2, <2>3 DEF GroupInv
    <3>5. ~slipped' => \A t \in grouping' : group'[t] # Gone => t \in Managed'
      <4> SUFFICES ASSUME ~slipped', NEW t \in grouping', group'[t] # Gone, t # b PROVE t \in Managed'
        BY <2>3
      <4>1. t \in grouping /\ t \in Tab /\ group[t] # Gone
        BY <1>0, <2>2, <2>12, TypeFacts
      <4>2. t \in Managed
        BY <1>0, <1>1, <4>1 DEF GroupInv
      <4> QED BY <2>3, <4>1, <4>2
    <3>6. ~slipped' => \A t \in Tab : InGroup(t)' => t \in Managed' \/ Releasing(t)'
      <4> SUFFICES ASSUME ~slipped', NEW t \in Tab, InGroup(t)' PROVE t \in Managed' \/ Releasing(t)'
        OBVIOUS
      <4>1. InGroup(t)
        <5>1. agentGroup' = agentGroup /\ agentGroup \in Nat \ {0} /\ group'[t] = agentGroup
          BY <2>13 DEF InGroup
        <5>2. t # b
          BY <2>12, <5>1 DEF Ungrouped
        <5> QED BY <2>12, <5>1, <5>2 DEF InGroup
      <4>2. t \in Managed \/ Releasing(t)
        BY <1>0, <1>1, <4>1 DEF GroupInv, Releasing
      <4>3. Releasing(t) => Releasing(t)'
        <5>1. \A r \in Slot : Parts(r) => r # s
          BY <1>1 DEF Parts, Parting
        <5> QED BY <2>11, <5>1 DEF Releasing, Parts, Parting
      <4> QED BY <2>3, <4>2, <4>3
    <3> QED BY <3>1, <3>5, <3>6 DEF GroupInv
  <2> QED BY <2>16, <2>18, <2>19, <2>20, <2>21 DEF TabInv
<1> QED BY <1>2, <1>3 DEF Creates, rust

\* A tab that is being made joins the group, a new one if there is none.
LEMMA JoinsKept ==
  ASSUME TabInv, NEW s \in Slot, Joins(s)
  PROVE  TabInv'
<1> USE NoneIsNothing
<1>0. TabTypes /\ JobInv /\ Awaited /\ PlacesKept /\ GroupInv
  BY DEF TabInv
<1>1. jobs[s] # None /\ jobs[s].kind = "new" /\ jobs[s].at = "join"
  BY DEF Joins, At
<1>2. PICK j \in Job : jobs[s] = j
  BY <1>0, <1>1, TypeFacts
<1>3. Handled(j) /\ Opening(j)
  BY <1>0, <1>1, <1>2 DEF JobInv, Opening
<1>4. /\ j.tab \in Tab /\ j.tab \in grouping /\ j.tab <= born /\ j.i \in Index /\ j.i < next
      /\ managed[j.i] \in {j.tab, None} /\ \A k \in Index : managed[k] = j.tab => k = j.i
      /\ j.grp = None \/ j.grp \in 1 .. groups
  BY <1>1, <1>2, <1>3 DEF Handled
<1>5. PICK g \in Nat \ {0} : g = IF j.grp = None THEN groups + 1 ELSE j.grp
  BY <1>0, <1>4 DEF TabTypes
<1>6. /\ group[j.tab] # Gone /\ (j.grp # None => Exists(j.grp))
      /\ group' = [group EXCEPT ![j.tab] = g]
      /\ groups' = IF j.grp = None THEN g ELSE groups
      /\ Updated(j.tab, g)
      /\ jobs' = [jobs EXCEPT ![s].at = IF j.grp = None THEN "name" ELSE "done",
                              ![s].grp = IF @ = None THEN g ELSE None]
      /\ UNCHANGED <<born, active, agentGroup, grouping, saved, doing, index, given, slipped>>
  BY <1>2, <1>5 DEF Joins, rust, history
<1>7. UNCHANGED <<managed, next, adopted>>
  BY <1>4, <1>6 DEF Updated
<1>8. groups \in Nat /\ groups' \in Nat /\ groups <= groups' /\ g <= groups' /\ (j.grp = None => g > groups)
  BY <1>0, <1>4, <1>5, <1>6 DEF TabTypes
<1>8a. PICK a \in {"name", "done"} : a = IF j.grp = None THEN "name" ELSE "done"
  OBVIOUS
<1> DEFINE m == [j EXCEPT !.at = a]
           n == [m EXCEPT !.grp = IF j.grp = None THEN g ELSE None]
<1>9. m \in Job /\ m.kind = j.kind /\ m.i = j.i /\ m.tab = j.tab /\ m.at = a /\ m.grp = j.grp
  BY DEF Job
<1>10. n \in Job /\ n.kind = m.kind /\ n.i = m.i /\ n.grp = (IF j.grp = None THEN g ELSE None) /\ n.at = m.at /\ n.tab = m.tab
  <2> HIDE DEF m
  <2> QED BY <1>9 DEF Job
<1>11. jobs' = [jobs EXCEPT ![s] = n]
  BY <1>0, <1>2, <1>6, <1>8a DEF TabTypes
<1> HIDE DEF m, n
<1>12. PICK w \in Job : w = n
  BY <1>10
<1>13. /\ w.kind = "new" /\ w.at = a /\ w.tab = j.tab /\ w.i = j.i
       /\ w.grp = IF j.grp = None THEN g ELSE None
       /\ jobs' = [jobs EXCEPT ![s] = w] /\ jobs'[s] = w /\ \A r \in Slot \ {s} : jobs'[r] = jobs[r]
  BY <1>0, <1>1, <1>2, <1>9, <1>10, <1>11, <1>12 DEF TabTypes
<1>14. group' \in [Tab -> Int] /\ group'[j.tab] = g /\ \A u \in Tab \ {j.tab} : group'[u] = group[u]
  BY <1>0, <1>4, <1>6, TypeFacts
<1>15. ASSUME NEW k \in Job, Handled(k), Making(k) => k.grp # g PROVE Handled(k)'
  <2>1. born' \in Nat /\ born <= born' /\ next' \in Nat /\ next <= next' /\ born \in Nat
    BY <1>0, <1>6, <1>7, TypeFacts DEF TabTypes
  <2>2. \A x \in Index : managed'[x] = managed[x] /\ managed[x] \in Tab \cup {None}
    BY <1>0, <1>7, TypeFacts
  <2>3. Opening(k) => k.tab \in grouping' /\ \A x \in Index : managed'[x] = k.tab => managed[x] = k.tab
    BY <1>6, <1>15, <2>2 DEF Handled
  <2>4. Making(k) => /\ agentGroup' # k.grp
                     /\ ~slipped' => ~slipped /\ \A t \in Tab : group'[t] = k.grp => group[t] = k.grp
    <3>1. Making(k) => agentGroup' # k.grp
      BY <1>6, <1>15 DEF Handled
    <3>2. Making(k) => \A t \in Tab : group'[t] = k.grp => group[t] = k.grp
      BY <1>14, <1>15
    <3> QED BY <1>6, <3>1, <3>2
  <2> QED BY <1>0, <1>8, <1>15, <2>1, <2>2, <2>3, <2>4, HandledAfter
<1>16. Handled(w)'
  <2>1. (w.grp # None => w.grp \in 1 .. groups') /\ (w.at = "name" => w.grp # None)
    BY <1>8, <1>8a, <1>13
  <2>2. w.tab \in grouping' /\ \A k \in Index : managed'[k] = w.tab => k = w.i
    BY <1>4, <1>6, <1>7, <1>13
  <2>3. Making(w) => /\ agentGroup' # w.grp
                     /\ \A t \in Tab : group'[t] = w.grp => t = w.tab
    <3> SUFFICES ASSUME Making(w) PROVE agentGroup' # w.grp /\ \A t \in Tab : group'[t] = w.grp => t = w.tab
      OBVIOUS
    <3>1. w.grp = g /\ j.grp = None /\ g > groups
      BY <1>8, <1>13 DEF Making
    <3>2. agentGroup' # w.grp
      BY <1>0, <1>6, <1>8, <3>1 DEF TabTypes, Kept, memory
    <3>3. \A t \in Tab : group[t] <= groups /\ group[t] \in Int
      BY <1>0 DEF TabTypes
    <3>4. \A t \in Tab : group'[t] = w.grp => t = w.tab
      BY <1>8, <1>13, <1>14, <3>1, <3>3
    <3> QED BY <3>2, <3>4
  <2>4. w.tab \in Tab /\ w.tab <= born' /\ w.i \in Index /\ w.i < next' /\ managed'[w.i] \in {w.tab, None}
    BY <1>4, <1>6, <1>7, <1>13
  <2> QED BY <1>13, <2>1, <2>2, <2>3, <2>4 DEF Handled, Opening, Closing, Making
<1>17. JobInv' /\ jobs' \in [Slot -> Job \cup {None}]
  <2>1. ASSUME NEW r \in Slot \ {s}, jobs[r] # None PROVE Making(jobs[r]) => jobs[r].grp # g /\ jobs[r].grp # w.grp
    <3> SUFFICES ASSUME Making(jobs[r]) PROVE jobs[r].grp # g /\ jobs[r].grp # w.grp
      OBVIOUS
    <3>1. jobs[r].grp \in 1 .. groups /\ jobs[r].grp # None /\ Opening(jobs[r])
      BY <1>0, <2>1 DEF JobInv, Handled, Making, Opening
    <3>2. jobs[r].grp # j.grp
      BY <1>0, <1>1, <1>2, <1>3, <2>1, <3>1 DEF JobInv
    <3>3. jobs[r].grp # g
      BY <1>5, <1>8, <3>1, <3>2
    <3> QED BY <1>13, <3>1, <3>3
  <2>2. \A k \in Job : (\E r \in Slot \ {s} : jobs[r] = k) /\ Handled(k) => Handled(k)'
    BY <1>15, <2>1
  <2>3. \A r \in Slot \ {s} : Opening(w) /\ jobs[r] # None /\ Opening(jobs[r]) =>
            /\ jobs[r].tab # w.tab
            /\ Making(w) \/ Making(jobs[r]) => jobs[r].grp # w.grp
    <3> SUFFICES ASSUME NEW r \in Slot \ {s}, jobs[r] # None, Opening(jobs[r])
                 PROVE  /\ jobs[r].tab # w.tab
                        /\ Making(w) \/ Making(jobs[r]) => jobs[r].grp # w.grp
      OBVIOUS
    <3>1. jobs[r].tab # w.tab
      BY <1>0, <1>1, <1>2, <1>3, <1>13 DEF JobInv
    <3>2. Making(w) => jobs[r].grp # w.grp
      <4>1. jobs[r].grp # None => jobs[r].grp \in 1 .. groups
        BY <1>0 DEF JobInv, Handled, Opening
      <4>2. Making(w) => w.grp > groups /\ w.grp \in Nat
        BY <1>8, <1>13 DEF Making
      <4> QED BY <1>8, <4>1, <4>2
    <3> QED BY <2>1, <3>1, <3>2
  <2>4. \A t \in grouping' : \/ Opening(w) /\ w.tab = t
                             \/ t \in grouping /\ ~(jobs[s] # None /\ Opening(jobs[s]) /\ jobs[s].tab = t)
    BY <1>2, <1>6, <1>13 DEF Opening
  <2> QED BY <1>0, <1>13, <1>16, <2>2, <2>3, <2>4, JobMoves
<1>18. GoesOn(None)
  BY <1>0, <1>6 DEF GoesOn, TabTypes
<1>19. Awaited'
  <2>1. jobs'["now"] = None <=> jobs["now"] = None
    BY <1>1, <1>13 DEF Slot
  <2>2. jobs["now"] # None => jobs'["now"].kind = jobs["now"].kind /\ jobs'["now"].i = jobs["now"].i
    BY <1>1, <1>2, <1>13 DEF Slot
  <2> QED BY <1>0, <1>6, <2>1, <2>2 DEF Awaited
<1>20. TabTypes'
  <2>1. Kept(memory) /\ Kept(saved)
    BY <1>0 DEF TabTypes
  <2>2. agentGroup = None \/ agentGroup \in 1 .. groups'
    BY <1>8, <2>1 DEF Kept, memory
  <2>3. saved[4] = None \/ saved[4] \in 1 .. groups'
    BY <1>8, <2>1 DEF Kept
  <2>4. Kept(memory)'
    BY <1>6, <1>7, <2>1, <2>2 DEF Kept, memory
  <2>5. Kept(saved)'
    BY <1>6, <2>1, <2>3 DEF Kept
  <2>6. \A t \in Tab : group'[t] <= groups' /\ (t > born' => group'[t] = Gone)
    <3> SUFFICES ASSUME NEW t \in Tab PROVE group'[t] <= groups' /\ (t > born' => group'[t] = Gone)
      OBVIOUS
    <3>1. group[t] <= groups /\ (t > born => group[t] = Gone) /\ group[t] \in Int /\ born \in Nat
      BY <1>0 DEF TabTypes
    <3> QED BY <1>4, <1>6, <1>8, <1>14, <3>1
  <2> QED BY <1>0, <1>6, <1>8, <1>14, <1>17, <1>18, <2>4, <2>5, <2>6 DEF TabTypes, GoesOn
<1>21. PlacesKept'
  <2>1. next' = next /\ next \in Nat /\ managed' = managed /\ saved' = saved
    BY <1>0, <1>6, <1>7, TypeFacts
  <2>2. \A k \in Index : k < next => managed'[k] \in {managed[k], None}
    BY <2>1
  <2>3. next' \in Nat /\ next <= next' /\ None \in Index \cup {None} /\ None \notin Index
    BY <2>1
  <2> QED BY <1>0, <1>18, <2>1, <2>2, <2>3, PlacesAfter
<1>22. GroupInv'
  <2>1. Managed' = Managed
    BY <1>7 DEF Managed
  <2>2. \A k \in Index : managed'[k] # None => managed'[k] \in grouping' \/ \E x \in Index : saved'[1][x] = managed'[k]
    BY <1>0, <1>6, <1>7 DEF GroupInv
  <2>4. ~slipped => j.tab \in Managed
    BY <1>0, <1>4, <1>6 DEF GroupInv
  <2>5. ~slipped' => \A t \in grouping' : group'[t] # Gone => t \in Managed'
    <3> SUFFICES ASSUME ~slipped', NEW t \in grouping', group'[t] # Gone PROVE t \in Managed'
      OBVIOUS
    <3>1. t \in grouping /\ t \in Tab
      BY <1>0, <1>6, TypeFacts
    <3>2. group[t] # Gone
      BY <1>6, <1>14, <3>1
    <3> QED BY <1>0, <1>6, <2>1, <3>1, <3>2 DEF GroupInv
  <2>6. ~slipped' => \A t \in Tab : InGroup(t)' => t \in Managed' \/ Releasing(t)'
    <3> SUFFICES ASSUME ~slipped', NEW t \in Tab, InGroup(t)', t # j.tab PROVE t \in Managed' \/ Releasing(t)'
      BY <1>6, <2>1, <2>4
    <3>1. InGroup(t)
      BY <1>6, <1>14 DEF InGroup
    <3>2. t \in Managed \/ Releasing(t)
      BY <1>0, <1>6, <3>1 DEF GroupInv, Releasing
    <3>3. Releasing(t) => Releasing(t)'
      <4>1. \A r \in Slot : Parts(r) => r # s
        BY <1>1 DEF Parts, Parting
      <4> QED BY <1>13, <4>1 DEF Releasing, Parts, Parting
    <3> QED BY <2>1, <3>2, <3>3
  <2> QED BY <2>2, <2>5, <2>6 DEF GroupInv
<1> QED BY <1>17, <1>19, <1>20, <1>21, <1>22 DEF TabInv

\* A new group has its id: whoever is in it was put there by the command.
LEMMA NamesKept ==
  ASSUME TabInv, NEW s \in Slot, Names(s)
  PROVE  TabInv'
<1> USE NoneIsNothing
<1>0. TabTypes /\ JobInv /\ Awaited /\ PlacesKept /\ GroupInv
  BY DEF TabInv
<1>1. /\ jobs[s] # None /\ jobs[s].kind = "new" /\ jobs[s].at = "name"
      /\ UNCHANGED <<group, born, groups, managed, next, active, adopted, grouping, saved, slipped, doing, index, given>>
      /\ agentGroup' = jobs[s].grp
      /\ jobs' = [jobs EXCEPT ![s].at = "done"]
  BY DEF Names, At, browser, rust, history
<1>2. PICK j \in Job : jobs[s] = j
  BY <1>0, <1>1, TypeFacts
<1>3. Handled(j) /\ Opening(j) /\ Making(j)
  BY <1>0, <1>1, <1>2 DEF JobInv, Handled, Opening, Making
<1>4. /\ j.tab \in Tab /\ j.tab \in grouping /\ j.grp \in 1 .. groups /\ groups \in Nat
      /\ ~slipped => \A t \in Tab : group[t] = j.grp => t = j.tab
  BY <1>0, <1>1, <1>2, <1>3 DEF Handled, TabTypes
<1> DEFINE n == [j EXCEPT !.at = "done"]
<1>5. n \in Job /\ n.kind = j.kind /\ n.i = j.i /\ n.tab = j.tab /\ n.at = "done" /\ n.grp = j.grp
  BY DEF Job
<1>6. jobs' = [jobs EXCEPT ![s] = n]
  BY <1>0, <1>1, <1>2 DEF TabTypes
<1> HIDE DEF n
<1>7. PICK w \in Job : w = n
  BY <1>5
<1>8. /\ w.kind = "new" /\ w.at = "done" /\ w.tab = j.tab /\ w.i = j.i /\ w.grp = j.grp
      /\ jobs' = [jobs EXCEPT ![s] = w] /\ jobs'[s] = w /\ \A r \in Slot \ {s} : jobs'[r] = jobs[r]
  BY <1>0, <1>1, <1>2, <1>5, <1>6, <1>7 DEF TabTypes
<1>9. ASSUME NEW k \in Job, Handled(k), Making(k) => k.grp # j.grp PROVE Handled(k)'
  <2>1. born' \in Nat /\ born <= born' /\ next' \in Nat /\ next <= next' /\ born \in Nat
        /\ groups' = groups /\ groups \in Nat
    BY <1>0, <1>1, TypeFacts DEF TabTypes
  <2>2. \A x \in Index : managed'[x] = managed[x]
    BY <1>1
  <2>3. Opening(k) => k.tab \in grouping' /\ \A x \in Index : managed'[x] = k.tab => managed[x] = k.tab
    BY <1>1, <1>9, <2>2 DEF Handled
  <2>4. Making(k) => /\ agentGroup' # k.grp
                     /\ ~slipped' => ~slipped /\ \A t \in Tab : group'[t] = k.grp => group[t] = k.grp
    BY <1>1, <1>2, <1>9 DEF Handled
  <2> QED BY <1>0, <1>9, <2>1, <2>2, <2>3, <2>4, HandledAfter
<1>10. Handled(w)'
  <2>1. Handled(w)
    BY <1>1, <1>2, <1>3, <1>8 DEF Handled, Opening, Closing, Making
  <2> QED BY <1>8, <1>9, <2>1 DEF Making
<1>11. JobInv' /\ jobs' \in [Slot -> Job \cup {None}]
  <2>1. ASSUME NEW k \in Job, NEW r \in Slot \ {s}, jobs[r] = k, Handled(k) PROVE Handled(k)'
    <3>1. jobs[r] # None
      BY <2>1
    <3>2. Making(k) => k.grp # j.grp
      <4>1. Making(k) => Opening(k)
        BY DEF Making, Opening
      <4> QED BY <1>0, <1>1, <1>2, <1>3, <2>1, <3>1, <4>1 DEF JobInv
    <3> QED BY <1>9, <2>1, <3>2
  <2>2. \A k \in Job : (\E r \in Slot \ {s} : jobs[r] = k) /\ Handled(k) => Handled(k)'
    BY <2>1
  <2>3. \A r \in Slot \ {s} : Opening(w) /\ jobs[r] # None /\ Opening(jobs[r]) =>
            /\ jobs[r].tab # w.tab
            /\ Making(w) \/ Making(jobs[r]) => jobs[r].grp # w.grp
    <3> SUFFICES ASSUME NEW r \in Slot \ {s}, jobs[r] # None, Opening(jobs[r])
                 PROVE  jobs[r].tab # w.tab /\ jobs[r].grp # w.grp
      OBVIOUS
    <3> QED BY <1>0, <1>1, <1>2, <1>3, <1>8 DEF JobInv
  <2>4. \A t \in grouping' : \/ Opening(w) /\ w.tab = t
                             \/ t \in grouping /\ ~(jobs[s] # None /\ Opening(jobs[s]) /\ jobs[s].tab = t)
    BY <1>1, <1>2, <1>8 DEF Opening
  <2>5. w.at # "start"
    BY <1>8
  <2> QED BY <1>0, <1>8, <1>10, <2>2, <2>3, <2>4, <2>5, JobMoves
<1>12. GoesOn(None)
  BY <1>0, <1>1 DEF GoesOn, TabTypes
<1>13. Awaited'
  <2>1. jobs'["now"] = None <=> jobs["now"] = None
    BY <1>1, <1>8 DEF Slot
  <2>2. jobs["now"] # None => jobs'["now"].kind = jobs["now"].kind /\ jobs'["now"].i = jobs["now"].i
    BY <1>1, <1>2, <1>8 DEF Slot
  <2> QED BY <1>0, <1>1, <2>1, <2>2 DEF Awaited
<1>14. TabTypes'
  <2>1. Kept(memory) /\ Kept(saved)
    BY <1>0 DEF TabTypes
  <2>2. Kept(memory)'
    BY <1>1, <1>2, <1>4, <2>1 DEF Kept, memory
  <2>3. Kept(saved)'
    BY <1>1, <2>1 DEF Kept
  <2> QED BY <1>0, <1>1, <1>11, <1>12, <2>2, <2>3 DEF TabTypes, GoesOn
<1>15. PlacesKept'
  <2>1. next' = next /\ next \in Nat /\ managed' = managed /\ saved' = saved
    BY <1>0, <1>1, TypeFacts
  <2>2. \A k \in Index : k < next => managed'[k] \in {managed[k], None}
    BY <2>1
  <2>3. next' \in Nat /\ next <= next' /\ None \in Index \cup {None} /\ None \notin Index
    BY <2>1
  <2> QED BY <1>0, <1>12, <2>1, <2>2, <2>3, PlacesAfter
<1>16. GroupInv'
  <2>1. Managed' = Managed
    BY <1>1 DEF Managed
  <2>2. \A k \in Index : managed'[k] # None => managed'[k] \in grouping' \/ \E x \in Index : saved'[1][x] = managed'[k]
    BY <1>0, <1>1 DEF GroupInv
  <2>3. ~slipped' => \A t \in grouping' : group'[t] # Gone => t \in Managed'
    BY <1>0, <1>1, <2>1 DEF GroupInv
  <2>4. ASSUME ~slipped', NEW t \in Tab, InGroup(t)' PROVE t \in Managed'
    <3>1. group[t] = j.grp /\ ~slipped
      BY <1>1, <1>2, <2>4 DEF InGroup
    <3>2. t = j.tab /\ group[t] # Gone
      BY <1>4, <3>1 DEF Gone
    <3> QED BY <1>0, <1>4, <2>1, <3>1, <3>2 DEF GroupInv
  <2> QED BY <2>2, <2>3, <2>4 DEF GroupInv
<1> QED BY <1>11, <1>13, <1>14, <1>15, <1>16 DEF TabInv

\* The page is there, and the group known.
LEMMA CreatedKept ==
  ASSUME TabInv, NEW s \in Slot, Created(s)
  PROVE  TabInv'
<1> USE NoneIsNothing
<1>0. TabTypes /\ JobInv /\ Awaited /\ PlacesKept /\ GroupInv
  BY DEF TabInv
<1>1. /\ jobs[s] # None /\ jobs[s].kind = "new" /\ jobs[s].at = "done"
      /\ UNCHANGED <<group, born, groups, managed, next, agentGroup, adopted, slipped>>
      /\ saved' = memory' /\ Answer(s, TRUE, jobs[s].i)
  BY DEF Created, At, Saves, browser, history
<1>2. PICK j \in Job : jobs[s] = j
  BY <1>0, <1>1, TypeFacts
<1>3. Handled(j) /\ Opening(j)
  BY <1>0, <1>1, <1>2 DEF JobInv, Opening
<1>4. /\ j.tab \in Tab /\ j.tab \in grouping /\ j.i \in Index /\ (j.grp = None \/ j.grp \in 1 .. groups)
  BY <1>1, <1>2, <1>3 DEF Handled
<1>5. grouping' = grouping \ {j.tab} /\ active' = j.i
  BY <1>2 DEF Created
<1>6. /\ GoesOn(j.i) /\ Awaited' /\ jobs' \in [Slot -> Job \cup {None}]
      /\ (jobs'[s] # None => Waits(jobs'[s])) /\ \A r \in Slot \ {s} : jobs'[r] = jobs[r]
  <2>1. s = "now" => doing.stage # "switch"
    BY <1>0, <1>1 DEF Awaited
  <2>2. Answer(s, TRUE, j.i)
    BY <1>1, <1>2
  <2> QED BY <1>0, <1>1, <1>4, <2>1, <2>2, AnswerIs
<1>7. ASSUME NEW k \in Job, Handled(k), Opening(k) => k.tab # j.tab PROVE Handled(k)'
  <2>1. /\ groups \in Nat /\ groups' = groups /\ born' \in Nat /\ born <= born' /\ next' \in Nat /\ next <= next' /\ born \in Nat
    BY <1>0, <1>1, TypeFacts DEF TabTypes
  <2>2. \A x \in Index : managed'[x] = managed[x]
    BY <1>1
  <2>3. Opening(k) => k.tab \in grouping' /\ \A x \in Index : managed'[x] = k.tab => managed[x] = k.tab
    BY <1>5, <1>7, <2>2 DEF Handled
  <2>4. Making(k) => /\ agentGroup' # k.grp
                     /\ ~slipped' => ~slipped /\ \A t \in Tab : group'[t] = k.grp => group[t] = k.grp
    BY <1>1, <1>5, <1>7 DEF Handled
  <2> QED BY <1>0, <1>7, <2>1, <2>2, <2>3, <2>4, HandledAfter
<1>8. JobInv'
  <2>1. ASSUME NEW k \in Job, NEW r \in Slot \ {s}, jobs[r] = k, Handled(k) PROVE Handled(k)'
    <3>1. jobs[r] # None
      BY <2>1
    <3>2. Opening(k) => k.tab # j.tab
      BY <1>0, <1>1, <1>2, <1>3, <2>1, <3>1 DEF JobInv
    <3> QED BY <1>7, <2>1, <3>2
  <2>2. \A t \in grouping' : t \in grouping /\ ~(jobs[s] # None /\ Opening(jobs[s]) /\ jobs[s].tab = t)
    BY <1>2, <1>5
  <2> QED BY <1>0, <1>6, <2>1, <2>2, JobsAfter
<1>9. TabTypes'
  <2>1. Kept(memory)'
    <3>1. Kept(memory)
      BY <1>0 DEF TabTypes
    <3> QED BY <1>1, <1>4, <1>5, <3>1 DEF Kept, memory
  <2>2. Kept(saved)'
    BY <1>1, <2>1 DEF Kept
  <2>3. grouping' \subseteq Tab
    BY <1>0, <1>5, TypeFacts
  <2> QED BY <1>0, <1>1, <1>6, <2>1, <2>2, <2>3 DEF TabTypes, GoesOn
<1>10. PlacesKept'
  <2>1. next' = next /\ next \in Nat /\ managed' = managed
    BY <1>0, <1>1, TypeFacts
  <2>2. \A k \in Index : k < next => managed'[k] \in {managed[k], None}
    BY <2>1
  <2>3. next' \in Nat /\ next <= next' /\ j.i \in Index \cup {None}
    BY <1>4, <2>1
  <2> QED BY <1>0, <1>1, <1>6, <2>1, <2>2, <2>3, PlacesAfter
<1>11. GroupInv'
  <2>1. saved'[1] = managed' /\ Managed' = Managed
    BY <1>1 DEF memory, Managed
  <2>2. \A k \in Index : managed'[k] # None => managed'[k] \in grouping' \/ \E x \in Index : saved'[1][x] = managed'[k]
    BY <2>1
  <2>3. ~slipped' => \A t \in grouping' : group'[t] # Gone => t \in Managed'
    BY <1>0, <1>1, <1>5, <2>1 DEF GroupInv
  <2>4. ~slipped' => \A t \in Tab : InGroup(t)' => t \in Managed' \/ Releasing(t)'
    <3> SUFFICES ASSUME ~slipped', NEW t \in Tab, InGroup(t)' PROVE t \in Managed' \/ Releasing(t)'
      OBVIOUS
    <3>1. InGroup(t)
      BY <1>1 DEF InGroup
    <3>2. t \in Managed \/ Releasing(t)
      BY <1>0, <1>1, <3>1 DEF GroupInv
    <3>3. Releasing(t) => Releasing(t)'
      <4>1. \A r \in Slot : Parts(r) => r # s
        BY <1>1 DEF Parts, Parting
      <4> QED BY <1>6, <4>1 DEF Releasing, Parts, Parting
    <3> QED BY <2>1, <3>2, <3>3
  <2> QED BY <2>2, <2>3, <2>4 DEF GroupInv
<1> QED BY <1>6, <1>8, <1>9, <1>10, <1>11 DEF TabInv

\* The user moves a tab into the group, or from it into another.
LEMMA UserMovesInKept ==
  ASSUME TabInv, NEW t \in Tab, NEW g \in Group, UserMovesIn(t, g)
  PROVE  TabInv'
<1> USE NoneIsNothing
<1>0. TabTypes /\ JobInv /\ Awaited /\ PlacesKept /\ GroupInv
  BY DEF TabInv
<1>1. /\ group[t] # Gone /\ Exists(g) /\ group' = [group EXCEPT ![t] = g] /\ Updated(t, g)
      /\ slipped' = (slipped \/ \E s \in Slot : At(s, {"new"}, "name"))
      /\ UNCHANGED <<active, agentGroup, born, groups, grouping, jobs, doing, index, given>>
      /\ saved' = IF managed' # managed THEN memory' ELSE saved
  BY DEF UserMovesIn, Slot, rust
<1>2. g \in Nat \ {0} /\ g <= groups /\ t <= born /\ groups \in Nat /\ born \in Nat
  <2>1. PICK u \in Tab : group[u] = g
    BY <1>1 DEF Exists
  <2>2. g \in Nat \ {0}
    BY TabsAssumption DEF Group
  <2>3. group[u] <= groups /\ groups \in Nat
    BY <1>0 DEF TabTypes
  <2>4. born \in Nat /\ ~(t > born)
    BY <1>0, <1>1 DEF TabTypes
  <2> QED BY <2>1, <2>2, <2>3, <2>4
<1>3. group' \in [Tab -> Int] /\ group'[t] = g /\ \A u \in Tab \ {t} : group'[u] = group[u]
  BY <1>0, <1>1, <1>2, TypeFacts
<1>4. /\ managed' \in [Index -> Tab \cup {None}] /\ next' \in 0 .. MaxIndex /\ next \in Nat /\ next <= next'
      /\ adopted' \subseteq Tab
      /\ \A k \in Index : k < next => managed'[k] \in {managed[k], None}
      /\ \A k \in Index : managed'[k] # None => k < next' /\ managed'[k] <= born
      /\ \A k \in Index, u \in Tab : u \in grouping /\ managed'[k] = u => managed[k] = u
      /\ \A u \in Tab : u # t /\ u \in Managed => u \in Managed'
      /\ t \in grouping => managed' = managed
      /\ g = agentGroup /\ t \notin grouping => t \in Managed'
  <2>1. next \in 0 .. MaxIndex /\ \A k \in Index : managed[k] # None => k < next /\ managed[k] <= born
    BY <1>0 DEF TabTypes, Kept, memory
  <2>2. CASE UNCHANGED <<managed, next, adopted>> /\ (g = agentGroup /\ t \notin grouping => t \in Managed)
    <3>1. managed' = managed /\ next' = next /\ adopted' = adopted /\ Managed' = Managed
      BY <2>2 DEF Managed
    <3>2. managed' \in [Index -> Tab \cup {None}] /\ adopted' \subseteq Tab /\ next \in Nat
      BY <1>0, <3>1, TypeFacts
    <3> QED BY <2>1, <2>2, <3>1, <3>2
  <2>3. CASE t \notin grouping /\ g # agentGroup /\ Revoke(t) /\ UNCHANGED next
    <3>1. /\ managed' \in [Index -> Tab \cup {None}]
          /\ \A k \in Index : managed'[k] \in {managed[k], None}
          /\ \A u \in Tab : u \in Managed /\ u # t => u \in Managed'
      BY <1>0, <2>3, NotManagingIs DEF Revoke
    <3>2. adopted' \subseteq Tab
      BY <1>0, <2>3, TypeFacts DEF Revoke
    <3> QED BY <2>1, <2>3, <3>1, <3>2
  <2>4. CASE t \notin grouping /\ TakeIndex(t) /\ adopted' = adopted \cup {t}
    <3>1. /\ next \in Index /\ managed[next] = None /\ next' = next + 1 /\ next' \in 0 .. MaxIndex
          /\ managed' \in [Index -> Tab \cup {None}] /\ managed'[next] = t
          /\ \A k \in Index \ {next} : managed'[k] = managed[k]
          /\ \A k \in Index : k < next => k # next
          /\ \A u \in Tab : u \in Managed => u \in Managed'
          /\ t \in Managed'
      BY <1>0, <2>4, TakeIndexIs
    <3>2. next \in Nat /\ next <= next'
      BY <3>1
    <3>3. adopted' \subseteq Tab
      BY <1>0, <2>4, TypeFacts
    <3>4. \A k \in Index : managed'[k] # None => k < next' /\ managed'[k] <= born
      <4> SUFFICES ASSUME NEW k \in Index, managed'[k] # None PROVE k < next' /\ managed'[k] <= born
        OBVIOUS
      <4>1. CASE k = next
        BY <1>2, <3>1, <3>2, <4>1
      <4>2. CASE k # next
        <5>1. managed'[k] = managed[k] /\ k < next /\ managed[k] <= born /\ k \in Nat
          BY <2>1, <3>1, <4>2
        <5> QED BY <3>1, <3>2, <5>1
      <4> QED BY <4>1, <4>2
    <3> QED BY <2>4, <3>1, <3>2, <3>3, <3>4
  <2> QED BY <1>1, <2>2, <2>3, <2>4 DEF Updated
<1>5. ASSUME NEW k \in Job, Handled(k), Making(k) => slipped' PROVE Handled(k)'
  <2>1. /\ groups' = groups /\ groups \in Nat /\ born' \in Nat /\ born <= born' /\ next' \in Nat
    BY <1>1, <1>2, <1>4
  <2>2. Opening(k) => k.tab \in grouping' /\ \A x \in Index : managed'[x] = k.tab => managed[x] = k.tab
    <3>1. Opening(k) => k.tab \in grouping /\ k.tab \in Tab
      BY <1>0, <1>5, TypeFacts DEF Handled
    <3> QED BY <1>1, <1>4, <3>1
  <2>3. Making(k) => /\ agentGroup' # k.grp
                     /\ ~slipped' => ~slipped /\ \A u \in Tab : group'[u] = k.grp => group[u] = k.grp
    BY <1>1, <1>5 DEF Handled
  <2> QED BY <1>0, <1>4, <1>5, <2>1, <2>2, <2>3, HandledAfter
<1>6. JobInv'
  <2>1. \A s \in Slot : jobs[s] # None => Handled(jobs[s])'
    <3> SUFFICES ASSUME NEW s \in Slot, jobs[s] # None PROVE Handled(jobs[s])'
      OBVIOUS
    <3>1. PICK k \in Job : jobs[s] = k
      BY <1>0, TypeFacts
    <3>2. Handled(k) /\ jobs'[s] = k
      BY <1>0, <1>1, <3>1 DEF JobInv
    <3>3. Making(k) => slipped'
      BY <1>1, <3>1 DEF Making, At
    <3>4. Handled(k)'
      BY <1>5, <3>2, <3>3
    <3> QED BY <3>2, <3>4 DEF Handled, Opening, Closing, Making
  <2> QED BY <1>0, <1>1, <2>1 DEF JobInv, Opening, Making, Waits
<1>7. GoesOn(None) /\ Awaited' /\ jobs' \in [Slot -> Job \cup {None}]
  BY <1>0, <1>1 DEF GoesOn, TabTypes, Awaited
<1>8. saved' = memory' \/ (saved' = saved /\ managed' = managed)
  BY <1>1
<1>9. TabTypes'
  <2>1. Kept(memory) /\ Kept(saved)
    BY <1>0 DEF TabTypes
  <2>2. Kept(memory)'
    BY <1>1, <1>4, <2>1 DEF Kept, memory
  <2>3. Kept(saved)'
    <3>1. CASE saved' = memory'
      BY <2>2, <3>1 DEF Kept
    <3>2. CASE saved' = saved
      BY <1>1, <2>1, <3>2 DEF Kept
    <3> QED BY <1>8, <3>1, <3>2
  <2>4. \A u \in Tab : group'[u] <= groups' /\ (u > born' => group'[u] = Gone)
    BY <1>0, <1>1, <1>2, <1>3 DEF TabTypes
  <2>5. slipped' \in BOOLEAN
    BY <1>1
  <2> QED BY <1>0, <1>1, <1>3, <1>7, <2>2, <2>3, <2>4, <2>5 DEF TabTypes, GoesOn
<1>10. PlacesKept'
  <2>1. next' \in Nat /\ None \in Index \cup {None} /\ None \notin Index
    BY <1>4
  <2>2. saved' = memory' \/ saved' = saved
    BY <1>8
  <2> QED BY <1>0, <1>4, <1>7, <2>1, <2>2, PlacesAfter
<1>11. GroupInv'
  <2>1. \A k \in Index : managed'[k] # None => managed'[k] \in grouping' \/ \E x \in Index : saved'[1][x] = managed'[k]
    <3>1. saved' = memory' => saved'[1] = managed'
      BY DEF memory
    <3> QED BY <1>0, <1>1, <1>8, <3>1 DEF GroupInv
  <2>3. ~slipped' => \A u \in grouping' : group'[u] # Gone => u \in Managed'
    <3> SUFFICES ASSUME ~slipped', NEW u \in grouping', group'[u] # Gone PROVE u \in Managed'
      OBVIOUS
    <3>1. u \in grouping /\ u \in Tab /\ group[u] # Gone /\ ~slipped
      BY <1>0, <1>1, <1>3, TypeFacts
    <3>2. u \in Managed
      BY <1>0, <3>1 DEF GroupInv
    <3> QED BY <1>4, <3>1, <3>2 DEF Managed
  <2>4. ~slipped' => \A u \in Tab : InGroup(u)' => u \in Managed' \/ Releasing(u)'
    <3> SUFFICES ASSUME ~slipped', NEW u \in Tab, InGroup(u)' PROVE u \in Managed' \/ Releasing(u)'
      OBVIOUS
    <3>1. CASE u = t
      <4>1. g = agentGroup
        BY <1>1, <1>3, <3>1 DEF InGroup
      <4>2. CASE t \in grouping
        <5>1. t \in Managed
          BY <1>0, <1>1, <4>2 DEF GroupInv
        <5> QED BY <1>4, <3>1, <4>2, <5>1 DEF Managed
      <4> QED BY <1>4, <3>1, <4>1, <4>2
    <3>2. CASE u # t
      <4>1. InGroup(u) /\ ~slipped
        BY <1>1, <1>3, <3>2 DEF InGroup
      <4>2. u \in Managed \/ Releasing(u)
        BY <1>0, <4>1 DEF GroupInv, Releasing
      <4>3. Releasing(u) => Releasing(u)'
        BY <1>1 DEF Releasing, Parts, Parting
      <4> QED BY <1>4, <3>2, <4>2, <4>3
    <3> QED BY <3>1, <3>2
  <2> QED BY <2>1, <2>3, <2>4 DEF GroupInv
<1> QED BY <1>6, <1>7, <1>9, <1>10, <1>11 DEF TabInv

\* The tabs that a restart adopts get indices of their own, behind those saved.
Before(S, t) == {u \in S : u < t}
LEMMA PlacesAreTaken ==
  ASSUME NEW more \in SUBSET Tab, NEW n \in Nat
  PROVE  /\ IsFiniteSet(more) /\ Cardinality(more) \in Nat
         /\ more = {} => Cardinality(more) = 0
         /\ \A t \in more : /\ n + Cardinality(Before(more, t)) \in Nat
                           /\ n <= n + Cardinality(Before(more, t))
                           /\ n + Cardinality(Before(more, t)) < n + Cardinality(more)
         /\ \A t, u \in more : n + Cardinality(Before(more, t)) = n + Cardinality(Before(more, u)) => t = u
<1> DEFINE Below(t) == Before(more, t)
<1>1. IsFiniteSet(more)
  <2>1. IsFiniteSet(Tab)
    BY TabsAssumption, FS_Interval DEF Tab
  <2> QED BY <2>1, FS_Subset
<1>2. Cardinality(more) \in Nat /\ (more = {} => Cardinality(more) = 0)
  BY <1>1, FS_CardinalityType, FS_EmptySet
<1>3. \A t \in more : t \in Nat
  BY NoneIsNothing
<1>4. ASSUME NEW t \in more
      PROVE  /\ IsFiniteSet(Below(t)) /\ Cardinality(Below(t)) \in Nat /\ Cardinality(Below(t)) < Cardinality(more)
  <2>1. Below(t) \subseteq more /\ t \notin Below(t)
    BY <1>3 DEF Before
  <2> HIDE DEF Below
  <2>2. IsFiniteSet(Below(t)) /\ Cardinality(Below(t)) <= Cardinality(more)
    BY <1>1, <2>1, FS_Subset
  <2>3. Cardinality(Below(t)) # Cardinality(more)
    BY <1>1, <1>4, <2>1, FS_Subset
  <2>4. Cardinality(Below(t)) \in Nat
    BY <2>2, FS_CardinalityType
  <2> QED BY <1>2, <2>2, <2>3, <2>4
<1>5. ASSUME NEW t \in more, NEW u \in more, t < u PROVE Cardinality(Below(t)) < Cardinality(Below(u))
  <2>1. Below(t) \subseteq Below(u) /\ t \in Below(u) /\ t \notin Below(t)
    BY <1>3, <1>5 DEF Before
  <2>2. IsFiniteSet(Below(u)) /\ Cardinality(Below(u)) \in Nat /\ Cardinality(Below(t)) \in Nat
    BY <1>4
  <2> HIDE DEF Below
  <2>3. Cardinality(Below(t)) <= Cardinality(Below(u)) /\ Cardinality(Below(t)) # Cardinality(Below(u))
    BY <2>1, <2>2, FS_Subset
  <2> QED BY <2>2, <2>3
<1>6. ASSUME NEW t \in more, NEW u \in more, Cardinality(Below(t)) = Cardinality(Below(u)) PROVE t = u
  <2>1. t \in Nat /\ u \in Nat
    BY <1>3
  <2>2. Cardinality(Below(t)) \in Nat /\ Cardinality(Below(u)) \in Nat
    BY <1>4
  <2>3. ~(t < u) /\ ~(u < t)
    <3> HIDE DEF Below
    <3> QED BY <1>5, <1>6, <2>2
  <2> QED BY <2>1, <2>3
<1>7. \A t \in more : n + Cardinality(Below(t)) \in Nat /\ n <= n + Cardinality(Below(t)) /\ n + Cardinality(Below(t)) < n + Cardinality(more)
  <2> HIDE DEF Below
  <2> QED BY <1>2, <1>4
<1>8. \A t, u \in more : n + Cardinality(Below(t)) = n + Cardinality(Below(u)) => t = u
  <2> SUFFICES ASSUME NEW t \in more, NEW u \in more, n + Cardinality(Below(t)) = n + Cardinality(Below(u)) PROVE t = u
    OBVIOUS
  <2>1. Cardinality(Below(t)) \in Nat /\ Cardinality(Below(u)) \in Nat
    BY <1>4
  <2>2. Cardinality(Below(t)) = Cardinality(Below(u))
    <3> HIDE DEF Below
    <3> QED BY <2>1
  <2> QED BY <1>6, <2>2
<1> QED BY <1>1, <1>2, <1>7, <1>8

\* What a restart leads to, from a state that was kept.
LEMMA RestoresIs ==
  ASSUME TabTypes, NEW state, Kept(state), Restores(state, group'), group' \in [Tab -> Int],
         \A t \in Tab : group'[t] \in {group[t], Gone}, UNCHANGED <<born, groups>>
  PROVE  /\ Kept(memory)' /\ Kept(saved)'
         /\ state[2] <= next' /\ state[2] <= saved'[2]
         /\ \A k \in Index : k < state[2] => managed'[k] = state[1][k] /\ saved'[1][k] = state[1][k]
         /\ \A k \in Index : managed'[k] # None => \E x \in Index : saved'[1][x] = managed'[k]
         /\ \A t \in Tab : InGroup(t)' =>
               t \in Managed' \/ (state[4] # None /\ agentGroup' = state[4] /\ managed' = state[1])
         /\ saved'[1] = managed' /\ saved'[5] = adopted' /\ state[5] \subseteq adopted'
         /\ \A k \in Index : managed'[k] = state[1][k] \/ managed'[k] \in adopted'
<1> USE NoneIsNothing
<1> DEFINE old == {t \in Tab : \E i \in Index : state[1][i] = t}
           claimed == {g \in Group : state[4] = None /\ \E t \in Tab : group'[t] = g}
           h == IF claimed = {} THEN state[4] ELSE CHOOSE x \in claimed : TRUE
           more == {t \in Tab : claimed # {} /\ group'[t] = h} \ old
           Place(t) == state[2] + Cardinality(Before(more, t))
<1>1. /\ state[2] + Cardinality(more) <= MaxIndex
      /\ managed' = [i \in Index |-> IF \E t \in more : Place(t) = i
                                     THEN CHOOSE t \in more : Place(t) = i ELSE state[1][i]]
      /\ next' = state[2] + Cardinality(more) /\ active' = state[3]
      /\ agentGroup' = h /\ adopted' = state[5] \cup more
      /\ saved' = IF more = {} THEN state ELSE memory'
  BY DEF Restores, Before
<1>2. /\ state[1] \in [Index -> Tab \cup {None}] /\ state[2] \in Nat /\ state[3] \in Index
      /\ (state[4] = None \/ state[4] \in 1 .. groups) /\ state[5] \subseteq Tab
      /\ \A i \in Index : state[1][i] # None => i < state[2] /\ state[1][i] <= born
      /\ born \in Nat /\ groups \in Nat /\ MaxIndex \in Nat
  BY TabsAssumption DEF Kept, TabTypes
<1>3. more \in SUBSET Tab
  OBVIOUS
<1>4. /\ Cardinality(more) \in Nat /\ (more = {} => Cardinality(more) = 0)
      /\ \A t \in more : Place(t) \in Nat /\ state[2] <= Place(t) /\ Place(t) < state[2] + Cardinality(more)
      /\ \A t, u \in more : Place(t) = Place(u) => t = u
  <2> HIDE DEF more
  <2> QED BY <1>2, <1>3, PlacesAreTaken
<1>5. claimed # {} => h \in claimed
  OBVIOUS
<1>6. \A x \in claimed : x \in Group /\ state[4] = None /\ \E t \in Tab : group'[t] = x
  OBVIOUS
<1>7. \A t \in more : h \in claimed /\ group'[t] = h /\ t \in Tab
  BY <1>5
<1>8. more = {} \/ h \in claimed
  BY <1>5
<1>9. claimed = {} => h = state[4] /\ more = {}
  OBVIOUS
<1>10. \A t \in Tab : claimed # {} /\ group'[t] = h => t \in more \/ \E i \in Index : state[1][i] = t
  OBVIOUS
<1>11. claimed = {} \/ h \in claimed
  BY <1>5
<1> HIDE DEF claimed, h, more, Place, old
<1>11a. h \in claimed => h \in 1 .. groups /\ state[4] = None
  <2> SUFFICES ASSUME h \in claimed PROVE h \in 1 .. groups /\ state[4] = None
    OBVIOUS
  <2>1. PICK x \in Group : x = h
    BY <1>6
  <2>2. state[4] = None /\ \E t \in Tab : group'[t] = x
    BY <1>6, <2>1
  <2>3. PICK t \in Tab : group'[t] = x
    BY <2>2
  <2>4. x \in Nat \ {0} /\ x # Gone
    BY TabsAssumption DEF Group, Gone
  <2>5. group[t] = x /\ group[t] <= groups
    BY <2>3, <2>4 DEF TabTypes
  <2> QED BY <1>2, <2>1, <2>2, <2>4, <2>5
<1>11b. \A t \in more : t <= born
  <2> SUFFICES ASSUME NEW t \in more PROVE t <= born
    OBVIOUS
  <2>1. h \in claimed /\ group'[t] = h /\ t \in Tab
    BY <1>7
  <2>2. group[t] # Gone
    <3>1. h \in 1 .. groups
      BY <1>11a, <2>1
    <3>2. group'[t] # Gone
      BY <1>2, <2>1, <3>1 DEF Gone
    <3> QED BY <2>1, <3>2
  <2> QED BY <1>2, <2>1, <2>2 DEF TabTypes
<1>12. \A k \in Index : k < state[2] => managed'[k] = state[1][k]
  BY <1>1, <1>2, <1>4
<1>13. \A k \in Index : (\E t \in more : Place(t) = k /\ managed'[k] = t) \/ managed'[k] = state[1][k]
  <2> SUFFICES ASSUME NEW k \in Index, managed'[k] # state[1][k] PROVE \E t \in more : Place(t) = k /\ managed'[k] = t
    OBVIOUS
  <2>1. (\E t \in more : Place(t) = k) /\ managed'[k] = CHOOSE t \in more : Place(t) = k
    BY <1>1
  <2> QED BY <2>1
<1>14. \A t \in more : t \in Managed'
  <2> SUFFICES ASSUME NEW t \in more PROVE t \in Managed'
    OBVIOUS
  <2>1. Place(t) \in Index
    BY <1>1, <1>2, <1>4 DEF Index
  <2>2. managed'[Place(t)] = CHOOSE u \in more : Place(u) = Place(t)
    BY <1>1, <2>1
  <2>3. managed'[Place(t)] = t
    BY <1>4, <2>2
  <2>4. t \in Tab
    BY <1>3
  <2> QED BY <2>1, <2>3, <2>4 DEF Managed
<1>15. Kept(memory)'
  <2>1. managed' \in [Index -> Tab \cup {None}]
    <3>1. \A k \in Index : managed'[k] \in Tab \cup {None}
      BY <1>2, <1>3, <1>13
    <3> QED BY <1>1, <3>1
  <2>2. next' \in 0 .. MaxIndex /\ state[2] <= next'
    BY <1>1, <1>2, <1>4
  <2>3. agentGroup' = None \/ agentGroup' \in 1 .. groups
    BY <1>1, <1>2, <1>9, <1>11, <1>11a
  <2>4. \A k \in Index : managed'[k] # None => k < next' /\ managed'[k] <= born
    <3> SUFFICES ASSUME NEW k \in Index, managed'[k] # None PROVE k < next' /\ managed'[k] <= born
      OBVIOUS
    <3>1. CASE \E t \in more : Place(t) = k /\ managed'[k] = t
      BY <1>1, <1>4, <1>11b, <3>1
    <3>2. CASE managed'[k] = state[1][k]
      <4>1. k < state[2] /\ managed'[k] <= born /\ k \in Nat
        BY <1>2, <3>2
      <4> QED BY <1>2, <2>2, <4>1
    <3> QED BY <1>13, <3>1, <3>2
  <2>5. adopted' \subseteq Tab /\ active' \in Index
    BY <1>1, <1>2, <1>3
  <2> QED BY <2>1, <2>2, <2>3, <2>4, <2>5 DEF Kept, memory
<1>16. saved' = memory' \/ (more = {} /\ saved' = state /\ managed' = state[1] /\ next' = state[2])
  <2>1. CASE more # {}
    BY <1>1, <2>1
  <2>2. CASE more = {}
    <3>1. next' = state[2]
      BY <1>1, <1>2, <1>4, <2>2
    <3>2. managed' = state[1]
      BY <1>1, <1>2, <2>2
    <3> QED BY <1>1, <2>2, <3>1, <3>2
  <2> QED BY <2>1, <2>2
<1>17. Kept(saved)'
  <2>1. CASE saved' = memory'
    BY <1>15, <2>1 DEF Kept
  <2>2. CASE saved' = state
    BY <2>2 DEF Kept
  <2> QED BY <1>16, <2>1, <2>2
<1>18. state[2] <= next'
  BY <1>1, <1>2, <1>4
<1>19. saved'[1] = managed' /\ saved'[2] = next'
  BY <1>16 DEF memory
<1>21. ASSUME NEW t \in Tab, InGroup(t)'
       PROVE  t \in Managed' \/ (state[4] # None /\ agentGroup' = state[4] /\ managed' = state[1])
  <2>1. agentGroup' = h /\ h # None /\ group'[t] = h
    BY <1>1, <1>21 DEF InGroup
  <2>2. CASE claimed = {}
    <3>1. more = {} /\ h = state[4]
      BY <1>9, <2>2
    <3>2. managed' = state[1]
      BY <1>1, <1>2, <3>1
    <3> QED BY <2>1, <3>1, <3>2
  <2>3. CASE claimed # {}
    <3>1. CASE t \in more
      BY <1>14, <3>1
    <3>2. CASE \E i \in Index : state[1][i] = t
      <4>1. PICK i \in Index : state[1][i] = t
        BY <3>2
      <4>2. i < state[2]
        BY <1>2, <4>1
      <4>3. managed'[i] = t
        BY <1>12, <4>1, <4>2
      <4> QED BY <4>3 DEF Managed
    <3> QED BY <1>10, <2>1, <2>3, <3>1, <3>2
  <2> QED BY <2>2, <2>3
<1>22. saved'[5] = adopted' /\ state[5] \subseteq adopted' /\ more \subseteq adopted'
  <2>1. adopted' = state[5] \cup more
    BY <1>1
  <2>2. saved' = memory' => saved'[5] = adopted'
    BY DEF memory
  <2> QED BY <1>16, <2>1, <2>2
<1>23. \A k \in Index : managed'[k] = state[1][k] \/ managed'[k] \in adopted'
  BY <1>13, <1>22
<1> QED BY <1>12, <1>15, <1>17, <1>18, <1>19, <1>21, <1>22, <1>23

\* No command outlives the worker.
LEMMA RestartKept ==
  ASSUME TabInv, NEW state, Restart(state[4]), Kept(state), Restores(state, group'), group' \in [Tab -> Int],
         \A t \in Tab : group'[t] \in {group[t], Gone},
         given' \in [Ctx -> Tab \cup {None}],
         \A c \in Ctx : index[c] # None /\ given'[c] # None =>
            index[c] < state[2] /\ state[1][index[c]] \in {given'[c], None},
         state[4] # None => state = saved
  PROVE  TabInv'
<1> USE NoneIsNothing
<1>0. TabTypes /\ JobInv /\ Awaited /\ PlacesKept /\ GroupInv
  BY DEF TabInv
<1>1. /\ grouping' = {} /\ doing' = None /\ jobs' = [now |-> None, late |-> None]
      /\ slipped' = \/ slipped \/ jobs # [now |-> None, late |-> None]
                    \/ state[4] # agentGroup /\ Exists(state[4])
      /\ UNCHANGED <<born, groups, index>>
  BY DEF Restart
<1>2. /\ Kept(memory)' /\ Kept(saved)'
      /\ state[2] <= next' /\ state[2] <= saved'[2]
      /\ \A k \in Index : k < state[2] => managed'[k] = state[1][k] /\ saved'[1][k] = state[1][k]
      /\ \A k \in Index : managed'[k] # None => \E x \in Index : saved'[1][x] = managed'[k]
      /\ \A t \in Tab : InGroup(t)' =>
            t \in Managed' \/ (state[4] # None /\ agentGroup' = state[4] /\ managed' = state[1])
  BY <1>0, <1>1, RestoresIs
<1>3. jobs' = [s \in Slot |-> None] /\ jobs' \in [Slot -> Job \cup {None}] /\ \A s \in Slot : jobs'[s] = None
  <2>1. jobs' = [s \in Slot |-> None]
    BY <1>1 DEF Slot
  <2> QED BY <2>1
<1>4. TabTypes'
  <2>1. \A t \in Tab : group'[t] <= groups' /\ (t > born' => group'[t] = Gone)
    <3> SUFFICES ASSUME NEW t \in Tab PROVE group'[t] <= groups' /\ (t > born' => group'[t] = Gone)
      OBVIOUS
    <3>1. group[t] <= groups /\ (t > born => group[t] = Gone) /\ groups \in Nat
      BY <1>0 DEF TabTypes
    <3>2. CASE group'[t] = group[t]
      BY <1>1, <3>1, <3>2
    <3>3. CASE group'[t] = Gone
      BY <1>1, <3>1, <3>3 DEF Gone
    <3> QED BY <3>2, <3>3
  <2>2. slipped' \in BOOLEAN
    BY <1>0, <1>1, TypeFacts
  <2> QED BY <1>0, <1>1, <1>2, <1>3, <2>1, <2>2 DEF TabTypes
<1>5. Awaited'
  BY <1>1 DEF Awaited
<1>6. PlacesKept'
  <2> SUFFICES ASSUME NEW c \in Ctx, index[c] # None, given'[c] # None
               PROVE  /\ index[c] < next' /\ index[c] < saved'[2]
                      /\ managed'[index[c]] \in {given'[c], None} /\ saved'[1][index[c]] \in {given'[c], None}
    BY <1>1 DEF PlacesKept
  <2>1. index[c] \in Index /\ index[c] \in Nat
    BY <1>0 DEF TabTypes
  <2>2. index[c] < state[2] /\ state[1][index[c]] \in {given'[c], None}
    OBVIOUS
  <2>3. state[2] \in Nat /\ next' \in Nat /\ saved'[2] \in Nat
    BY <1>2 DEF Kept, memory
  <2> QED BY <1>2, <2>1, <2>2, <2>3
<1>7. JobInv'
  BY <1>1, <1>3 DEF JobInv
<1>8. GroupInv'
  <2>1. ASSUME ~slipped', NEW t \in Tab, InGroup(t)' PROVE t \in Managed'
    <3>1. CASE t \in Managed'
      BY <3>1
    <3>2. CASE state[4] # None /\ agentGroup' = state[4] /\ managed' = state[1]
      <4>1. state = saved
        BY <3>2
      <4>2. saved[4] \in Nat \ {0} /\ group'[t] = saved[4]
        BY <1>0, <2>1, <3>2, <4>1, GroupsKnown DEF InGroup
      <4>3. group[t] = saved[4]
        <5>1. group'[t] # Gone
          BY <4>2 DEF Gone
        <5> QED BY <4>2, <5>1
      <4>4. Exists(saved[4])
        BY <3>2, <4>1, <4>3 DEF Exists
      <4>5. saved[4] = agentGroup /\ InGroup(t)
        BY <1>1, <2>1, <3>2, <4>1, <4>3, <4>4 DEF InGroup
      <4>6. \A s \in Slot : jobs[s] = None
        <5>1. jobs = [now |-> None, late |-> None]
          BY <1>1, <2>1
        <5>2. jobs["now"] = None /\ jobs["late"] = None
          BY <5>1
        <5> QED BY <5>2 DEF Slot
      <4>7. grouping = {} /\ ~Releasing(t)
        BY <1>0, <4>6 DEF JobInv, Releasing, Parts
      <4>8. t \in Managed
        BY <1>0, <1>1, <2>1, <4>5, <4>7 DEF GroupInv, Releasing
      <4>9. PICK k \in Index : saved[1][k] = t
        BY <1>0, <4>7, <4>8 DEF GroupInv, Managed
      <4> QED BY <3>2, <4>1, <4>9 DEF Managed
    <3> QED BY <1>2, <2>1, <3>1, <3>2
  <2> QED BY <1>1, <1>2, <2>1 DEF GroupInv, InGroup, Managed
<1> QED BY <1>4, <1>5, <1>6, <1>7, <1>8 DEF TabInv

LEMMA WorkerRestartsKept ==
  ASSUME TabInv, NEW closed \in SUBSET Tab, WorkerRestarts(closed)
  PROVE  TabInv'
<1> USE NoneIsNothing
<1>1. TabTypes /\ PlacesKept
  BY DEF TabInv
<1>2. Restart(saved[4]) /\ Restores(saved, group') /\ given' = given
  BY DEF WorkerRestarts
<1>3. group' \in [Tab -> Int] /\ \A t \in Tab : group'[t] \in {group[t], Gone}
  <2>1. \A t \in Tab : group[t] \in Int /\ Gone \in Int
    BY <1>1, TypeFacts DEF Gone
  <2> QED BY <2>1 DEF WorkerRestarts
<1>4. Kept(saved) /\ given' \in [Ctx -> Tab \cup {None}]
  BY <1>1, <1>2 DEF TabTypes
<1>5. \A c \in Ctx : index[c] # None /\ given'[c] # None =>
        index[c] < saved[2] /\ saved[1][index[c]] \in {given'[c], None}
  BY <1>1, <1>2 DEF PlacesKept
<1>6. PICK state : state = saved
  OBVIOUS
<1>7. Restores(state, group') /\ Kept(state) /\ Restart(state[4])
  BY <1>2, <1>4, <1>6 DEF Restores, Kept, Restart
<1>8. \A c \in Ctx : index[c] # None /\ given'[c] # None =>
        index[c] < state[2] /\ state[1][index[c]] \in {given'[c], None}
  BY <1>5, <1>6
<1> QED BY <1>2, <1>3, <1>4, <1>6, <1>7, <1>8, RestartKept

LEMMA BrowserRestartsKept ==
  ASSUME TabInv, BrowserRestarts
  PROVE  TabInv'
<1> USE NoneIsNothing
<1>1. TabTypes
  BY DEF TabInv
<1>2. Restart(None) /\ Restores(Fresh, group) /\ given' = [c \in Ctx |-> None] /\ group' = group
  BY DEF BrowserRestarts
<1>3. group' \in [Tab -> Int] /\ \A t \in Tab : group'[t] \in {group[t], Gone}
  BY <1>1, <1>2, TypeFacts
<1>4. Kept(Fresh) /\ Fresh[4] = None
  <2>1. 0 \in Index /\ 0 \in 0 .. MaxIndex
    BY TabsAssumption DEF Index
  <2> QED BY <2>1 DEF Kept, Fresh
<1>5. given' \in [Ctx -> Tab \cup {None}] /\ \A c \in Ctx : given'[c] = None
  BY <1>2
<1>6. PICK state : state = Fresh
  OBVIOUS
<1>7. Restores(state, group') /\ Kept(state) /\ state[4] = None
  <2>1. Kept(state) /\ state[4] = None
    BY <1>4, <1>6 DEF Kept
  <2>2. Restores(Fresh, group')
    BY <1>2 DEF Restores
  <2>3. Restores(state, group')
    BY <1>6, <2>2 DEF Restores
  <2> QED BY <2>1, <2>3
<1>8. Restart(state[4])
  BY <1>2, <1>7 DEF Restart
<1> QED BY <1>2, <1>3, <1>5, <1>7, <1>8, RestartKept

LEMMA TabsInit ==
  ASSUME Init
  PROVE  TabInv
<1> USE NoneIsNothing
<1>1. 0 \in Index /\ 0 \in 0 .. MaxIndex /\ 1 \in Tab /\ Session \in Ctx
  BY TabsAssumption DEF Index, Tab
<1>2. Kept(memory) /\ Kept(saved)
  BY <1>1 DEF Init, Kept, memory
<1>3. jobs = [s \in Slot |-> None] /\ \A s \in Slot : jobs[s] = None
  <2>1. jobs = [s \in Slot |-> None]
    BY DEF Init, Slot
  <2> QED BY <2>1
<1>4. TabTypes
  <2>1. group \in [Tab -> Int] /\ \A t \in Tab : group[t] <= groups /\ (t > born => group[t] = Gone)
    BY DEF Init, Ungrouped, Gone
  <2> QED BY <1>1, <1>2, <1>3, <2>1 DEF Init, TabTypes
<1>5. Awaited
  BY DEF Init, Awaited
<1>6. PlacesKept
  BY DEF Init, PlacesKept
<1>7. JobInv
  BY <1>3 DEF Init, JobInv
<1>8. GroupInv
  BY DEF Init, GroupInv, memory, InGroup
<1> QED BY <1>4, <1>5, <1>6, <1>7, <1>8 DEF TabInv

\* A step that leaves the extension alone.
LEMMA TabsStutter ==
  ASSUME TabInv, UNCHANGED vars
  PROVE  TabInv'
<1>1. UNCHANGED <<group, born, groups, managed, next, active, agentGroup, adopted, grouping, saved, jobs, doing, index, given, slipped>>
  BY DEF vars, browser, memory, rust, history
<1> QED BY <1>1 DEF TabInv, TabTypes, Awaited, PlacesKept, JobInv, GroupInv, Kept, memory, Waits, Handled, Opening,
                     Closing, Making, Managed, InGroup, Releasing, Parts, Parting

\* The tabs keep it.
LEMMA TabsStep == TabInv /\ [Next]_vars => TabInv'
<1> SUFFICES ASSUME TabInv, [Next]_vars PROVE TabInv'
  OBVIOUS
<1>1. CASE \E c \in Ctx : Acquire(c) \/ Open(c) \/ Close(c)
  BY <1>1, TurnsBegin
<1>2. CASE TimesOut
  BY <1>2, TimesOutKept
<1>3. ASSUME NEW s \in Slot, Starts(s) \/ Check(s) \/ SwitchGoes(s) \/ Acts(s) PROVE TabInv'
  BY <1>3, StartsKept, CheckKept, SwitchGoesKept, ActsKept
<1>4. ASSUME NEW s \in Slot, Creates(s) \/ FindsGroup(s) \/ Joins(s) \/ Names(s) \/ NotJoined(s) \/ Created(s) PROVE TabInv'
  BY <1>4, CreatesKept, FindsGroupKept, JoinsKept, NamesKept, NotJoinedKept, CreatedKept
<1>5. ASSUME NEW s \in Slot, Unlists(s) \/ Decides(s) \/ Releases(s) \/ Forgets(s) PROVE TabInv'
  BY <1>5, UnlistsKept, DecidesKept, ReleasesKept, ForgetsKept
<1>6. ASSUME NEW t \in Tab, UserMovesOut(t) \/ UserCloses(t) \/ \E g \in Group : UserMovesIn(t, g) PROVE TabInv'
  BY <1>6, UserMovesOutKept, UserClosesKept, UserMovesInKept
<1>7. CASE WorkerRestarts({}) \/ \E t \in Tab : group[t] # Gone /\ WorkerRestarts({t})
  <2>1. \A closed \in SUBSET Tab : WorkerRestarts(closed) => TabInv'
    BY WorkerRestartsKept
  <2>2. {} \in SUBSET Tab /\ \A t \in Tab : {t} \in SUBSET Tab
    OBVIOUS
  <2> QED BY <1>7, <2>1, <2>2
<1>8. CASE BrowserRestarts
  BY <1>8, BrowserRestartsKept
<1>9. CASE UNCHANGED vars
  BY <1>9, TabsStutter
<1>10. [Next]_vars => \/ \E c \in Ctx : Acquire(c) \/ Open(c) \/ Close(c)
                      \/ TimesOut
                      \/ \E s \in Slot : Starts(s) \/ Check(s) \/ SwitchGoes(s) \/ Acts(s)
                      \/ \E s \in Slot : Creates(s) \/ FindsGroup(s) \/ Joins(s) \/ Names(s)
                      \/ \E s \in Slot : NotJoined(s) \/ Created(s)
                      \/ \E s \in Slot : Unlists(s) \/ Decides(s) \/ Releases(s) \/ Forgets(s)
                      \/ \E t \in Tab : UserMovesOut(t) \/ UserCloses(t) \/ \E g \in Group : UserMovesIn(t, g)
                      \/ WorkerRestarts({}) \/ \E t \in Tab : group[t] # Gone /\ WorkerRestarts({t})
                      \/ BrowserRestarts
                      \/ UNCHANGED vars
  BY DEF Next, Slot
<1> QED BY <1>1, <1>2, <1>3, <1>4, <1>5, <1>6, <1>7, <1>8, <1>9, <1>10

\* It says of the indices and of the group what they promise.
LEMMA TabsPromise == TabInv => IndexNamesOwnTab /\ GroupIsManaged
<1> SUFFICES ASSUME TabInv PROVE IndexNamesOwnTab /\ GroupIsManaged
  OBVIOUS
<1>1. IndexNamesOwnTab
  BY DEF TabInv, PlacesKept, IndexNamesOwnTab, InUse
<1>2. GroupIsManaged
  BY DEF TabInv, GroupInv, GroupIsManaged, Releasing, Parts, Slot
<1> QED BY <1>1, <1>2

-----------------------------------------------------------------------------
(* The user's tabs *)

\* A tab in the hands of a command that closes its page
Hands(s) ==
  /\ jobs[s] # None /\ jobs[s].kind = "close"
  /\ jobs[s].at \in {"release", "ungroup", "remove", "forget"}
HandedBack(t) == \E s \in Slot : Hands(s) /\ jobs[s].tab = t

\* A saved entry goes with its tab, or with the command that takes it off the list.
SavedInv ==
  \A i \in Index : saved[1][i] # None =>
    managed[i] = saved[1][i] \/ group[saved[1][i]] = Gone \/ HandedBack(saved[1][i])

\* What the extension knows of the user's tabs
TheirsInv ==
  ~readopted /\ ~slipped =>
    \A t \in users :
      /\ InGroup(t) => t \in adopted
      /\ t \in Managed => t \in adopted \/ group[t] = Gone
      /\ (\E i \in Index : saved[1][i] = t) => t \in saved[5] \/ group[t] = Gone \/ HandedBack(t)

UserInv ==
  /\ users \subseteq Tab /\ (\A t \in users : t <= born) /\ users \cap grouping = {}
  /\ SavedInv /\ TheirsInv

\* What a step that keeps UserInv does
Goes(t) == group[t] = Gone => group'[t] = Gone
Theirs(t) ==
  /\ InGroup(t)' => t \in adopted'
  /\ t \in Managed' => t \in adopted' \/ group'[t] = Gone

LEMMA UserKept ==
  ASSUME TabTypes, TabTypes', UserInv,
         users' \subseteq Tab, \A t \in users' : t <= born', users' \cap grouping' = {},
         \A t \in Tab : t <= born => Goes(t),
         readopted => readopted', slipped => slipped',
         ~readopted' /\ ~slipped' => \A t \in users' : Theirs(t),
         \/ saved' = memory'
         \/ /\ saved' = saved
            /\ \A t \in Tab : HandedBack(t) => HandedBack(t)'
            /\ \A i \in Index, t \in Tab : managed[i] = t =>
                 managed'[i] = t \/ group'[t] = Gone \/ HandedBack(t)'
            /\ \A t \in users' : t \in users \/ (t \notin Managed /\ group[t] # Gone)
  PROVE  UserInv'
<1> USE NoneIsNothing
<1>1. CASE saved' = memory'
  <2>1. saved'[1] = managed' /\ saved'[5] = adopted'
    BY <1>1 DEF memory
  <2>2. SavedInv'
    BY <2>1 DEF SavedInv
  <2>3. \A t \in users' : (\E i \in Index : saved'[1][i] = t) => t \in Managed'
    BY <2>1 DEF Managed
  <2>4. TheirsInv'
    BY <2>1, <2>3 DEF TheirsInv, Theirs, InGroup, Managed
  <2> QED BY <2>2, <2>4 DEF UserInv
<1>2. CASE /\ saved' = saved
           /\ \A t \in Tab : HandedBack(t) => HandedBack(t)'
           /\ \A i \in Index, t \in Tab : managed[i] = t =>
                managed'[i] = t \/ group'[t] = Gone \/ HandedBack(t)'
           /\ \A t \in users' : t \in users \/ (t \notin Managed /\ group[t] # Gone)
  <2>1. ASSUME NEW i \in Index, saved[1][i] # None
        PROVE  saved[1][i] \in Tab /\ Goes(saved[1][i])
    BY <2>1 DEF TabTypes, Kept
  <2>2. ASSUME NEW i \in Index, NEW t \in Tab, saved[1][i] = t
        PROVE  managed'[i] = t \/ group'[t] = Gone \/ HandedBack(t)'
    <3>1. managed[i] = t \/ group[t] = Gone \/ HandedBack(t)
      BY <2>2 DEF UserInv, SavedInv
    <3>2. CASE managed[i] = t
      BY <1>2, <3>2
    <3>3. CASE group[t] = Gone
      BY <2>1, <2>2, <3>3 DEF Goes
    <3>4. CASE HandedBack(t)
      BY <1>2, <3>4
    <3> QED BY <3>1, <3>2, <3>3, <3>4
  <2>3. SavedInv'
    <3> SUFFICES ASSUME NEW i \in Index, saved'[1][i] # None
                 PROVE  managed'[i] = saved'[1][i] \/ group'[saved'[1][i]] = Gone \/ HandedBack(saved[1][i])'
      BY DEF SavedInv
    <3>1. PICK t \in Tab : t = saved[1][i]
      BY <1>2, <2>1
    <3>2. managed'[i] = t \/ group'[t] = Gone \/ HandedBack(t)'
      BY <2>2, <3>1
    <3>3. saved'[1][i] = t
      BY <1>2, <3>1
    <3>4. HandedBack(t)' => HandedBack(saved[1][i])'
      BY <3>3 DEF HandedBack
    <3> QED BY <3>2, <3>3, <3>4
  <2>4. TheirsInv'
    <3> SUFFICES ASSUME ~readopted', ~slipped', NEW t \in users',
                        NEW i \in Index, saved[1][i] = t
                 PROVE  t \in saved[5] \/ group'[t] = Gone \/ HandedBack(t)'
      BY <1>2 DEF TheirsInv, Theirs, InGroup, Managed
    <3>1. t \in Tab
      OBVIOUS
    <3>2. CASE t \in users
      <4>1. t \in saved[5] \/ group[t] = Gone \/ HandedBack(t)
        BY <3>2 DEF UserInv, TheirsInv
      <4>2. group[t] = Gone => group'[t] = Gone
        BY <2>1 DEF Goes
      <4> QED BY <1>2, <3>1, <4>1, <4>2
    <3>3. CASE t \notin Managed /\ group[t] # Gone
      <4>1. managed[i] # t
        BY <3>1, <3>3 DEF Managed
      <4>2. HandedBack(t)
        BY <3>1, <3>3, <4>1 DEF UserInv, SavedInv
      <4> QED BY <1>2, <3>1, <4>2
    <3> QED BY <1>2, <3>2, <3>3
  <2> QED BY <2>3, <2>4 DEF UserInv
<1> QED BY <1>1, <1>2

\* The commands that hand a tab back
LEMMA HandedOn ==
  ASSUME TabTypes, NEW s \in Slot,
         \A r \in Slot \ {s} : jobs'[r] = jobs[r],
         \/ ~Hands(s)
         \/ Hands(s)' /\ jobs'[s].tab = jobs[s].tab
  PROVE  \A t \in Tab : HandedBack(t) => HandedBack(t)'
  BY DEF HandedBack, Hands

\* What leaves a step alone that nobody's tab is touched by
LEMMA UserStill ==
  ASSUME TabTypes, TabTypes', UserInv,
         UNCHANGED <<group, born, groups, managed, adopted, users, readopted>>,
         agentGroup' = agentGroup \/ agentGroup' = KnownGroup,
         grouping' \subseteq grouping, slipped => slipped',
         \/ saved' = memory'
         \/ saved' = saved /\ \A t \in Tab : HandedBack(t) => HandedBack(t)'
  PROVE  UserInv'
<1> USE NoneIsNothing
<1>1. users' \subseteq Tab /\ (\A t \in users' : t <= born') /\ users' \cap grouping' = {}
  BY DEF UserInv
<1>2. \A t \in Tab : Goes(t)
  BY DEF Goes
<1>3. agentGroup' \in {agentGroup, None}
  BY GroupsKnown
<1>4. ASSUME ~readopted', ~slipped', NEW t \in users' PROVE Theirs(t)
  <2>1. t \in users /\ ~readopted /\ ~slipped
    BY <1>4
  <2>2. (InGroup(t) => t \in adopted) /\ (t \in Managed => t \in adopted \/ group[t] = Gone)
    BY <2>1 DEF UserInv, TheirsInv
  <2>3. InGroup(t)' => InGroup(t)
    BY <1>3 DEF InGroup
  <2>4. t \in Managed' => t \in Managed
    BY DEF Managed
  <2> QED BY <2>2, <2>3, <2>4 DEF Theirs
<1>5. \A i \in Index, t \in Tab : managed[i] = t =>
        managed'[i] = t \/ group'[t] = Gone \/ HandedBack(t)'
  OBVIOUS
<1>6. \A t \in users' : t \in users
  OBVIOUS
<1>7. readopted => readopted'
  OBVIOUS
<1>8. ~readopted' /\ ~slipped' => \A t \in users' : Theirs(t)
  BY <1>4
<1>9. \/ saved' = memory'
      \/ /\ saved' = saved
         /\ \A t \in Tab : HandedBack(t) => HandedBack(t)'
         /\ \A i \in Index, t \in Tab : managed[i] = t =>
              managed'[i] = t \/ group'[t] = Gone \/ HandedBack(t)'
         /\ \A t \in users' : t \in users \/ (t \notin Managed /\ group[t] # Gone)
  BY <1>5, <1>6
<1> QED BY ONLY TabTypes, TabTypes', UserInv, <1>1, <1>2, <1>7, <1>8, <1>9, slipped => slipped', UserKept

\* An answer leaves the other command alone.
LEMMA AnswerLeaves ==
  ASSUME TabTypes, NEW s \in Slot, NEW ok, NEW i, Answer(s, ok, i)
  PROVE  \A r \in Slot \ {s} : jobs'[r] = jobs[r]
<1>1. CASE s = "now"
  <2>1. \E n : jobs' = [now |-> n, late |-> jobs.late]
    BY <1>1 DEF Answer, Continue
  <2> QED BY <1>1, <2>1 DEF Slot
<1>2. CASE s = "late"
  BY <1>2 DEF Answer, TabTypes, Slot
<1> QED BY <1>1, <1>2 DEF Slot

LEMMA UserContexts ==
  ASSUME TabInv, TabTypes', UserInv, NEW c \in Ctx, Acquire(c) \/ Open(c) \/ Close(c)
  PROVE  UserInv'
<1> USE NoneIsNothing
<1>1. \E job : doing = None /\ jobs' = [jobs EXCEPT !.now = job]
  BY DEF Acquire, Open, Close, Begin
<1>2. UNCHANGED <<group, born, groups, managed, adopted, users, readopted, agentGroup, grouping, slipped, saved>>
  BY DEF Acquire, Open, Close, Begin, browser, memory, history
<1>3. TabTypes /\ jobs["now"] = None
  BY <1>1 DEF TabInv, Awaited
<1>4. \A r \in Slot \ {"now"} : jobs'[r] = jobs[r]
  BY <1>1, <1>3 DEF TabTypes, Slot
<1>5. \A t \in Tab : HandedBack(t) => HandedBack(t)'
  BY <1>3, <1>4 DEF HandedBack, Hands
<1> QED BY <1>2, <1>3, <1>5, UserStill

LEMMA UserTimesOut ==
  ASSUME TabInv, TabTypes', UserInv, TimesOut
  PROVE  UserInv'
<1> USE NoneIsNothing
<1>1. /\ UNCHANGED <<group, born, groups, managed, adopted, users, readopted, agentGroup, grouping, slipped, saved>>
      /\ jobs["late"] = None /\ Continue(FALSE, None, jobs.now)
  BY DEF TimesOut, browser, memory
<1>2. jobs'["late"] = jobs["now"]
  <2>1. \E n : jobs' = [now |-> n, late |-> jobs.now]
    BY <1>1 DEF Continue
  <2> QED BY <2>1
<1>3. \A t \in Tab : HandedBack(t) => HandedBack(t)'
  BY <1>1, <1>2 DEF HandedBack, Hands, Slot
<1> QED BY <1>1, <1>3, UserStill DEF TabInv

\* The steps of a command that touch no tab
LEMMA UserQuiet ==
  ASSUME TabInv, TabTypes', UserInv, NEW s \in Slot,
         Starts(s) \/ SwitchGoes(s) \/ Acts(s) \/ FindsGroup(s)
  PROVE  UserInv'
<1> USE NoneIsNothing
<1>1. TabTypes
  BY DEF TabInv
<1>2. /\ UNCHANGED <<group, born, groups, managed, adopted, users, readopted, grouping, slipped>>
      /\ agentGroup' = agentGroup \/ agentGroup' = KnownGroup
      /\ saved' = memory' \/ saved' = saved
      /\ ~Hands(s)
  BY DEF Starts, SwitchGoes, Acts, FindsGroup, browser, memory, history, At, Hands, Saves
<1>3. \A r \in Slot \ {s} : jobs'[r] = jobs[r]
  <2>1. \/ \E ok, i : Answer(s, ok, i)
        \/ \E a, t : Moves(s, a, t)
        \/ \E g : jobs' = [jobs EXCEPT ![s].at = "join", ![s].grp = g]
    BY DEF Starts, SwitchGoes, Acts, FindsGroup
  <2>2. ASSUME NEW ok, NEW i, Answer(s, ok, i) PROVE \A r \in Slot \ {s} : jobs'[r] = jobs[r]
    BY <1>1, <2>2, AnswerLeaves
  <2> QED BY <1>1, <2>1, <2>2 DEF Moves, TabTypes
<1>4. \A t \in Tab : HandedBack(t) => HandedBack(t)'
  BY <1>1, <1>2, <1>3, HandedOn
<1> QED BY <1>1, <1>2, <1>4, UserStill

\* A tab that has left the group is taken off the list.
LEMMA TheirsLeft ==
  ASSUME TabTypes, UserInv, ~readopted, ~slipped, UNCHANGED <<agentGroup>>,
         NEW t \in Tab, managed' = NotManaging(t), adopted' = adopted \ {t}, ~InGroup(t)',
         NEW u \in users, u # t => group'[u] = group[u]
  PROVE  Theirs(u)
<1> USE NoneIsNothing
<1>1. u \in Tab /\ (InGroup(u) => u \in adopted) /\ (u \in Managed => u \in adopted \/ group[u] = Gone)
  BY DEF UserInv, TheirsInv
<1>2. managed' = [i \in Index |-> IF managed[i] = t THEN None ELSE managed[i]]
  BY DEF NotManaging
<1>3. t \notin Managed'
  BY <1>2 DEF Managed
<1>4. u \in Managed' => u \in Managed /\ u # t
  BY <1>2, <1>3 DEF Managed
<1>5. InGroup(u)' => InGroup(u) /\ u # t
  BY DEF InGroup
<1> QED BY <1>1, <1>4, <1>5 DEF Theirs

LEMMA UserCheck ==
  ASSUME TabInv, TabTypes', UserInv, NEW s \in Slot, Check(s)
  PROVE  UserInv'
<1> USE NoneIsNothing
<1>0. TabTypes /\ JobInv
  BY DEF TabInv
<1>1. /\ UNCHANGED <<group, born, groups, agentGroup, grouping, users, readopted>>
      /\ jobs[s] # None /\ jobs[s].at = "check" /\ jobs[s].kind \in {"switch", "act", "close"}
  BY DEF Check, browser, At
<1>2. PICK t \in Tab : t = jobs[s].tab
  BY <1>0, <1>1 DEF JobInv, Handled
<1>3. \A r \in Slot \ {s} : jobs'[r] = jobs[r]
  <2>1. Moves(s, "go", t) \/ Answer(s, FALSE, None)
    BY <1>2 DEF Check
  <2> QED BY <1>0, <2>1, AnswerLeaves DEF Moves, TabTypes
<1>4. \A u \in Tab : HandedBack(u) => HandedBack(u)'
  BY <1>0, <1>1, <1>3, HandedOn DEF Hands
<1>5. CASE UNCHANGED <<managed, adopted, saved>> /\ (slipped => slipped')
  BY <1>0, <1>1, <1>4, <1>5, UserStill
<1>6. CASE ~InGroup(t) /\ Revoke(t) /\ Saves /\ (slipped => slipped')
  <2>1. users' \subseteq Tab /\ (\A u \in users' : u <= born') /\ users' \cap grouping' = {}
    BY <1>1 DEF UserInv
  <2>2. \A u \in Tab : Goes(u)
    BY <1>1 DEF Goes
  <2>3. ~InGroup(t)'
    BY <1>1, <1>6 DEF InGroup
  <2>4. ~readopted' /\ ~slipped' => \A u \in users' : Theirs(u)
    BY <1>0, <1>1, <1>6, <2>3, TheirsLeft DEF Revoke
  <2> QED BY <1>0, <1>1, <1>6, <2>1, <2>2, <2>4, UserKept DEF Saves
<1>7. \/ UNCHANGED <<managed, adopted, saved, slipped>>
      \/ /\ ~InGroup(t) /\ slipped' = (slipped \/ t \in grouping)
         /\ IF t \in Managed THEN Revoke(t) /\ Saves ELSE UNCHANGED <<managed, adopted, saved>>
  BY <1>2 DEF Check
<1> QED BY <1>5, <1>6, <1>7

\* No new tab is the user's.
LEMMA UserCreates ==
  ASSUME TabInv, TabTypes', UserInv, NEW s \in Slot, Creates(s)
  PROVE  UserInv'
<1> USE NoneIsNothing
<1>0. TabTypes /\ JobInv
  BY DEF TabInv
<1>1. /\ UNCHANGED <<groups, active, adopted, saved, users, slipped, readopted>> /\ agentGroup' = KnownGroup
      /\ ~Hands(s)
  BY DEF Creates, At, Hands, history
<1>2. CASE Answer(s, FALSE, None) /\ UNCHANGED <<born, group, managed, next, grouping>>
  <2>1. \A r \in Slot \ {s} : jobs'[r] = jobs[r]
    BY <1>0, <1>2, AnswerLeaves
  <2>2. \A u \in Tab : HandedBack(u) => HandedBack(u)'
    BY <1>0, <1>1, <2>1, HandedOn
  <2> QED BY <1>0, <1>1, <1>2, <2>2, UserStill
<1>3. CASE /\ born < MaxTabs /\ born' = born + 1
           /\ group' = [group EXCEPT ![born + 1] = Ungrouped]
           /\ TakeIndex(born + 1)
           /\ grouping' = grouping \cup {born + 1}
           /\ jobs' = [jobs EXCEPT ![s].at = "group", ![s].tab = born + 1, ![s].i = next]
  <2>1. PICK b \in Tab : b = born + 1
    BY <1>0, <1>3, TabsAssumption DEF TabTypes, Tab
  <2>2. born \in Nat /\ born' = b /\ group' = [group EXCEPT ![b] = Ungrouped] /\ grouping' = grouping \cup {b} /\ TakeIndex(b)
    BY <1>0, <1>3, <2>1 DEF TabTypes
  <2>3. b \notin users /\ users' \subseteq Tab /\ (\A u \in users' : u <= born') /\ users' \cap grouping' = {}
    <3>1. \A u \in users : u \in Nat /\ u <= born
      BY DEF UserInv
    <3>2. b \notin users /\ \A u \in users : u <= born'
      BY <2>1, <2>2, <3>1
    <3> QED BY <1>1, <2>2, <3>2 DEF UserInv
  <2>4. \A u \in Tab : u # b => group'[u] = group[u]
    BY <1>0, <2>2 DEF TabTypes
  <2>5. \A u \in Tab : u <= born => u # b
    BY <2>1, <2>2
  <2>6. \A u \in Tab : u <= born => Goes(u)
    BY <2>4, <2>5 DEF Goes
  <2>7. /\ managed[next] = None
        /\ \A k \in Index \ {next} : managed'[k] = managed[k]
        /\ managed'[next] = b
    BY ONLY <1>0, <2>2, TakeIndexIs
  <2>8. \A u \in Tab : HandedBack(u) => HandedBack(u)'
    <3>1. \A r \in Slot \ {s} : jobs'[r] = jobs[r]
      BY <1>0, <1>3 DEF TabTypes
    <3> QED BY <1>0, <1>1, <3>1, HandedOn
  <2>9. ASSUME ~readopted', ~slipped', NEW u \in users' PROVE Theirs(u)
    <3>1. u \in users /\ u # b /\ u \in Tab
      BY <1>1, <2>3, <2>9
    <3>2. (InGroup(u) => u \in adopted) /\ (u \in Managed => u \in adopted \/ group[u] = Gone)
      BY <1>1, <2>9, <3>1 DEF UserInv, TheirsInv
    <3>3. agentGroup' \in {agentGroup, None}
      BY <1>0, <1>1, GroupsKnown
    <3>4. InGroup(u)' => InGroup(u)
      BY <2>4, <3>1, <3>3 DEF InGroup
    <3>5. u \in Managed' => u \in Managed
      BY <2>7, <3>1 DEF Managed
    <3> QED BY <1>1, <2>4, <3>1, <3>2, <3>4, <3>5 DEF Theirs
  <2>10. \A i \in Index, u \in Tab : managed[i] = u => managed'[i] = u
    BY <2>7
  <2>11. \A u \in users' : u \in users
    BY <1>1
  <2> QED BY <1>0, <1>1, <2>3, <2>6, <2>8, <2>9, <2>10, <2>11, UserKept
<1> QED BY <1>2, <1>3 DEF Creates

\* The tab that joins the group is the command's own.
LEMMA UserJoins ==
  ASSUME TabInv, TabTypes', UserInv, NEW s \in Slot, Joins(s)
  PROVE  UserInv'
<1> USE NoneIsNothing
<1>0. TabTypes /\ JobInv
  BY DEF TabInv
<1>1. /\ jobs[s] # None /\ jobs[s].kind = "new" /\ jobs[s].at = "join"
      /\ UNCHANGED <<born, agentGroup, grouping, saved, users, slipped, readopted>>
  BY DEF Joins, At, history
<1>2. Handled(jobs[s]) /\ Opening(jobs[s])
  BY <1>0, <1>1 DEF JobInv, Opening
<1>3. PICK t \in Tab : t = jobs[s].tab
  BY <1>1, <1>2 DEF Handled
<1>4. t \in grouping /\ t \notin users
  BY <1>2, <1>3 DEF Handled, UserInv
<1>5. UNCHANGED <<managed, adopted>> /\ group[t] # Gone /\ \A u \in Tab : u # t => group'[u] = group[u]
  <2>1. \E g : group' = [group EXCEPT ![t] = g] /\ Updated(t, g) /\ group[t] # Gone
    BY <1>3 DEF Joins
  <2>2. PICK g : group' = [group EXCEPT ![t] = g] /\ Updated(t, g) /\ group[t] # Gone
    BY <2>1
  <2> QED BY <1>0, <1>4, <2>2 DEF Updated, TabTypes
<1>6. users' \subseteq Tab /\ (\A u \in users' : u <= born') /\ users' \cap grouping' = {}
  BY <1>1 DEF UserInv
<1>7. \A u \in Tab : Goes(u)
  BY <1>5 DEF Goes
<1>8. ASSUME ~readopted', ~slipped', NEW u \in users' PROVE Theirs(u)
  <2>1. u \in users /\ u # t /\ u \in Tab
    BY <1>1, <1>4, <1>6
  <2>2. (InGroup(u) => u \in adopted) /\ (u \in Managed => u \in adopted \/ group[u] = Gone)
    BY <1>1, <1>8, <2>1 DEF UserInv, TheirsInv
  <2> QED BY <1>1, <1>5, <2>1, <2>2 DEF Theirs, InGroup, Managed
<1>9. \A u \in Tab : HandedBack(u) => HandedBack(u)'
  <2>1. \A r \in Slot \ {s} : jobs'[r] = jobs[r]
    BY <1>0 DEF Joins, TabTypes
  <2> QED BY <1>0, <1>1, <2>1, HandedOn DEF Hands
<1>10. \A i \in Index, u \in Tab : managed[i] = u => managed'[i] = u
  BY <1>5
<1>11. \A u \in users' : u \in users
  BY <1>1
<1> QED BY <1>0, <1>1, <1>6, <1>7, <1>8, <1>9, <1>10, <1>11, UserKept

LEMMA UserNotJoined ==
  ASSUME TabInv, TabTypes', UserInv, NEW s \in Slot, NotJoined(s)
  PROVE  UserInv'
<1> USE NoneIsNothing
<1>0. TabTypes /\ JobInv
  BY DEF TabInv
<1>1. /\ jobs[s] # None /\ jobs[s].kind = "new" /\ jobs[s].at \in {"join", "done"}
      /\ UNCHANGED <<born, agentGroup, saved, users, slipped, readopted>>
      /\ managed' = [managed EXCEPT ![jobs[s].i] = None] /\ Answer(s, FALSE, None)
  BY DEF NotJoined, At, history
<1>2. Handled(jobs[s]) /\ Opening(jobs[s])
  BY <1>0, <1>1 DEF JobInv, Opening
<1>3. PICK t \in Tab : t = jobs[s].tab
  BY <1>1, <1>2 DEF Handled
<1>4. t \in grouping /\ t \notin users /\ jobs[s].i \in Index /\ managed[jobs[s].i] \in {t, None}
  BY <1>2, <1>3 DEF Handled, UserInv
<1>5. /\ group' = [group EXCEPT ![t] = Gone] /\ adopted' = adopted \ {t} /\ grouping' = grouping \ {t}
  BY <1>3 DEF NotJoined
<1>6. group'[t] = Gone /\ \A u \in Tab : u # t => group'[u] = group[u]
  BY <1>0, <1>5 DEF TabTypes
<1>7. \A k \in Index : managed'[k] = IF k = jobs[s].i THEN None ELSE managed[k]
  BY <1>0, <1>1, <1>4, TypeFacts
<1>8. users' \subseteq Tab /\ (\A u \in users' : u <= born') /\ users' \cap grouping' = {}
  BY <1>1, <1>5 DEF UserInv
<1>9. \A u \in Tab : Goes(u)
  BY <1>6 DEF Goes
<1>10. ASSUME ~readopted', ~slipped', NEW u \in users' PROVE Theirs(u)
  <2>1. u \in users /\ u # t /\ u \in Tab
    BY <1>1, <1>4, <1>8
  <2>2. (InGroup(u) => u \in adopted) /\ (u \in Managed => u \in adopted \/ group[u] = Gone)
    BY <1>1, <1>10, <2>1 DEF UserInv, TheirsInv
  <2>3. u \in Managed' => u \in Managed
    BY <1>7, <2>1 DEF Managed
  <2> QED BY <1>1, <1>5, <1>6, <2>1, <2>2, <2>3 DEF Theirs, InGroup
<1>11. \A u \in Tab : HandedBack(u) => HandedBack(u)'
  <2>1. \A r \in Slot \ {s} : jobs'[r] = jobs[r]
    BY <1>0, <1>1, AnswerLeaves
  <2> QED BY <1>0, <1>1, <2>1, HandedOn DEF Hands
<1>12. \A i \in Index, u \in Tab : managed[i] = u => managed'[i] = u \/ group'[u] = Gone
  BY <1>4, <1>6, <1>7
<1>13. \A u \in users' : u \in users
  BY <1>1
<1> QED BY <1>0, <1>1, <1>8, <1>9, <1>10, <1>11, <1>12, <1>13, UserKept

\* The group that becomes the extension's own holds the new tab alone.
LEMMA UserNames ==
  ASSUME TabInv, TabTypes', UserInv, NEW s \in Slot, Names(s)
  PROVE  UserInv'
<1> USE NoneIsNothing
<1>0. TabTypes /\ JobInv
  BY DEF TabInv
<1>1. /\ jobs[s] # None /\ jobs[s].kind = "new" /\ jobs[s].at = "name"
      /\ UNCHANGED <<group, born, groups, managed, adopted, users, slipped, readopted>>
      /\ agentGroup' = jobs[s].grp
      /\ UNCHANGED <<grouping, saved>>
      /\ \A r \in Slot \ {s} : jobs'[r] = jobs[r]
  BY <1>0 DEF Names, At, browser, history, TabTypes
<1>2. Handled(jobs[s]) /\ Opening(jobs[s]) /\ jobs[s].tab \in grouping
  BY <1>0, <1>1 DEF JobInv, Opening, Handled
<1>2a. Making(jobs[s])
  BY <1>1, <1>2 DEF Handled, Making
<1>3. users' \subseteq Tab /\ (\A u \in users' : u <= born') /\ users' \cap grouping' = {}
  BY <1>1 DEF UserInv
<1>4. \A u \in Tab : Goes(u)
  BY <1>1 DEF Goes
<1>5. ASSUME ~readopted', ~slipped', NEW u \in users' PROVE Theirs(u)
  <2>1. u \in users /\ u \in Tab /\ u # jobs[s].tab /\ ~slipped
    BY <1>1, <1>2, <1>5 DEF UserInv
  <2>2. (InGroup(u) => u \in adopted) /\ (u \in Managed => u \in adopted \/ group[u] = Gone)
    BY <1>1, <1>5, <2>1 DEF UserInv, TheirsInv
  <2>3. group[u] # jobs[s].grp
    BY <1>2, <1>2a, <2>1 DEF Handled
  <2>4. InGroup(u)' => InGroup(u)
    BY <1>1, <2>3 DEF InGroup
  <2> QED BY <1>1, <2>2, <2>4 DEF Theirs, Managed
<1>6. \A u \in Tab : HandedBack(u) => HandedBack(u)'
  BY <1>0, <1>1, HandedOn DEF Hands
<1>7. \A k \in Index, u \in Tab : managed[k] = u => managed'[k] = u
  BY <1>1
<1>8. \A u \in users' : u \in users
  BY <1>1
<1> QED BY <1>0, <1>1, <1>3, <1>4, <1>5, <1>6, <1>7, <1>8, UserKept

LEMMA UserCreated ==
  ASSUME TabInv, TabTypes', UserInv, NEW s \in Slot, Created(s)
  PROVE  UserInv'
<1>1. /\ UNCHANGED <<group, born, groups, managed, adopted, agentGroup, users, slipped, readopted>>
      /\ grouping' \subseteq grouping /\ saved' = memory'
  BY DEF Created, browser, history, Saves
<1> QED BY <1>1, UserStill DEF TabInv

LEMMA UserUnlists ==
  ASSUME TabInv, TabTypes', UserInv, NEW s \in Slot, Unlists(s)
  PROVE  UserInv'
<1> USE NoneIsNothing
<1>0. TabTypes /\ JobInv
  BY DEF TabInv
<1>1. /\ jobs[s] # None /\ jobs[s].kind = "close" /\ jobs[s].at = "go"
      /\ UNCHANGED <<group, born, groups, agentGroup, adopted, grouping, saved, users, readopted>>
      /\ managed' = [managed EXCEPT ![jobs[s].i] = None]
      /\ (slipped => slipped')
      /\ Moves(s, "release", jobs[s].tab)
  BY DEF Unlists, At, browser
<1>2. Handled(jobs[s])
  BY <1>0, <1>1 DEF JobInv
<1>3. PICK t \in Tab : t = jobs[s].tab
  BY <1>1, <1>2 DEF Handled
<1>4. jobs[s].i \in Index /\ managed[jobs[s].i] \in {t, None}
  BY <1>1, <1>2, <1>3 DEF Handled, Closing
<1>5. \A k \in Index : managed'[k] = IF k = jobs[s].i THEN None ELSE managed[k]
  BY <1>0, <1>1, <1>4, TypeFacts
<1>6. PICK n \in Job : jobs' = [jobs EXCEPT ![s] = n] /\ n.kind = jobs[s].kind /\ n.at = "release" /\ n.tab = t
  <2>1. "release" \in {"check", "go", "release", "ungroup", "remove", "forget"} /\ Moves(s, "release", t)
    BY <1>1, <1>3
  <2> QED BY ONLY <1>0, <1>1, <2>1, MovesIs
<1>7. jobs'[s] = n /\ n # None /\ \A r \in Slot \ {s} : jobs'[r] = jobs[r]
  BY <1>0, <1>6 DEF TabTypes
<1>8. HandedBack(t)' /\ \A u \in Tab : HandedBack(u) => HandedBack(u)'
  <2>1. HandedBack(t)'
    BY <1>1, <1>6, <1>7 DEF HandedBack, Hands
  <2>2. \A u \in Tab : HandedBack(u) => HandedBack(u)'
    BY <1>0, <1>1, <1>7, HandedOn DEF Hands
  <2> QED BY <2>1, <2>2
<1>9. users' \subseteq Tab /\ (\A u \in users' : u <= born') /\ users' \cap grouping' = {}
  BY <1>1 DEF UserInv
<1>10. \A u \in Tab : Goes(u)
  BY <1>1 DEF Goes
<1>11. ASSUME ~readopted', ~slipped', NEW u \in users' PROVE Theirs(u)
  <2>1. u \in users /\ u \in Tab
    BY <1>1, <1>9
  <2>2. (InGroup(u) => u \in adopted) /\ (u \in Managed => u \in adopted \/ group[u] = Gone)
    BY <1>1, <1>11, <2>1 DEF UserInv, TheirsInv
  <2>3. u \in Managed' => u \in Managed
    BY <1>5, <2>1 DEF Managed
  <2> QED BY <1>1, <2>2, <2>3 DEF Theirs, InGroup
<1>12. \A i \in Index, u \in Tab : managed[i] = u => managed'[i] = u \/ HandedBack(u)'
  BY <1>4, <1>5, <1>8
<1>13. \A u \in users' : u \in users
  BY <1>1
<1> QED BY <1>0, <1>1, <1>8, <1>9, <1>10, <1>11, <1>12, <1>13, UserKept

\* releaseTab is told where the tab is.
LEMMA UserDecides ==
  ASSUME TabInv, TabTypes', UserInv, NEW s \in Slot, Decides(s)
  PROVE  UserInv'
<1> USE NoneIsNothing
<1>0. TabTypes /\ JobInv
  BY DEF TabInv
<1>1. /\ jobs[s] # None /\ jobs[s].kind = "close" /\ jobs[s].at = "release"
      /\ UNCHANGED <<group, born, groups, managed, adopted, agentGroup, grouping, saved, users, slipped, readopted>>
      /\ Moves(s, Release(jobs[s].tab), jobs[s].tab)
  BY DEF Decides, At, browser, memory, history
<1>2. PICK t \in Tab : t = jobs[s].tab
  BY <1>0, <1>1 DEF JobInv, Handled
<1>3. PICK a \in {"ungroup", "remove"} : a = Release(t)
  BY DEF Release
<1>4. PICK n \in Job : jobs' = [jobs EXCEPT ![s] = n] /\ n.kind = jobs[s].kind /\ n.at = a /\ n.tab = t
  <2>1. a \in {"check", "go", "release", "ungroup", "remove", "forget"} /\ Moves(s, a, t)
    BY <1>1, <1>2, <1>3
  <2> QED BY ONLY <1>0, <1>1, <2>1, MovesIs
<1>5. jobs'[s] = n /\ n # None /\ \A r \in Slot \ {s} : jobs'[r] = jobs[r]
  BY <1>0, <1>4 DEF TabTypes
<1>6. Hands(s)' /\ jobs'[s].tab = jobs[s].tab
  BY <1>1, <1>2, <1>4, <1>5 DEF Hands
<1>7. \A u \in Tab : HandedBack(u) => HandedBack(u)'
  BY <1>0, <1>5, <1>6, HandedOn
<1> QED BY <1>0, <1>1, <1>7, UserStill

\* What is released leaves the group, and the list with it.
LEMMA UserReleases ==
  ASSUME TabInv, TabTypes', UserInv, NEW s \in Slot, Releases(s)
  PROVE  UserInv'
<1> USE NoneIsNothing
<1>0. TabTypes /\ JobInv
  BY DEF TabInv
<1>1. /\ jobs[s] # None /\ jobs[s].kind = "close" /\ jobs[s].at \in {"ungroup", "remove"}
      /\ UNCHANGED <<born, groups, agentGroup, grouping, users, readopted, slipped>>
      /\ saved' = IF managed' # managed THEN memory' ELSE saved
  BY DEF Releases, At, history
<1>2. Handled(jobs[s])
  BY <1>0, <1>1 DEF JobInv
<1>3. PICK t \in Tab : t = jobs[s].tab
  BY <1>1, <1>2 DEF Handled
<1> DEFINE to == IF group[t] = Gone \/ jobs[s].at = "remove" THEN Gone ELSE Ungrouped
<1>4. /\ group' = [group EXCEPT ![t] = to]
      /\ \/ group'[t] = group[t] /\ UNCHANGED <<managed, next, adopted>>
         \/ group'[t] # group[t] /\ group'[t] = Gone /\ Removed(t) /\ UNCHANGED next
         \/ group'[t] # group[t] /\ group'[t] # Gone /\ Updated(t, group'[t])
      /\ Moves(s, "forget", t)
  BY <1>3 DEF Releases
<1>5. /\ \A u \in Tab : u # t => group'[u] = group[u]
      /\ group'[t] \in {Ungrouped, Gone} /\ (group[t] = Gone => group'[t] = Gone)
  BY <1>0, <1>4, TypeFacts
<1> HIDE DEF to
<1>6. agentGroup # Ungrouped /\ agentGroup # Gone
  BY <1>0, GroupsKnown DEF Ungrouped, Gone
<1>7. Goes(t) /\ ~InGroup(t)'
  BY <1>1, <1>5, <1>6 DEF Goes, InGroup
<1>8. PICK n \in Job : jobs' = [jobs EXCEPT ![s] = n] /\ n.kind = jobs[s].kind /\ n.at = "forget" /\ n.tab = t
  <2>1. "forget" \in {"check", "go", "release", "ungroup", "remove", "forget"} /\ Moves(s, "forget", t)
    BY <1>4
  <2> QED BY ONLY <1>0, <1>1, <2>1, MovesIs
<1>9. jobs'[s] = n /\ n # None /\ \A r \in Slot \ {s} : jobs'[r] = jobs[r]
  BY <1>0, <1>8 DEF TabTypes
<1>10. \A u \in Tab : HandedBack(u) => HandedBack(u)'
  BY <1>0, <1>1, <1>3, <1>8, <1>9, HandedOn DEF Hands
<1>11. users' \subseteq Tab /\ (\A u \in users' : u <= born') /\ users' \cap grouping' = {}
  BY <1>1 DEF UserInv
<1>12. \A u \in Tab : Goes(u)
  BY <1>5, <1>7 DEF Goes
<1>13. \/ UNCHANGED <<managed, adopted>>
       \/ managed' = NotManaging(t) /\ adopted' = adopted \ {t}
  <2>1. group'[t] \in {group[t], Ungrouped, Gone}
    BY <1>5
  <2>2. CASE group'[t] # group[t] /\ group'[t] # Gone
    <3>1. group'[t] = Ungrouped /\ Updated(t, group'[t])
      BY <1>4, <2>1, <2>2
    <3>2. PICK g : g = group'[t]
      OBVIOUS
    <3>3. Updated(t, g) /\ g # agentGroup
      BY <1>6, <3>1, <3>2
    <3> QED BY ONLY <3>3 DEF Updated, Revoke
  <2> QED BY <1>4, <2>2 DEF Removed
<1>14. ASSUME ~readopted', ~slipped', NEW u \in users' PROVE Theirs(u)
  <2>1. u \in users /\ u \in Tab /\ ~readopted /\ ~slipped
    BY <1>1, <1>11, <1>14
  <2>2. CASE UNCHANGED <<managed, adopted>>
    <3>1. (InGroup(u) => u \in adopted) /\ (u \in Managed => u \in adopted \/ group[u] = Gone)
      BY <2>1 DEF UserInv, TheirsInv
    <3>2. InGroup(u)' => InGroup(u)
      BY <1>1, <1>5, <1>7, <2>1 DEF InGroup
    <3> QED BY <1>12, <2>1, <2>2, <3>1, <3>2 DEF Theirs, Managed, Goes
  <2>3. CASE managed' = NotManaging(t) /\ adopted' = adopted \ {t}
    BY <1>0, <1>1, <1>5, <1>7, <2>1, <2>3, TheirsLeft
  <2> QED BY <1>13, <2>2, <2>3
<1>15. \A u \in users' : u \in users
  BY <1>1
<1> QED BY <1>0, <1>1, <1>10, <1>11, <1>12, <1>14, <1>15, UserKept

\* A tab that is forgotten has left the group, or readopted says so.
LEMMA UserForgets ==
  ASSUME TabInv, TabTypes', UserInv, NEW s \in Slot, Forgets(s)
  PROVE  UserInv'
<1> USE NoneIsNothing
<1>0. TabTypes
  BY DEF TabInv
<1>1. PICK t : t = jobs[s].tab
  OBVIOUS
<1>2. /\ UNCHANGED <<group, born, groups, managed, agentGroup, grouping, users, slipped>>
      /\ adopted' = adopted \ {t} /\ saved' = memory'
      /\ readopted' = (readopted \/ (t \in adopted /\ (t \in Managed \/ InGroup(t))))
  BY <1>1 DEF Forgets, browser, Saves
<1>3. users' \subseteq Tab /\ (\A u \in users' : u <= born') /\ users' \cap grouping' = {}
  BY <1>2 DEF UserInv
<1>4. \A u \in Tab : Goes(u)
  BY <1>2 DEF Goes
<1>5. ASSUME ~readopted', ~slipped', NEW u \in users' PROVE Theirs(u)
  <2>1. ~readopted /\ ~slipped /\ u \in users
    BY <1>2, <1>5
  <2>2. (InGroup(u) => u \in adopted) /\ (u \in Managed => u \in adopted \/ group[u] = Gone)
    BY <2>1 DEF UserInv, TheirsInv
  <2>3. u = t => ~InGroup(u) /\ (u \in Managed => group[u] = Gone)
    BY <1>2, <1>5, <2>2
  <2> QED BY <1>2, <2>2, <2>3 DEF Theirs, InGroup, Managed
<1>6. readopted => readopted'
  BY <1>2
<1> QED BY <1>0, <1>2, <1>3, <1>4, <1>5, <1>6, UserKept

\* What the user moves into the group is adopted; what the user moves elsewhere is let go.
LEMMA UserComesIn ==
  ASSUME TabInv, TabTypes', UserInv, NEW t \in Tab, NEW g \in Group, UserMovesIn(t, g)
  PROVE  UserInv'
<1> USE NoneIsNothing
<1>0. TabTypes
  BY DEF TabInv
<1>1. /\ group[t] # Gone /\ group' = [group EXCEPT ![t] = g] /\ Updated(t, g)
      /\ UNCHANGED <<born, groups, agentGroup, grouping, jobs, users, readopted>>
      /\ saved' = IF managed' # managed THEN memory' ELSE saved
      /\ (slipped => slipped')
  BY DEF UserMovesIn
<1>2. group'[t] = g /\ (\A u \in Tab : u # t => group'[u] = group[u]) /\ g # Gone
  <2>1. g # Gone
    BY TabsAssumption DEF Group, Gone
  <2> QED BY <1>0, <1>1, <2>1, TypeFacts
<1>3. users' \subseteq Tab /\ (\A u \in users' : u <= born') /\ users' \cap grouping' = {}
  BY <1>1 DEF UserInv
<1>4. \A u \in Tab : Goes(u)
  BY <1>1, <1>2 DEF Goes
<1>5. \/ UNCHANGED <<managed, adopted>> /\ (t \notin grouping => (t \in Managed <=> g = agentGroup))
      \/ g # agentGroup /\ managed' = NotManaging(t) /\ adopted' = adopted \ {t}
      \/ TakeIndex(t) /\ adopted' = adopted \cup {t}
  BY ONLY <1>1 DEF Updated, Revoke
<1>6. ASSUME ~readopted', ~slipped', NEW u \in users' PROVE Theirs(u)
  <2>1. u \in users /\ u \in Tab /\ u \notin grouping /\ ~readopted /\ ~slipped
    BY <1>1, <1>3, <1>6 DEF UserInv
  <2>2. (InGroup(u) => u \in adopted) /\ (u \in Managed => u \in adopted \/ group[u] = Gone)
    BY <2>1 DEF UserInv, TheirsInv
  <2>3. u # t => (InGroup(u)' => InGroup(u))
    BY <1>1, <1>2, <2>1 DEF InGroup
  <2>4. u = t => (InGroup(u)' <=> g = agentGroup /\ g # None)
    BY <1>1, <1>2, <2>1 DEF InGroup
  <2>5. CASE UNCHANGED <<managed, adopted>> /\ (t \notin grouping => (t \in Managed <=> g = agentGroup))
    BY <1>1, <1>2, <2>1, <2>2, <2>3, <2>4, <2>5 DEF Theirs, Managed
  <2>6. CASE g # agentGroup /\ managed' = NotManaging(t) /\ adopted' = adopted \ {t}
    <3>1. ~InGroup(t)'
      BY <1>1, <1>2, <2>6 DEF InGroup
    <3> QED BY <1>0, <1>1, <1>2, <2>1, <2>6, <3>1, TheirsLeft
  <2>7. CASE TakeIndex(t) /\ adopted' = adopted \cup {t}
    <3>1. u # t => (u \in Managed' => u \in Managed)
      <4>1. managed[next] = None /\ managed'[next] = t /\ \A k \in Index \ {next} : managed'[k] = managed[k]
        BY ONLY <1>0, <2>7, TakeIndexIs
      <4> QED BY <2>1, <4>1 DEF Managed
    <3> QED BY <1>2, <2>1, <2>2, <2>3, <2>7, <3>1 DEF Theirs
  <2> QED BY <1>5, <2>5, <2>6, <2>7
<1>7. \A u \in Tab : HandedBack(u) => HandedBack(u)'
  BY <1>1 DEF HandedBack, Hands
<1>8. \A u \in users' : u \in users
  BY <1>1
<1> QED BY <1>0, <1>1, <1>3, <1>4, <1>6, <1>7, <1>8, UserKept

LEMMA UserGoesOut ==
  ASSUME TabInv, TabTypes', UserInv, NEW t \in Tab, UserMovesOut(t)
  PROVE  UserInv'
<1> USE NoneIsNothing
<1>0. TabTypes
  BY DEF TabInv
<1>1. /\ group[t] \in Group /\ group' = [group EXCEPT ![t] = Ungrouped] /\ Updated(t, Ungrouped)
      /\ UNCHANGED <<born, groups, agentGroup, grouping, jobs, slipped, readopted>>
      /\ users' = IF t \in grouping \/ Doomed(t) THEN users ELSE users \cup {t}
      /\ saved' = IF managed' # managed THEN memory' ELSE saved
  BY DEF UserMovesOut
<1>2. /\ group'[t] = Ungrouped /\ (\A u \in Tab : u # t => group'[u] = group[u])
      /\ group[t] # Gone /\ agentGroup # Ungrouped
  <2>1. group[t] # Gone
    BY <1>1, TabsAssumption DEF Group, Gone
  <2>2. agentGroup # Ungrouped
    BY <1>0, GroupsKnown DEF Ungrouped
  <2> QED BY <1>0, <1>1, <2>1, <2>2, TypeFacts
<1>3. users' \subseteq Tab /\ (\A u \in users' : u <= born') /\ users' \cap grouping' = {}
  <2>1. t <= born
    <3>1. born \in Nat /\ t \in Nat /\ ~(t > born)
      BY <1>0, <1>2 DEF TabTypes
    <3> QED BY <3>1
  <2> QED BY <1>1, <2>1 DEF UserInv
<1>4. \A u \in Tab : Goes(u)
  BY <1>2 DEF Goes
<1>5. /\ \/ UNCHANGED <<managed, adopted>> /\ (t \notin grouping => t \notin Managed)
         \/ managed' = NotManaging(t) /\ adopted' = adopted \ {t}
  BY ONLY <1>1, <1>2 DEF Updated, Revoke
<1>6. ~InGroup(t)'
  BY <1>1, <1>2 DEF InGroup
<1>7. ASSUME ~readopted', ~slipped', NEW u \in users, u # t \/ t \in users PROVE Theirs(u)
  <2>1. u \in Tab /\ ~readopted /\ ~slipped
    BY <1>1, <1>7 DEF UserInv
  <2>2. (InGroup(u) => u \in adopted) /\ (u \in Managed => u \in adopted \/ group[u] = Gone)
    BY <1>7, <2>1 DEF UserInv, TheirsInv
  <2>3. InGroup(u)' => InGroup(u)
    BY <1>1, <1>2, <1>6, <2>1 DEF InGroup
  <2>4. CASE UNCHANGED <<managed, adopted>>
    BY <1>4, <2>1, <2>2, <2>3, <2>4 DEF Theirs, Managed, Goes
  <2>5. CASE managed' = NotManaging(t) /\ adopted' = adopted \ {t}
    BY <1>0, <1>1, <1>2, <1>6, <1>7, <2>1, <2>5, TheirsLeft
  <2> QED BY <1>5, <2>4, <2>5
<1>8. t \notin grouping => t \notin Managed'
  <2>1. CASE managed' = NotManaging(t)
    BY <2>1 DEF NotManaging, Managed
  <2> QED BY <1>5, <2>1 DEF Managed
<1>9. ASSUME ~readopted', ~slipped', NEW u \in users' PROVE Theirs(u)
  <2>1. CASE u \in users
    BY <1>7, <1>9, <2>1
  <2>2. CASE u \notin users
    BY <1>1, <1>6, <1>8, <2>2 DEF Theirs
  <2> QED BY <2>1, <2>2
<1>10. \A u \in Tab : HandedBack(u) => HandedBack(u)'
  BY <1>1 DEF HandedBack, Hands
<1>11. managed' = managed => \A u \in users' : u \in users \/ (u \notin Managed /\ group[u] # Gone)
  <2>1. managed' = managed => Managed' = Managed
    BY DEF Managed
  <2> QED BY <1>1, <1>2, <1>8, <2>1
<1> QED BY <1>0, <1>1, <1>3, <1>4, <1>9, <1>10, <1>11, UserKept

LEMMA UserShuts ==
  ASSUME TabInv, TabTypes', UserInv, NEW t \in Tab, UserCloses(t)
  PROVE  UserInv'
<1> USE NoneIsNothing
<1>0. TabTypes
  BY DEF TabInv
<1>1. /\ group' = [group EXCEPT ![t] = Gone] /\ managed' = NotManaging(t) /\ adopted' = adopted \ {t}
      /\ UNCHANGED <<born, groups, agentGroup, grouping, jobs, slipped, readopted>>
      /\ users' = users \ {t}
      /\ saved' = IF managed' # managed THEN memory' ELSE saved
  BY DEF UserCloses, Removed
<1>2. group'[t] = Gone /\ (\A u \in Tab : u # t => group'[u] = group[u]) /\ agentGroup # Gone
  BY <1>0, <1>1, TypeFacts, GroupsKnown DEF Gone
<1>3. users' \subseteq Tab /\ (\A u \in users' : u <= born') /\ users' \cap grouping' = {}
  BY <1>1 DEF UserInv
<1>4. \A u \in Tab : Goes(u)
  BY <1>2 DEF Goes
<1>5. ~InGroup(t)'
  BY <1>1, <1>2 DEF InGroup
<1>6. ASSUME ~readopted', ~slipped', NEW u \in users' PROVE Theirs(u)
  <2>1. u \in users /\ u \in Tab /\ ~readopted /\ ~slipped /\ u # t /\ agentGroup' = agentGroup
    BY <1>1, <1>3, <1>6
  <2>2. group'[u] = group[u] /\ managed' = NotManaging(t) /\ adopted' = adopted \ {t}
    BY <1>1, <1>2, <2>1
  <2> QED BY <1>0, <1>5, <2>1, <2>2, TheirsLeft
<1>7. \A u \in Tab : HandedBack(u) => HandedBack(u)'
  BY <1>1 DEF HandedBack, Hands
<1>8. \A u \in users' : u \in users
  BY <1>1
<1> QED BY <1>0, <1>1, <1>3, <1>4, <1>6, <1>7, <1>8, UserKept

\* After a restart the extension knows what it had saved, and what it adopts.
LEMMA UserRestart ==
  ASSUME TabInv, TabInv', UserInv, NEW state, Restart(state[4]), Kept(state), Restores(state, group'),
         \A t \in Tab : group'[t] \in {group[t], Gone}, users' \subseteq users,
         ~readopted /\ ~slipped =>
           \A t \in users' : (\E i \in Index : state[1][i] = t) => t \in state[5] \/ group'[t] = Gone \/ HandedBack(t)
  PROVE  UserInv'
<1> USE NoneIsNothing
<1>0. TabTypes /\ TabTypes' /\ GroupInv'
  BY DEF TabInv
<1>1. /\ grouping' = {} /\ jobs' = [now |-> None, late |-> None]
      /\ ~slipped' => ~slipped /\ jobs = [now |-> None, late |-> None]
      /\ UNCHANGED <<born, groups, readopted>>
  BY DEF Restart
<1>2. /\ saved'[1] = managed' /\ saved'[5] = adopted' /\ state[5] \subseteq adopted'
      /\ \A k \in Index : managed'[k] = state[1][k] \/ managed'[k] \in adopted'
  <2>1. group' \in [Tab -> Int]
    BY <1>0, TypeFacts DEF TabTypes
  <2> QED BY <1>0, <1>1, <2>1, RestoresIs
<1>3. users' \subseteq Tab /\ (\A t \in users' : t <= born') /\ users' \cap grouping' = {}
  BY <1>1 DEF UserInv
<1>4. SavedInv'
  BY <1>2 DEF SavedInv
<1>5. ASSUME ~readopted', ~slipped', NEW t \in users'
      PROVE  /\ InGroup(t)' => t \in adopted'
             /\ t \in Managed' => t \in adopted' \/ group'[t] = Gone
             /\ (\E i \in Index : saved'[1][i] = t) => t \in saved'[5] \/ group'[t] = Gone
  <2>1. ~readopted /\ ~slipped /\ jobs = [now |-> None, late |-> None] /\ t \in Tab
    BY <1>1, <1>3, <1>5
  <2>2. jobs["now"] = None /\ jobs["late"] = None /\ jobs'["now"] = None /\ jobs'["late"] = None
    BY <1>1, <2>1
  <2>3. ~HandedBack(t)
    BY <2>2 DEF HandedBack, Hands, Slot
  <2>4. t \in Managed' => t \in adopted' \/ group'[t] = Gone
    <3> SUFFICES ASSUME NEW k \in Index, managed'[k] = t PROVE t \in adopted' \/ group'[t] = Gone
      BY DEF Managed
    <3>1. CASE state[1][k] = t
      BY <1>2, <2>1, <2>3, <3>1
    <3> QED BY <1>2, <3>1
  <2>5. InGroup(t)' => t \in Managed' /\ group'[t] # Gone
    <3>1. InGroup(t)' => t \in Managed'
      BY <1>0, <1>5, <2>1, <2>2 DEF GroupInv, Releasing, Parts, Slot
    <3>2. agentGroup' # Gone
      <4>1. agentGroup' = None \/ agentGroup' \in 1 .. groups'
        BY <1>0 DEF TabTypes, Kept, memory
      <4> QED BY <1>0, <4>1 DEF TabTypes, Gone
    <3> QED BY <3>1, <3>2 DEF InGroup
  <2>6. (\E i \in Index : saved'[1][i] = t) => t \in Managed'
    BY <1>2, <2>1 DEF Managed
  <2> QED BY <1>2, <2>4, <2>5, <2>6
<1>6. TheirsInv'
  BY <1>5 DEF TheirsInv
<1> QED BY <1>3, <1>4, <1>6 DEF UserInv

LEMMA UserWorkerRestarts ==
  ASSUME TabInv, TabInv', UserInv, NEW closed \in SUBSET Tab, WorkerRestarts(closed)
  PROVE  UserInv'
<1> USE NoneIsNothing
<1>1. Restart(saved[4]) /\ Restores(saved, group') /\ users' \subseteq users
  BY DEF WorkerRestarts
<1>2. \A t \in Tab : group'[t] \in {group[t], Gone}
  BY DEF WorkerRestarts
<1>3. PICK state : state = saved
  OBVIOUS
<1>4. Restores(state, group') /\ Kept(state) /\ Restart(state[4])
  BY <1>1, <1>3 DEF Restart, Restores, Kept, TabInv, TabTypes
<1>5. ~readopted /\ ~slipped =>
        \A t \in users' : (\E i \in Index : state[1][i] = t) => t \in state[5] \/ group'[t] = Gone \/ HandedBack(t)
  <2> SUFFICES ASSUME ~readopted, ~slipped, NEW t \in users', \E i \in Index : state[1][i] = t
               PROVE  t \in state[5] \/ group'[t] = Gone \/ HandedBack(t)
    OBVIOUS
  <2>1. t \in saved[5] \/ group[t] = Gone \/ HandedBack(t)
    BY <1>1, <1>3 DEF UserInv, TheirsInv
  <2>2. t \in Tab
    BY <1>1 DEF UserInv
  <2> QED BY <1>2, <1>3, <2>1, <2>2
<1> QED BY <1>1, <1>2, <1>4, <1>5, UserRestart

LEMMA UserBrowserRestarts ==
  ASSUME TabInv, TabInv', UserInv, BrowserRestarts
  PROVE  UserInv'
<1> USE NoneIsNothing
<1>1. Restart(None) /\ Restores(Fresh, group) /\ group' = group /\ users' = users
  BY DEF BrowserRestarts
<1>2. PICK state : state = Fresh
  OBVIOUS
<1>3. Kept(state) /\ state[4] = None /\ \A i \in Index : state[1][i] = None
  <2>1. 0 \in Index /\ 0 \in 0 .. MaxIndex
    BY TabsAssumption DEF Index
  <2> QED BY <1>2, <2>1 DEF Kept, Fresh
<1>4. Restores(state, group')
  <2>1. Restores(Fresh, group')
    BY <1>1 DEF Restores
  <2> QED BY <1>2, <2>1 DEF Restores
<1>5. \A t \in Tab : group'[t] \in {group[t], Gone}
  BY <1>1
<1>6. \A t \in users' : ~\E i \in Index : state[1][i] = t
  BY <1>1, <1>3 DEF UserInv
<1>7. users' \subseteq users
  BY <1>1
<1>8. Restart(state[4])
  BY <1>1, <1>3 DEF Restart
<1> QED BY <1>8, <1>1, <1>3, <1>4, <1>5, <1>6, <1>7, UserRestart

LEMMA UserInit ==
  ASSUME Init
  PROVE  UserInv
<1> USE NoneIsNothing
<1>1. 1 \in Tab /\ users = {1} /\ grouping = {} /\ born = 1
  BY TabsAssumption DEF Init, Tab
<1>2. SavedInv
  BY DEF Init, SavedInv, memory
<1>3. TheirsInv
  BY DEF Init, TheirsInv, InGroup, Managed, memory
<1> QED BY <1>1, <1>2, <1>3 DEF UserInv

\* The user's tabs keep what the extension knows of them.
LEMMA UserStep == TabInv /\ TabInv' /\ UserInv /\ [Next]_vars => UserInv'
<1> SUFFICES ASSUME TabInv, TabInv', UserInv, [Next]_vars PROVE UserInv'
  OBVIOUS
<1>0. TabTypes'
  BY DEF TabInv
<1>1. CASE \E c \in Ctx : Acquire(c) \/ Open(c) \/ Close(c)
  BY <1>0, <1>1, UserContexts
<1>2. CASE TimesOut
  BY <1>0, <1>2, UserTimesOut
<1>3. ASSUME NEW s \in Slot, Starts(s) \/ SwitchGoes(s) \/ Acts(s) \/ FindsGroup(s) PROVE UserInv'
  BY <1>0, <1>3, UserQuiet
<1>4. ASSUME NEW s \in Slot, Check(s) \/ Creates(s) \/ Joins(s) \/ Names(s) \/ NotJoined(s) \/ Created(s) PROVE UserInv'
  BY <1>0, <1>4, UserCheck, UserCreates, UserJoins, UserNames, UserNotJoined, UserCreated
<1>5. ASSUME NEW s \in Slot, Unlists(s) \/ Decides(s) \/ Releases(s) \/ Forgets(s) PROVE UserInv'
  BY <1>0, <1>5, UserUnlists, UserDecides, UserReleases, UserForgets
<1>6. ASSUME NEW t \in Tab, UserMovesOut(t) \/ UserCloses(t) \/ \E g \in Group : UserMovesIn(t, g) PROVE UserInv'
  BY <1>0, <1>6, UserGoesOut, UserShuts, UserComesIn
<1>7. CASE WorkerRestarts({}) \/ \E t \in Tab : group[t] # Gone /\ WorkerRestarts({t})
  <2>1. \A closed \in SUBSET Tab : WorkerRestarts(closed) => UserInv'
    BY UserWorkerRestarts
  <2>2. {} \in SUBSET Tab /\ \A t \in Tab : {t} \in SUBSET Tab
    OBVIOUS
  <2> QED BY <1>7, <2>1, <2>2
<1>8. CASE BrowserRestarts
  BY <1>8, UserBrowserRestarts
<1>9. CASE UNCHANGED vars
  BY <1>9 DEF vars, browser, memory, history, UserInv, SavedInv, TheirsInv, HandedBack, Hands, InGroup, Managed
<1>10. [Next]_vars => \/ \E c \in Ctx : Acquire(c) \/ Open(c) \/ Close(c)
                      \/ TimesOut
                      \/ \E s \in Slot : Starts(s) \/ SwitchGoes(s) \/ Acts(s) \/ FindsGroup(s)
                      \/ \E s \in Slot : Check(s) \/ Creates(s) \/ Joins(s) \/ Names(s) \/ NotJoined(s) \/ Created(s)
                      \/ \E s \in Slot : Unlists(s) \/ Decides(s) \/ Releases(s) \/ Forgets(s)
                      \/ \E t \in Tab : UserMovesOut(t) \/ UserCloses(t) \/ \E g \in Group : UserMovesIn(t, g)
                      \/ WorkerRestarts({}) \/ \E t \in Tab : group[t] # Gone /\ WorkerRestarts({t})
                      \/ BrowserRestarts
                      \/ UNCHANGED vars
  BY DEF Next, Slot
<1> QED BY <1>1, <1>2, <1>3, <1>4, <1>5, <1>6, <1>7, <1>8, <1>9, <1>10

\* Nobody has decided to close a tab of the user's.
SpareInv == ~readopted /\ ~slipped => \A t \in users : ~Doomed(t)

LEMMA SpareInit ==
  ASSUME Init
  PROVE  SpareInv
<1>1. \A s \in {"now", "late"} : jobs[s] = None
  BY DEF Init
<1> QED BY <1>1 DEF SpareInv, Doomed, At

LEMMA StaysDoomed ==
  ASSUME \A r \in Slot : \/ jobs'[r] = None \/ jobs'[r].at # "remove"
                         \/ \E q \in Slot : jobs[q] = jobs'[r]
  PROVE  \A t \in Tab : Doomed(t)' => Doomed(t)
  BY DEF Doomed, At, Slot

\* What is awaited once an answer is in
LeadsTo(late) ==
  \/ jobs' = [now |-> None, late |-> late]
  \/ \E kind, k : jobs' = [now |-> Command(kind, k), late |-> late]

\* An answer ends the turn or leads to the start of another command
LEMMA ContinueLeads ==
  ASSUME NEW ok, NEW i, NEW late, Continue(ok, i, late)
  PROVE  LeadsTo(late)
<1>1. ASSUME NEW kind, NEW k, jobs' = [now |-> Command(kind, k), late |-> late] PROVE LeadsTo(late)
  BY <1>1 DEF LeadsTo
<1>2. ASSUME jobs' = [now |-> None, late |-> late] PROVE LeadsTo(late)
  BY <1>2 DEF LeadsTo
<1> QED BY <1>1, <1>2 DEF Continue

LEMMA AnswerDooms ==
  ASSUME TabTypes, NEW s \in Slot, NEW ok, NEW i, Answer(s, ok, i)
  PROVE  \A r \in Slot : jobs'[r] = jobs[r] \/ jobs'[r] = None \/ jobs'[r].at # "remove"
<1>1. CASE s = "now"
  <2>1. Continue(ok, i, jobs.late)
    BY <1>1 DEF Answer
  <2>2. \/ jobs' = [now |-> None, late |-> jobs.late]
        \/ \E kind, k : jobs' = [now |-> Command(kind, k), late |-> jobs.late]
    BY <2>1, ContinueLeads DEF LeadsTo
  <2> QED BY <2>2 DEF Command, Slot
<1>2. CASE s = "late"
  BY <1>2 DEF Answer, TabTypes, Slot
<1> QED BY <1>1, <1>2 DEF Slot

\* The steps of a command, but for the one that decides
LEMMA StepDooms ==
  ASSUME TabInv, NEW s \in Slot,
         \/ Starts(s) \/ Check(s) \/ SwitchGoes(s) \/ Acts(s) \/ Creates(s) \/ FindsGroup(s) \/ Joins(s) \/ Names(s)
         \/ NotJoined(s) \/ Created(s) \/ Unlists(s) \/ Releases(s) \/ Forgets(s)
  PROVE  \A t \in Tab : Doomed(t)' => Doomed(t)
<1> USE NoneIsNothing
<1>0. TabTypes /\ jobs \in [Slot -> Job \cup {None}]
  BY DEF TabInv, TabTypes
<1>1. jobs[s] # None /\ jobs[s] \in Job
  BY <1>0 DEF Starts, Check, SwitchGoes, Acts, Creates, FindsGroup, Joins, Names, NotJoined, Created, Unlists, Releases, Forgets, At
<1>2. \/ \E ok, i : Answer(s, ok, i)
      \/ \E a \in {"check", "go", "release", "forget"} : \E t : Moves(s, a, t)
      \/ \E t, i : jobs' = [jobs EXCEPT ![s].at = "group", ![s].tab = t, ![s].i = i]
      \/ \E a \in {"join", "name", "done"} : \E g : jobs' = [jobs EXCEPT ![s].at = a, ![s].grp = g]
      \/ jobs' = [jobs EXCEPT ![s].at = "done"]
  <2>1. CASE Joins(s)
    <3>1. PICK a \in {"name", "done"} : a = IF jobs[s].grp = None THEN "name" ELSE "done"
      OBVIOUS
    <3>2. \E g : jobs' = [jobs EXCEPT ![s].at = a, ![s].grp = g]
      BY <1>0, <1>1, <2>1, <3>1 DEF Joins
    <3> QED BY <3>2
  <2>2. CASE ~Joins(s)
    BY <2>2 DEF Starts, Check, SwitchGoes, Acts, Creates, FindsGroup, Names, NotJoined, Created, Unlists, Releases, Forgets
  <2> QED BY <2>1, <2>2
<1>3. CASE \E ok, i : Answer(s, ok, i)
  BY <1>0, <1>3, AnswerDooms, StaysDoomed
<1>4. CASE ~\E ok, i : Answer(s, ok, i)
  <2>1. (\A r \in Slot \ {s} : jobs'[r] = jobs[r]) /\ jobs'[s].at # "remove"
    <3>1. ASSUME NEW a \in {"check", "go", "release", "forget"}, NEW t, Moves(s, a, t)
          PROVE (\A r \in Slot \ {s} : jobs'[r] = jobs[r]) /\ jobs'[s].at = a
      BY <1>0, <1>1, <3>1 DEF Moves, Job
    <3>2. ASSUME NEW t, NEW i, jobs' = [jobs EXCEPT ![s].at = "group", ![s].tab = t, ![s].i = i]
          PROVE (\A r \in Slot \ {s} : jobs'[r] = jobs[r]) /\ jobs'[s].at = "group"
      BY <1>0, <1>1, <3>2 DEF Job
    <3>3. ASSUME NEW a \in {"join", "name", "done"}, NEW g, jobs' = [jobs EXCEPT ![s].at = a, ![s].grp = g]
          PROVE (\A r \in Slot \ {s} : jobs'[r] = jobs[r]) /\ jobs'[s].at = a
      BY <1>0, <1>1, <3>3 DEF Job
    <3>4. ASSUME jobs' = [jobs EXCEPT ![s].at = "done"]
          PROVE (\A r \in Slot \ {s} : jobs'[r] = jobs[r]) /\ jobs'[s].at = "done"
      BY <1>0, <1>1, <3>4 DEF Job
    <3> QED BY <1>2, <1>4, <3>1, <3>2, <3>3, <3>4
  <2> QED BY <2>1, StaysDoomed
<1> QED BY <1>3, <1>4

LEMMA SpareStep == TabInv /\ UserInv /\ SpareInv /\ [Next]_vars => SpareInv'
<1> SUFFICES ASSUME TabInv, UserInv, SpareInv, [Next]_vars, ~readopted', ~slipped', NEW u \in users'
             PROVE  ~Doomed(u)'
  BY DEF SpareInv
<1> USE NoneIsNothing
<1>0. TabTypes /\ Awaited /\ jobs \in [Slot -> Job \cup {None}]
  BY DEF TabInv, TabTypes
<1>1. CASE \E s \in Slot : Decides(s)
  <2>1. PICK s \in Slot : Decides(s)
    BY <1>1
  <2>2. /\ jobs[s] # None /\ InGroup(jobs[s].tab) /\ Moves(s, Release(jobs[s].tab), jobs[s].tab)
        /\ UNCHANGED <<users, readopted, slipped>>
    BY <2>1 DEF Decides, At, history
  <2>3. PICK t : t = jobs[s].tab
    OBVIOUS
  <2>4. (\A r \in Slot \ {s} : jobs'[r] = jobs[r]) /\ jobs'[s].at = Release(t) /\ jobs'[s].tab = t
    BY <1>0, <2>2, <2>3 DEF Moves, Job
  <2>5. u \in users /\ u \in Tab /\ ~Doomed(u) /\ (InGroup(u) => u \in adopted)
    BY <2>2 DEF UserInv, TheirsInv, SpareInv
  <2>6. t = u => Release(t) = "ungroup"
    BY <2>2, <2>3, <2>5 DEF Release
  <2> QED BY <2>4, <2>5, <2>6 DEF Doomed, At, Slot
<1>2. CASE /\ \A t \in Tab : Doomed(t)' => Doomed(t)
           /\ u \in Tab /\ (u \in users \/ ~Doomed(u))
           /\ ~readopted /\ ~slipped
  BY <1>2 DEF SpareInv
<1>3. users \subseteq Tab
  BY DEF UserInv
<1>4. ASSUME NEW c \in Ctx, Acquire(c) \/ Open(c) \/ Close(c) PROVE ~Doomed(u)'
  <2>1. \E stage, job : Begin(c, stage, job) /\ job.at = "start"
    BY <1>4 DEF Acquire, Open, Close, Command
  <2>2. UNCHANGED <<users, readopted, slipped>> /\ \E job : job.at = "start" /\ jobs' = [jobs EXCEPT !["now"] = job]
    BY <2>1 DEF Begin, history
  <2>3. \A t \in Tab : Doomed(t)' => Doomed(t)
    BY <1>0, <2>2, StaysDoomed DEF Slot
  <2> QED BY <1>2, <1>3, <2>2, <2>3
<1>5. CASE TimesOut
  <2>1. UNCHANGED <<users, readopted, slipped>> /\ Continue(FALSE, None, jobs.now)
    BY <1>5 DEF TimesOut
  <2>2. \/ jobs' = [now |-> None, late |-> jobs.now]
        \/ \E kind, k : jobs' = [now |-> Command(kind, k), late |-> jobs.now]
    BY <2>1, ContinueLeads DEF LeadsTo
  <2>3. \A t \in Tab : Doomed(t)' => Doomed(t)
    <3>1. \A r \in Slot : jobs'[r] = None \/ jobs'[r].at # "remove" \/ jobs'[r] = jobs["now"]
      BY <2>2 DEF Command, Slot
    <3> QED BY <3>1, StaysDoomed DEF Slot
  <2> QED BY <1>2, <1>3, <2>1, <2>3
<1>6. ASSUME NEW s \in Slot,
             \/ Starts(s) \/ Check(s) \/ SwitchGoes(s) \/ Acts(s) \/ Creates(s) \/ FindsGroup(s) \/ Joins(s) \/ Names(s)
             \/ NotJoined(s) \/ Created(s) \/ Unlists(s) \/ Releases(s) \/ Forgets(s)
      PROVE ~Doomed(u)'
  <2>1. users' = users /\ ~readopted /\ ~slipped
    <3>1. ASSUME UNCHANGED history PROVE users' = users /\ readopted' = readopted /\ slipped' = slipped
      BY <3>1 DEF history
    <3>10. CASE Starts(s)
      <4> UNCHANGED history
        BY <3>10 DEF Starts
      <4> QED BY <3>1
    <3>11. CASE SwitchGoes(s)
      <4> UNCHANGED history
        BY <3>11 DEF SwitchGoes
      <4> QED BY <3>1
    <3>12. CASE Acts(s)
      <4> UNCHANGED history
        BY <3>12 DEF Acts
      <4> QED BY <3>1
    <3>13. CASE Creates(s)
      <4> UNCHANGED history
        BY <3>13 DEF Creates
      <4> QED BY <3>1
    <3>14. CASE FindsGroup(s)
      <4> UNCHANGED history
        BY <3>14 DEF FindsGroup
      <4> QED BY <3>1
    <3>15. CASE Joins(s)
      <4> UNCHANGED history
        BY <3>15 DEF Joins
      <4> QED BY <3>1
    <3>16. CASE Names(s)
      <4> UNCHANGED history
        BY <3>16 DEF Names
      <4> QED BY <3>1
    <3>17. CASE NotJoined(s)
      <4> UNCHANGED history
        BY <3>17 DEF NotJoined
      <4> QED BY <3>1
    <3>18. CASE Created(s)
      <4> UNCHANGED history
        BY <3>18 DEF Created
      <4> QED BY <3>1
    <3>19. CASE Releases(s)
      <4> UNCHANGED history
        BY <3>19 DEF Releases
      <4> QED BY <3>1
    <3>3. CASE Check(s)
      <4>1. UNCHANGED <<users, readopted>>
        BY <3>3 DEF Check
      <4>2. slipped' = slipped \/ slipped' = (slipped \/ jobs[s].tab \in grouping)
        BY <3>3 DEF Check
      <4>3. ~slipped
        BY <4>2, Zenon
      <4> QED BY <4>1, <4>3
    <3>4. CASE Unlists(s)
      BY <3>4 DEF Unlists
    <3>5. CASE Forgets(s)
      BY <3>5 DEF Forgets
    <3> QED BY <1>6, <3>10, <3>11, <3>12, <3>13, <3>14, <3>15, <3>16, <3>17, <3>18, <3>19, <3>3, <3>4, <3>5
  <2>2. \A t \in Tab : Doomed(t)' => Doomed(t)
    BY <1>6, StepDooms
  <2> QED BY <1>2, <1>3, <2>1, <2>2
<1>7. ASSUME NEW t \in Tab, UserMovesOut(t) \/ UserCloses(t) \/ \E g \in Group : UserMovesIn(t, g) PROVE ~Doomed(u)'
  <2>a. ASSUME NEW g \in Group, UserMovesIn(t, g) PROVE jobs' = jobs /\ ~readopted /\ ~slipped /\ users' = users
    BY <2>a DEF UserMovesIn
  <2>1. jobs' = jobs /\ ~readopted /\ ~slipped
    <3>1. CASE UserMovesOut(t)
      BY <3>1 DEF UserMovesOut
    <3>2. CASE UserCloses(t)
      BY <3>2 DEF UserCloses
    <3> QED BY <1>7, <2>a, <3>1, <3>2
  <2>2. u \in users \/ (u = t /\ ~Doomed(t))
    <3>1. CASE UserMovesOut(t)
      BY <3>1 DEF UserMovesOut
    <3>2. CASE UserCloses(t)
      BY <3>2 DEF UserCloses
    <3> QED BY <1>7, <2>a, <3>1, <3>2
  <2>3. \A v \in Tab : Doomed(v)' => Doomed(v)
    BY <2>1 DEF Doomed, At
  <2> QED BY <1>2, <1>3, <2>1, <2>2, <2>3
<1>8. ASSUME NEW back, Restart(back) PROVE ~Doomed(u)'
  <2>1. jobs' = [now |-> None, late |-> None]
    BY <1>8 DEF Restart
  <2> QED BY <2>1 DEF Doomed, At
<1>9. CASE UNCHANGED vars
  <2>1. UNCHANGED <<jobs, users, readopted, slipped>>
    BY <1>9 DEF vars, history
  <2>2. \A v \in Tab : Doomed(v)' => Doomed(v)
    BY <2>1 DEF Doomed, At
  <2> QED BY <1>2, <1>3, <2>1, <2>2
<1>10. [Next]_vars => \/ \E c \in Ctx : Acquire(c) \/ Open(c) \/ Close(c)
                      \/ TimesOut \/ \E s \in Slot : Decides(s)
                      \/ \E s \in Slot : \/ Starts(s) \/ Check(s) \/ SwitchGoes(s) \/ Acts(s) \/ Creates(s) \/ FindsGroup(s) \/ Joins(s)
                                         \/ Names(s) \/ NotJoined(s) \/ Created(s) \/ Unlists(s) \/ Releases(s) \/ Forgets(s)
                      \/ \E t \in Tab : UserMovesOut(t) \/ UserCloses(t) \/ \E g \in Group : UserMovesIn(t, g)
                      \/ (\E back : Restart(back)) \/ UNCHANGED vars
  BY DEF Next, Slot, WorkerRestarts, BrowserRestarts
<1> QED BY <1>1, <1>4, <1>5, <1>6, <1>7, <1>8, <1>9, <1>10

\* No step takes one of them away.
LEMMA UsersSpared ==
  ASSUME TabInv, UserInv, SpareInv, [Next]_vars, ~readopted, ~slipped, NEW t \in users \cap users', group[t] # Gone
  PROVE  group'[t] # Gone
<1> USE NoneIsNothing
<1>0. TabTypes /\ JobInv /\ t \in Tab /\ t <= born /\ group \in [Tab -> Int] /\ born \in Nat
  BY TypeFacts DEF TabInv, UserInv, TabTypes
<1>1. CASE group' = group
  BY <1>1
<1>2. ASSUME NEW s \in Slot, Starts(s) \/ Check(s) \/ SwitchGoes(s) \/ Acts(s) \/ FindsGroup(s) \/ Names(s) \/ Created(s) \/ Unlists(s)
                         \/ Decides(s) \/ Forgets(s)
      PROVE  group' = group
  BY <1>2 DEF Starts, Check, SwitchGoes, Acts, FindsGroup, Names, Created, Unlists, Decides, Forgets, browser
<1>3. ASSUME NEW s \in Slot, Creates(s) PROVE group'[t] # Gone
  <2>1. CASE group' = group
    BY <2>1
  <2>2. CASE group' = [group EXCEPT ![born + 1] = Ungrouped]
    BY <1>0, <2>2 DEF Ungrouped, Gone
  <2> QED BY <1>3, <2>1, <2>2 DEF Creates
<1>4. ASSUME NEW s \in Slot, Joins(s) \/ NotJoined(s) PROVE group'[t] = group[t]
  <2>1. jobs[s] # None /\ Opening(jobs[s]) /\ Handled(jobs[s])
    BY <1>0, <1>4 DEF Joins, NotJoined, At, JobInv, Opening
  <2>2. PICK u \in Tab : u = jobs[s].tab
    BY <2>1 DEF Handled, Opening
  <2>3. u # t
    BY <2>1, <2>2 DEF Handled, UserInv
  <2>4. \E g : group' = [group EXCEPT ![u] = g]
    BY <1>4, <2>2 DEF Joins, NotJoined
  <2> QED BY <1>0, <2>3, <2>4
<1>5. ASSUME NEW s \in Slot, Releases(s) PROVE group'[t] # Gone
  <2>1. PICK u : u = jobs[s].tab
    OBVIOUS
  <2>2. /\ group' = [group EXCEPT ![u] = IF @ = Gone \/ jobs[s].at = "remove" THEN Gone ELSE Ungrouped]
        /\ At(s, {"close"}, "ungroup") \/ At(s, {"close"}, "remove")
    BY <1>5, <2>1 DEF Releases
  <2>3. CASE u # t
    BY <1>0, <2>2, <2>3
  <2>4. CASE u = t
    <3>1. ~Doomed(t)
      BY DEF SpareInv
    <3>2. jobs[s].at # "remove"
      BY <2>1, <2>2, <2>4, <3>1 DEF Doomed, At, Slot
    <3> QED BY <1>0, <2>2, <2>4, <3>2 DEF Ungrouped, Gone
  <2> QED BY <2>3, <2>4
<1>6. ASSUME NEW u \in Tab, UserMovesOut(u) \/ UserCloses(u) \/ \E g \in Group : UserMovesIn(u, g) PROVE group'[t] # Gone
  <2>1. CASE UserMovesOut(u)
    BY <1>0, <2>1 DEF UserMovesOut, Ungrouped, Gone
  <2>2. CASE UserCloses(u)
    BY <1>0, <2>2 DEF UserCloses
  <2>3. CASE \E g \in Group : UserMovesIn(u, g)
    <3>1. PICK g \in Group : group' = [group EXCEPT ![u] = g]
      BY <2>3 DEF UserMovesIn
    <3>2. g # Gone
      BY TabsAssumption DEF Group, Gone
    <3> QED BY <1>0, <3>1, <3>2
  <2> QED BY <1>6, <2>1, <2>2, <2>3
<1>7. ASSUME NEW closed \in SUBSET Tab, WorkerRestarts(closed) PROVE group'[t] # Gone
  BY <1>0, <1>7 DEF WorkerRestarts
<1>8. CASE \/ \E c \in Ctx : Acquire(c) \/ Open(c) \/ Close(c)
           \/ TimesOut \/ BrowserRestarts \/ UNCHANGED vars
  <2>1. group' = group
    BY <1>8 DEF Acquire, Open, Close, Begin, TimesOut, BrowserRestarts, vars, browser
  <2> QED BY <2>1
<1>9. CASE WorkerRestarts({}) \/ \E u \in Tab : group[u] # Gone /\ WorkerRestarts({u})
  <2>1. \A closed \in SUBSET Tab : WorkerRestarts(closed) => group'[t] # Gone
    BY <1>7
  <2>2. {} \in SUBSET Tab /\ \A u \in Tab : {u} \in SUBSET Tab
    OBVIOUS
  <2> QED BY <1>9, <2>1, <2>2
<1>10. [Next]_vars => \/ \E c \in Ctx : Acquire(c) \/ Open(c) \/ Close(c)
                      \/ TimesOut \/ BrowserRestarts \/ UNCHANGED vars
                      \/ \E s \in Slot : \/ Starts(s) \/ Check(s) \/ SwitchGoes(s) \/ Acts(s) \/ FindsGroup(s) \/ Names(s) \/ Created(s) \/ Unlists(s)
                         \/ Decides(s) \/ Forgets(s)
                                         \/ Creates(s) \/ Joins(s) \/ NotJoined(s) \/ Releases(s)
                      \/ \E u \in Tab : UserMovesOut(u) \/ UserCloses(u) \/ \E g \in Group : UserMovesIn(u, g)
                      \/ WorkerRestarts({}) \/ \E u \in Tab : group[u] # Gone /\ WorkerRestarts({u})
  BY DEF Next, Slot
<1> QED BY <1>1, <1>2, <1>3, <1>4, <1>5, <1>6, <1>8, <1>9, <1>10

-----------------------------------------------------------------------------
(* The tab a tool acts on *)

\* As long as no command has been given up, the one that acts finds the active index
\* to be its context's, and the tab that it has found stays the one of that index.
InTurn ==
  /\ jobs["late"] = None
  /\ doing # None =>
       /\ doing.stage = "reswitch" => jobs["now"].i = index[doing.by] /\ index[doing.by] # None
       /\ doing.stage = "act" =>
            /\ index[doing.by] # None
            /\ jobs["now"].at = "start" => active = index[doing.by]
            /\ jobs["now"].at # "start" /\ given[doing.by] # None =>
                 managed[index[doing.by]] \in {None, jobs["now"].tab}

ActInv == timeouts \in Nat /\ (timeouts = 0 => InTurn)

LEMMA TurnAnswered ==
  ASSUME TabTypes, Awaited, InTurn, jobs["now"] # None, NEW ok \in BOOLEAN, NEW i \in Index \cup {None},
         Answer("now", ok, i),
         ok /\ doing.stage \in {"switch", "reswitch"} => active' = index[doing.by],
         ok /\ doing.stage = "open" => i \in Index
  PROVE  InTurn'
<1> USE NoneIsNothing
<1> DEFINE c == doing.by
<1>1. doing # None /\ doing \in Turn /\ c \in Ctx /\ index \in [Ctx -> Index \cup {None}]
  BY DEF Awaited, TabTypes, Turn
<1>2. Continue(ok, i, jobs.late) /\ jobs.late = None
  BY DEF Answer, InTurn
<1>3. \/ /\ doing.stage \in {"switch", "reswitch"} /\ ok
         /\ doing' = [by |-> c, stage |-> "act"] /\ jobs' = [now |-> Command("act", None), late |-> None]
         /\ UNCHANGED index
      \/ doing' = [by |-> c, stage |-> "open"] /\ jobs' = [now |-> Command("new", None), late |-> None]
      \/ /\ doing.stage = "open" /\ ok
         /\ doing' = [by |-> c, stage |-> "reswitch"] /\ jobs' = [now |-> Command("switch", i), late |-> None]
         /\ index' = [index EXCEPT ![c] = i]
      \/ doing' = None /\ jobs' = [now |-> None, late |-> None]
  BY <1>2 DEF Continue
<1>4. jobs'["late"] = None
  BY <1>3
<1>5. CASE /\ doing.stage \in {"switch", "reswitch"} /\ ok
           /\ doing' = [by |-> c, stage |-> "act"] /\ jobs' = [now |-> Command("act", None), late |-> None]
           /\ UNCHANGED index
  <2>1. doing'.by = c /\ doing'.stage = "act" /\ jobs'["now"].at = "start" /\ index' = index /\ active' = index[c]
    BY <1>5 DEF Command
  <2>2. index[c] # None
    BY <1>1, <1>5 DEF Awaited, InTurn
  <2> QED BY <1>4, <2>1, <2>2 DEF InTurn
<1>6. CASE doing' = [by |-> c, stage |-> "open"]
  BY <1>4, <1>6 DEF InTurn
<1>7. CASE /\ doing.stage = "open" /\ ok
           /\ doing' = [by |-> c, stage |-> "reswitch"] /\ jobs' = [now |-> Command("switch", i), late |-> None]
           /\ index' = [index EXCEPT ![c] = i]
  <2>1. doing'.by = c /\ doing'.stage = "reswitch" /\ jobs'["now"].i = i /\ index'[c] = i /\ i # None
    BY <1>1, <1>7 DEF Command
  <2> QED BY <1>4, <2>1 DEF InTurn
<1>8. CASE doing' = None
  BY <1>4, <1>8 DEF InTurn
<1> QED BY <1>3, <1>5, <1>6, <1>7, <1>8

\* The command stays, and so do the context and the active index.
LEMMA TurnMoves ==
  ASSUME TabTypes, Awaited, PlacesKept, InTurn, UNCHANGED <<doing, index, given>>, jobs'["late"] = None,
         doing # None => jobs'["now"].i = jobs["now"].i \/ doing.stage # "reswitch",
         doing # None /\ doing.stage = "act" =>
            /\ active' = active
            /\ jobs'["now"].at = "start" => jobs["now"].at = "start"
            /\ jobs'["now"].at # "start" /\ given[doing.by] # None =>
                 managed'[index[doing.by]] \in {None, jobs'["now"].tab}
  PROVE  InTurn'
<1> USE NoneIsNothing
<1> SUFFICES ASSUME doing # None
             PROVE  /\ doing.stage = "reswitch" => jobs'["now"].i = index[doing.by] /\ index[doing.by] # None
                    /\ doing.stage = "act" =>
                         /\ index[doing.by] # None
                         /\ jobs'["now"].at = "start" => active' = index[doing.by]
                         /\ jobs'["now"].at # "start" /\ given[doing.by] # None =>
                              managed'[index[doing.by]] \in {None, jobs'["now"].tab}
  BY DEF InTurn
<1>1. /\ doing.stage = "reswitch" => jobs["now"].i = index[doing.by] /\ index[doing.by] # None
      /\ doing.stage = "act" => index[doing.by] # None /\ (jobs["now"].at = "start" => active = index[doing.by])
  BY DEF InTurn
<1> QED BY <1>1

\* Nobody else handles a command.
LEMMA TurnAlone ==
  ASSUME InTurn, NEW s \in Slot, jobs[s] # None
  PROVE  s = "now"
  BY DEF InTurn, Slot

LEMMA TurnStarts ==
  ASSUME TabInv, InTurn, Starts("now")
  PROVE  InTurn'
<1> USE NoneIsNothing
<1>0. TabTypes /\ Awaited /\ PlacesKept /\ JobInv
  BY DEF TabInv
<1>1. /\ jobs["now"] # None /\ jobs["now"].at = "start" /\ jobs["now"].kind \in {"switch", "act", "close"}
      /\ UNCHANGED <<managed, active>>
  BY DEF Starts, At, memory
<1>2. CASE Target("now") = None
  <2>1. Answer("now", jobs["now"].kind = "close", None)
    BY <1>2 DEF Starts
  <2>2. jobs["now"].kind = "close" => doing.stage = "end"
    BY <1>0, <1>1 DEF Awaited
  <2>3. (jobs["now"].kind = "close") \in BOOLEAN
    OBVIOUS
  <2> QED BY <1>0, <1>1, <2>1, <2>2, <2>3, TurnAnswered
<1>3. CASE Target("now") # None
  <2>1. PICK t : t = Target("now")
    OBVIOUS
  <2>2. jobs' = [jobs EXCEPT !["now"].at = "check", !["now"].tab = t] /\ UNCHANGED <<doing, index, given>>
    BY <1>3, <2>1 DEF Starts, Moves, rust
  <2>3. jobs["now"] \in Job
    BY <1>0, <1>1 DEF TabTypes, Slot
  <2>4. jobs'["late"] = None
    BY <1>0, <2>2 DEF InTurn, TabTypes, Slot
  <2>5. jobs'["now"].i = jobs["now"].i /\ jobs'["now"].at = "check" /\ jobs'["now"].tab = t
    BY <1>0, <2>2, <2>3 DEF TabTypes, Slot, Job
  <2>6. doing # None /\ doing.stage = "act" => managed[index[doing.by]] \in {None, t}
    <3> SUFFICES ASSUME doing # None, doing.stage = "act" PROVE managed[index[doing.by]] \in {None, t}
      OBVIOUS
    <3>1. jobs["now"].kind = "act" /\ active = index[doing.by]
      BY <1>0, <1>1 DEF Awaited, InTurn
    <3>2. t = ActiveTab
      BY <2>1, <3>1 DEF Target
    <3> QED BY <3>1, <3>2 DEF ActiveTab
  <2> QED BY <1>0, <1>1, <2>2, <2>4, <2>5, <2>6, TurnMoves
<1> QED BY <1>2, <1>3

LEMMA TurnCheck ==
  ASSUME TabInv, InTurn, Check("now")
  PROVE  InTurn'
<1> USE NoneIsNothing
<1>0. TabTypes /\ Awaited /\ PlacesKept /\ JobInv
  BY DEF TabInv
<1>1. jobs["now"] # None /\ jobs["now"].at = "check" /\ active' = active
  BY DEF Check, At
<1>2. CASE Answer("now", FALSE, None)
  BY <1>0, <1>1, <1>2, TurnAnswered
<1>3. CASE Moves("now", "go", jobs["now"].tab) /\ UNCHANGED <<doing, index, given, managed>>
  <2>1. PICK t : t = jobs["now"].tab
    OBVIOUS
  <2>2. jobs' = [jobs EXCEPT !["now"].at = "go", !["now"].tab = t]
    BY <1>3, <2>1 DEF Moves
  <2>3. jobs["now"] \in Job
    BY <1>0, <1>1 DEF TabTypes, Slot
  <2>4. jobs'["late"] = None
    BY <1>0, <2>2 DEF InTurn, TabTypes, Slot
  <2>5. jobs'["now"].i = jobs["now"].i /\ jobs'["now"].at = "go" /\ jobs'["now"].tab = t
    BY <1>0, <2>2, <2>3 DEF TabTypes, Slot, Job
  <2>6. doing # None /\ doing.stage = "act" /\ given[doing.by] # None => managed[index[doing.by]] \in {None, t}
    BY <1>1, <2>1 DEF InTurn
  <2> QED BY <1>0, <1>1, <1>3, <2>4, <2>5, <2>6, TurnMoves
<1> QED BY <1>2, <1>3 DEF Check, rust

LEMMA TurnSwitchGoes ==
  ASSUME TabInv, InTurn, SwitchGoes("now")
  PROVE  InTurn'
<1> USE NoneIsNothing
<1>0. TabTypes /\ Awaited /\ JobInv
  BY DEF TabInv
<1>1. jobs["now"] # None /\ jobs["now"].at = "go" /\ jobs["now"].kind = "switch"
  BY DEF SwitchGoes, At
<1>2. doing.stage \in {"switch", "reswitch"} /\ jobs["now"].i = index[doing.by]
  BY <1>0, <1>1 DEF Awaited, InTurn
<1>3. jobs["now"].i \in Index
  BY <1>0, <1>1 DEF JobInv, Handled, Slot
<1>4. CASE Answer("now", FALSE, None)
  BY <1>0, <1>1, <1>4, TurnAnswered
<1>5. CASE active' = jobs["now"].i /\ Answer("now", TRUE, jobs["now"].i)
  BY <1>0, <1>1, <1>2, <1>3, <1>5, TurnAnswered
<1> QED BY <1>4, <1>5 DEF SwitchGoes, Switched

\* The other commands end, or go on without a word to their context.
LEMMA TurnEnds ==
  ASSUME TabInv, InTurn, Acts("now") \/ NotJoined("now") \/ Created("now") \/ Forgets("now")
  PROVE  InTurn'
<1> USE NoneIsNothing
<1>0. TabTypes /\ Awaited /\ JobInv
  BY DEF TabInv
<1>1. CASE Acts("now")
  <2>1. jobs["now"] # None /\ jobs["now"].kind = "act" /\ Answer("now", TRUE, None)
    BY <1>1 DEF Acts, At
  <2>2. doing.stage = "act"
    BY <1>0, <2>1 DEF Awaited
  <2> QED BY <1>0, <2>1, <2>2, TurnAnswered
<1>2. CASE NotJoined("now")
  <2>1. jobs["now"] # None /\ Answer("now", FALSE, None)
    BY <1>2 DEF NotJoined, At
  <2> QED BY <1>0, <2>1, TurnAnswered
<1>3. CASE Created("now")
  <2>1. jobs["now"] # None /\ jobs["now"].kind = "new" /\ jobs["now"].at = "done" /\ Answer("now", TRUE, jobs["now"].i)
    BY <1>3 DEF Created, At
  <2>2. doing.stage \in {"open", "fork"} /\ jobs["now"].i \in Index
    BY <1>0, <2>1 DEF Awaited, JobInv, Handled, Opening, Slot
  <2> QED BY <1>0, <2>1, <2>2, TurnAnswered
<1>4. CASE Forgets("now")
  <2>1. jobs["now"] # None /\ jobs["now"].kind = "close" /\ Answer("now", TRUE, None)
    BY <1>4 DEF Forgets, At
  <2>2. doing.stage = "end"
    BY <1>0, <2>1 DEF Awaited
  <2> QED BY <1>0, <2>1, <2>2, TurnAnswered
<1> QED BY <1>1, <1>2, <1>3, <1>4

LEMMA TurnGoesOn ==
  ASSUME TabInv, InTurn, Creates("now") \/ FindsGroup("now") \/ Joins("now") \/ Names("now") \/ Unlists("now") \/ Decides("now") \/ Releases("now")
  PROVE  InTurn'
<1> USE NoneIsNothing
<1>0. TabTypes /\ Awaited /\ PlacesKept
  BY DEF TabInv
<1>1. jobs["now"] # None /\ jobs["now"].kind \in {"new", "close"}
  BY DEF Creates, FindsGroup, Joins, Names, Unlists, Decides, Releases, At
<1>2. doing.stage \notin {"act", "reswitch"}
  BY <1>0, <1>1 DEF Awaited
<1>3. CASE Answer("now", FALSE, None)
  BY <1>0, <1>1, <1>3, TurnAnswered
<1>4. CASE UNCHANGED <<doing, index, given>> /\ jobs'["late"] = jobs["late"]
  <2>1. jobs'["late"] = None
    BY <1>4 DEF InTurn
  <2> QED BY <1>0, <1>2, <1>4, <2>1, TurnMoves
<1>5. jobs'["late"] = jobs["late"] \/ Answer("now", FALSE, None)
  BY <1>0 DEF Creates, FindsGroup, Joins, Names, Unlists, Decides, Releases, Moves, TabTypes, Slot
<1>6. UNCHANGED <<doing, index, given>> \/ Answer("now", FALSE, None)
  BY DEF Creates, FindsGroup, Joins, Names, Unlists, Decides, Releases, rust
<1> QED BY <1>3, <1>4, <1>5, <1>6

\* What the user does takes entries away, or adds some behind the contexts' places.
LEMMA TurnStays ==
  ASSUME TabInv, InTurn, UNCHANGED <<jobs, doing, index, given, active>>,
         \A k \in Index : k < next => managed'[k] \in {managed[k], None}
  PROVE  InTurn'
<1> USE NoneIsNothing
<1>0. TabTypes /\ Awaited /\ PlacesKept
  BY DEF TabInv
<1>1. ASSUME doing # None, doing.stage = "act", jobs["now"].at # "start", given[doing.by] # None
      PROVE  managed'[index[doing.by]] \in {None, jobs["now"].tab}
  <2>1. doing.by \in Ctx /\ index[doing.by] # None
    BY <1>0, <1>1 DEF TabTypes, Turn, InTurn
  <2>2. index[doing.by] \in Index /\ index[doing.by] < next
    BY <1>0, <1>1, <2>1 DEF TabTypes, PlacesKept
  <2>3. managed[index[doing.by]] \in {None, jobs["now"].tab}
    BY <1>1 DEF InTurn
  <2> QED BY <2>2, <2>3
<1>2. jobs'["late"] = None
  BY DEF InTurn
<1> QED BY <1>0, <1>1, <1>2, TurnMoves

LEMMA TurnUser ==
  ASSUME TabInv, InTurn, NEW t \in Tab, UserMovesOut(t) \/ UserCloses(t) \/ \E g \in Group : UserMovesIn(t, g)
  PROVE  InTurn'
<1> USE NoneIsNothing
<1>0. TabTypes
  BY DEF TabInv
<1>1. UNCHANGED <<jobs, doing, index, given, active>>
  BY DEF UserMovesOut, UserCloses, UserMovesIn, rust
<1>2. managed' = managed \/ managed' = NotManaging(t) \/ TakeIndex(t)
  BY DEF UserMovesOut, UserCloses, UserMovesIn, Updated, Removed, Revoke
<1>3. CASE managed' = managed
  BY <1>1, <1>3, TurnStays
<1>4. CASE managed' = NotManaging(t)
  BY <1>0, <1>1, <1>4, NotManagingIs, TurnStays
<1>5. CASE TakeIndex(t)
  <2>1. (\A k \in Index \ {next} : managed'[k] = managed[k]) /\ \A k \in Index : k < next => k # next
    BY ONLY <1>0, <1>5, TakeIndexIs
  <2> QED BY <1>1, <2>1, TurnStays
<1> QED BY <1>2, <1>3, <1>4, <1>5

\* The active index stays the one of the context whose turn it is.
LEMMA TurnStep == TabInv /\ ActInv /\ [Next]_vars => ActInv'
<1> SUFFICES ASSUME TabInv, ActInv, [Next]_vars PROVE ActInv'
  OBVIOUS
<1> USE NoneIsNothing
<1>0. timeouts \in Nat
  BY DEF ActInv
<1>1. CASE TimesOut
  BY <1>0, <1>1 DEF TimesOut, ActInv
<1> SUFFICES ASSUME ~TimesOut, timeouts = 0, InTurn PROVE InTurn' /\ timeouts' = timeouts
  <2>1. ~TimesOut => timeouts' = timeouts
    BY DEF Next, vars, Acquire, Open, Close, Begin, Starts, Check, SwitchGoes, Acts, Creates, FindsGroup, Joins,
           Names, NotJoined, Created, Unlists, Decides, Releases, Forgets, UserMovesOut, UserCloses, UserMovesIn, Acted,
           WorkerRestarts, BrowserRestarts, Restart, history
  <2> QED BY <1>0, <1>1, <2>1 DEF ActInv
<1>2. timeouts' = timeouts
  BY DEF Next, vars, Acquire, Open, Close, Begin, Starts, Check, SwitchGoes, Acts, Creates, FindsGroup, Joins,
         Names, NotJoined, Created, Unlists, Decides, Releases, Forgets, UserMovesOut, UserCloses, UserMovesIn, Acted,
         WorkerRestarts, BrowserRestarts, Restart, history
<1>3. ASSUME NEW c \in Ctx, Acquire(c) \/ Open(c) \/ Close(c) PROVE InTurn'
  <2>1. \E stage \in {"switch", "fork", "end"} : \E job : doing' = [by |-> c, stage |-> stage] /\ jobs' = [jobs EXCEPT !.now = job]
    BY <1>3 DEF Acquire, Open, Close, Begin
  <2>2. jobs'["late"] = None /\ doing'.stage \in {"switch", "fork", "end"}
    BY <2>1 DEF InTurn, TabInv, TabTypes, Slot
  <2> QED BY <2>2 DEF InTurn
<1>4. ASSUME NEW s \in Slot, Starts(s) \/ Check(s) \/ SwitchGoes(s) \/ Acts(s) \/ NotJoined(s) \/ Created(s) \/ Forgets(s) PROVE InTurn'
  <2>1. s = "now"
    BY <1>4, TurnAlone DEF Starts, Check, SwitchGoes, Acts, NotJoined, Created, Forgets, At
  <2> QED BY <1>4, <2>1, TurnStarts, TurnCheck, TurnSwitchGoes, TurnEnds
<1>5. ASSUME NEW s \in Slot, Creates(s) \/ FindsGroup(s) \/ Joins(s) \/ Names(s) \/ Unlists(s) \/ Decides(s) \/ Releases(s) PROVE InTurn'
  <2>1. s = "now"
    BY <1>5, TurnAlone DEF Creates, FindsGroup, Joins, Names, Unlists, Decides, Releases, At
  <2> QED BY <1>5, <2>1, TurnGoesOn
<1>6. ASSUME NEW t \in Tab, UserMovesOut(t) \/ UserCloses(t) \/ \E g \in Group : UserMovesIn(t, g) PROVE InTurn'
  BY <1>6, TurnUser
<1>7. ASSUME NEW back, Restart(back) PROVE InTurn'
  <2>1. jobs' = [now |-> None, late |-> None] /\ doing' = None
    BY <1>7 DEF Restart
  <2> QED BY <2>1 DEF InTurn
<1>8. CASE UNCHANGED vars
  BY <1>2, <1>8 DEF vars, memory, rust, InTurn
<1>9. [Next]_vars => \/ \E c \in Ctx : Acquire(c) \/ Open(c) \/ Close(c)
                     \/ TimesOut \/ (\E back : Restart(back)) \/ UNCHANGED vars
                     \/ \E s \in Slot : Starts(s) \/ Check(s) \/ SwitchGoes(s) \/ Acts(s) \/ NotJoined(s) \/ Created(s) \/ Forgets(s)
                     \/ \E s \in Slot : Creates(s) \/ FindsGroup(s) \/ Joins(s) \/ Names(s) \/ Unlists(s) \/ Decides(s) \/ Releases(s)
                     \/ \E t \in Tab : UserMovesOut(t) \/ UserCloses(t) \/ \E g \in Group : UserMovesIn(t, g)
  BY DEF Next, Slot, WorkerRestarts, BrowserRestarts
<1> QED BY <1>2, <1>3, <1>4, <1>5, <1>6, <1>7, <1>8, <1>9

LEMMA TurnInit ==
  ASSUME Init
  PROVE  ActInv
<1>1. timeouts = 0 /\ doing = None /\ jobs["late"] = None
  BY DEF Init
<1> QED BY <1>1 DEF ActInv, InTurn

\* So a command that acts goes to the tab of its context.
LEMMA TurnPromise ==
  ASSUME TabInv, ActInv, [Next]_vars, At("now", {"act"}, "check"), jobs'.now # None, jobs'.now.at = "go",
         timeouts = 0, given[doing.by] \in Managed, managed[index[doing.by]] = given[doing.by]
  PROVE  jobs'.now.tab = given[doing.by]
<1> USE NoneIsNothing
<1>0. TabTypes /\ Awaited /\ InTurn
  BY DEF TabInv, ActInv
<1>1. doing # None /\ jobs["now"] # None /\ jobs["now"].kind = "act" /\ jobs["now"].at = "check"
  BY <1>0 DEF At, Awaited
<1>2. doing.stage = "act"
  BY <1>0, <1>1 DEF Awaited
<1>3. jobs["now"].tab = given[doing.by]
  BY <1>0, <1>1, <1>2 DEF InTurn, Managed
<1>4. CASE Check("now")
  <2>1. \/ jobs' = [jobs EXCEPT !["now"].at = "go", !["now"].tab = jobs["now"].tab]
        \/ Continue(FALSE, None, jobs.late)
    BY <1>4 DEF Check, Moves, Answer
  <2>2. CASE Continue(FALSE, None, jobs.late)
    <3>1. jobs'.now = None \/ jobs'.now = Command("new", None)
      BY <1>2, <2>2 DEF Continue
    <3> QED BY <3>1 DEF Command
  <2>3. CASE jobs' = [jobs EXCEPT !["now"].at = "go", !["now"].tab = jobs["now"].tab]
    <3>1. jobs["now"] \in Job
      BY <1>0, <1>1 DEF TabTypes, Slot
    <3>2. jobs'["now"].tab = jobs["now"].tab
      BY <1>0, <2>3, <3>1 DEF TabTypes, Slot, Job
    <3> QED BY <1>3, <3>2
  <2> QED BY <2>1, <2>2, <2>3
<1>5. CASE TimesOut
  <2>1. Continue(FALSE, None, jobs.now)
    BY <1>5 DEF TimesOut
  <2>2. jobs'.now = None \/ jobs'.now = Command("new", None)
    BY <1>2, <2>1 DEF Continue
  <2> QED BY <2>2 DEF Command
<1>6. ~\E c \in Ctx : Acquire(c) \/ Open(c) \/ Close(c)
  BY <1>1 DEF Acquire, Open, Close, Begin
<1>7. ASSUME NEW s \in Slot, \/ Starts(s) \/ SwitchGoes(s) \/ Acts(s) \/ NotJoined(s) \/ Created(s) \/ Forgets(s)
                             \/ Creates(s) \/ FindsGroup(s) \/ Joins(s) \/ Names(s) \/ Unlists(s) \/ Decides(s) \/ Releases(s)
                             \/ (Check(s) /\ s # "now")
      PROVE  FALSE
  <2>1. s = "now"
    BY <1>0, <1>7, TurnAlone DEF Starts, SwitchGoes, Acts, NotJoined, Created, Forgets, Creates, FindsGroup, Joins, Names,
                                 Unlists, Decides, Releases, Check, At
  <2> QED BY <1>1, <1>7, <2>1 DEF Starts, SwitchGoes, Acts, NotJoined, Created, Forgets, Creates, FindsGroup, Joins, Names,
                                  Unlists, Decides, Releases, At
<1>8. jobs' # jobs
  BY <1>1
<1>9. ~\E back : Restart(back)
  <2>1. \A back : Restart(back) => jobs'.now = None
    BY DEF Restart
  <2> QED BY <2>1
<1>10. [Next]_vars => \/ \E c \in Ctx : Acquire(c) \/ Open(c) \/ Close(c)
                      \/ TimesOut \/ (\E back : Restart(back)) \/ jobs' = jobs \/ Check("now")
                      \/ \E s \in Slot : \/ Starts(s) \/ SwitchGoes(s) \/ Acts(s) \/ NotJoined(s) \/ Created(s) \/ Forgets(s)
                                         \/ Creates(s) \/ FindsGroup(s) \/ Joins(s) \/ Names(s) \/ Unlists(s) \/ Decides(s) \/ Releases(s)
                                         \/ (Check(s) /\ s # "now")
  BY DEF Next, Slot, WorkerRestarts, BrowserRestarts, vars, UserMovesOut, UserCloses, UserMovesIn
<1> QED BY <1>4, <1>5, <1>6, <1>7, <1>8, <1>9, <1>10

-----------------------------------------------------------------------------
(* In BrowserSpec the tabs take a step or stay. *)

LEMMA TabsHold == BrowserSpec => [](TabInv /\ UserInv /\ SpareInv /\ ActInv)
  <1>1. BrowserInit => TabInv /\ UserInv /\ SpareInv /\ ActInv
    BY TabsInit, UserInit, SpareInit, TurnInit DEF BrowserInit
  <1>2. [BrowserNext]_<<part, vars, child, view>> => [Next]_vars
    BY DEF BrowserNext
  <1>3. TabInv /\ UserInv /\ SpareInv /\ ActInv /\ [BrowserNext]_<<part, vars, child, view>> => (TabInv /\ UserInv /\ SpareInv /\ ActInv)'
    BY <1>2, TabsStep, UserStep, SpareStep, TurnStep
  <1> QED BY <1>1, <1>3, PTL DEF BrowserSpec

\* Whatever commands are given up, whatever the user moves or closes meanwhile, and
\* whenever the worker or the browser restarts, an index names the tab its context was
\* given, or none; and a tab of the group is on the list or in the hands of a command,
\* unless it slipped in (extension/background.js managedTabs, agentGroupId).
THEOREM TabsStayManaged == BrowserSpec => []TabsAreManaged
  <1>1. TabInv => TabsAreManaged
    BY TabsPromise DEF TabsAreManaged
  <1> QED BY <1>1, TabsHold, PTL

\* No step of the extension closes a tab that is the user's: the one that was there, or
\* one the user has moved out of the group, if it comes back later too (releaseTab,
\* adoptedTabs in extension/background.js).
THEOREM UsersKeepTheirTabs == BrowserSpec => UsersTabsSurvive
  <1> DEFINE Spared == ~readopted /\ ~slipped => \A t \in users \cap users' : group[t] # Gone => group'[t] # Gone
  <1>1. TabInv /\ UserInv /\ SpareInv /\ ActInv /\ [BrowserNext]_<<part, vars, child, view>> => [Spared]_vars
    <2>1. [BrowserNext]_<<part, vars, child, view>> => [Next]_vars
      BY DEF BrowserNext
    <2> QED BY <2>1, UsersSpared
  <1>2. BrowserSpec => [][Spared]_vars
    BY <1>1, TabsHold, PTL DEF BrowserSpec
  <1> QED BY <1>2 DEF UsersTabsSurvive

\* As long as no command has been given up, a tool that goes on to act does so on the
\* tab of its own context, whoever had the bridge before (acquire_bridge in
\* browser/src/context.rs, getActiveTabId in extension/background.js).
THEOREM ToolsActOnOwnTab == BrowserSpec => ActsOnOwnTab
  <1> DEFINE OnOwn == /\ At("now", {"act"}, "check") /\ jobs'.now # None /\ jobs'.now.at = "go"
                      /\ timeouts = 0
                      /\ given[doing.by] \in Managed /\ managed[index[doing.by]] = given[doing.by]
                      => jobs'.now.tab = given[doing.by]
  <1>1. TabInv /\ UserInv /\ SpareInv /\ ActInv /\ [BrowserNext]_<<part, vars, child, view>> => [OnOwn]_vars
    <2>1. [BrowserNext]_<<part, vars, child, view>> => [Next]_vars
      BY DEF BrowserNext
    <2> QED BY <2>1, TurnPromise
  <1>2. BrowserSpec => [][OnOwn]_vars
    BY <1>1, TabsHold, PTL DEF BrowserSpec
  <1> QED BY <1>2 DEF ActsOnOwnTab
=============================================================================
