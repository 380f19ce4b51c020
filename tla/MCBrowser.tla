------------------------------ MODULE MCBrowser ------------------------------
(***************************************************************************)
(* Tabs and pages, in three parts checked side by side: the extension's    *)
(* tabs, the pages of the Playwright child, and what an agent believes of  *)
(* its page.  A behaviour runs one of them, the others stay as they start. *)
(* Their states add up instead of multiplying.                             *)
(***************************************************************************)
EXTENDS ExtensionTabs

CONSTANTS
  MaxPages, MaxEvents,
  Url, Moved, Site, Blank, MaxSteps

\* One url redirects to another.
MCRedirect == [u \in Url |-> IF u = Moved THEN Site ELSE u]

VARIABLES
  part,
  pages, tab, opened, dead, buffers, last, pending, events, pageIndex, slot,
  forkedBy, holder, givenPage, moved,
  host, shows, ctx, crawlUrl, believes, acted, unseen, skipped, steps

Pages == INSTANCE BrowserPages
           WITH Root <- Session, index <- pageIndex, given <- givenPage
View == INSTANCE PageView WITH Redirect <- MCRedirect

\* What a url leads to leads to itself; about:blank is no url of a site.
ASSUME ViewAssumption ==
  /\ Site \in Url \ {Moved} /\ None \notin Url
  /\ Blank \notin Url \cup {None}

\* The child begins with a page.
ASSUME PagesAssumption == MaxPages \in Nat \ {0}

child == <<pages, tab, opened, dead, buffers, last, pending, events, pageIndex,
           slot, forkedBy, holder, givenPage, moved>>

view == <<host, shows, ctx, crawlUrl, believes, acted, unseen, skipped, steps>>

BrowserInit ==
  /\ part \in {"tabs", "pages", "view"}
  /\ Init /\ Pages!Init /\ View!Init
  /\ part # "view" => host = "agent"

BrowserNext ==
  /\ UNCHANGED part
  /\ \/ part = "tabs" /\ Next /\ UNCHANGED <<child, view>>
     \/ part = "pages" /\ Pages!Next /\ UNCHANGED <<vars, view>>
     \/ part = "view" /\ View!Next /\ UNCHANGED <<vars, child>>

BrowserSpec == BrowserInit /\ [][BrowserNext]_<<part, vars, child, view>>

\* Tabs: an index leads to the tab it was given out for, and every tab of the group is
\* one the extension manages.
TabsAreManaged == IndexNamesOwnTab /\ GroupIsManaged
\* Pages: what a page has raised lies under the index it has now, and a context acts on
\* its own tab, as long as nobody closes one in front of it.
PagesKept == Pages!EventsUnderTheirPage /\ Pages!OnOwnTab
\* View: a tool acts on the page its agent believes it is on.
ActsOnBelievedPage == View!ActsOnBelievedPage
=============================================================================
