----------------------------- MODULE ElementRefs -----------------------------
(***************************************************************************)
(* The refs (@e1, @e2, ...) by which a model names the elements of a page. *)
(* A walk in the page stamps every element it shows with a ref             *)
(* (browser/src/aria_walk_js.rs), the agent keeps the refs of the last     *)
(* walk in its RefMap (browser/src/ref_map.rs), and a tool that is given   *)
(* one acts on the element that bears the stamp                            *)
(* (agent/src/tools/ref_resolve.rs).  Page and map change on their own.    *)
(*                                                                         *)
(* An element is a number, its parent a smaller one; which one comes first *)
(* in the page is left out.  Roles are two: a Leaf can be acted on, a      *)
(* Container cannot.  Names, frames, the limit of 50 children and what an  *)
(* action does are left out.                                               *)
(***************************************************************************)
EXTENDS Integers, FiniteSets, FiniteSetsExt

CONSTANTS
  Container,    \* elements that hold others, 1 among them
  Leaf,         \* elements a tool can act on
  Url,          \* normalized urls, numbered; the first document has the first
  Depths,       \* how many levels page_map may be asked for
  Default,      \* those of every other walk
  MaxHeadings,  \* bound on the headings of a text
  MaxEvents     \* bound on what changes the page, or stamps it in part or
                \* unnoticed

Element == Container \cup Leaf
Body == 1
Nil == 0       \* no element, no ref

VARIABLES
  at,           \* the element each one is a child of, Nil outside of the page
  stamp,        \* its data-acrawl-ref
  url,          \* of the document
  refs,         \* RefMap.map: by ref, the element bound to it and the entry's fields
  snapshotUrl,  \* of the last page snapshot
  nav,          \* the url navigate has loaded and not yet mapped
  events,
  loose,        \* history: the site copied a stamp, a walk that the map knows
                \* nothing of gave one, or one gave a ref that was taken where it
                \* did not look
  strayed       \* history: the page has moved an element, or another document
                \* came, since the map was last cleared

page == <<at, stamp, url>>
vars == <<page, refs, snapshotUrl, nav, events, loose, strayed>>

Places(e) == {Nil} \cup {c \in Container : c < e}
\* A document begins with all its elements but one at most.
Layouts ==
  {l \in [Element -> {Nil} \cup Container] :
     /\ \A e \in Element : l[e] \in Places(e)
     /\ \E x \in Element : \A e \in Element \ {Body, x} : l[e] \notin {Nil, x}}

Init ==
  /\ at \in Layouts
  /\ stamp = [e \in Element |-> Nil]
  /\ url = Min(Url)
  /\ refs = << >>
  /\ snapshotUrl = Nil /\ nav = Nil
  /\ events = 0
  /\ loose = FALSE /\ strayed = FALSE

-----------------------------------------------------------------------------
(* The page *)

Path(e) == LET up[x \in {Nil} \cup Element] ==
                 IF x = Nil THEN {} ELSE {x} \cup up[at[x]]
           IN up[e]
Under(c) == {e \in Element : c \in Path(e)}
Shown == Under(Body)
Bearing(r) == {e \in Shown : stamp[e] = r}
StampsOf(S) == {stamp[e] : e \in S} \ {Nil}
Distinct(s) == \A e, f \in Element : s[e] = s[f] /\ s[e] # Nil => e = f

Event == events < MaxEvents /\ events' = events + 1
Change == Event /\ UNCHANGED <<url, snapshotUrl, nav>>

\* A new element, or a copy of one that bears a stamp.
SiteAdds(e, c) == \E s \in {Nil} \cup StampsOf(Element) :
  /\ Change
  /\ at[e] = Nil /\ stamp[e] = Nil /\ c \in Places(e) \cap Shown
  /\ at' = [at EXCEPT ![e] = c]
  /\ stamp' = [stamp EXCEPT ![e] = s]
  /\ loose' = (loose \/ s # Nil)
  /\ UNCHANGED <<refs, strayed>>

SiteRemoves(e) ==
  /\ Change
  /\ e \in Shown \ {Body}
  /\ at' = [at EXCEPT ![e] = Nil]
  /\ UNCHANGED <<stamp, refs, loose, strayed>>

\* An element moves, or one that was taken out comes back with its stamp.
SiteMoves(e, c) ==
  /\ Change
  /\ e # Body /\ c \in (Places(e) \cap Shown) \ {at[e]}
  /\ e \in Shown \/ stamp[e] # Nil
  /\ at' = [at EXCEPT ![e] = c]
  /\ strayed' = TRUE
  /\ UNCHANGED <<stamp, refs, loose>>

Load(u) ==
  /\ Event
  /\ at' \in Layouts
  /\ stamp' = [e \in Element |-> Nil]
  /\ url' = u
  /\ loose' = FALSE

\* By a click, a script, the user or another agent: the map keeps its entries.
NewDocument(u) ==
  /\ Load(u)
  /\ refs' = [r \in DOMAIN refs |-> [refs[r] EXCEPT !.element = Nil]]
  /\ strayed' = (strayed \/ DOMAIN refs # {})
  /\ UNCHANGED <<snapshotUrl, nav>>

-----------------------------------------------------------------------------
(* A walk (buildTree): elements without a stamp get the next refs.          *)

\* seedCountersFromRoot sees what lies under the root, whatever the depth.
BadSeed(root) == 0
Seed(root) == Max({0} \cup StampsOf(Under(root)))

Walked(root, d) ==
  LET top == Cardinality(Path(root))
  IN {e \in Under(root) : Cardinality(Path(e)) < top + d}
Unstamped(root, d) == {e \in Walked(root, d) : stamp[e] = Nil}
Stamped(root, d) ==
  LET new == Unstamped(root, d)
      n == Seed(root)
  IN [e \in Element |-> IF e \in new THEN n + Cardinality({x \in new : x <= e})
                        ELSE stamp[e]]

\* ensureStampedRef
Stamps(root, d) ==
  /\ stamp' = Stamped(root, d)
  /\ UNCHANGED <<at, url>>

\* A ref is given that an element bears where the walk did not look.
Clashes(root) ==
  \E e, x \in Element : /\ stamp[e] = Nil /\ stamp'[e] # Nil
                       /\ stamp[x] = stamp'[e] /\ x \notin Under(root)
Mints == stamp' # stamp

\* assign_refs_and_prune: bind_existing keeps the parent an entry has; of two
\* elements with one stamp the second is bound, under the first one's parent.
\* What the walk did not show is pruned, so all entries are of one generation.
Bound(known, root, d) ==
  LET shown == Walked(root, d)
      bearing(r) == {e \in shown : stamp'[e] = r}
      above(e) == IF e = root THEN Nil ELSE stamp'[at[e]]
  IN [r \in {stamp'[e] : e \in shown} |->
        LET e == Max(bearing(r)) IN
        [element   |-> e,
         role      |-> e \in Leaf,
         parent    |-> IF r \in DOMAIN known /\ known[r].parent # Nil
                       THEN known[r].parent ELSE above(Min(bearing(r))),
         truncated |-> \E x \in Element \ shown : at[x] = e]]

-----------------------------------------------------------------------------
(* The tools *)

Cleared == refs' = << >> /\ strayed' = FALSE
UrlChanged == snapshotUrl \notin {Nil, url}

\* page_map without a scope, and the feedback after an action.
FullWalk(d) ==
  /\ nav = Nil
  /\ Stamps(Body, d)
  /\ refs' = Bound(IF UrlChanged THEN << >> ELSE refs, Body, d)
  /\ strayed' = (strayed /\ ~UrlChanged)
  /\ snapshotUrl' = url
  /\ loose' = (~Distinct(stamp') /\ (loose \/ Clashes(Body)))
  /\ UNCHANGED <<nav, events>>

\* page_map with a ref as its scope (the first element that bears it), or with
\* one of the tokens or selectors that find some element of the page.
ScopedWalk(root, d) ==
  /\ Event
  /\ nav = Nil /\ root \in Shown
  /\ Stamps(root, d)
  /\ refs' = Bound(refs, root, d)
  /\ loose' = (loose \/ Clashes(root))
  /\ UNCHANGED <<snapshotUrl, nav, strayed>>

\* The walk is done, its result is lost: a feedback that times out, or a walk of
\* another context on the page.
LostWalk ==
  /\ Event
  /\ Stamps(Body, Default)
  /\ loose' = (loose \/ Mints)
  /\ UNCHANGED <<refs, snapshotUrl, nav, strayed>>

\* try_self_heal walks the page, and looks for elements where no walk puts any.
SelfHeal ==
  /\ Event
  /\ nav = Nil
  /\ Stamps(Body, Default)
  /\ IF UrlChanged THEN Cleared ELSE UNCHANGED <<refs, strayed>>
  /\ snapshotUrl' = url
  /\ loose' = (loose \/ Mints)
  /\ UNCHANGED nav

\* go_back, refresh and switch_tab, before they call the bridge; navigate
\* when the page was fetched without the browser.
ClearRefs ==
  /\ nav = Nil
  /\ Cleared
  /\ UNCHANGED <<page, snapshotUrl, nav, events, loose>>

Navigate(u) ==
  /\ nav = Nil
  /\ Load(u) /\ Cleared
  /\ nav' = u
  /\ UNCHANGED snapshotUrl

\* build_structural_yaml; without a page map nothing is bound or remembered.
NavigateMaps ==
  /\ nav # Nil
  /\ Stamps(Body, Default)
  /\ refs' = Bound(refs, Body, Default)
  /\ snapshotUrl' = nav /\ nav' = Nil
  /\ loose' = (~Distinct(stamp') /\ (loose \/ Clashes(Body)))
  /\ UNCHANGED <<events, strayed>>

NavigateSkipsMap ==
  /\ nav # Nil /\ nav' = Nil
  /\ UNCHANGED <<page, refs, snapshotUrl, events, loose, strayed>>

\* The walk failed: the headings of the text get refs of their own.
NavigateSynthesizes(n) ==
  /\ nav # Nil
  /\ refs' = [r \in 1 .. n |-> [element |-> Nil, role |-> FALSE,
                                parent |-> Nil, truncated |-> FALSE]]
  /\ snapshotUrl' = nav /\ nav' = Nil
  /\ UNCHANGED <<page, events, loose, strayed>>

Site ==
  \/ \E e \in Element :
       \/ SiteRemoves(e)
       \/ \E c \in Container : SiteMoves(e, c) \/ SiteAdds(e, c)
  \/ \E u \in Url : NewDocument(u)

Tools ==
  \/ \E d \in Depths \cup {Default} :
       FullWalk(d) \/ \E e \in Element : ScopedWalk(e, d)
  \/ LostWalk \/ SelfHeal \/ ClearRefs \/ NavigateMaps \/ NavigateSkipsMap
  \/ \E u \in Url : Navigate(u)
  \/ \E n \in 1 .. MaxHeadings : NavigateSynthesizes(n)

Next == Site \/ Tools

Spec == Init /\ [][Next]_vars

-----------------------------------------------------------------------------
(* What a tool that is given a ref acts on *)

Above(r) ==
  LET up(S) == {refs[x].parent : x \in S \cap DOMAIN refs}
      f[n \in 1 .. Cardinality(DOMAIN refs)] ==
        IF n = 1 THEN up({r}) ELSE f[n - 1] \cup up(f[n - 1])
  IN f[Cardinality(DOMAIN refs)] \ {Nil}
Actionable(r) == {x \in DOMAIN refs : refs[x].role /\ r \in Above(x)}

\* validate_or_auto_descend: the ref itself, the one below it, or none.
Aim(r) ==
  IF refs[r].role THEN {r}
  ELSE IF refs[r].truncated \/ Cardinality(Actionable(r)) # 1 THEN {}
  ELSE Actionable(r)

\* A tool acts on the element its ref was bound to, or on one inside it, or on
\* none: unless a stamp went astray or, for what lies inside, the page has moved
\* an element or was replaced since the map was cleared.
ActsOnItsElement ==
  ~loose =>
    \A r \in DOMAIN refs : \A x \in Aim(r) : \A e \in Bearing(x) :
      /\ e = refs[x].element
      /\ strayed \/ refs[r].element \in Path(e)

\* ref_resolve.rs:44: "container with exactly one actionable descendant -
\* auto-descend to this child ref".  A page that never changes has no other
\* descendant that could be meant.
DescendsToTheOnly ==
  \A r \in DOMAIN refs : Aim(r) \notin {{}, {r}} =>
    {refs[x].element : x \in Aim(r)} = Under(refs[r].element) \cap Leaf
=============================================================================
