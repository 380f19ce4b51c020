----------------------------- MODULE ExtensionTabs -----------------------------
(***************************************************************************)
(* The tabs of the browser extension (extension/background.js) and the     *)
(* contexts that drive them through ExtensionBridge.  The agent may touch  *)
(* the tabs of one tab group; the user moves tabs in and out of it and     *)
(* closes them, and Chrome stops and restarts the service worker.          *)
(*                                                                         *)
(* handleCommand is not awaited: a command that the Rust side has given up *)
(* goes on beside its successors.  A step is a handler between two awaits; *)
(* what it asks of the browser takes effect in the step that asks, and the *)
(* event of a change reaches the extension with the change, before the     *)
(* answer to any later call.  Only releaseTab's ungroup and remove take    *)
(* effect in a step of their own: what it knows of the tab is the answer   *)
(* to a call before them, and the user may move the tab meanwhile.         *)
(* Debugger, overlay and observations are left out, as is the "close"      *)
(* command, which nothing in crates/ sends.                                *)
(***************************************************************************)
EXTENDS Integers, FiniteSets

CONSTANTS
  Ctx,          \* BrowserContexts
  Session,      \* the one that begins with page_index 0 and no tab
  None,         \* no tab, group, index, job
  MaxTabs,      \* bound on the tabs ever opened, the user's first one included
  MaxIndex,     \* bound on nextPageIndex
  MaxUser,      \* bound on what the user does
  MaxFaults     \* bound on commands given up and restarts, together

ASSUME TabsAssumption ==
  /\ Session \in Ctx /\ None \notin Ctx \cup Int
  /\ MaxTabs \in Nat \ {0} /\ MaxIndex \in Nat \ {0}
  /\ {MaxUser, MaxFaults} \subseteq Nat

\* A command: the index it is given or takes, the tab it has found, the group it
\* joins or has made
Job == [kind : {"switch", "act", "close", "new"},
        at : {"start", "check", "go", "release", "ungroup", "remove", "forget",
              "group", "join", "name", "done"},
        i : Int \cup {None}, tab : Int \cup {None}, grp : Int \cup {None}]
\* The context whose turn it is, and what it has come to
Turn == [by : Ctx, stage : {"switch", "open", "reswitch", "act", "fork", "end"}]
ASSUME CommandAssumption == None \notin Job \cup Turn

Tab == 1 .. MaxTabs
Index == 0 .. MaxIndex - 1
Ungrouped == 0
Group == 1 .. MaxTabs
Gone == -1                  \* the `group` of a tab that is not open

VARIABLES
  group,       \* where each tab is: a group, Ungrouped, Gone
  born,        \* tabs opened so far
  groups,      \* groups made so far
  managed,     \* managedTabs
  next,        \* nextPageIndex
  active,      \* activePageIndex
  agentGroup,  \* agentGroupId
  adopted,     \* adoptedTabs
  grouping,    \* groupingTabs
  saved,       \* chrome.storage.session
  jobs,        \* commands being handled: the one awaited and one given up
  doing,       \* the context that holds the bridge, and what for
  index,       \* BrowserContext.page_index
  given,       \* history: the tab the context got or found under its index
  users,       \* history: the tab the user had, and those moved out of the group,
               \* except on the way into it or with their closing already decided
  slipped,     \* history: a tab entered the group while its id was unknown, was revoked
               \* or taken off the list on its way there, or a restart cut off a command
               \* or brought back an older group
  readopted,   \* history: a tab came back while it was being handed back
  user, timeouts, restarts   \* counters for the bounds

browser == <<group, born, groups>>
memory == <<managed, next, active, agentGroup, adopted>>
rust == <<doing, index, given>>
history == <<users, slipped, readopted, user, timeouts, restarts>>
vars == <<browser, memory, grouping, saved, jobs, rust, history>>

Init ==
  /\ group = [t \in Tab |-> IF t = 1 THEN Ungrouped ELSE Gone]
  /\ born = 1 /\ groups = 0
  /\ managed = [i \in Index |-> None] /\ next = 0 /\ active = 0
  /\ agentGroup = None /\ adopted = {} /\ grouping = {}
  /\ saved = memory
  /\ jobs = [now |-> None, late |-> None] /\ doing = None
  /\ index = [c \in Ctx |-> IF c = Session THEN 0 ELSE None]
  /\ given = [c \in Ctx |-> None]
  /\ users = {1} /\ slipped = FALSE /\ readopted = FALSE
  /\ user = 0 /\ timeouts = 0 /\ restarts = 0

InUse == {c \in Ctx : index[c] # None}
Managed == {managed[i] : i \in Index} \ {None}
InGroup(t) == agentGroup # None /\ group[t] = agentGroup
Exists(g) == g # None /\ \E t \in Tab : group[t] = g
IndexOf(t) == CHOOSE i \in Index : managed[i] = t
NotManaging(t) == [i \in Index |-> IF managed[i] = t THEN None ELSE managed[i]]

\* getActiveTabId: the active index, else the highest one in use.
ActiveTab ==
  IF managed[active] # None THEN managed[active]
  ELSE IF Managed = {} THEN None
  ELSE managed[CHOOSE i \in Index :
                 managed[i] # None /\ \A j \in Index : managed[j] # None => j <= i]

\* getAgentGroup: a group that is gone is forgotten.
KnownGroup == IF Exists(agentGroup) THEN agentGroup ELSE None

-----------------------------------------------------------------------------
(* The Rust side: one command at a time, in the order a tool call needs *)

Command(kind, i) == [kind |-> kind, at |-> "start", i |-> i, tab |-> None, grp |-> None]

Begin(c, stage, job) ==
  /\ doing = None
  /\ doing' = [by |-> c, stage |-> stage]
  /\ jobs' = [jobs EXCEPT !.now = job]
  /\ UNCHANGED <<browser, memory, grouping, saved, index, given, history>>

\* acquire_bridge begins with switch_tab.
Acquire(c) == c \in InUse /\ Begin(c, "switch", Command("switch", index[c]))
\* A sub-agent's tab, a script's, or the isolated page of run_goal.
Open(c) == c \in Ctx \ InUse /\ Begin(c, "fork", Command("new", None))
Close(c) == c \in InUse \ {Session} /\ Begin(c, "end", Command("close", index[c]))

\* What the awaited answer, or its absence, leads to.
Continue(ok, i, late) ==
  LET c == doing.by
      Then(stage, job) ==
        /\ doing' = [by |-> c, stage |-> stage]
        /\ jobs' = [now |-> job, late |-> late]
      Done == doing' = None /\ jobs' = [now |-> None, late |-> late]
      Gets == /\ index' = [index EXCEPT ![c] = i]
              /\ given' = [given EXCEPT ![c] = managed[i]]
  IN \/ /\ doing.stage = "switch" /\ ok
        /\ Then("act", Command("act", None))
        /\ given' = [given EXCEPT ![c] = IF @ = None THEN managed[i] ELSE @]
        /\ UNCHANGED index
     \/ /\ doing.stage = "switch" /\ ~ok
        /\ Then("open", Command("new", None))
        /\ UNCHANGED <<index, given>>
     \/ doing.stage = "open" /\ ok /\ Then("reswitch", Command("switch", i)) /\ Gets
     \/ /\ doing.stage = "reswitch" /\ ok
        /\ Then("act", Command("act", None))
        /\ UNCHANGED <<index, given>>
     \/ doing.stage = "fork" /\ ok /\ Done /\ Gets
     \/ /\ doing.stage = "end" /\ Done
        /\ index' = [index EXCEPT ![c] = None]
        /\ given' = [given EXCEPT ![c] = None]
     \/ /\ doing.stage \in IF ok THEN {"act"} ELSE {"act", "open", "reswitch", "fork"}
        /\ Done /\ UNCHANGED <<index, given>>

\* sendResponse; nobody waits for the answer to a command given up.
Answer(s, ok, i) ==
  IF s = "now" THEN Continue(ok, i, jobs.late)
  ELSE jobs' = [jobs EXCEPT !.late = None] /\ UNCHANGED rust

TimesOut ==
  /\ jobs.now # None /\ jobs.late = None /\ timeouts + restarts < MaxFaults
  /\ timeouts' = timeouts + 1
  /\ Continue(FALSE, None, jobs.now)
  /\ UNCHANGED <<browser, memory, grouping, saved, users, slipped, readopted, user, restarts>>

-----------------------------------------------------------------------------
(* What a change of a tab sets off in the extension *)

\* managedTabs[nextPageIndex++] = tabId
LowestFree == CHOOSE i \in Index : managed[i] = None /\ \A j \in 0 .. i - 1 : managed[j] # None
BadTakeIndex(t) ==
  /\ next < MaxIndex
  /\ managed' = [managed EXCEPT ![LowestFree] = t]
  /\ next' = next + 1
TakeIndex(t) ==
  next < MaxIndex /\ managed' = [managed EXCEPT ![next] = t] /\ next' = next + 1

\* revokeTab
Revoke(t) == managed' = NotManaging(t) /\ adopted' = adopted \ {t}

\* tabs.onUpdated with a groupId
BadUpdated(t, g) ==
  \/ t \in Managed /\ g # agentGroup /\ Revoke(t) /\ UNCHANGED next
  \/ t \notin Managed /\ g = agentGroup /\ TakeIndex(t) /\ adopted' = adopted \cup {t}
  \/ (t \in Managed <=> g = agentGroup) /\ UNCHANGED <<managed, next, adopted>>
Updated(t, g) ==
  IF t \in grouping THEN UNCHANGED <<managed, next, adopted>>
  ELSE \/ t \in Managed /\ g # agentGroup /\ Revoke(t) /\ UNCHANGED next
       \/ t \notin Managed /\ g = agentGroup /\ TakeIndex(t) /\ adopted' = adopted \cup {t}
       \/ (t \in Managed <=> g = agentGroup) /\ UNCHANGED <<managed, next, adopted>>

\* tabs.onRemoved
Removed(t) == managed' = NotManaging(t) /\ adopted' = adopted \ {t}

-----------------------------------------------------------------------------
(* handleCommand, for the command in slot s *)

At(s, kinds, at) == jobs[s] # None /\ jobs[s].kind \in kinds /\ jobs[s].at = at
Moves(s, at, t) == jobs' = [jobs EXCEPT ![s].at = at, ![s].tab = t]
Saves == saved' = memory'

\* Messages arrive in order: a handler's synchronous start is never overtaken.
Overtakes(s) == s = "now" /\ jobs.late # None /\ jobs.late.at = "start"

\* Every command but new_page finds its tab at once ...
Target(s) == IF jobs[s].kind = "act" THEN ActiveTab ELSE managed[jobs[s].i]
Starts(s) ==
  /\ At(s, {"switch", "act", "close"}, "start") /\ ~Overtakes(s)
  /\ IF Target(s) = None
     THEN Answer(s, jobs[s].kind = "close", None)
     ELSE Moves(s, "check", Target(s)) /\ UNCHANGED rust
  /\ UNCHANGED <<browser, memory, grouping, saved, history>>

\* ... and asserts that it is in the group (assertInAgentGroup); one that is not
\* is revoked.
Check(s) ==
  LET t == jobs[s].tab IN
  /\ At(s, {"switch", "act", "close"}, "check")
  /\ UNCHANGED <<browser, next, active, agentGroup, grouping,
                 users, readopted, user, timeouts, restarts>>
  /\ \/ /\ InGroup(t)
        /\ Moves(s, "go", t)
        /\ UNCHANGED <<rust, managed, adopted, saved, slipped>>
     \/ /\ ~InGroup(t)
        /\ slipped' = (slipped \/ t \in grouping)
        /\ IF t \in Managed THEN Revoke(t) /\ Saves ELSE UNCHANGED <<managed, adopted, saved>>
        /\ Answer(s, FALSE, None)

\* handleSwitchTab
BadSwitched(s) == UNCHANGED active
Switched(s) == active' = jobs[s].i
SwitchGoes(s) ==
  /\ At(s, {"switch"}, "go")
  /\ UNCHANGED <<browser, managed, next, agentGroup, adopted, grouping, history>>
  /\ IF group[jobs[s].tab] = Gone
     THEN Answer(s, FALSE, None) /\ UNCHANGED <<active, saved>>
     ELSE Switched(s) /\ Saves /\ Answer(s, TRUE, jobs[s].i)

\* A command that drives the tab, navigate to highlight_changes.
Acts(s) ==
  /\ At(s, {"act"}, "go")
  /\ Answer(s, TRUE, None)
  /\ UNCHANGED <<browser, memory, grouping, saved, history>>

\* handleNewPage
Creates(s) ==
  /\ At(s, {"new"}, "start") /\ ~Overtakes(s)
  /\ agentGroup' = KnownGroup
  /\ \/ /\ born < MaxTabs
        /\ born' = born + 1
        /\ group' = [group EXCEPT ![born + 1] = Ungrouped]
        /\ TakeIndex(born + 1)
        /\ grouping' = grouping \cup {born + 1}
        /\ jobs' = [jobs EXCEPT ![s].at = "group", ![s].tab = born + 1, ![s].i = next]
        /\ UNCHANGED rust
     \/ /\ Answer(s, FALSE, None)
        /\ UNCHANGED <<born, group, managed, next, grouping>>
  /\ UNCHANGED <<groups, active, adopted, saved, history>>

\* addToAgentGroup
FindsGroup(s) ==
  /\ At(s, {"new"}, "group")
  /\ agentGroup' = KnownGroup
  /\ jobs' = [jobs EXCEPT ![s].at = "join", ![s].grp = KnownGroup]
  /\ UNCHANGED <<browser, managed, next, active, adopted, grouping, saved, rust, history>>

Joins(s) ==
  LET t == jobs[s].tab
      g == IF jobs[s].grp = None THEN groups + 1 ELSE jobs[s].grp
  IN
  /\ At(s, {"new"}, "join")
  /\ group[t] # Gone /\ (jobs[s].grp # None => Exists(jobs[s].grp))
  /\ group' = [group EXCEPT ![t] = g]
  /\ groups' = IF jobs[s].grp = None THEN g ELSE groups
  /\ Updated(t, g)
  /\ jobs' = [jobs EXCEPT ![s].at = IF jobs[s].grp = None THEN "name" ELSE "done",
                          ![s].grp = IF @ = None THEN g ELSE None]
  /\ UNCHANGED <<born, active, agentGroup, grouping, saved, rust, history>>

\* A new group has its id, and is given its title.
Names(s) ==
  /\ At(s, {"new"}, "name")
  /\ agentGroup' = jobs[s].grp
  /\ jobs' = [jobs EXCEPT ![s].at = "done"]
  /\ UNCHANGED <<browser, managed, next, active, adopted, grouping, saved, rust, history>>

\* Grouping the tab or naming the group fails: the tab is closed again.
NotJoined(s) ==
  LET t == jobs[s].tab IN
  /\ \/ At(s, {"new"}, "join")
     \/ At(s, {"new"}, "done") /\ jobs[s].grp # None
  /\ managed' = [managed EXCEPT ![jobs[s].i] = None]
  /\ group' = [group EXCEPT ![t] = Gone]
  /\ adopted' = adopted \ {t} /\ grouping' = grouping \ {t}
  /\ Answer(s, FALSE, None)
  /\ UNCHANGED <<born, groups, next, active, agentGroup, saved, history>>

Created(s) ==
  /\ At(s, {"new"}, "done")
  /\ grouping' = grouping \ {jobs[s].tab}
  /\ active' = jobs[s].i
  /\ UNCHANGED <<browser, managed, next, agentGroup, adopted, history>>
  /\ Saves
  /\ Answer(s, TRUE, jobs[s].i)

\* handleClosePage: taken off the list, then released (releaseTab).
Unlists(s) ==
  /\ At(s, {"close"}, "go")
  /\ managed' = [managed EXCEPT ![jobs[s].i] = None]
  /\ Moves(s, "release", jobs[s].tab)
  /\ slipped' = (slipped \/ jobs[s].tab \in grouping)
  /\ UNCHANGED <<browser, next, active, agentGroup, adopted, grouping, saved, rust,
                 users, readopted, user, timeouts, restarts>>

\* releaseTab is told where the tab is.  It asks for one that the user put in the
\* group to be handed back, and for another one to be closed ...
BadRelease(t) == "remove"
Release(t) == IF t \in adopted THEN "ungroup" ELSE "remove"
Decides(s) ==
  LET t == jobs[s].tab IN
  /\ At(s, {"close"}, "release") /\ InGroup(t)
  /\ Moves(s, Release(t), t)
  /\ UNCHANGED <<browser, memory, grouping, saved, rust, history>>

\* ... and so the browser does, wherever the user has moved it since.
Releases(s) ==
  LET t == jobs[s].tab IN
  /\ \/ At(s, {"close"}, "ungroup")
     \/ At(s, {"close"}, "remove")
  /\ group' = [group EXCEPT ![t] =
                 IF @ = Gone \/ jobs[s].at = "remove" THEN Gone ELSE Ungrouped]
  /\ \/ group'[t] = group[t] /\ UNCHANGED <<managed, next, adopted>>
     \/ group'[t] # group[t] /\ group'[t] = Gone /\ Removed(t) /\ UNCHANGED next
     \/ group'[t] # group[t] /\ group'[t] # Gone /\ Updated(t, group'[t])
  /\ Moves(s, "forget", t)
  /\ UNCHANGED <<born, groups, active, agentGroup, grouping, rust, history>>
  /\ saved' = IF managed' # managed THEN memory' ELSE saved

\* Last it forgets that the tab was adopted; one outside the group is let alone.
Forgets(s) ==
  LET t == jobs[s].tab IN
  /\ \/ At(s, {"close"}, "forget")
     \/ At(s, {"close"}, "release") /\ ~InGroup(t)
  /\ adopted' = adopted \ {t}
  /\ readopted' = (readopted \/ (t \in adopted /\ (t \in Managed \/ InGroup(t))))
  /\ UNCHANGED <<browser, managed, next, active, agentGroup, grouping,
                 users, slipped, user, timeouts, restarts>>
  /\ Saves
  /\ Answer(s, TRUE, None)

-----------------------------------------------------------------------------
(* The user and Chrome *)

Acted == user < MaxUser /\ user' = user + 1 /\ UNCHANGED <<timeouts, restarts>>

\* Into a group the extension has made; its event saves the state if it adopts.
UserMovesIn(t, g) ==
  /\ Acted /\ group[t] \notin {Gone, g} /\ Exists(g)
  /\ group' = [group EXCEPT ![t] = g]
  /\ Updated(t, g)
  /\ slipped' = (slipped \/ \E s \in {"now", "late"} : At(s, {"new"}, "name"))
  /\ UNCHANGED <<active, agentGroup>>
  /\ saved' = IF managed' # managed THEN memory' ELSE saved
  /\ UNCHANGED <<born, groups, grouping, jobs, rust, users, readopted>>

\* releaseTab has asked for the tab to be closed.
Doomed(t) == \E s \in {"now", "late"} : At(s, {"close"}, "remove") /\ jobs[s].tab = t

\* A move out that falls into the grouping of a tab goes unnoticed; one that falls
\* between the answer to releaseTab and the closing of the tab comes too late.
UserMovesOut(t) ==
  /\ Acted /\ group[t] \in Group
  /\ group' = [group EXCEPT ![t] = Ungrouped]
  /\ Updated(t, Ungrouped)
  /\ users' = IF t \in grouping \/ Doomed(t) THEN users ELSE users \cup {t}
  /\ UNCHANGED <<active, agentGroup>>
  /\ saved' = IF managed' # managed THEN memory' ELSE saved
  /\ UNCHANGED <<born, groups, grouping, jobs, rust, slipped, readopted>>

UserCloses(t) ==
  /\ Acted /\ group[t] # Gone
  /\ group' = [group EXCEPT ![t] = Gone]
  /\ Removed(t)
  /\ users' = users \ {t}
  /\ UNCHANGED <<next, active, agentGroup>>
  /\ saved' = IF managed' # managed THEN memory' ELSE saved
  /\ UNCHANGED <<born, groups, grouping, jobs, rust, slipped, readopted>>

\* restoreState; without a stored group, reclaimRestoredGroup adopts the tabs of
\* one with its title.  The connection breaks, so every call ends in an error.
Fresh == <<[i \in Index |-> None], 0, 0, None, {}>>
Restores(state, tabs) ==
  LET old == {t \in Tab : \E i \in Index : state[1][i] = t}
      claimed == {g \in Group : state[4] = None /\ \E t \in Tab : tabs[t] = g}
      g == IF claimed = {} THEN state[4] ELSE CHOOSE h \in claimed : TRUE
      more == {t \in Tab : claimed # {} /\ tabs[t] = g} \ old
      Place(t) == state[2] + Cardinality({u \in more : u < t})
  IN
  /\ state[2] + Cardinality(more) <= MaxIndex
  /\ managed' = [i \in Index |-> IF \E t \in more : Place(t) = i
                                 THEN CHOOSE t \in more : Place(t) = i ELSE state[1][i]]
  /\ next' = state[2] + Cardinality(more) /\ active' = state[3]
  /\ agentGroup' = g /\ adopted' = state[5] \cup more
  /\ saved' = IF more = {} THEN state ELSE memory'

Restart(back) ==
  /\ timeouts + restarts < MaxFaults /\ restarts' = restarts + 1
  /\ grouping' = {} /\ jobs' = [now |-> None, late |-> None] /\ doing' = None
  /\ slipped' = \/ slipped \/ jobs # [now |-> None, late |-> None]
                \/ back # agentGroup /\ Exists(back)
  /\ UNCHANGED <<born, groups, index, readopted, user, timeouts>>

\* A tab the user closes while the worker is down is removed before the state
\* is loaded, and so stays in it.
WorkerRestarts(closed) ==
  /\ Restart(saved[4])
  /\ group' = [t \in Tab |-> IF t \in closed THEN Gone ELSE group[t]]
  /\ users' = users \ closed
  /\ Restores(saved, group')
  /\ UNCHANGED given

\* Chrome restores tabs and groups, but not the session storage: the contexts
\* keep indices that mean nothing any more.
BrowserRestarts ==
  /\ Restart(None)
  /\ given' = [c \in Ctx |-> None]
  /\ Restores(Fresh, group)
  /\ UNCHANGED <<group, users>>

Next ==
  \/ \E c \in Ctx : Acquire(c) \/ Open(c) \/ Close(c)
  \/ TimesOut
  \/ \E s \in {"now", "late"} :
       \/ Starts(s) \/ Check(s) \/ SwitchGoes(s) \/ Acts(s)
       \/ Creates(s) \/ FindsGroup(s) \/ Joins(s) \/ Names(s)
       \/ NotJoined(s) \/ Created(s) \/ Unlists(s) \/ Decides(s) \/ Releases(s) \/ Forgets(s)
  \/ \E t \in Tab : UserMovesOut(t) \/ UserCloses(t) \/ \E g \in Group : UserMovesIn(t, g)
  \/ WorkerRestarts({}) \/ \E t \in Tab : group[t] # Gone /\ WorkerRestarts({t})
  \/ BrowserRestarts

Spec == Init /\ [][Next]_vars

-----------------------------------------------------------------------------

\* "adoptedTabs: tabIds the user/popups put in the group; never closed by acrawl",
\* and "A tab the user moved out of the group is theirs: revoke it, never close
\* it" (background.js:52, :768): whatever commands are under way while the user
\* moves tabs about.  The code keeps this except that
\*   - a tab moved out after releaseTab was told where it is, and before its
\*     chrome.tabs.remove takes effect, is closed, and so is one moved out while
\*     new_page is grouping it, if naming the group fails (`users` leaves out both);
\*   - a tab that came back while it was being handed back is no longer known to
\*     be adopted (`readopted`), nor is one that entered the group while its id was
\*     unknown, was revoked or taken off the list on its way there, or saw a
\*     restart cut off a command or bring back an older group, saved before the
\*     naming of the last one failed (`slipped`): all is off once that has happened.
UsersTabsSurvive ==
  [][~readopted /\ ~slipped => \A t \in users \cap users' : group[t] # Gone => group'[t] # Gone]_vars

\* An index names the tab its context was given, or none: closed pages, revoked
\* and adopted tabs, commands given up and restarts of the worker move nobody
\* else's tab under it.
IndexNamesOwnTab ==
  \A c \in InUse : given[c] # None => managed[index[c]] \in {given[c], None}

\* "Tab group boundary: the agent controls exactly the tabs in this group"
\* (background.js:49): every tab of the group is managed, or in the hands of a
\* command, unless one slipped in while the group had no id yet, was revoked or taken
\* off the list on its way into the group, or a restart cut a command off or brought
\* back an older group.
GroupIsManaged ==
  ~slipped => \A t \in Tab : InGroup(t) =>
    t \in Managed \/ \E s \in {"now", "late"} : jobs[s] # None /\ jobs[s].tab = t

\* A tool acts on its context's own tab while that tab is there, whatever tab the
\* contexts before it left active.  Once a command has been given up this is
\* lost: a late switch_tab or new_page moves the active index in between.
ActsOnOwnTab ==
  [][ /\ At("now", {"act"}, "check") /\ jobs'.now # None /\ jobs'.now.at = "go"
      /\ timeouts = 0
      /\ given[doing.by] \in Managed /\ managed[index[doing.by]] = given[doing.by]
      => jobs'.now.tab = given[doing.by] ]_vars

=============================================================================
