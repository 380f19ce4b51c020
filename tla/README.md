# AgenticCrawler in TLA+

A verification development of `acrawl`, the browser agent in this repository: TLA+ modules translated
from the Rust (and, for the Playwright child, JavaScript) source, TLC configurations that check them on
small instances, and theorems that TLAPS proves for every value of the constants. Paths below are
relative to `crates/` unless they begin with `docs/`.

## 1. The system

`acrawl` runs a language model in a loop: a prompt becomes a turn, a turn alternates requests to a model
provider with tool calls, the tools drive one browser. A tool call can fork sub-agents, which run the
same loop in tasks of their own on tabs of the same browser, or start scripts, which run a small
language of tool calls without a model.

| Component | State it keeps | Operations | What is hard |
|---|---|---|---|
| Agent tree (`agent/src/implementation`, `manager.rs`, `child_events.rs`) | slots and depths of agents, handles of children, snapshots and control states, blocks of results | fork, wait, cancel, status; end by return, error, panic, abort | futures dropped at any await by an interrupt or an abort; concurrent forks; three ways to learn of a child's end |
| URL claims (`agent/src/url_claim.rs`) | entries (url or regex, owner) behind a mutex | claim a whole scope, release by dropping a guard | all or nothing; patterns against urls; who drops the guard |
| Turn loop (`runtime/src/conversation`, `control.rs`, `ui/src/app/api_client.rs`) | messages, iterations, cancel flag and its wakeup | run a turn, stream, run tools, interrupt | flag and wakeup race; interrupted tool calls; stale flag |
| Compaction (`runtime/src/compact`) | the messages again | automatic after a turn, `/compact` | where to cut; repeated compaction |
| Terminal UI loop (`tui/src/repl_app`, `ui/src/app/slash.rs`) | busy flag, event channel, cancel handle, mutex on the session | submit, drain, interrupt, slash commands | the flag lags the worker; the runtime is replaced behind the handle; locks on the UI thread |
| Playwright bridge (`browser/src/playwright`) | two pipes, the count of owed responses | one command at a time, timeouts, kill | late answers, dropped reads, torn lines, dead child |
| Browser pages (`browser/src/context.rs`, `bridge_script.rs`) | the page array of the child, a page index per context, observation buffers by index | acquire, re-open, switch, open, close, `set_device` | indices shift under their holders |
| Script executor (`agent/src/script_executor`) | per executor: variables, open try blocks, data; shared by the branches: steps, output bytes, cancel token, deadline, pages | run nodes, try/catch/finally, parallel blocks | branches that count, collect and fail at the same time; aborts that land later; page indices that shift |
| Script manager (`agent/src/script_manager.rs`) | handles, shared states, cancel tokens | spawn, wait, cancel, status | a wait owns the handles it took; status written from two sides |
| Extension link (`browser/src/extension.rs`, `ws_server`, `extension/background.js`) | command ids, a channel that outlives the websocket sessions, the flag that admits one client, the extension's current socket | serve, upgrade, send, time out, reconnect | commands that outlive callers and sessions; sockets that were replaced |
| Extension tabs (`extension/background.js`) | managed tabs by index, the tab group, the stored state | group, switch, close, adopt, revoke, restore | the user moves and closes tabs meanwhile; workers restart |
| MCP client (`runtime/src/mcp`) | routes, processes, request ids | discover, call, restart | timeouts, half-done discovery; not yet used by any command |
| Settings and credentials (`runtime/src/settings.rs`, `api/src/credentials.rs`) | two files | load, change, save whole | no lock; killed writers |
| Sessions on disk (`runtime/src/session.rs`, `ui/src/session_mgr.rs`) | a file per session, the title waiting in a slot | save, clear, switch, rename, delete | two threads and a picker that works on files without the lock |
| Refs and page maps (`browser/src/ref_map.rs`, `aria_walk_js.rs`, `agent/src/tools/ref_resolve.rs`) | stamps in the page, a map of refs per agent, the last snapshot's url | walk the page, bind refs, resolve a ref, descend into a container | page and map change on their own |
| Observations (`bridge_script.rs`, `agent/src/state.rs`, `tools/network_activity.rs` and the like) | buffers per page, one sequence number for all, a store per agent | buffer, drain, poll, date, list since the last action | events between polls, a number that agents share |
| Guards of a tool call (`action_cache.rs`, `loop_detector.rs`, `confidence.rs`, `runtime/src/budget.rs`, `implementation/mod.rs`) | cached answers by fingerprint, window of actions, ratings, cost, the prompt override | look up, store, detect, rate, warn | many guards, one override; stale fingerprints |
| Signing in (`tui/src/modals/auth`, `oauth_spawn.rs`, `ui/src/auth`) | the modal's step, login threads, the event channel | open, log in, fetch models, leave | threads that outlive their step |
| Browser mode (`ui/src/app/slash.rs`, `mod.rs`, `oauth_spawn.rs`, `lifecycle.rs`) | the bridge server, what the agent holds, the settings | `/extension`, `/cloakbrowser`, `/headed`, rebuilds, the watch thread | the switch happens without the user and beside the mutex |
| Page view and fetch router (`browser/src/context.rs`, `fetch.rs`, `tools/navigate.rs`) | the url noted and the one loaded, per context | navigate by HTTP or browser, act, look | the page moves, the note does not |
| MCP server (`mcp-server/src/server.rs`) | the session's browser, its bridge, scripts | tools, scripts and goals over stdio | settings and browsers that change between requests |
| Model streams (`api/src/openai.rs`, `responses.rs`, `gemini.rs`, `client.rs`, `ui/src/app/api_client.rs`) | blocks and calls that are open, events assembled so far | translate frames, assemble, retry | interleaved calls under two kinds of id; streams cut anywhere |

The rest (script parser, installer, rendering, command line, the tools inside a page) is parsing, I/O or
formatting around these; `PROJECT.json` lists each with the reason it is not modelled.

Interactions. The UI thread and the worker share a mutex around the session, an event channel and a
control state. A turn's tools call the agent tree, which calls the turn loop again for each child in a
new tokio task. All agents of a tree share one `AgentManager` (slots and claims) and one browser bridge
behind a mutex. Every await inside a tool can be its last: an interrupt drops the tool's future, an
abort drops the whole task, a script step's timeout drops a bridge call.

What makes the components correct, in one line each: limits and claims hold whatever forks
concurrently; no claim, slot or child is lost whichever future is dropped; the history sent to a
provider always pairs calls with results; an interrupt ends the turn it was meant for; a bridge call
gets its own response or an error, over the pipe and over the websocket; a context drives its own tab, and
the user's tabs stay the user's; a script keeps its limits and its tabs whatever its branches do, ends when
it is told to, and its result goes to one caller; what a completed save wrote stays; a tool call is
executed with the arguments the provider sent, once it is closed; a ref leads to the element it was given for, an event of a
page reaches its agent once, what the guards find of the last call reaches the
model; a modal that says so is signed in, and
the browser on the screen is the one that is driven.

## 2. Modules

| Module | Models or shows |
|---|---|
| `UrlClaims` | scopes, keys, conflict checks, claiming and releasing, as operators on a registry |
| `ScopeLeases` | abstract specification: exclusive leases taken and given back whole |
| `AgentTree` | the tree of agents over `UrlClaims`; implements `ScopeLeases` |
| `AgentTreeDocs` | statements of comments that the code refutes |
| `MCAgentTree` | the small trees and scopes for TLC |
| `TurnLoop` | worker, UI thread, control state, messages and compaction |
| `PlaywrightPipe` | the line protocol between the bridge and its child |
| `ScriptTask` | abstract specification: what a script run promises its manager |
| `ScriptExecutor` | one script run with its parallel branches; implements `ScriptTask` |
| `MCScriptExecutor` | the small scripts for TLC |
| `ScriptManager` | the scripts of one session; each is a `ScriptTask` |
| `BrowserPages` | the page array of the Playwright child and the contexts' indices into it |
| `ExtensionTabs` | the extension's managed tabs, its group, the user and the restarts |
| `MCBrowser` | three parts: `ExtensionTabs`, `BrowserPages`, `PageView` |
| `ExtensionLink` | bridge servers, websocket sessions and the connecting side of the extension |
| `McpServers` | the MCP client and its server processes |
| `ConfigFiles` | settings.json and credentials.json under several writers |
| `SessionFiles` | sessions on disk, the worker, the picker and the titles |
| `ModelStream` | one answer of a model, from frames to events |
| `ElementRefs` | stamps in a page and the refs an agent has for them |
| `Observations` | what the pages do between two looks at them, and who gets to know |
| `ToolCalls` | the requests and tool calls of one agent with the guards that watch them |
| `AuthLogin` | the sign-in modal, its threads and the event channel |
| `BrowserMode` | which browser the tools of the terminal session drive |
| `PageView` | which page a tool acts on, and which one its agent believes it is on |
| `McpService` | acrawl as an MCP server, with its browsers, scripts and goals |
| `PipeState` | the variables of `PlaywrightPipe` and its main promise, for modules that instantiate it beside others |
| `MCUnits` | eight parts side by side for TLC: `ScriptManager`, `McpServers`, `ConfigFiles`, `SessionFiles`, `ModelStream`, `PlaywrightPipe`, `ElementRefs`, `McpService` |
| `MCAgents` | three parts: `AgentTree`, `ToolCalls`, `Observations` |
| `MCTurnLoop` | four parts: `TurnLoop`, `AgentTree` in a line, `AuthLogin`, `BrowserMode` |
| `AgentTreeProofs`, `AgentsProofs` | theorems about the tree with its claims, the accounting of children, `ToolCalls` and `Observations` |
| `TurnLoopProofs` | theorems about the parts of `MCTurnLoop`: `TurnLoop`, `BrowserMode`, `AuthLogin` |
| `ScriptExecutorProofs` | theorems about `ScriptExecutor` |
| `BrowserProofs` | theorems about the parts of `MCBrowser`: `BrowserPages`, `PageView`, `ExtensionTabs` |
| `LinkProofs` | a theorem about `ExtensionLink` |
| `UnitsProofs` | theorems about the parts of `MCUnits`: `ScriptManager`, `McpServers`, `McpService`, `ConfigFiles`, `SessionFiles`, `ElementRefs`, `PlaywrightPipe` |
| `StreamProofs` | a theorem about `ModelStream`, the part of `MCUnits` whose proof is the longest |

### UrlClaims and AgentTree

`AgentTree`'s variables are the fields of the code: `status` is `AgentManager.agents`, `entries` its
claim registry, `guarded` the children whose `ClaimGuard` lives, `children` the `child_tasks` of each
agent, `held` the handles and guards that the running tool future owns as locals, `blocks` the results,
`snap` and `control` the shared registries. An action is the code between two awaits that can suspend:
`ForkReserved` takes slot and claim (one critical section), `SpawnChild` or `SetupFails` follow the await
of the new tab, `WaitBegin`/`CollectFinished`/`WaitDeadline`/`CleanupFinished` are the wait,
`CancelTracked`/`CancelUntracked` the cancel, `TurnEnds`/`RunReturns`/`Panics`/`AbortLands`/`DropAgent`
the ends. `ToolInterrupted` drops the root's tool future wherever it is suspended.

Ids are the path of child numbers, as in the code (`root-child-1-child-1`). Urls and regexes are opaque;
`Normal` and `Matches` are constants with the assumptions the proofs need (`UrlAssumption`).

### TurnLoop

The worker's `phase` walks through `run_turn`: `top` (`prepare_iteration`), `connecting` (the request is
out and nothing watches the flag), `stream`, `tools`. `watch` follows `ControlState::cancelled()`: it
tests the flag (`WatchPasses`) and then registers (`Arm`), and a request between the two wakes nobody.
The session is a sequence of roles: user, assistant with n calls, result of call i, summary. `Compacted`
is `should_compact` and `compact_session` with the token budget left open: any tail that the floor
allows may be kept, and `WalkBack` moves the cut to before the calls of a result. The UI thread submits
when its own `busy` is down, drains events, presses its own handle, and locks the mutex for commands.
`RunCommand` is `/model`, `/auth`, `/clear` and `/compact`: all build a runtime with a fresh control
state. `InspectCommand` is a command that only reads under the mutex, such as `/status`.

### PlaywrightPipe

`caller` is where `write_command_and_read_line` stands: draining owed responses, writing, reading.
`pending` is `pending_responses`. A call ends by its answer, an error, its timeout, or by being dropped;
a reader that gives up may take along the beginning of a line that is still being written, and the rest
may begin inside a UTF-8 character, which `read_line` refuses after consuming it. The child takes one
command at a time, may fall silent for as long as it likes, and may die in the middle of a line.

### ScriptTask, ScriptExecutor and ScriptManager

`ScriptTask` is the contract between the two halves: a run has one result, which is "cancelled" only
after a cancel, and until then the task writes the status anybody may read. `ScriptExecutor` implements
it for one run, `ScriptManager` lets each of its scripts do what the contract allows and no more, so it
need not know the executor.

`ScriptExecutor` has no script as a datum. An executor (the main one or that of a branch) which is
`ready` runs any node next, enters or leaves a try block or a parallel block, or is at its end; the
behaviours are those of every script of bounded nesting. `frames` are the open try blocks with what is
pending in each, and `Raise` is an error on its way up: the innermost block that is not in its
`finally_steps` reacts to it (`Unwound`), and without one the executor fails. A tool call is three steps,
`CountStep`, `CheckStep` and `ToolReturns`/`ToolFails`, since branches share `step_counter` and run on
several threads. A parallel block is `EnterParallel`, one `OpenBranch` per branch, `JoinFailed` for each
branch that failed, `AllJoined`, one `ClosePage` per index and `FinishParallel`; `block` holds the
JoinSet, the indices and the first error. A dropped JoinSet (`Drops`) tells its branches to stop;
`AbortLands` is the await at which a branch is dropped, and until then it goes on as an orphan.
`pages` is the child's array of pages, each named by the executor it was opened for; `index` is
`BrowserContext.page_index`, and `acquire_bridge` opens another page where the index points behind the
array.

`ScriptManager`: `managed` are the keys of `scripts`; `wait_for_scripts` moves handles into its own frame
(`awaited`), and gives the results to its caller (`delivered`), loses them with an unknown id
(`WaitUnknown`) or when an interrupt drops it (`WaitDropped`). `&mut self` makes calls exclude one
another.

Simplified: a script's `switch_tab` and other agents' tabs are in `BrowserPages`, so nothing but
the script moves pages and its own page is the first; join order is free; a branch told to stop does not
get an answer from the browser any more (its future is dropped at that await); variables and conditions
are free choice; the counts and the data in a status are left out; a task that panics is left out.

### BrowserPages

`pages` is the array of the child and `tab` its `page`; `index` is `page_index` of each context, `slot` the
index a script keeps to close its page by. `AcquireOwn`, `AcquireReopen` and `AcquireFails` are
`acquire_bridge`: a context switches to its own index each time it takes the bridge, opens another page
when there is none, and fails on one that has closed. `ClosePage` splices the array and shifts the buffers
(`Shifted`), `SetDevice` replaces it. Listeners remember the index a page had (`last`) and look it up again
when a request ends (`BufferAs`), since the page may have moved or gone meanwhile. `moved` records that a
page was taken out from under, or in front of, somebody else's: with that the code drives another tab by
design, and `OnOwnTab` speaks of everything else.

### ExtensionTabs

A command is a job that walks through the awaits of `handleCommand`: `Starts`, `Check`
(`assertInAgentGroup`), then `SwitchGoes`, `Acts`, or the steps of closing; `Creates`, `FindsGroup`, `Joins`,
`Names` (a new group's id and title, either of which may fail: `NotJoined`), `Created` for a new page. Closing is
`Unlists`, then `releaseTab`, which is told where the tab is (`Decides`) and asks for it to be handed back or
closed; that takes effect in a step of its own (`Releases`), because the user may move the tab between the answer
and the closing. The caller is beside it (`Continue` is what `acquire_bridge` does with an
answer), and a command given up runs on in the slot `late`. The events of tabs (`Updated`, `Removed`) belong
to the step that causes them: closing a tab or handing it back brings onRemoved or onUpdated, which
may find the tab on the list again. `memory` are the worker's variables and `saved` the last stored copy;
`WorkerRestarts` loads it, `BrowserRestarts` finds none and adopts the group with its title.

### ExtensionLink

`server` is per `WsBridgeServer` what its tasks share; a socket has two ends that walk independently
(`client`: dialing, open, shut; `server`: none, upgrading, session, ended, leaving, done). `Incoming` is the
rate limit and `has_active_client`; `SessionEnds` and the two steps of `SessionLeaves` are the end of
`run_ws_session` and of its caller. A server that is stopped leaves its session running while somebody
holds the bridge (`held`), so answers and new sessions can overlap. `Connect` is `connect` after its await,
of which several may be under way (`dialing`). Ids begin at 1 with each server, as in the code.

### McpServers, ConfigFiles, SessionFiles, ModelStream

`McpServers`: `op` is the one operation the manager runs (`&mut self`), with the servers still to do; a
process has what it was asked and what it has said but nobody read. The frames of a server are answers,
notifications and requests of its own with ids of its own.

`ConfigFiles`: names lead to inodes, and a write goes to the inode that was opened. `copy` is what a writer
loaded and changed; `overlap` and `cut` record two updates at once and a kill inside the write in place,
both of which lose data by design (section 6).

`SessionFiles`: `save` is `save_to_path` in each thread, three steps; `lock` is the mutex around `LiveCli`,
which the picker's delete and rename do not take. `slot` is `pending_title`. `gap` and `late` record what
is known to go wrong: files changed while a turn is queued or runs, and a title for a session that was left.

`ModelStream`: `state` is the translator of one format (chat, Responses, Gemini, or the block events that
Anthropic and Bedrock send themselves); `client` in it is the assembly in `api_client.rs`, which takes each
event (`Says`) before the next frame is looked at, since `next_event` gives out what is pending first. The
provider's protocol is free choice: any interleaving of text, reasoning and fragments of calls that its format allows, a stop, a
cut or an error at any point. The output limit may cut calls that are open (`finish_reason` `length`, a completed response with
`incomplete_details`, `max_tokens`): the code closes and delivers them as it does complete ones. `again` counts what the code tells
twice: arguments that come with `output_item.added` and in no delta after.

### ElementRefs

A page is a forest of numbered elements (`at`) with stamps; `Stamps` is `ensureStampedRef` over what a walk of
some depth reaches from its root (`Walked`), with numbers that begin behind the largest stamp *under the root*
(`Seed`). `Bound` is `assign_refs_and_prune`: it prunes what the walk did not show and keeps the parent an
entry has. `FullWalk` and `ScopedWalk` are `page_map` and the feedback of an action, `LostWalk` a walk whose
result is lost, `SelfHeal` the walk of `try_self_heal`; `Navigate` and the three ways in which it maps the new
page follow `navigate.rs`. `Aim` is `validate_or_auto_descend`. Two history variables name what the code does
not exclude: `loose` (a stamp was copied by the site, given by a walk the map never heard of, or given twice
by a walk that looked at a part of the page only) and `strayed` (an element moved or another document came
since the map was cleared). Names, frames and the limit of 50 children are left out.

### Observations

`happened` lists what the pages did, `buffer` the buffers of the Playwright child, `printed` the console
messages in the page's own array, `store` what the agents have taken. `ActionBegins`, `Counts` and `SetsSeq`
are a tool between its bridge command, the increment of the shared counter and the message that tells the
child the new number. `gone`, `muted`, `since` and `clear` are ghosts: what was pushed out, cleared or lost with
an answer; what the page printed when its array was replaced; what began since the last action; and whether
anybody else counted meanwhile. `SetsDevice` is refused only to an agent with sub-agents of its own: a child's
clears the buffers of all while the others act and poll, and every agent goes on with the page at its index.

### ToolCalls

A request takes the override (`Request`), a call ends by an error (`Fails`), from the cache (`FromCache`) or runs
(`Runs`), and only in the last case the guards see it, in the order of `execute`. A page is a version, a
fingerprint names one. `blind` has the fingerprints an answer was cached under when the page had moved on
unseen, `ran` says that some call of the response reached the guards, and `alert` what became
of a confidence alert: it stands, or a later call of the response has written over it.

### AuthLogin and BrowserMode

`AuthLogin`: `modal` is the step with what it holds, `login` the threads, `queue` the channel; the UI thread
empties the channel (`Drains`), draws (`Draws`, where a fetch of models starts) and takes one key. `refused`,
`stale`, `left` and `loose` record the four ways in which the code breaks the sequence (section 6).

`BrowserMode`: the commands run under the session's mutex and are one step each; the thread that watches a
server (`watch`) walks through `WatchWakes`, `WatchPrepares`, `WatchPrimes` (without the mutex),
`WatchActivates` or `WatchRestores`. `rebuilt`, `late` and `leftOpen` record that the runtime was built anew
since the switch, that a thread switched to a server that was gone, and that `/extension stop` left the
extension's browser open.

### PageView and McpService

`PageView`: a context has `tab` (`page_index`), `current` (`current_url`) and `loaded`
(`browser_has_url`). Every tool that takes the bridge first loads what is due (`Due`, `Acts`). What makes the
router prefer the browser is a free choice. `unseen` and `skipped` record that the page changed untold and
that a url fetched over HTTP was the one loaded last.

`McpService`: the loop serves one `request` at a time, through `select`, `launch` or `bridge`, `tab` and `drive`;
`meant` is the backend selected when the request was taken up, which the answer's browser is compared with.
Another process saves the settings in two steps, scripts run on with the browser they were given, a
CloakBrowser may die (`crashed`). When a goal ends, closing its tab may fail although the extension is
connected, and the server takes no notice: `tabs` then holds a tab that is "left".

## 3. Runs

| Run | Instance | Shows |
|---|---|---|
| `agents_deep` | tree: root, two children, one grandchild, scopes that never clash, limits 2/2/3; calls: 2 pages, 2 requests of 2 calls; events: 2 agents, buffers of 2, 3 events or actions | tracked children hold their claims, limits, accounting of every spawned child; guidance reaches the model and cached answers show the page; every event once, and a listing covers the last action |
| `agents_claims` | root and two siblings; a list, a pattern and a page that clash; one interrupt | items come from finished children and slots from living ones; the refinement of `ScopeLeases` |
| `turn_loop` | turns: 2 turns of up to 2 iterations and 2 calls, 2 interrupts, 1 command, floors 3/2/1; agents: root, child, grandchild, one interrupt; sign-in: 5 providers, 2 modals, 2 threads; mode: 2 servers; fair | no orphan result, every call answered, busy flag, interrupts, the mutex; claims are released; sign-in and browser mode are what the screen says, and their waits end |
| `scripts` | a main executor with one try block and a block of two branches; one tool call, one byte; 3 pages; fair | the shared budget, own tabs, the order in which branches and block end, the refinement of `ScriptTask`, and that a stopped script ends |
| `browser` | extension: 2 contexts, 3 tabs and indices, 3 moves of the user, one fault; child: 2 contexts, 4 pages, one request; view: 3 urls of which one redirects, 3 tabs, 5 steps | indices name their own tabs, the group is managed, the user's tabs survive; contexts act on their own tab and events lie under their page; a tool acts on the page its agent believes it is on |
| `extension_link` | 2 servers one after the other, 2 calls, 2 sockets, one fault; a channel of one; fair | one current socket, answers go to their calls, both sides find each other again, calls end |
| `units` | 2 scripts; 2 MCP servers, two tools of one of them and a tool of the other under one name, 5 requests; 2 writers with 2 updates, 6 inodes; 2 sessions; 2 model calls of 2 fragments; 5 pipe calls; 4 elements, 2 urls, 3 upsets; 3 MCP requests, 2 changes; fair | each script is a `ScriptTask` and its waits end; answers and routes of MCP; no update or save gets lost; calls and messages arrive whole; a bridge call gets its own answer and ends; a tool acts on its ref's element; the MCP server drives the browser selected |
| `docs_siblings`, `docs_interrupt`, `docs_fallback`, `docs_descend`, `docs_console` | the smallest instance that shows it | each refutes one statement of the documentation or of a comment (section 6) |

`agents_deep`, `turn_loop`, `browser` and `units` check components that share no state side by side: a variable
`part` is chosen in the initial state and only that component moves, so their state spaces add up. A property
of such a run that is a conjunction (`FilesKept`, `PagesKept`, `SignInKept` and the like) has its parts in the
modules of the components.

Why the bounds are enough for what they are asked. Claims conflict pairwise, so two siblings with
scopes of every kind meet every conflict; a grandchild is needed for the ends of a parent that still
tracks children, and a deeper tree repeats it. Three slots with four agents make each limit bind. Two
turns let a flag, an event or a compaction of one reach the next; two calls leave one unanswered when
the first is interrupted; a history of two turns reaches every position of a cut (before calls, between
calls and results, after a summary, at the end), and an automatic compaction can be followed by a
commanded one. Five calls let a debt be made, drained, made again by the draining call and outlive two
successors. In `scripts`, `Fuel = 1` lets an executor run one node between two checks of the limits,
which is the longest stretch that differs from two stretches; a limit of one call and one byte is reached
by one branch while the other still counts or collects; `MinBranches = 2` makes a block open both
branches (a block of one is the second half of it); each branch name is used once, so a script has one
block of two, with three pages: the main one, the two branches' and, where an open fails or a page is
closed, a stray one in their place. Nested blocks are beyond the run, and two of its properties are
stated without them (section 6); the theorems but `FlatScriptsKeepTheirTabs` hold with them. In
`units` two scripts with a limit of one make a spawn wait for a slot that a wait, a cancel or an
end may free; two MCP servers let a discovery stop between them and their tools meet in one name; two
writers are enough for every overlap of two updates; two sessions let a title, a save
or a deletion meet the session that follows its own, by a clear or after a kill (a third one, which the
theorem covers, brings no new step: every action of `SessionFiles` is taken with two); two calls
with two fragments interleave in every order that differs. In `browser` two contexts are the holder of a
shifted index and the one that shifts it, three tabs one for each context and one of the user's. In
`extension_link` two servers and two sockets let everything of a session that ends meet its successor, and
a channel of one is full with the first command. In `agents_deep` two pages are the one an answer was cached of
and another; a threshold of two is reached within two responses of two calls; a buffer of two overflows with
the third event. In `turn_loop` a second modal meets the threads and events the first one left, a second
bridge server the watch thread of the first. In the view of `browser` five steps let a page be noted, left by a
click, noted again, acted on and handed to a script. In `units` four elements are two levels of containers with
a leaf in each, and three upsets let a lost walk, a copy and a move meet; two changes of the surroundings
cut any MCP request between its selection and its answer. The safety properties marked in section 5 are proved without any of these bounds.

Deadlock is checked in `agents_claims` (`Quiescent` is the only way to stop, when every task has ended). It is
not in the others: a user may stop typing, a bridge may stop being called, scripts end, and all models stop
at the bounds on what users and callers do.

## 4. Fairness

- `AgentTree` (stated in `MCTurnLoop`'s `BothSpec`): weak fairness of each agent's own steps (tokio keeps polling a task) and of the abort
  landing; strong fairness of `TurnEnds`, because `max_iterations` bounds a turn and each return to
  thinking uses one up. For the root it says that its session ends at last. Nothing is assumed of
  interrupts or of which children finish first.
- `TurnLoop`: weak fairness of the worker's own steps, of taking a prompt, of draining and of handing
  the mutex to the UI when it is free. The provider and the tools may stay silent for ever.
  `CommandGetsMutex` alone assumes that they keep answering, inside the property: without that the UI
  really can hang on the mutex.
- `PlaywrightPipe` (`UnitsSpec`): weak fairness of the child and of a call that is polled. Timeouts and drops are
  never assumed to happen. `CallEnds` is conditional on `pending <= Owed`: section 6 shows how the code
  can get out of that condition, and then a call ends only by its timeout.
- `ScriptExecutor`: weak fairness of "some executor moves": tokio polls its tasks and every tool call
  ends by `per_step_timeout_secs`, opening and closing pages by the bridge's timeout. Which executor
  moves is left open. It is enough because, once cancelled or out of time, every executor fails at its
  next check of the limits and there is a check before `Fuel` nodes are through. That `Fuel` is finite is
  a fact of the code, not fairness: a step of a script holds finitely many nodes outside its loops, and
  every turn of a loop checks. Neither a cancel nor the deadline is assumed to come; `StopEnds` says what
  follows one.
- `ScriptManager`: weak fairness of `WaitReturns` and of each script's end, which `max_timeout_secs` and
  `StopEnds` justify. `UnitsSpec` repeats it; the parts of `units` other than the scripts and the pipe have safety
  properties only.
- `AuthLogin` (`BothSpec`): the UI loop turns (it drains, draws and takes a key, which may be none), and a login
  moves, since it waits at most five minutes for its callback. Nothing is assumed of the user.
- `BrowserMode` (`BothSpec`): the watch thread of each server runs on: bridge commands time out and the mutex
  is free between turns. Nothing is assumed of the extension or the user.
- `ExtensionLink`: tasks and timers run, a closed socket is noticed at the other end, a command that waits
  is given up in the end (its timeout), the alarm of the extension's watchdog rings (`Redials`), the
  window of the rate limit passes (the strong fairness of an `Incoming` that admits), and holders of an old
  bridge let go of it. Nobody has to switch anything on, start a server or make a call: `Reconnects` speaks
  of an extension that is enabled while a server listens.

## 5. Proofs

TLAPS proves, for every value of the constants allowed by the named assumptions
(`UrlAssumption`, `TreeAssumption`, `LimitAssumption`, `LoopAssumption`, `PipeAssumption`,
`ScriptAssumption`, `ManagerAssumption`, `LinkAssumption`, `TabsAssumption`, `CommandAssumption`, and in the modules that put parts side by side `NoneAssumption`,
`SeenAssumption`, `SignInAssumption`, `ViewAssumption`, `PagesAssumption`, `McpAssumption`,
`ServiceAssumption`, `FilesAssumption`, `RefsAssumption`, `StreamAssumption`):

| Theorem | Statement | Module |
|---|---|---|
| `TypeCorrect` | `AgentTree`: `[]TypeOK` | `AgentTreeProofs` |
| `LimitsRespected` | `[]LimitsHold` | `AgentTreeProofs` |
| `IdsStayUnique` | `IdsNeverReused` | `AgentTreeProofs` |
| `RegistryDisjoint`, `RegistryBacked`, `NoGuardStranded` | `[]ClaimsDisjoint`, `[]GuardsBacked`, `[]GuardsOwned` | `AgentTreeProofs` |
| `TreeImplementsLeases` | `AgentTree!Spec => ScopeLeases!Spec` under the mapping | `AgentTreeProofs` |
| `RunningChildHoldsClaim`, `NoOverlap`, `RunningChildHoldsSlot` | `[]TrackedChildHoldsClaim`, `[]TrackedScopesDisjoint`, `[]RunningIsActive` | `AgentTreeProofs` |
| `EachChildOnce`, `ChildrenAreCounted` | `[]ChildAccounting`, `[]ChildrenCounted` | `AgentsProofs` |
| `ModelIsToldTheTruth` | `[]ModelIsTold` (`ToolCalls`) | `AgentsProofs` |
| `NoEventLostOrDoubled`, `ListingCoversAction` | `[]EveryEventOnce`, `[]LastCoversAction` (`Observations`) | `AgentsProofs` |
| `LoopTypeCorrect`, `ResultsStayRooted`, `EveryCallAnswered`, `ScreenTellsTheTurn`, `InterruptStops` | the safety of `TurnLoop` | `TurnLoopProofs` |
| `ScreenNamesTheBrowser` | `[]ModeIsShown` (`BrowserMode`) | `TurnLoopProofs` |
| `SigningInIsKept` | `[]SignInKept` (`AuthLogin`) | `TurnLoopProofs` |
| `PipeTypeCorrect`, `AnswersMatch`, `OneAtATime` | the safety of `PlaywrightPipe` | `UnitsProofs` |
| `ExecutorTypeCorrect`, `BranchesEndFirst`, `StepsAreLimited` | `ScriptExecutor`: `[]TypeOK`, `[]NoBranchOutlives`, `[]StepLimitHolds` | `ScriptExecutorProofs` |
| `ScriptIsATask` | `ScriptExecutor!Spec => ScriptTask!Spec` under the mapping | `ScriptExecutorProofs` |
| `FlatScriptsKeepTheirTabs`, `FlatScriptsStayInBudget` | `[]OnOwnTab`, `[]ExtractedWithinBudget`, if no block is inside another | `ScriptExecutorProofs` |
| `ManagerTypeCorrect`, `ResultsGoOnce`, `StatusIsHonest`, `LimitKept`, `EachScriptIsATask` | the safety of `ScriptManager` | `UnitsProofs` |
| `ListedToolsAnswer` | `[]ListedToolAnswers` (`McpServers`) | `UnitsProofs` |
| `BrowsersAreKept` | `[]ServiceKept` (`McpService`) | `UnitsProofs` |
| `ConfigAndSessionsAreKept` | `[]FilesKept` (`ConfigFiles`, `SessionFiles`) | `UnitsProofs` |
| `RefsLeadToTheirElement` | `[]ActsOnItsElement` (`ElementRefs`) | `UnitsProofs` |
| `AnswersArriveWhole` | `[]DeliveredWhole` (`ModelStream`) | `StreamProofs` |
| `PagesAreKept` | `[]PagesKept` (`BrowserPages`) | `BrowserProofs` |
| `ToolActsOnBelievedPage` | `[]ActsOnBelievedPage` (`PageView`) | `BrowserProofs` |
| `TabsStayManaged` | `[]TabsAreManaged` (`ExtensionTabs`) | `BrowserProofs` |
| `UsersKeepTheirTabs`, `ToolsActOnOwnTab` | `UsersTabsSurvive`, `ActsOnOwnTab` (`ExtensionTabs`) | `BrowserProofs` |
| `OneSocketOwnAnswers` | `[]OneConversation` (`ExtensionLink`) | `LinkProofs` |

**Agent tree.** None of the invariants is inductive alone. `Shape` adds to `TypeOK` that a tool future
owns handles exactly in the phases in which it is suspended, and that handles are held by the parent the
id names; `Idle` that ids not yet issued have left no trace and that a child being set up has no task
yet. On these, `LimitInv` adds that nobody is registered before the root, and the limits follow from a
cardinality lemma for each way of taking or giving back a slot. `ClaimInv` (registry disjoint, backed by
guards, guards have scopes) uses the lemmas of `AgentTreeProofs` on a claim and a release. `Owned` says
who holds each guard; `Holding` that a running child which is tracked still has its guard and its slot,
for which the deadline of a wait must put back what it did not collect. `TrackedScopesDisjoint` is then
`ClaimsDisjoint` seen through `Holding` and `GuardsBacked`. The refinement needs `GuardsBacked` and
`Scoped`: a step that adds entries is an `Acquire` of a whole scope by a child that held nothing, and any
set of dropped guards is one `Release`.

**Turn loop.** `LoopInv` is `TypeOK`, a count of turns (`TurnCount`), `FlagKept` (an interrupt that
reached the runtime stays visible as the flag until the turn ends), `ScreenInv` (the last event not yet
drained, or `busy` if none, tells whether a turn runs) and `PairInv` (results stand right behind their
calls, and only the last message's calls may still be unanswered). The heart is `CutKeepsPairs`: a cut
that does not begin with a tool result separates no call from its result, for any floor and any budget;
`CompactionKeepsPairs` lifts it to `Compacted`.

**Pipe.** What is owed is bounded by `pending`, which is 0 or 1, is 0 when a call writes, and while a
call reads everything under way is its own. Timeouts, drops and torn lines keep this because none of
them lowers `pending` unless a line was consumed. The converse, that what `pending` counts is really
owed, is false (section 6).

**Script executor.** The tree of executors is the tree of their names; its lemmas (`ByAKid`, `AboveAKid`)
say that whoever is below an executor is below one of its kids, and below one only. `KidsInv` says of
each branch that runs that the executor right above opens or waits and has it in its block, or that it is
an orphan and was told to stop; `TopInv` that, while there are no orphans, *everybody* above waits. `StepOf`
describes a step by whom it may start or stop, and `BlocksKept`, `BlockDropped` and `Opened` are the
three ways in which a step treats a block. `StepsInv` adds to the limit that whoever has counted its call
and not yet checked has it counted (`acted + |Counted| <= steps`), so a check that passes has room. For
the refinement `TaskInv` adds that with the result the main executor is at rest and that the error
"cancelled" is nowhere, in no phase, frame or block, before somebody cancels; a step of an orphan after
the result is then a step of the task with `stray`, and by `TopInv` nobody else runs then. `TabInv`, for
scripts without a block in a block, says that the indices of a block lie behind that of the main
executor, whatever stray pages lie between them. `BudgetInv`, for the same scripts, says that the bytes
at the start of a block cover what the main executor holds, and that what its branches hold is reserved
besides. This is about sums over sets of any size, so it needs an induction: `Least` and `SmallestSet`
take a smallest counterexample by those of the library's theorems on well-founded relations that speak
of sets and not of operators.

**Script manager.** One conjunct per property over the book of handles, and for `TrackedWithinLimit` a
cardinality lemma: only `Spawn` adds an unfinished script, and `CanSpawn` counts all of them, since a
caller that waits cannot spawn.

**Accounting of children.** `BookInv` follows a handle on its way: `Accounts` says that a live parent has
each child it forked in `child_tasks`, in the hands of the wait in progress, or in one block of its results;
`Blocks` that there is one block per child and none for a child still tracked; `Items` that what was
collected had ended well. Most steps are steps of *somebody else*, so two relations carry the proof: `Still`
(this agent's books are as they were) and `Calm` (this child takes no slot and does not hide its end).

**Tool calls.** `Told` says what the guards found is in the guidance of the next request *before* the response
is over too, since a later call of the response may overwrite what an earlier one wrote; `Filed` that an entry
of the cache shows the page of its key, unless it was taken when the page had moved on unseen.

**Observations.** `PageInv` says where each event is: in the page's own array, the child's buffer, the store, or
gone or muted; the records of one event come pending first (`InOrder`, `Before`, through polls and drains). `DateInv` adds the numbers: as long as nobody else counts,
`currentSeq` and `counter` differ by one exactly between the increment and the message to the child, so what
an action began bears at least the number a listing asks for.

**MCP client.** The frames a process has said and nobody read are `Honest`: an id names the request it
answers. With distinct ids (`nextId` only grows) a response that is accepted is that of the last request, and
a route that a page of a listing writes leads to a tool of that page, also when two names normalize to one.

**MCP server.** `RequestInv` says stage by stage what a request has chosen and got; `alive = LivesOf(Holders)`
is then kept by each step, because whoever lets go of a browser is compared with all who still hold it.

**Files.** `NamesInv` separates the names (no two lead to one inode, and an inode that is open for credentials
is not that of the settings); `AloneInv` says of a file without overlapping updates that it has one writer,
whose copy is what the completed updates add up to. For sessions `PickerInv` gives what the picker relies on
while it works without the lock, `SaveInv` that the temporary file a save renames is the one it wrote, and
`DiskInv` and `TitleInv` carry the promises themselves to every place that holds a file or a title.

**Pages and views.** `ArrayInv` says that no page is in the array twice and that buffers lie under the index
their page has now; `ContextsInv` that while nothing was closed in front of somebody, each context finds its
own page at its index. For the view, `Believed` says what a context that has a load due believes, and what
one that has none does.

**Extension tabs.** `TabInv` gives a context's tab its place in memory *and* in the saved copy
(`PlacesKept`): a restart takes up the saved one, so the two may differ only where no index in use looks,
and `next` must be beyond both. `JobInv` says what a command under way has found or made: two that open a
page have different tabs and groups, and until the group has an id nobody else's tab is in it, unless one
slipped in. `GroupInv` says that the managed tabs are saved or being opened, and that the saved id of the group
is the one known, or that of a group that is gone. When the browser restarts it lists the tabs of the group anew
and numbers them from 0; that all of them get a number, and each number one tab, is an induction over the
places (`PlacesAreTaken`, with `Least`). For the user's tabs, `UserInv` adds that a tab of the user that is in the
group, on the list or saved is adopted there too, unless the command that hands it back is
under way: handing back clears the list, the group and the saved copy in different steps, and a restart between
two of them must not find the tab as one of the extension's own. `SpareInv` says that the closing of no tab that is
the user's has been decided: it is not enough to look at the closing itself, which asks nothing any more. For a turn, `ActInv` says that with no command given up the active index is the
context's own from the switch to the act.

**Refs.** `KnowsElement` says that an element which bears the stamp of an entry is the element the entry was
made for, unless a stamp went astray; `KnowsParent` that while nothing has moved, the parent an entry names
is the stamp of what its element hangs from. The path of an element and what is above an entry are recursive
functions over the page, and a recursive function is a `CHOOSE`: that it has a solution is shown for paths by
closed sets (`PathIs`), for entries by a smallest counterexample (`AboveIs`, with `Least`).

**Model streams.** `StreamInv` holds before the end of an answer. `Ledger` keeps the books of the calls: each one
under way is pending in one block, with exactly the fragments sent so far, each closed one (completed, or cut at the
output limit) is one event, and no other call has left a trace. `Sorted` says of text and of reasoning that every fragment sent is in an event or
waits in the open block, and that the events and what waits are in order. What each translator knows is a predicate
per format: `Chat` that its keys are the open calls, `Responses` that both ids of a call lead to its block and that
`given` names an open call exactly when it has fragments, and never one that has them from its announcement alone
(`seeded`): so `arguments.done` loses nothing, and adds nothing twice but the latter (`Recalls`),
`Anthropic` that only the last block can be pending. The blocks closed at the end are closed in the order of their
indices; that all of them are, and each once, is `AscendingIs`, a fact about finite sets of numbers and not an
induction. At a cut the calls under way are pending and therefore not delivered.

**Extension link.** `SocketInv` says that every socket not shut is the one its server holds, and that
those in use have a server; `IdsInv` that an id is at most the number of calls of its server, so that the
next one is new; `TravelInv` that what is queued, sent, handled or answered was once made. An answer that
finds its id waiting then is the answer to that command, or comes from another server.

**Browser mode.** `ModeInv` ties the server to the one started last, says of a thread that primes which
bridge it shares, and carries `ModeIsShown`; a thread that activates a bridge which is not the current one
sets `late`, which is the code's own gap.

**Signing in.** `LoginInv` says that a login which has reported is over, `PendingInv` that while no step that
waits for models was left and no completion came astray, what is under way for the modal is one fetch or one
answer, of its own provider. A completion that finds its own login waiting is then the end of the one login
that was not told to stop.

Some of these theorems are about invariants that no run lists any more (registry and guards, limits of
tracked children, the manager's book and the like): they were checked before they were proved, and the runs'
states go to what is not proved.

Model-checked only: all liveness (`ClaimsReleased`, `InterruptEndsTurn`, `CommandGetsMutex`, `CallEnds`,
`StopEnds`, `WaitEnds`, `WaitsEnd`, `Reconnects`), since the prover has no fairness and no ENABLED. Induction
over data is possible only where it can be said of a set (`Least`), as it is for budgets, refs and the numbers of
tabs. Every safety property that a run checks is also proved; of the properties of runs that end with a
counterexample nothing is.

## 6. Where the code differs from what is said of it

Five of these are runs that TLC ends with a counterexample:

1. `docs_siblings`: an interrupt during a wait drops the handles and guards the wait had taken out of
   `child_tasks` (`agent/src/implementation/fork.rs:259`). The child runs on, unclaimed; a second fork
   of the same scope succeeds. `url_claim.rs:3`: "Two sibling sub-agents cannot crawl overlapping URLs."
2. `docs_interrupt`: after `/model`, `/auth`, `/clear` or `/compact` the UI's handle belongs to the
   runtime that is gone (`ui/src/app/runtime_builder.rs:59`), against
   `docs/src/content/docs/docs/cli.md:125`.
3. `docs_fallback`: whatever builds the runtime anew (`/model`, `/clear`, a sign-in, a session switch) makes an
   agent without the bridge (`ui/src/app/runtime_builder.rs`), and the next tool call opens a CloakBrowser while
   the session still says that the extension is connected; `docs/.../real-browser.md:74`: "Extension mode
   never falls back to the headless browser."
4. `docs_descend`: only the container a tool was given is asked whether it is truncated, not those inside it
   (`agent/src/tools/ref_resolve.rs:68`); when the walk cut off a container below it, the one leaf it showed is
   taken for the only one, against `ref_resolve.rs:44` and `browser/src/ref_map.rs:60`.
5. `docs_console`: a poll replaces the page's array while the hooks go on pushing into the old one
   (`bridge_script.rs`), so what the page prints after the first poll of a document is never pulled.

Met while modelling, stated here and not by a run. The first group are traces of the modules as they are,
which their properties exclude by name (`moved`, `gap`, `late`, `overlap`, `cut`, `again`, `slipped`, `readopted`, `loose`, `strayed`, `muted`, `blind`, `alert`, `stale`, `left`,
`rebuilt`, `leftOpen`, `unseen`, `skipped`, `crashed`):

- a child that is aborted or panics while it tracks a child of its own leaves the grandchild's slot active
  for ever (`implementation/mod.rs:410` marks nobody done), against `manager.rs:99`;
- a turn interrupted during the stream leaves the flag up (`ui/src/app/api_client.rs:110`), and the next
  prompt ends at once as interrupted, against `docs/src/content/docs/docs/quickstart.md:48`;
- a read dropped inside a UTF-8 character makes the later drain fail after it consumed the line, without
  lowering `pending_responses` (`browser/src/playwright/bridge.rs:812`); every later command waits for a
  response that nobody owes, against `bridge.rs:37`;
- closing a page shifts the pages behind it under other contexts' indices (`bridge_script.rs:833`), and
  `set_device` takes them away (`:1617`), against "Each child gets its own tab" (`how-it-works.md:47`);
  `set_device` is refused only to an agent with sub-agents of its own;
- a page stays when `goto` fails in `new_page` (`bridge_script.rs:800`), as do the tabs of sub-agents and
  of scripts that end; `acquire_bridge` decides whether to navigate before it opens another page
  (`context.rs:76`), so that page stays blank;
- `run_goal` over MCP opens its page first, and when nothing is open yet it gets index 0, the default of the
  session, against `mcp-server/src/server.rs:966`; scripts started over MCP share one context (`:392`);
- a `switch_tab` or `new_page` that was given up re-points the extension's active tab under its successor
  (`background.js`, `activePageIndex`), and a selected tab that goes meanwhile is replaced by the one with the
  highest index (`getActiveTabId`);
- every running call begins with no guidance and takes the slot over when it has some (`mod.rs:427`, `:827`), so a
  confidence alert that an earlier call of the same response put there never reaches the model;
- a tab the user moves out of the group between `chrome.tabs.get` and `chrome.tabs.remove` of `releaseTab` is
  closed, against `background.js:768`, and so is one moved out while `new_page` is grouping it, if naming the
  group fails (`:732`);
- a tab dragged back between `ungroup` and `adoptedTabs.delete` (`releaseTab`) is managed but not adopted, and
  closed later; one dragged into a group whose id is not known yet is never adopted, nor one of an older group
  whose id a restart brings back after naming the last one failed; a browser restart
  gives indices anew, so contexts of a running session may name other tabs;
- two updates of settings or credentials that overlap lose one of them; settings.json is truncated and
  written in place, so a load at that moment finds the defaults, which `update_settings` then saves over
  everything (`settings.rs:427`); credentials.json is renamed from one temporary name for all writers,
  against "Writes atomically" (`credentials.rs:147`);
- a rename of the open session in the picker is overwritten by its next save
  (`tui/src/repl_app/slash_commands.rs:215`), against `CHANGELOG.md:970`;
- a session deleted or renamed in the picker while a turn is queued or runs comes back or loses its name;
  a title that comes after `/clear` or a switch names the next session (`title_namer.rs:21`);
- a stream that ends before its finish with some text counts as a whole answer, with open tool calls dropped
  (`api_client.rs:196`); `response.failed` and `response.incomplete` are ignored; a malformed Bedrock frame is
  skipped; only Anthropic requests are retried, and only until the stream begins;
- arguments that come with `output_item.added` (`responses.rs:650`) are not entered in `calls_with_deltas`, so without
  a delta `arguments.done` tells them again (`:727`); a call that the output limit cut is executed like a complete one
  (`openai.rs:584`, `responses.rs:829`);
- a `page_map` with a scope numbers from the largest stamp under its root, so an element elsewhere may bear the
  same ref, against `ref_map.rs:190`; lost feedback and the walk of self-healing stamp what the map knows nothing
  of; `bind_existing` keeps the parent of an entry whose element moved; an element that was taken out keeps its
  stamp;
- `since: "last"` uses the counter all agents share, an error of `set_seq` is ignored, console messages are dated
  when they are drained, a poll clears before its answer is read, and one event that does not parse loses the
  batch it came in;
- a cached answer of `read_content` or a scoped `page_map` is keyed by the last fingerprint, which only
  `page_map` and `navigate` renew (`record_page_fingerprint`, `feedback.rs:649`, is never called);
- the budget's `block` turns one result into an error and the loop goes on (`conversation/mod.rs:512`), against
  `configuration.md:100`; the runtime of the terminal has slots of its own (`runtime_builder.rs:60`), so budget,
  nudges, planning and confidence never reach the model there; each child counts its own cost;
- failing calls and cached ones return before the loop detector sees them; a window below the threshold switches
  it off; a later call of a response overwrites the guidance of an earlier one, and a nudge stays in the prompt
  until another override;
- a login's completion is applied to whatever step is open; Esc on a login without a thread starts one that nobody
  can cancel (`event_loop.rs:752`); a list of models does not say whose it is; `/auth copilot` in the terminal waits
  for ever (`event_loop.rs:760`, `providers.md:105`); a write error of an entered key is ignored;
- `/extension stop` leaves the extension's browser open in the agent, against `real-browser.md:58`; a thread may
  switch to a server that was stopped while it primed; after a failed prime "connected; initializing" stays; a
  quick connect and disconnect ends the watcher without a word; a second thread may take a newer server's bridge;
- a click that leads to another page changes neither `current_url` nor `browser_has_url`, so `navigate` over HTTP to
  the url loaded last does not load it and the next tool acts on the page clicked to, against `tools.md:21`;
  `fetch_via_browser` reports the url asked for; a tab opened anew stays blank;
- over MCP, a request taken up while another process writes `settings.json` gets the default, a CloakBrowser,
  although the extension is selected (`real-browser.md:22`); a CloakBrowser that died or an extension that
  disconnected is not replaced once it is cached; a goal's tab stays when `close_page` fails.

And what was met beside the modules:

- self-healing looks for elements in a list that is always empty, so it never heals; the generation filter of the
  ref map removes nothing; `navigate` mints refs for headings while the page has other stamps;
- `pending_model_after_auth` is not cleared on dismissal, so a later sign-in switches the model; a cancel is not
  polled while a code is exchanged; with `browser_backend` set to the extension a start without a connection uses
  CloakBrowser; `restore_browser_state` has no caller;
- `find_stream_safe_boundary` (`render/src/markdown.rs:831`) splits tables, lists and paragraphs, against its own
  comment;
- ids of commands begin at 1 with each bridge server while an extension may still answer the last one's; a
  send into a full channel has no time limit and holds the bridge (`extension.rs:70`); `accept_hdr` has none
  either, and keeps `has_active_client` up (`ws_server/mod.rs:276`);
- an I/O error never gives up an MCP process, only a timeout does, against `server_manager.rs:139`; qualified
  names of two servers, or of two tools of one, may collide; a frame without an id fails the read; the pages of `tools/list` are
  unbounded;
- `run` overwrites the control state a child was registered with (`implementation/mod.rs:383`), so a
  cancel requested there reaches nobody, against `fork.rs:419`; the module models the replacement;
- a claim is held until the parent waits for, cancels or drops the child, not until the child finishes
  (`docs/.../how-it-works.md:55`, `url_claim.rs:7`);
- the limit "sub-agents in the whole run" counts active agents and the root with them
  (`how-it-works.md:53`, `manager.rs:97`); snapshots of finished children are never removed
  (`child_events.rs:112`); grandchildren appear in the root's status (`fork.rs:170`);
- an url list checks each url with its fragment against patterns but claims it without (`url_claim.rs:142`);
  two patterns are compared as texts, so overlapping patterns do not conflict;
- with the default token budget the count of preserved messages overrides the floor
  (`compact/mod.rs:157`), although the field says "Minimum number of messages always preserved"
  (`compact/mod.rs:23`); the threshold of automatic compaction is compared with cumulative input tokens,
  so once reached it compacts after every turn;
- a parallel block of two or more branches fails as a rule: after the first close the last index is out
  of range (`parallel.rs:200`, `bridge_script.rs:823`). `skills/acrawl-mcp/references/scripting.md:292`
  says so, but also that `extracted_data` is then empty, while `finish_parallel` merges it
  (`parallel.rs:162`);
- with a block inside a block, pages that the inner one closes shift the outer branches' pages under their
  indices, and the byte count an inner failure stores loses what outer branches reserved meanwhile
  (`parallel.rs:158`); a failing block also gives back the bytes of what its branches yielded, so
  collected and yielded data together can exceed `max_output_bytes`, against `data.rs:73`;
- after an open fails the branches that were spawned are not waited for (`parallel.rs:50`): one may
  write "running" over the status of a script that has ended, and the pages stay open;
- an error in `finally_steps` replaces a pending cancel or limit (`control_flow.rs:180`), so a cancelled
  script may report a failure;
- errors caught in branches are counted twice: a branch starts from its parent's count, and the block
  adds it again (`parallel.rs:62`, `:164`);
- a wait drops the results of all other scripts that have ended (`script_manager.rs:175`); an unknown id
  or a dropped wait loses handles whose scripts run on, so more than `max_concurrent` may run
  (`configuration.md:68`); a cancel shows a finished script as cancelled (`script_manager.rs:191`), and a
  running one shows "running" again at its next sync (`script_executor/mod.rs:463`);
- failed and interrupted turns are not saved (`ui/src/app/turn.rs:17`); Ctrl+C between Enter and
  `TurnStarting` quits instead of interrupting (`tui/src/repl_app/event_loop.rs:884`).

## 7. Not modelled, and the plan

The plan, in order of what it can find:

1. `ScriptExecutor` with a block inside a block: what still holds of tabs and budget.

Modelled, but promised by no property: the status a parent reads of a child, which its observer, a wait and a
cancel write in any order with the last one winning (`child_events.rs:364`); and the stale indices by which the
pages of a block inside a block are closed (`parallel.rs:200`), where the code does not keep executors on their
pages and `OnOwnTab` claims nothing.

Left out for good: the content of prompts, pages and summaries; parsing of scripts and settings; drawing.
In the modelled components: the model-written summary of a compaction and the pruning of tool outputs
(`compact/transform.rs`), usage and cost; on Windows, a flush that suspends between the newline and the count
(`bridge.rs:823`); the health endpoint, ping/pong and the discovery file of the extension link; debugger,
overlay and observations of the extension; resources of the MCP client; the OAuth exchange.
