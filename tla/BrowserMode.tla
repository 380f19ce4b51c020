------------------------------ MODULE BrowserMode ------------------------------
(***************************************************************************)
(* Which browser the tools of the terminal session drive.  Three actors    *)
(* share it: the user, whose /extension, /extension stop, /cloakbrowser,   *)
(* /headed, /headless and every command that builds the runtime anew run   *)
(* under the mutex of the session; one thread for each bridge server that  *)
(* was started, which waits for the extension to connect, carries the      *)
(* state of the old browser over without that mutex and then takes it to   *)
(* switch the agent; and the tool calls of a turn, which open a browser    *)
(* lazily from what the agent holds at that moment.                        *)
(*   ui/src/app/slash.rs, ui/src/app/mod.rs, tui/src/repl_app/oauth_spawn.rs,*)
(*   tui/src/repl_app/slash_commands.rs, agent/.../lifecycle.rs            *)
(***************************************************************************)
EXTENDS Naturals, FiniteSets

CONSTANTS MaxServers    \* bound: bridge servers started in a session

Server == 1..MaxServers

(* A browser: none, a CloakBrowser, or the extension behind a server.      *)
Nothing == [kind |-> "none", of |-> 0]
Cloak == [kind |-> "cloak", of |-> 0]
Ext(s) == [kind |-> "extension", of |-> s]
Browser == {Nothing, Cloak} \cup {Ext(s) : s \in Server}

VARIABLES
  server,       \* LiveCli.ws_bridge_server: 0, or the server that is running
  started,      \* how many servers were started
  link,         \* client_connected_rx of each server: "never", "on" or "off"
  initialized,  \* LiveCli.extension_bridge_initialized
  pending,      \* LiveCli.pending_extension_state is Some
  setting,      \* settings.browser_backend is "extension"
  agent,        \* CrawlerAgent's extension_mode, shared_bridge and browser
  watch,        \* the thread of each server: where it is and what it holds
  drove,        \* what the last tool call drove; Nothing when it failed
  rebuilt,      \* history: the runtime was built anew since it was switched
  late,         \* history: a thread switched to a server that was gone
  leftOpen      \* history: /extension stop found the browser open

vars == <<server, started, link, initialized, pending, setting, agent, watch,
          drove, rebuilt, late, leftOpen>>

Fresh == [mode |-> FALSE, shared |-> Nothing, browser |-> Nothing]
Idle == [at |-> "none", shared |-> 0, state |-> FALSE]
Placed(s, at) == [at |-> at, shared |-> watch[s].shared, state |-> watch[s].state]
Places == {"none", "waiting", "found", "priming", "primed", "failed",
           "connected", "refused", "quiet"}

TypeOK ==
  /\ server \in 0..MaxServers /\ started \in 0..MaxServers
  /\ link \in [Server -> {"never", "on", "off"}]
  /\ {initialized, pending, setting, rebuilt, late, leftOpen} \subseteq BOOLEAN
  /\ agent \in [mode : BOOLEAN, shared : Browser, browser : Browser]
  /\ watch \in [Server -> [at : Places, shared : 0..MaxServers, state : BOOLEAN]]
  /\ drove \in Browser

(* new_with_ui_tx and boot_bridge_server_if_needed: a fresh agent, and a   *)
(* server when the settings ask for it and the port can be bound.          *)
Init ==
  /\ setting \in BOOLEAN
  /\ server \in (IF setting THEN {0, 1} ELSE {0})
  /\ started = server
  /\ link = [s \in Server |-> "never"]
  /\ watch = [s \in Server |-> IF s = server THEN [Idle EXCEPT !.at = "waiting"] ELSE Idle]
  /\ agent = Fresh
  /\ drove = Nothing
  /\ initialized = FALSE /\ pending = FALSE
  /\ rebuilt = FALSE /\ late = FALSE /\ leftOpen = FALSE

--------------------------------------------------------------------------------
(* The user's commands, each under the session's mutex.                    *)

(* export_browser_state: nothing without a browser or a bridge, and        *)
(* nothing when the export fails.                                          *)
Exported(saved) == saved => agent.shared # Nothing \/ agent.browser # Nothing

(* /extension with no server: the state of the browser in use is exported  *)
(* for the thread, which the caller spawns; the agent is left as it is.    *)
ExtensionStart ==
  /\ server = 0 /\ started < MaxServers
  /\ initialized' = FALSE
  /\ \/ \E saved \in BOOLEAN :
          /\ Exported(saved)
          /\ pending' = saved
          /\ server' = started + 1
          /\ started' = started + 1
          /\ watch' = [watch EXCEPT ![started + 1] = Placed(started + 1, "waiting")]
     \/ pending' = FALSE /\ UNCHANGED <<server, started, watch>>    \* not bound
  /\ UNCHANGED <<link, setting, agent, drove, rebuilt, late, leftOpen>>

(* The mode left on when the server stops.                                 *)
BadExtensionStop ==
  /\ server # 0
  /\ server' = 0
  /\ pending' = FALSE
  /\ initialized' = FALSE
  /\ agent' = [agent EXCEPT !.shared = Nothing]
  /\ setting' = FALSE
  /\ rebuilt' = FALSE /\ late' = FALSE
  /\ leftOpen' = (leftOpen \/ agent.browser.kind = "extension")
  /\ UNCHANGED <<started, link, watch, drove>>

(* stop_extension_server: the bridge is taken from the agent and the mode  *)
(* switched off; the browser the agent has open stays.                     *)
ExtensionStop ==
  /\ server # 0
  /\ server' = 0
  /\ pending' = FALSE
  /\ initialized' = FALSE
  /\ agent' = [mode |-> FALSE, shared |-> Nothing, browser |-> agent.browser]
  /\ setting' = FALSE
  /\ rebuilt' = FALSE /\ late' = FALSE
  /\ leftOpen' = (leftOpen \/ agent.browser.kind = "extension")
  /\ UNCHANGED <<started, link, watch, drove>>

(* switch_to_cloakbrowser: the agent forgets its browser; the exported     *)
(* state waits for a server started later, which clears it.                *)
ToCloak ==
  /\ \E saved \in BOOLEAN : Exported(saved) /\ pending' = saved
  /\ server' = 0
  /\ initialized' = FALSE
  /\ agent' = Fresh
  /\ setting' = FALSE
  /\ rebuilt' = FALSE /\ late' = FALSE /\ leftOpen' = FALSE
  /\ UNCHANGED <<started, link, watch, drove>>

(* /headed and /headless: refused in extension mode, else reset_browser.   *)
SwitchHead ==
  /\ ~initialized /\ server = 0
  /\ agent' = [mode |-> agent.mode, shared |-> Nothing, browser |-> Nothing]
  /\ leftOpen' = FALSE
  /\ UNCHANGED <<server, started, link, initialized, pending, setting, watch, drove,
                 rebuilt, late>>

(* /model, /clear, /compact, a sign-in, a session switch: build_runtime    *)
(* makes a CrawlerAgent with no bridge and with the mode off.              *)
Rebuild ==
  /\ agent' = Fresh
  /\ rebuilt' = initialized
  /\ leftOpen' = FALSE
  /\ UNCHANGED <<server, started, link, initialized, pending, setting, watch, drove, late>>

--------------------------------------------------------------------------------
(* A tool call of a turn: ensure_browser, then the command.                *)

Opens(b) == /\ agent' = [mode |-> agent.mode, shared |-> b, browser |-> b]
            /\ drove' = b

ToolCall ==
  /\ \/ agent.browser # Nothing
        /\ drove' = agent.browser /\ agent' = agent
     \/ agent.browser = Nothing /\ agent.shared # Nothing
        /\ Opens(agent.shared)
     \/ agent.browser = Nothing /\ agent.shared = Nothing
        /\ \/ ~agent.mode /\ Opens(Cloak)
           \/ drove' = Nothing /\ agent' = agent    \* no bridge, or no launch
  /\ UNCHANGED <<server, started, link, initialized, pending, setting, watch,
                 rebuilt, late, leftOpen>>

--------------------------------------------------------------------------------
(* The extension and the thread that waits for it.                         *)

ClientConnects ==
  /\ server # 0 /\ link[server] # "on"
  /\ link' = [link EXCEPT ![server] = "on"]
  /\ UNCHANGED <<server, started, initialized, pending, setting, agent, watch, drove,
                 rebuilt, late, leftOpen>>

(* The session of a server outlives it while a bridge is held.             *)
ClientLeaves(s) ==
  /\ link[s] = "on"
  /\ link' = [link EXCEPT ![s] = "off"]
  /\ UNCHANGED <<server, started, initialized, pending, setting, agent, watch, drove,
                 rebuilt, late, leftOpen>>

Moves(s, place) == watch' = [watch EXCEPT ![s] = Placed(s, place)]

(* The thread ends without a word when the first change it sees is already *)
(* undone, or when the server was dropped before anyone connected.         *)
WatchWakes(s) ==
  /\ watch[s].at = "waiting"
  /\ \/ link[s] = "on" /\ Moves(s, "found")
     \/ link[s] = "off" /\ Moves(s, "quiet")
     \/ link[s] = "never" /\ server # s /\ Moves(s, "quiet")
  /\ UNCHANGED <<server, started, link, initialized, pending, setting, agent, drove,
                 rebuilt, late, leftOpen>>

(* prepare_extension_bridge_activation: the bridge of whatever server runs *)
(* now, and the pending state.                                             *)
WatchPrepares(s) ==
  /\ watch[s].at = "found"
  /\ IF initialized \/ server = 0
       THEN Moves(s, "refused") /\ UNCHANGED pending
       ELSE /\ watch' = [watch EXCEPT ![s] =
                           [at |-> "priming", shared |-> server, state |-> pending]]
            /\ pending' = FALSE
  /\ UNCHANGED <<server, started, link, initialized, setting, agent, drove,
                 rebuilt, late, leftOpen>>

(* prime_extension_bridge, without the session's mutex: nothing to do when *)
(* no state was saved, else commands that need the extension.              *)
WatchPrimes(s) ==
  /\ watch[s].at = "priming"
  /\ \/ (watch[s].state => link[watch[s].shared] = "on") /\ Moves(s, "primed")
     \/ watch[s].state /\ Moves(s, "failed")
  /\ UNCHANGED <<server, started, link, initialized, pending, setting, agent, drove,
                 rebuilt, late, leftOpen>>

(* activate_extension_bridge *)
WatchActivates(s) ==
  /\ watch[s].at = "primed"
  /\ agent' = [mode |-> TRUE, shared |-> Ext(watch[s].shared), browser |-> Nothing]
  /\ initialized' = TRUE
  /\ setting' = TRUE
  /\ watch' = [watch EXCEPT ![s] = [Idle EXCEPT !.at = "connected"]]
  /\ rebuilt' = FALSE /\ leftOpen' = FALSE
  /\ late' = (watch[s].shared # server)
  /\ UNCHANGED <<server, started, link, pending, drove>>

(* restore_pending_extension_state *)
WatchRestores(s) ==
  /\ watch[s].at = "failed"
  /\ pending' = (pending \/ watch[s].state)
  /\ watch' = [watch EXCEPT ![s] = [Idle EXCEPT !.at = "refused"]]
  /\ UNCHANGED <<server, started, link, initialized, setting, agent, drove,
                 rebuilt, late, leftOpen>>

WatchStep(s) == \/ WatchWakes(s) \/ WatchPrepares(s) \/ WatchPrimes(s)
                \/ WatchActivates(s) \/ WatchRestores(s)

Next ==
  \/ ExtensionStart \/ ExtensionStop \/ ToCloak \/ SwitchHead \/ Rebuild
  \/ ToolCall \/ ClientConnects
  \/ \E s \in Server : ClientLeaves(s) \/ WatchStep(s)

Spec == Init /\ [][Next]_vars

(* The threads run; a command to the bridge answers or times out, and the  *)
(* mutex is free between turns and commands.                               *)
Fairness == \A s \in Server : WF_vars(WatchStep(s))

--------------------------------------------------------------------------------
(* What the screen names is what the tools drive.  Unless a thread         *)
(* switched to a server that was stopped while it primed, the agent is in  *)
(* extension mode exactly when the session says so and the runtime was not *)
(* built anew, it then holds the bridge of the server that runs and of no  *)
(* other, and it has an extension's browser open only in that mode or      *)
(* because /extension stop left it open.                                   *)
ModeIsShown ==
  late \/ /\ agent.mode <=> initialized /\ ~rebuilt
          /\ agent.mode => server # 0 /\ agent.shared = Ext(server)
          /\ agent.browser.kind = "extension" =>
               IF agent.mode THEN agent.browser = agent.shared ELSE leftOpen

(* A thread that saw the extension connect says how it ended: it never     *)
(* waits for a mutex or a command for ever, whatever the user does.        *)
ConnectionReported ==
  \A s \in Server : watch[s].at = "found" ~> watch[s].at \in {"connected", "refused"}

(* docs/guides/real-browser.md: "Extension mode                           *)
(* never falls back to the headless browser."  While the session says that *)
(* the extension is connected, no tool call drives a CloakBrowser.         *)
NeverFallsBack == [][initialized /\ drove' # drove => drove' # Cloak]_vars

================================================================================
