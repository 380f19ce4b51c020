---------------------------- MODULE MCTurnLoop ----------------------------
(***************************************************************************)
(* The terminal, and what has to happen in the end, for four components    *)
(* that share no state: the turns of the terminal UI, a line of agents     *)
(* (the root, its child and the child of that), signing in, and the        *)
(* browser the session drives.  A behaviour picks one of them and runs it, *)
(* the others stay as they start.                                          *)
(***************************************************************************)
EXTENDS TurnLoop, SequencesExt

CONSTANTS
  u, uFrag, v, re, NoScope,
  Provider, None, MaxOpened, MaxThreads,
  MaxServers

VARIABLES
  part,
  status, entries, scope, guarded, task, stage, children, held, blocks,
  snap, control, interrupts,
  uiTurn, modal, login, fetching, authQueue, store, opened, fetches, refused, stale,
  left, loose,
  server, started, link, initialized, pending, setting, agent, watcher, drove,
  rebuilt, late, leftOpen

LineUrl == {u, uFrag, v}
LineRegex == {re}
LineNormal == [x \in LineUrl |-> IF x = uFrag THEN u ELSE x]
LineMatches == [r \in LineRegex |-> {u, uFrag}]
LineRoot == << >>
LineIds == {<< >>, <<1>>, <<1, 1>>}
LineParent == [c \in LineIds \ {<< >>} |-> Front(c)]
LineDepth == [a \in LineIds |-> Len(a)]
\* Two scopes that never clash.
LineScopes == {[kind |-> "page", url |-> v], [kind |-> "pattern", regex |-> re]}

Tree == INSTANCE AgentTree WITH
  phase <- stage,
  Url <- LineUrl, Regex <- LineRegex, Normal <- LineNormal, Matches <- LineMatches,
  Agent <- LineIds, Root <- LineRoot, Parent <- LineParent, Depth <- LineDepth,
  ForkScopes <- LineScopes,
  MaxPerParent <- 2, MaxDepth <- 2, MaxTotal <- 3, MaxInterrupts <- 1

tree == <<status, entries, scope, guarded, task, stage, children, held, blocks,
          snap, control, interrupts>>

Auth == INSTANCE AuthLogin WITH turn <- uiTurn, queue <- authQueue
Mode == INSTANCE BrowserMode WITH watch <- watcher

\* The providers are those that /auth tells apart; None is no modal and no provider.
ASSUME SignInAssumption ==
  /\ Provider \subseteq Auth!Known /\ None \notin Auth!Known /\ None \notin Auth!Modal
  /\ MaxThreads \in Nat /\ MaxServers \in Nat \ {0}

auth == <<uiTurn, modal, login, fetching, authQueue, store, opened, fetches, refused,
          stale, left, loose>>
mode == <<server, started, link, initialized, pending, setting, agent, watcher, drove,
          rebuilt, late, leftOpen>>

BothInit ==
  /\ part \in {"turns", "agents", "auth", "mode"}
  /\ Init /\ Tree!Init /\ Auth!Init /\ Mode!Init
  /\ part # "mode" => ~setting

BothNext ==
  /\ UNCHANGED part
  /\ \/ part = "turns" /\ Next /\ UNCHANGED <<tree, auth, mode>>
     \/ part = "agents" /\ Tree!Next /\ UNCHANGED <<vars, auth, mode>>
     \/ part = "auth" /\ Auth!Next /\ UNCHANGED <<vars, tree, mode>>
     \/ part = "mode" /\ Mode!Next /\ UNCHANGED <<vars, tree, auth>>

\* The fairness of each component as in its own module, asked of the part that runs.
Turns(A) == part = "turns" /\ A
Agents(A) == part = "agents" /\ A
Signing(A) == part = "auth" /\ A
Modes(A) == part = "mode" /\ A
BothSpec ==
  /\ BothInit /\ [][BothNext]_<<part, vars, tree, auth, mode>>
  /\ WF_vars(Turns(Worker)) /\ WF_vars(Turns(Begin)) /\ WF_vars(Turns(Drain))
  /\ WF_vars(Turns(RunCommand \/ InspectCommand))
  /\ \A a \in LineIds :
       /\ WF_tree(Agents(Tree!SetupFails(a) \/ Tree!SpawnChild(a)))
       /\ WF_tree(Agents(Tree!ReleaseSlot(a)))
       /\ WF_tree(Agents(Tree!CollectFinished(a) \/ Tree!WaitDeadline(a)))
       /\ WF_tree(Agents(Tree!CleanupFinished(a)))
       /\ SF_tree(Agents(\E ok \in BOOLEAN : Tree!TurnEnds(a, ok)))
       /\ WF_tree(Agents(Tree!RunReturns(a)))
       /\ WF_tree(Agents(Tree!AbortLands(a)))
  /\ WF_auth(Signing(Auth!Drains)) /\ WF_auth(Signing(Auth!Draws))
  /\ WF_auth(Signing(Auth!Keys))
  /\ \A i \in 1..MaxThreads : WF_auth(Signing(i \in DOMAIN login /\ Auth!LoginMoves(i)))
  /\ \A s \in 1..MaxServers : WF_mode(Modes(Mode!WatchStep(s)))

\* Agents: every claim is released in the end.
ClaimsReleased == Tree!ClaimsReleased
\* Auth: what the modal says of a sign-in is so, and no login goes on that nobody wants.
SignInKept == Auth!SignedInIsStored /\ Auth!ListIsOwn /\ Auth!LoginsAreWanted
\* Mode: what the screen names is what the tools drive.
ModeIsShown == Mode!ModeIsShown
\* Auth and Mode: a modal never waits for ever for a login, and a thread that saw the
\* extension connect says how it ended.
WaitsEnd == Auth!SignInEnds /\ Mode!ConnectionReported
=============================================================================
