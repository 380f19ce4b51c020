------------------------------ MODULE AuthLogin ------------------------------
(***************************************************************************)
(* Signing in to a provider in the terminal: the modal and its steps, the  *)
(* threads that log in through the browser, those that fetch the models,   *)
(* and the event channel between them and the UI thread.  Sources, under   *)
(* crates: tui/src/modals/auth, tui/src/repl_app/{oauth_spawn,event_loop,  *)
(* slash_commands}.rs, ui/src/auth/mod.rs, ui/src/app/slash.rs.            *)
(*                                                                         *)
(* Abstractions.  A provider has credentials or has not, the models of a   *)
(* list are its provider's, an input field is only sent filled, and which  *)
(* model the runtime switches to after a sign-in is left out.  An update   *)
(* of the store is one step here (ConfigFiles has what overlapping updates *)
(* lose).  "preset" stands for every provider of the catalog that has a    *)
(* key, "copilot" for the one that has a device login instead.             *)
(***************************************************************************)
EXTENDS Naturals, Sequences

CONSTANTS
  Provider,    \* of "anthropic", "openai", "other", "preset", "copilot"
  None,
  MaxOpened,   \* bound: modals opened
  MaxThreads   \* bound: logins and fetches

VARIABLES
  turn,        \* the UI thread: "drain" the channel, then take a "key"
  modal,       \* None, or the step of the modal and what it holds
  login,       \* the threads that log in: provider, where, told to stop
  fetching,    \* the fetches that run: number and provider
  queue,       \* the channel of events
  store,       \* credentials.json: the providers that have credentials
  opened,      \* modals so far
  fetches,     \* fetches so far
  refused,     \* history: providers whose credentials could not be written
  stale,       \* history: a completion reached a step that did not wait for it
  left,        \* history: a step that waits for models was left
  loose        \* history: a login was started while its modal was dismissed

ui == <<turn, modal, queue>>
vars == <<ui, login, fetching, store, opened, fetches, refused, stale, left, loose>>

Known == {"anthropic", "openai", "other", "preset", "copilot"}
Browser == {"anthropic", "openai"}
Steps == {"provider", "method", "url", "key", "wait", "loading", "models", "success", "error"}
Modal == [step : Steps, provider : Provider \cup {None}, base : BOOLEAN,
          login : 0 .. MaxThreads, busy : BOOLEAN, list : Provider \cup {None}]
\* A step of the modal: as it is entered, and with the answer of a fetch.
Step(s, p) == [step |-> s, provider |-> p, base |-> FALSE, login |-> 0,
               busy |-> IF modal = None THEN FALSE ELSE modal.busy, list |-> None]
Answered(s, list) == [step |-> s, provider |-> modal.provider, base |-> FALSE, login |-> 0,
                      busy |-> FALSE, list |-> list]
Open == modal # None
At(s) == Open /\ modal.step = s
InUse == fetches + Len(login)

Init ==
  /\ turn = "drain" /\ modal = None /\ login = << >> /\ fetching = {} /\ queue = << >>
  /\ store = {}
  /\ opened = 0 /\ fetches = 0
  /\ refused = {} /\ stale = FALSE /\ left = FALSE /\ loose = FALSE

\* save_credentials: the file may refuse, which only a login thread reports.
Write(p) ==
  \/ store' = store \cup {p} /\ refused' = refused \ {p}
  \/ UNCHANGED store /\ refused' = refused \cup ({p} \ store)

-----------------------------------------------------------------------------
(***************************************************************************)
(* The login threads.                                                      *)
(***************************************************************************)
Now(i, at) == [provider |-> login[i].provider, at |-> at, told |-> login[i].told]

\* A login that fails and says nothing.
BadReport(i, ok) ==
  /\ login' = [login EXCEPT ![i] = Now(i, "ended")]
  /\ queue' = IF ok THEN Append(queue, [kind |-> "login", provider |-> login[i].provider,
                                        id |-> i, ok |-> ok])
              ELSE queue
Report(i, ok) ==
  /\ login' = [login EXCEPT ![i] = Now(i, "ended")]
  /\ queue' = Append(queue, [kind |-> "login", provider |-> login[i].provider, id |-> i, ok |-> ok])

LoginKeeps == UNCHANGED <<turn, modal, fetching, opened, fetches,
                          stale, left, loose>>

\* wait_for_oauth_callback_cancellable: the answer of the browser, unless it
\* was told to stop before it looked ...
CallbackComes(i) ==
  /\ login[i].at = "waits" /\ ~login[i].told
  /\ login' = [login EXCEPT ![i] = Now(i, "redeems")]
  /\ LoginKeeps /\ UNCHANGED <<queue, store, refused>>

\* ... and every way in which the login fails: cancelled, five minutes gone, no
\* port, an error in the callback or in the exchange, a file that refuses.
LoginFails(i) ==
  /\ login[i].at \in {"waits", "redeems"}
  /\ Report(i, FALSE)
  /\ LoginKeeps /\ UNCHANGED <<store, refused>>

\* exchange_oauth_code, and the tokens are stored; nobody looks whether the
\* login is still wanted.
Redeems(i) ==
  /\ login[i].at = "redeems"
  /\ store' = store \cup {login[i].provider}
  /\ refused' = refused \ {login[i].provider}
  /\ login' = [login EXCEPT ![i] = Now(i, "stored")]
  /\ LoginKeeps /\ UNCHANGED queue

LoginReports(i) ==
  /\ login[i].at = "stored"
  /\ Report(i, TRUE)
  /\ LoginKeeps /\ UNCHANGED <<store, refused>>

\* A fetch answers with the models of its provider, or with an error.
FetchReports(f) ==
  /\ \E ok \in BOOLEAN :
       queue' = Append(queue, [kind |-> "models", provider |-> f.provider, id |-> f.id, ok |-> ok])
  /\ fetching' = fetching \ {f}
  /\ UNCHANGED <<turn, modal, login, store, opened, fetches,
                 refused, stale, left, loose>>

-----------------------------------------------------------------------------
(***************************************************************************)
(* The UI thread: it empties the channel, draws, and takes a key.          *)
(***************************************************************************)
\* AuthOAuthComplete goes to the modal that is open, whatever its step.
Completed(e) ==
  /\ IF ~Open THEN UNCHANGED <<modal, store, refused, stale>>
     ELSE /\ stale' = (stale \/ ~(At("wait") /\ modal.login = e.id))
          /\ IF e.ok THEN modal' = Step("loading", e.provider) /\ Write(e.provider)
             ELSE modal' = Step("error", modal.provider) /\ UNCHANGED <<store, refused>>

BadListed(e) == IF e.ok THEN Answered("models", e.provider) ELSE Answered("error", None)
\* finish_model_loading: only a step that waits for models takes them.
Listed(e) ==
  IF ~At("loading") THEN [modal EXCEPT !.busy = FALSE]
  ELSE IF e.ok THEN Answered("models", e.provider) ELSE Answered("error", None)

Drains ==
  /\ turn = "drain" /\ queue # << >>
  /\ queue' = Tail(queue)
  /\ LET e == Head(queue) IN
       \/ e.kind = "login" /\ Completed(e)
       \/ /\ e.kind = "models"
          /\ modal' = IF Open THEN Listed(e) ELSE modal
          /\ UNCHANGED <<store, refused, stale>>
  /\ UNCHANGED <<turn, login, fetching, opened, fetches, left, loose>>

\* process_loading, once a frame.
Fetch(p) == [id |-> fetches + 1, provider |-> p]
Draws ==
  /\ turn = "drain" /\ queue = << >>
  /\ turn' = "key"
  /\ \/ /\ At("loading") /\ ~modal.busy /\ InUse < MaxThreads
        /\ modal' = [modal EXCEPT !.busy = TRUE]
        /\ fetching' = fetching \cup {Fetch(modal.provider)}
        /\ fetches' = fetches + 1
     \/ /\ At("loading") => modal.busy
        /\ modal' = IF Open /\ ~At("loading") THEN [modal EXCEPT !.busy = FALSE] ELSE modal
        /\ UNCHANGED <<fetching, fetches>>
  /\ UNCHANGED <<queue, login, store, opened, refused, stale, left, loose>>

-----------------------------------------------------------------------------
(***************************************************************************)
(* Keys.                                                                   *)
(***************************************************************************)
Key == turn = "key" /\ turn' = "drain" /\ UNCHANGED <<queue, fetching, fetches, stale>>
Settled == UNCHANGED <<login, store, opened, refused, left, loose>>
Goes(m) == modal' = m /\ Settled

NoKey == Key /\ Goes(modal)

\* spawn_anthropic_oauth_thread, spawn_openai_oauth_thread
Spawned(p) == Append(login, [provider |-> p, at |-> "waits", told |-> FALSE])
WaitsFor(p) == [Step("wait", p) EXCEPT !.login = Len(login) + 1]
Starts(p) == InUse < MaxThreads /\ login' = Spawned(p)

Opens == ~Open /\ opened < MaxOpened /\ opened' = opened + 1

\* /auth: the steps of new_with_choice; only Anthropic's login starts here.
AuthCommand(p) ==
  /\ Key /\ Opens
  /\ CASE p = None        -> modal' = Step("provider", None) /\ UNCHANGED login
       [] p = "anthropic" -> modal' = WaitsFor(p) /\ Starts(p)
       [] p = "copilot"   -> modal' = Step("wait", p) /\ UNCHANGED login
       [] p = "openai"    -> modal' = Step("key", p) /\ UNCHANGED login
       [] p = "other"     -> modal' = Step("url", p) /\ UNCHANGED login
       [] p = "preset"    -> modal' \in {Step("key", p), Step("url", p)} /\ UNCHANGED login
  /\ UNCHANGED <<store, refused, loose, left>>

\* A model is picked whose provider has no credentials yet.  A provider of the
\* catalog is not known by name here.
ModelPicked(p) ==
  /\ Key /\ Opens /\ p \notin store
  /\ modal' = CASE p = "anthropic" -> Step("wait", p)
                [] p = "openai"    -> Step("key", p)
                [] p = "other"     -> Step("url", p)
                [] OTHER           -> Step("provider", None)
  /\ UNCHANGED <<login, store, refused, loose, left>>

ProviderChosen(p) ==
  /\ Key /\ At("provider")
  /\ Goes(CASE p \in Browser -> Step("method", p)
            [] p = "other"   -> Step("url", p)
            [] OTHER         -> Step("key", p))

\* The second method is the browser, and the same key starts its thread.
MethodChosen ==
  /\ Key /\ At("method")
  /\ \/ Goes(Step("key", modal.provider))
     \/ /\ modal' = WaitsFor(modal.provider) /\ Starts(modal.provider)
        /\ UNCHANGED <<store, opened, refused, left, loose>>

UrlEntered ==
  /\ Key /\ At("url")
  /\ Goes([Step("key", modal.provider) EXCEPT !.base = TRUE])

\* save_api_key, whose failure nobody hears of.
KeyEntered ==
  /\ Key /\ At("key")
  /\ Write(modal.provider)
  /\ modal' = Step(IF modal.provider = "other" THEN "success" ELSE "loading", modal.provider)
  /\ UNCHANGED <<login, opened, loose, left>>

\* A login that has no thread yet gets one at the next key.
WaitKey ==
  /\ Key /\ At("wait") /\ modal.login = 0 /\ modal.provider \in Browser
  /\ modal' = WaitsFor(modal.provider) /\ Starts(modal.provider)
  /\ UNCHANGED <<store, opened, refused, left, loose>>

ModelChosen ==
  /\ Key /\ At("models")
  /\ Goes(Step("success", modal.provider))

\* Esc, one step back ...
Back ==
  /\ Key
  /\ \/ At("method") /\ Goes(Step("provider", None))
     \/ At("url") /\ Goes(Step("provider", None))
     \/ /\ At("key")
        /\ Goes(CASE modal.provider = "other" \/ modal.base -> Step("url", modal.provider)
                  [] modal.provider \in Browser             -> Step("method", modal.provider)
                  [] OTHER                                  -> Step("provider", None))
     \/ /\ At("loading")
        /\ modal' = Step("success", modal.provider) /\ left' = TRUE
        /\ UNCHANGED <<login, store, opened, refused, loose>>
     \/ At("models") /\ Goes(Step("success", modal.provider))

BadToldToStop == login
\* The sender reaches a login that looks before its callback comes.
Told(i) == [provider |-> login[i].provider, at |-> login[i].at, told |-> TRUE]
ToldToStop ==
  IF modal.login = 0 THEN login ELSE [login EXCEPT ![modal.login] = Told(modal.login)]

\* ... or out of the modal; Esc is a key as well, so that a login without a
\* thread gets one, and its sender goes with the modal.
Dismiss ==
  /\ Key /\ modal' = None
  /\ \/ At("provider") /\ UNCHANGED <<login, loose>>
     \/ At("error") /\ UNCHANGED <<login, loose>>
     \/ /\ At("wait") /\ (modal.login # 0 \/ modal.provider \notin Browser)
        /\ login' = ToldToStop /\ UNCHANGED loose
     \/ /\ At("wait") /\ modal.login = 0 /\ modal.provider \in Browser
        /\ Starts(modal.provider) /\ loose' = TRUE
  /\ UNCHANGED <<store, opened, refused, left>>

\* handle_successful_auth_modal_dismiss
Succeeds ==
  /\ Key /\ At("success")
  /\ modal' = None
  /\ UNCHANGED <<login, store, opened, refused, loose, left>>

-----------------------------------------------------------------------------
LoginMoves(i) == CallbackComes(i) \/ LoginFails(i) \/ Redeems(i) \/ LoginReports(i)
Keys ==
  \/ NoKey
  \/ \E p \in Provider : AuthCommand(p) \/ ModelPicked(p) \/ ProviderChosen(p)
  \/ AuthCommand(None)
  \/ MethodChosen \/ UrlEntered \/ KeyEntered \/ WaitKey \/ ModelChosen
  \/ Back \/ Dismiss \/ Succeeds

Next ==
  \/ \E i \in DOMAIN login : LoginMoves(i)
  \/ \E f \in fetching : FetchReports(f)
  \/ Drains \/ Draws \/ Keys

Spec == Init /\ [][Next]_vars

\* The UI loop turns, a login waits five minutes at most.
FairSpec ==
  /\ Spec
  /\ WF_vars(Drains) /\ WF_vars(Draws) /\ WF_vars(Keys)
  /\ \A i \in 1 .. MaxThreads : WF_vars(i \in DOMAIN login /\ LoginMoves(i))

-----------------------------------------------------------------------------
\* A modal that says it is authenticated speaks of a provider whose credentials
\* are stored, unless the file refused them.
SignedInIsStored ==
  Open /\ modal.step \in {"loading", "models", "success"} =>
    modal.provider \in store \/ modal.provider \in refused

\* The models to choose from are those of the provider, as long as no
\* step that waits for models was left before they came.
ListIsOwn == At("models") /\ ~left /\ ~stale => modal.list = modal.provider

\* A login that waits for the browser is that of the modal on the screen or was
\* told to stop, but for the two ways in which its sender gets lost.
LoginsAreWanted ==
  \A i \in DOMAIN login :
    login[i].at = "waits" => login[i].told \/ (At("wait") /\ modal.login = i) \/ stale \/ loose

\* A modal does not wait for ever for a login that has a thread.
SignInEnds ==
  (At("wait") /\ modal.login # 0) ~> ~(At("wait") /\ modal.login # 0)
=============================================================================
