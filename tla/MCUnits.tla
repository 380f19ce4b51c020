------------------------------ MODULE MCUnits ------------------------------
(***************************************************************************)
(* Eight components that share no state, checked side by side: a behaviour *)
(* picks one of them and runs it, the others stay as they start.  Their    *)
(* states add up instead of multiplying.                                   *)
(* AnswerIsOwn is PipeState's: no call returns another one's response.     *)
(***************************************************************************)
EXTENDS ScriptManager, PipeState, Sequences

CONSTANTS
  Server, Tool, Qualified, MaxRequests, MaxLife, MaxUnasked,
  Writer, Inode, MaxUpdates, MaxCrashes,
  MaxSessions, MaxTurns, MaxPicks, MaxKills,
  Call, MaxParts, MaxProse, MaxRetries, None,
  Container, Leaf, Url, Depths, Default, MaxHeadings, MaxUpsets,
  MaxAsked, MaxChanges

\* Two servers whose names and tools meet in one qualified name: "a" has a tool
\* "b__c" and "a__b" a tool "c"; and two tools that normalize to one, "b__c" and "b_.c".
MCServer == <<"a", "a__b">>
MCTool == {"c", "b__c", "b_.c"}
MCQualified == [p \in {"a", "a__b"} \X MCTool |->
                  IF p[2] = "c" THEN p
                  ELSE IF p[1] = "a" THEN <<"a__b", "c">> ELSE <<"a__b", "b__c">>]

\* The names of the servers are a list.
ASSUME McpAssumption == Server \in Seq({Server[n] : n \in DOMAIN Server})

VARIABLES
  part,
  process, initialized, toolIndex, nextId, op, listed, taken, spawns, unasked,
  file, content, pc, doing, copy, fd, saved, overlap, cut, updates, crashes,
  disk, temp, save, cli, slot, naming, lock, prompts, events, ui, issued,
  kept, removed, gap, late, sent, picks, kills,
  api, phase, tries, provided, prose, finished, state, received,
  at, stamp, url, refs, snapshotUrl, nav, upsets, loose, strayed,
  setting, half, linked, manager, session, alive, lives, crashed, request, scripts,
  tabs, reply, served, changes

Mcp == INSTANCE McpServers
Config == INSTANCE ConfigFiles
Sessions == INSTANCE SessionFiles
Stream == INSTANCE ModelStream WITH sent <- provided, result <- received
Pipe == INSTANCE PlaywrightPipe
Refs == INSTANCE ElementRefs WITH MaxEvents <- MaxUpsets, events <- upsets
Service == INSTANCE McpService WITH MaxRequests <- MaxAsked, torn <- half, answer <- reply

\* The calls of an answer are finitely many, and None is no block and no set of fragments.
ASSUME StreamAssumption ==
  /\ IsFiniteSet(Call) /\ MaxProse \in Nat
  /\ None \notin Nat /\ \A S \in SUBSET (1 .. MaxProse) : S # None

\* None is no browser and no request.
ASSUME ServiceAssumption ==
  /\ MaxAsked \in Nat
  /\ None \notin Service!Kind /\ None \notin Service!Browser /\ None \notin Service!Request

\* Each writer has one file open at a time, so that an inode is always free for a
\* new file; and there is a first session.
ASSUME FilesAssumption ==
  /\ IsFiniteSet(Writer) /\ IsFiniteSet(Inode) /\ 0 \notin Inode
  /\ Cardinality(Inode) > Cardinality(Writer) + 3
  /\ MaxUpdates \in Nat /\ MaxSessions \in Nat \ {0}

\* Elements are numbered, the body of the page is one that holds others.
ASSUME RefsAssumption ==
  /\ Container \subseteq Nat \ {0} /\ IsFiniteSet(Container) /\ Refs!Body \in Container
  /\ Leaf \subseteq Nat \ {0} /\ IsFiniteSet(Leaf)

mcp == <<process, initialized, toolIndex, nextId, op, listed, taken, spawns, unasked>>
config == <<file, content, pc, doing, copy, fd, saved, overlap, cut, updates, crashes>>
sessions == <<disk, temp, save, cli, slot, naming, lock, prompts, events, ui, issued,
              kept, removed, gap, late, sent, picks, kills>>
stream == <<api, phase, tries, provided, prose, finished, state, received>>
pipe == <<caller, current, pending, stdin, node, job, torn, stdout, answer>>
elements == <<at, stamp, url, refs, snapshotUrl, nav, upsets, loose, strayed>>
service == <<setting, half, linked, manager, session, alive, lives, crashed, request,
             scripts, tabs, reply, served, changes>>
units == <<part, vars, mcp, config, sessions, stream, pipe, elements, service>>

UnitsInit ==
  /\ part \in {"scripts", "mcp", "config", "sessions", "stream", "pipe", "refs", "service"}
  /\ Init /\ Mcp!Init /\ Config!Init /\ Sessions!Init /\ Stream!Init /\ Pipe!Init /\ Refs!Init
  /\ Service!Init
  /\ part # "stream" => api = "chat"
  /\ part # "refs" => at = CHOOSE l \in Refs!Layouts : TRUE
  /\ part # "service" => setting = "cloak"

UnitsNext ==
  /\ UNCHANGED part
  /\ \/ /\ part = "scripts" /\ Next
        /\ UNCHANGED <<mcp, config, sessions, stream, pipe, elements, service>>
     \/ /\ part = "mcp" /\ Mcp!Next
        /\ UNCHANGED <<vars, config, sessions, stream, pipe, elements, service>>
     \/ /\ part = "config" /\ Config!Next
        /\ UNCHANGED <<vars, mcp, sessions, stream, pipe, elements, service>>
     \/ /\ part = "sessions" /\ Sessions!Next
        /\ UNCHANGED <<vars, mcp, config, stream, pipe, elements, service>>
     \/ /\ part = "stream" /\ Stream!Next
        /\ UNCHANGED <<vars, mcp, config, sessions, pipe, elements, service>>
     \/ /\ part = "pipe" /\ Pipe!Next
        /\ UNCHANGED <<vars, mcp, config, sessions, stream, elements, service>>
     \/ /\ part = "refs" /\ Refs!Next
        /\ UNCHANGED <<vars, mcp, config, sessions, stream, pipe, service>>
     \/ /\ part = "service" /\ Service!Next
        /\ UNCHANGED <<vars, mcp, config, sessions, stream, pipe, elements>>

\* The fairness of the scripts and of the pipe, each as in its own FairSpec; the
\* actions of a part that does not run are disabled as it starts.
UnitsSpec ==
  /\ UnitsInit /\ [][UnitsNext]_units
  /\ WF_vars(WaitReturns) /\ \A s \in Script : WF_vars(Ends(s))
  /\ WF_pipe(Pipe!NodeTakes) /\ WF_pipe(Pipe!NodeWrites) /\ WF_pipe(Pipe!NodeAnswers)
  /\ WF_pipe(Pipe!DrainLine) /\ WF_pipe(Pipe!Write) /\ WF_pipe(Pipe!ReadLine)
  /\ WF_pipe(Pipe!WriteFails) /\ WF_pipe(Pipe!ReadClosed)

\* Mcp: a name leads to a tool its server has listed, and a response that is
\* accepted belongs to the request that was sent.
ListedToolAnswers == Mcp!RoutesAreListed /\ Mcp!AnswersItsRequest
\* Config: updates that do not overlap lose nobody's entry.  Sessions: what a save put
\* on disk stays, what was deleted does not come back, and a session is named after
\* itself.
FilesKept ==
  /\ Config!EntriesSurvive
  /\ Sessions!SavedTurnsSurvive /\ Sessions!DeletedStaysDeleted /\ Sessions!TitleIsOwn
\* Service: a request drives the browser selected as it was taken up, and a browser
\* or a goal's tab lives as long as somebody has it.
ServiceKept == Service!BackendAsSelected /\ Service!BrowsersAreHeld
\* Stream: the calls that reach the turn loop are those the provider completed, or cut
\* at its output limit, with the arguments it sent; and an answer the provider finished
\* arrives in full.
DeliveredWhole == Stream!CallsAreWhole /\ Stream!MessageDelivered
\* Pipe: a call that nobody drops ends, as long as its debts are real.
CallEnds == Pipe!CallEnds
\* Refs: a tool acts on the element its ref was bound to, inside it, or on none.
ActsOnItsElement == Refs!ActsOnItsElement
=============================================================================
