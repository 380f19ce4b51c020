--------------------------- MODULE PlaywrightPipe ---------------------------
(***************************************************************************)
(* The line protocol between PlaywrightBridge and its Node process.        *)
(* Sources, under crates/browser/src/playwright: bridge.rs                 *)
(* (write_command_and_read_line, read_bridge_line and their callers),      *)
(* bridge_script.rs (the command loop).                                    *)
(*                                                                         *)
(* The bridge is behind a mutex, so one call runs at a time.  A call may   *)
(* time out, and whoever awaits it may drop it at any await: a script      *)
(* step's timeout, an interrupted turn, an aborted agent.  A dropped       *)
(* read_line loses the bytes it has taken of a line that has not arrived   *)
(* whole, and what is left of that line may begin inside a UTF-8           *)
(* character, which read_line refuses after it has consumed the line.      *)
(*                                                                         *)
(* Abstractions.  A line in either pipe stands for the call that ended it. *)
(* A dropped write may leave the start of a line in the pipe: it joins the *)
(* next line, and the child answers the two as one (invalid_json).         *)
(* Flushing the child's stdin never waits (a Unix pipe), so a call is not  *)
(* dropped between its newline and the increment of pending_responses.     *)
(* Every timeout may fire whenever nothing has arrived.                    *)
(*                                                                         *)
(* An operator named Bad... is a plausible mistake in the definition that  *)
(* follows it; no specification uses it, mutation runs put it in place.    *)
(***************************************************************************)
EXTENDS Naturals, Sequences, PipeState

call == <<caller, current, pending, answer>>
child == <<node, job, torn, stdout>>
vars == <<call, stdin, child>>

Torn == {"no", "clean", "char"}
Response == [call : Nat, torn : Torn]

TypeOK ==
  /\ caller \in {"idle", "drain", "write", "read"}
  /\ current \in 0..MaxCalls
  /\ pending \in Nat
  /\ stdin \in Seq(Nat)
  /\ node \in {"ready", "working", "writing", "dead"}
  /\ job \in Nat
  /\ torn \in Torn
  /\ stdout \in Seq(Response)
  /\ answer \in [call : Nat, got : Nat]

Init ==
  /\ caller = "idle" /\ current = 0 /\ pending = 0
  /\ answer = [call |-> 0, got |-> 0]
  /\ stdin = << >>
  /\ node = "ready" /\ job = 0
  /\ torn = "no" /\ stdout = << >>

-----------------------------------------------------------------------------
(***************************************************************************)
(* The bridge.                                                             *)
(***************************************************************************)

BadBegin ==
  /\ caller = "idle" /\ current < MaxCalls
  /\ current' = current + 1 /\ caller' = "drain"
  /\ UNCHANGED <<pending, answer, stdin, child>>

\* A command is sent: what earlier calls are owed is drained first.
Begin ==
  /\ caller = "idle" /\ current < MaxCalls
  /\ current' = current + 1
  /\ caller' = IF pending > 0 THEN "drain" ELSE "write"
  /\ UNCHANGED <<pending, answer, stdin, child>>

\* read_line takes the next line; one that is no UTF-8 is an error, and gone.
Takes(r) ==
  /\ stdout # << >>
  /\ r = Head(stdout)
  /\ stdout' = Tail(stdout)
  /\ UNCHANGED <<stdin, node, job, torn>>

DrainLine ==
  /\ caller = "drain" /\ stdout # << >>
  /\ LET r == Head(stdout)
     IN /\ Takes(r)
        /\ pending' = IF r.torn = "char" THEN pending ELSE pending - 1
        /\ caller' = IF r.torn = "char" THEN "idle"
                     ELSE IF pending - 1 > 0 THEN "drain" ELSE "write"
  /\ UNCHANGED <<current, answer>>

Write ==
  /\ caller = "write" /\ node # "dead"
  /\ stdin' = Append(stdin, current)
  /\ pending' = pending + 1
  /\ caller' = "read"
  /\ UNCHANGED <<current, answer, child>>

WriteFails ==
  /\ caller = "write" /\ node = "dead"
  /\ caller' = "idle"
  /\ UNCHANGED <<current, pending, answer, stdin, child>>

\* The call returns what it read, if that is a response at all.
ReadLine ==
  /\ caller = "read" /\ stdout # << >>
  /\ LET r == Head(stdout)
     IN /\ Takes(r)
        /\ pending' = IF r.torn = "char" THEN pending ELSE pending - 1
        /\ answer' = IF r.torn = "no" THEN [call |-> current, got |-> r.call] ELSE answer
  /\ caller' = "idle"
  /\ UNCHANGED current

\* A reader that gives up takes along what it has of a line still being written.
GivesUp ==
  torn' \in IF node = "writing" /\ stdout = << >> THEN {torn, "clean", "char"} ELSE {torn}

BadReadTimeout ==
  /\ caller \in {"drain", "read"} /\ stdout = << >> /\ node # "dead"
  /\ caller' = "idle" /\ pending' = 0
  /\ GivesUp
  /\ UNCHANGED <<current, answer, stdin, node, job, stdout>>

\* command_timeout fires, while draining or reading: pending_responses stays.
ReadTimeout ==
  /\ caller \in {"drain", "read"} /\ stdout = << >> /\ node # "dead"
  /\ caller' = "idle"
  /\ GivesUp
  /\ UNCHANGED <<current, pending, answer, stdin, node, job, stdout>>

\* read_line returns 0 bytes: ChildClosed.
ReadClosed ==
  /\ caller \in {"drain", "read"} /\ stdout = << >> /\ node = "dead"
  /\ caller' = "idle"
  /\ UNCHANGED <<current, pending, answer, stdin, child>>

\* The future is dropped while it waits for a line ...
DropRead ==
  /\ caller \in {"drain", "read"}
  /\ caller' = "idle"
  /\ GivesUp
  /\ UNCHANGED <<current, pending, answer, stdin, node, job, stdout>>

\* ... or for room in the pipe.
DropWrite ==
  /\ caller = "write" /\ node # "dead"
  /\ caller' = "idle"
  /\ UNCHANGED <<current, pending, answer, stdin, child>>

-----------------------------------------------------------------------------
(***************************************************************************)
(* The child: one command at a time, one response line for each.           *)
(***************************************************************************)
NodeTakes ==
  /\ node = "ready" /\ stdin # << >>
  /\ node' = "working"
  /\ job' = Head(stdin)
  /\ stdin' = Tail(stdin)
  /\ UNCHANGED <<call, torn, stdout>>

NodeWrites ==
  /\ node = "working"
  /\ node' = "writing" /\ torn' = "no"
  /\ UNCHANGED <<call, stdin, job, stdout>>

NodeAnswers ==
  /\ node = "writing"
  /\ node' = "ready"
  /\ stdout' = Append(stdout, [call |-> job, torn |-> torn])
  /\ torn' = "no"
  /\ UNCHANGED <<call, stdin, job>>

\* The process ends; the start of a line it was writing is read up to the end
\* of file as a line, unless a reader has taken it all.
NodeDies ==
  /\ node # "dead"
  /\ node' = "dead" /\ torn' = "no"
  /\ stdout' \in {stdout} \union
       IF node = "writing"
       THEN {Append(stdout, [call |-> job, torn |-> t]) : t \in {"clean", "char"}}
       ELSE {}
  /\ UNCHANGED <<call, stdin, job>>

-----------------------------------------------------------------------------
Bridge ==
  \/ Begin \/ DrainLine \/ Write \/ WriteFails \/ ReadLine
  \/ ReadTimeout \/ ReadClosed \/ DropRead \/ DropWrite

Next == Bridge \/ NodeTakes \/ NodeWrites \/ NodeAnswers \/ NodeDies

Spec == Init /\ [][Next]_vars

\* The child keeps working, and a call that nobody drops is polled.
FairSpec ==
  /\ Spec
  /\ WF_vars(NodeTakes) /\ WF_vars(NodeWrites) /\ WF_vars(NodeAnswers)
  /\ WF_vars(DrainLine) /\ WF_vars(Write) /\ WF_vars(ReadLine)
  /\ WF_vars(WriteFails) /\ WF_vars(ReadClosed)

-----------------------------------------------------------------------------
(***************************************************************************)
(* Properties.                                                             *)
(***************************************************************************)
\* Responses the child has still to give or the bridge to read.
Owed == Len(stdin) + Len(stdout) + (IF node \in {"working", "writing"} THEN 1 ELSE 0)

\* The child never has a second command waiting, so a command runs after the
\* one before it is over, even when that one's caller has long gone.
OneInFlight == Owed <= 1

\* A call nobody drops and no timeout ends gets through: to an answer, or to an
\* error, as long as its debts are real.
CallEnds == (caller # "idle" /\ pending <= Owed) ~> caller = "idle"

=============================================================================
