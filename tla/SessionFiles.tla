---------------------------- MODULE SessionFiles ----------------------------
(***************************************************************************)
(* The sessions of the terminal UI on disk.  The worker thread runs turns  *)
(* with the LiveCli lock held and saves at the end of one that went well;  *)
(* the UI thread saves, clears, and, in the session picker, switches,      *)
(* renames and deletes: the last two touch the files without the lock.  A  *)
(* task of its own names a session after its first prompt and leaves the   *)
(* name in one slot, pending_title, for whichever save comes next.         *)
(*                                                                         *)
(* The UI takes itself for idle from Enter until it drains TurnStarting:   *)
(* what it starts in that gap waits for the lock, a picker's file          *)
(* operations do not.                                                      *)
(***************************************************************************)
EXTENDS Integers, Sequences

CONSTANTS
  MaxSessions,  \* bound: session ids issued
  MaxTurns,     \* bound: prompts sent
  MaxPicks,     \* bound: files the picker deletes or renames
  MaxKills      \* bound: times the program is killed

Session == 1..MaxSessions
Actor == {"worker", "ui"}

VARIABLES
  disk,        \* <id>.json: Absent, Half, or what was written
  temp,        \* <id>.tmp
  save,        \* save_to_path in each thread: its step, its data, where its file is
  cli,         \* LiveCli: session, conversation, title_dispatched
  slot,        \* pending_title
  naming,      \* sessions whose title is being generated
  lock,        \* the mutex around LiveCli
  prompts,     \* work_tx: prompts the worker has not taken
  events,      \* ui_rx: TurnStarting, TurnFinished
  ui,          \* busy, and the picker: open, entries, current
  issued,      \* session ids issued
  kept,        \* history: turns in the last completed save of each session
  removed,     \* history: sessions the user has deleted
  gap,         \* history: the picker touched files with a turn queued or running
  late,        \* history: a title came after its session was left
  sent, picks, kills

vars == <<disk, temp, save, cli, slot, naming, lock, prompts, events, ui, issued,
          kept, removed, gap, late, sent, picks, kills>>
files == <<disk, temp, save, kept>>
history == <<removed, gap, late>>
bounds == <<sent, picks, kills>>

NoTitle == <<"none", 0>>
Absent == [turns |-> 0, title |-> <<"absent", 0>>]
Half == [turns |-> 0, title |-> <<"half", 0>>]
Whole(f) == f \notin {Absent, Half}
Blank(s) == [session |-> s, turns |-> 0, title |-> NoTitle, dispatched |-> FALSE]
NotSaving == [step |-> "none", of |-> 0, data |-> Absent, at |-> "nowhere"]
Closed == [open |-> FALSE, entries |-> {}, current |-> 0]

Init ==
  /\ disk = [s \in Session |-> Absent] /\ temp = [s \in Session |-> Absent]
  /\ save = [a \in Actor |-> NotSaving]
  /\ cli = Blank(1) /\ issued = 1
  /\ slot = NoTitle /\ naming = {}
  /\ lock = "free" /\ prompts = 0 /\ events = << >>
  /\ ui = [busy |-> FALSE, picker |-> Closed, then |-> "keys"]
  /\ kept = [s \in Session |-> 0]
  /\ removed = {} /\ gap = FALSE /\ late = FALSE
  /\ sent = 0 /\ picks = 0 /\ kills = 0

--------------------------------------------------------------------------
\* Session::save_to_path: create, write, rename.

Saving(s, data) == [step |-> "create", of |-> s, data |-> data, at |-> "nowhere"]
Reached(a, step, at) == [step |-> step, of |-> save[a].of, data |-> save[a].data, at |-> at]

\* The file save_to_path writes to.
BadWritesLive == TRUE
WritesLive == FALSE

Creates(a) ==
  /\ save[a].step = "create"
  /\ LET s == save[a].of IN
     IF WritesLive
     THEN /\ disk' = [disk EXCEPT ![s] = Half] /\ UNCHANGED temp
          /\ save' = [save EXCEPT ![a] = Reached(a, "write", "live")]
     ELSE /\ temp' = [temp EXCEPT ![s] = Half] /\ UNCHANGED disk
          /\ save' = [save EXCEPT ![a] = Reached(a, "write", "temp")]
  /\ UNCHANGED <<cli, slot, naming, lock, prompts, events, ui, issued, kept, history, bounds>>

\* The write goes to the file that was opened: the other thread may have renamed
\* it to the session's, or deleted it.
Writes(a) ==
  /\ save[a].step = "write"
  /\ LET s == save[a].of IN
       /\ temp' = IF save[a].at = "temp" THEN [temp EXCEPT ![s] = save[a].data] ELSE temp
       /\ disk' = IF save[a].at = "live" THEN [disk EXCEPT ![s] = save[a].data] ELSE disk
  /\ save' = [save EXCEPT ![a] = Reached(a, "rename", save[a].at)]
  /\ UNCHANGED <<cli, slot, naming, lock, prompts, events, ui, issued, kept, history, bounds>>

\* The last step; the thread that held the lock for it lets go.
Renames(a) ==
  LET s == save[a].of
      moved == [save EXCEPT ![a] = NotSaving]
  IN /\ save[a].step = "rename"
     /\ IF temp[s] = Absent      \* taken or deleted: the save fails
        THEN /\ save' = moved /\ UNCHANGED <<disk, temp>>
             /\ kept' = IF WritesLive THEN [kept EXCEPT ![s] = save[a].data.turns] ELSE kept
        ELSE /\ disk' = [disk EXCEPT ![s] = temp[s]]
             /\ temp' = [temp EXCEPT ![s] = Absent]
             /\ save' = [b \in Actor |-> IF moved[b].of = s /\ moved[b].at = "temp"
                                         THEN [moved[b] EXCEPT !.at = "live"]
                                         ELSE moved[b]]
             /\ kept' = [kept EXCEPT ![s] = save[a].data.turns]
     /\ lock' = IF lock = a THEN "free" ELSE lock
     /\ ui' = IF ui.then = "renaming" /\ a = "ui" THEN [ui EXCEPT !.then = "refresh"] ELSE ui
     /\ UNCHANGED <<cli, slot, naming, prompts, events, issued, history, bounds>>

\* persist_session: nothing for an empty conversation; a waiting title is taken.
Titled(c) == IF c.title = NoTitle THEN [c EXCEPT !.title = slot] ELSE c

Persists(a, c) ==
  IF c.turns = 0
  THEN cli' = c /\ lock' = "free" /\ UNCHANGED <<save, slot>>
  ELSE /\ cli' = Titled(c)
       /\ slot' = IF c.title = NoTitle THEN NoTitle ELSE slot
       /\ save' = [save EXCEPT ![a] = Saving(c.session, [turns |-> c.turns,
                                                         title |-> Titled(c).title])]
       /\ lock' = a

--------------------------------------------------------------------------
\* The worker thread.

\* It takes the lock and a prompt; maybe_dispatch_title_generation; TurnStarting.
TurnStarts ==
  /\ prompts > 0 /\ lock = "free" /\ save["worker"].step = "none"
  /\ prompts' = prompts - 1
  /\ lock' = "worker"
  /\ naming' = IF ~cli.dispatched /\ cli.title = NoTitle /\ cli.turns = 0
               THEN naming \cup {cli.session} ELSE naming
  /\ cli' = [cli EXCEPT !.dispatched = TRUE]
  /\ events' = Append(events, "starting")
  /\ UNCHANGED <<files, slot, ui, issued, history, bounds>>

\* The turn ends, TurnFinished is sent, and only a turn that went well is saved.
TurnEnds ==
  /\ lock = "worker" /\ save["worker"].step = "none"
  /\ events' = Append(events, "finished")
  /\ LET grown == [cli EXCEPT !.turns = @ + 1] IN
     \/ Persists("worker", grown)
     \/ cli' = grown /\ lock' = "free" /\ UNCHANGED <<save, slot>>
  /\ UNCHANGED <<disk, temp, kept, naming, prompts, ui, issued, history, bounds>>

\* The naming task puts its title into the slot, or fails.
TitleComes(s) ==
  /\ s \in naming
  /\ naming' = naming \ {s}
  /\ \/ slot' = <<"auto", s>> /\ late' = (late \/ s # cli.session)
     \/ UNCHANGED <<slot, late>>
  /\ UNCHANGED <<files, cli, lock, prompts, events, ui, issued, removed, gap, bounds>>

--------------------------------------------------------------------------
\* The UI thread.  What needs the lock waits for it, the whole thread with it.

Keys == ui.then = "keys" /\ save["ui"].step = "none" /\ ~ui.picker.open
InPicker == ui.then = "keys" /\ save["ui"].step = "none" /\ ui.picker.open

Drains ==
  /\ ui.then = "keys" /\ save["ui"].step = "none" /\ events # << >>
  /\ events' = Tail(events)
  /\ ui' = [ui EXCEPT !.busy = Head(events) = "starting"]
  /\ UNCHANGED <<files, cli, slot, naming, lock, prompts, issued, history, bounds>>

Enter ==
  /\ Keys /\ ~ui.busy /\ sent < MaxTurns
  /\ sent' = sent + 1
  /\ prompts' = prompts + 1
  /\ UNCHANGED <<files, cli, slot, naming, lock, events, ui, issued, history, picks, kills>>

\* /model and /exit save.
SaveCommand ==
  /\ Keys /\ ~ui.busy /\ lock = "free"
  /\ Persists("ui", cli)
  /\ UNCHANGED <<disk, temp, kept, naming, prompts, events, ui, issued, history, bounds>>

\* clear_session_command
BadLeft == UNCHANGED slot
Left == slot' = NoTitle
Cleared ==
  /\ lock = "free" /\ issued < MaxSessions
  /\ issued' = issued + 1
  /\ cli' = Blank(issued + 1)
  /\ Left

ClearCommand ==
  /\ Keys /\ ~ui.busy /\ Cleared
  /\ ui' = [ui EXCEPT !.busy = FALSE]
  /\ UNCHANGED <<files, naming, lock, prompts, events, history, bounds>>

Listed(current) == [open |-> TRUE, current |-> current,
                    entries |-> {s \in Session : disk[s] # Absent}]

OpenPicker ==
  /\ Keys /\ ~ui.busy /\ lock = "free"
  /\ ui' = [ui EXCEPT !.picker = Listed(cli.session)]
  /\ UNCHANGED <<files, cli, slot, naming, lock, prompts, events, issued, history, bounds>>

ClosePicker ==
  /\ InPicker
  /\ ui' = [ui EXCEPT !.picker = Closed]
  /\ UNCHANGED <<files, cli, slot, naming, lock, prompts, events, issued, history, bounds>>

\* switch_to_session_handle, then persist_session; a file that does not load
\* leaves everything as it is.
Switch(s) ==
  /\ InPicker /\ s \in ui.picker.entries /\ lock = "free"
  /\ IF Whole(disk[s])
     THEN LET there == [session |-> s, turns |-> disk[s].turns, title |-> disk[s].title,
                        dispatched |-> TRUE]
          IN /\ cli' = there
             /\ slot' = NoTitle
             /\ lock' = "ui"
             /\ save' = [save EXCEPT !["ui"] = Saving(s, disk[s])]
             /\ ui' = [busy |-> FALSE, picker |-> Closed, then |-> "keys"]
     ELSE ui' = [ui EXCEPT !.picker = Closed] /\ UNCHANGED <<cli, slot, lock, save>>
  /\ UNCHANGED <<disk, temp, kept, naming, prompts, events, issued, history, bounds>>

Picks == picks < MaxPicks /\ picks' = picks + 1
InGap == gap' = (gap \/ prompts > 0 \/ lock = "worker")

\* rename_session loads the file and saves it under the new title.
Rename(s) ==
  /\ InPicker /\ s \in ui.picker.entries /\ Whole(disk[s]) /\ Picks /\ InGap
  /\ save' = [save EXCEPT !["ui"] = Saving(s, [turns |-> disk[s].turns,
                                               title |-> <<"user", s>>])]
  /\ ui' = [ui EXCEPT !.then = "renaming"]
  /\ UNCHANGED <<disk, temp, kept, cli, slot, naming, lock, prompts, events, issued,
                 removed, late, sent, kills>>

\* delete_session; deleting the session the picker took for the current one also
\* starts a fresh one, once the lock is free.
BadAfterDelete(s) == "refresh"
AfterDelete(s) == IF s = ui.picker.current THEN "clear" ELSE "refresh"
Delete(s) ==
  /\ InPicker /\ s \in ui.picker.entries /\ Picks /\ InGap
  /\ temp' = [temp EXCEPT ![s] = Absent]
  /\ disk' = [disk EXCEPT ![s] = Absent]
  /\ save' = [a \in Actor |-> IF save[a].of = s THEN [save[a] EXCEPT !.at = "nowhere"]
                              ELSE save[a]]
  /\ kept' = [kept EXCEPT ![s] = 0]
  /\ removed' = removed \cup {s}
  /\ ui' = [ui EXCEPT !.then = AfterDelete(s)]
  /\ UNCHANGED <<cli, slot, naming, lock, prompts, events, issued, late, sent, kills>>

\* The second half of a picker's operation, with the lock.
StartsAfresh ==
  /\ ui.then = "clear" /\ Cleared
  /\ ui' = [busy |-> FALSE, picker |-> Listed(issued + 1), then |-> "keys"]
  /\ UNCHANGED <<files, naming, lock, prompts, events, history, bounds>>

Refreshes ==
  /\ ui.then = "refresh" /\ lock = "free"
  /\ ui' = [busy |-> ui.busy, picker |-> Listed(cli.session), then |-> "keys"]
  /\ UNCHANGED <<files, cli, slot, naming, lock, prompts, events, issued, history, bounds>>

--------------------------------------------------------------------------
\* The program is killed and started again, with a new session.
Killed ==
  /\ kills < MaxKills /\ issued < MaxSessions
  /\ kills' = kills + 1 /\ issued' = issued + 1
  /\ cli' = Blank(issued + 1)
  /\ save' = [a \in Actor |-> NotSaving]
  /\ slot' = NoTitle /\ naming' = {} /\ lock' = "free" /\ prompts' = 0
  /\ events' = << >>
  /\ ui' = [busy |-> FALSE, picker |-> Closed, then |-> "keys"]
  /\ UNCHANGED <<disk, temp, kept, history, sent, picks>>

Next ==
  \/ \E a \in Actor : Creates(a) \/ Writes(a) \/ Renames(a)
  \/ TurnStarts \/ TurnEnds \/ Drains \/ Enter \/ SaveCommand \/ ClearCommand
  \/ OpenPicker \/ ClosePicker \/ StartsAfresh \/ Refreshes \/ Killed
  \/ \E s \in Session : TitleComes(s) \/ Switch(s) \/ Rename(s) \/ Delete(s)

Spec == Init /\ [][Next]_vars

--------------------------------------------------------------------------
\* What a completed save put on disk stays there, whole, through kills at any
\* point and through later saves, unless the picker worked on files in the gap.
SavedTurnsSurvive ==
  ~gap => \A s \in Session : kept[s] > 0 => Whole(disk[s]) /\ disk[s].turns >= kept[s]

\* A session the user has deleted does not come back, outside the gap: no save of
\* the conversation that was in memory brings its file back.
DeletedStaysDeleted == ~gap => \A s \in removed : disk[s] = Absent

\* A session is named after its own first prompt or by the user, unless a title
\* came after its session was left.
TitleIsOwn ==
  ~late => \A s \in Session : Whole(disk[s]) =>
             disk[s].title \in {NoTitle, <<"auto", s>>, <<"user", s>>}

=============================================================================
