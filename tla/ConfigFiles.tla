----------------------------- MODULE ConfigFiles -----------------------------
(***************************************************************************)
(* settings.json and credentials.json, as the threads and the instances of *)
(* the program change them: load the file, change one entry of the copy,   *)
(* save the whole copy.  Nothing locks either file.  Each writer changes   *)
(* an entry of its own, a setting or a provider, which no other writer     *)
(* touches: what it loses are the entries of the others.                   *)
(*                                                                         *)
(* settings.json is truncated and written in place; credentials.json goes  *)
(* through credentials.json.tmp, one name for all, and a rename.  A write  *)
(* goes to the file that was opened, wherever a rename has moved it since. *)
(***************************************************************************)
EXTENDS Integers

CONSTANTS
  Writer,       \* threads and instances that save; the entry each one changes
  Inode,        \* inodes, more than the names and the writers together
  MaxUpdates,   \* bound: updates a writer makes
  MaxCrashes    \* bound: writers killed in an update

VARIABLES
  file,     \* inodes of the directory: its three names, Missing or an inode
  content,  \* what each inode holds: the entries, or Torn (empty, half, mixed)
  pc,       \* where each writer is
  doing,    \* the file it updates
  copy,     \* the entries it has in memory
  fd,       \* the inode it has open
  saved,    \* history: what the completed updates of each file add up to
  overlap,  \* history: files two updates of which ran at once
  cut,      \* history: an update of settings.json was killed inside its write
  updates, crashes

vars == <<file, content, pc, doing, copy, fd, saved, overlap, cut, updates, crashes>>
ghost == <<saved, overlap, cut, updates, crashes>>

Store == {"settings", "credentials"}
Missing == 0
Torn == [w \in {} |-> 0]
Entries == [Writer -> 0..MaxUpdates]
Defaults == [w \in Writer |-> 0]

Init ==
  /\ file = [settings |-> Missing, credentials |-> Missing, temp |-> Missing]
  /\ content = [i \in Inode |-> Torn]
  /\ pc = [w \in Writer |-> "idle"]
  /\ doing = [w \in Writer |-> "settings"]
  /\ copy = [w \in Writer |-> Defaults]
  /\ fd = [w \in Writer |-> Missing]
  /\ saved = [s \in Store |-> Defaults]
  /\ overlap = {} /\ cut = FALSE
  /\ updates = [w \in Writer |-> 0] /\ crashes = 0

Free == CHOOSE i \in Inode : \A n \in DOMAIN file : file[n] # i
                             /\ \A w \in Writer : fd[w] # i

\* load_settings, load_credentials_or_warn: a file that is missing or does not
\* parse gives the defaults.
Parsed(s) == IF file[s] = Missing \/ content[file[s]] = Torn
             THEN Defaults ELSE content[file[s]]

\* What an update starts from: the file, read anew.
BadBase(w, s) == copy[w]
Base(w, s) == Parsed(s)

\* update_settings, and load, set_provider_config, save_credentials.
Loads(w, s) ==
  /\ pc[w] = "idle" /\ updates[w] < MaxUpdates
  /\ updates' = [updates EXCEPT ![w] = @ + 1]
  /\ doing' = [doing EXCEPT ![w] = s]
  /\ copy' = [copy EXCEPT ![w] = [Base(w, s) EXCEPT ![w] = updates'[w]]]
  /\ pc' = [pc EXCEPT ![w] = "loaded"]
  /\ overlap' = IF \E v \in Writer : pc[v] # "idle" /\ doing[v] = s
                THEN overlap \cup {s} ELSE overlap
  /\ UNCHANGED <<file, content, fd, saved, cut, crashes>>

\* The name a save writes to.
Written(s) == IF s = "credentials" THEN "temp" ELSE s

\* Open with create and truncate.
Opens(w) ==
  LET name == Written(doing[w])
      inode == IF file[name] = Missing THEN Free ELSE file[name]
  IN /\ pc[w] = "loaded"
     /\ file' = [file EXCEPT ![name] = inode]
     /\ content' = [content EXCEPT ![inode] = Torn]
     /\ fd' = [fd EXCEPT ![w] = inode]
     /\ pc' = [pc EXCEPT ![w] = "opened"]
     /\ UNCHANGED <<doing, copy, ghost>>

Completed(w) == saved' = [saved EXCEPT ![doing[w]] = [@ EXCEPT ![w] = copy[w][w]]]

\* write_all, over what another writer may have put there: the end of a longer
\* text stays.  For settings.json this is the last step.
Writes(w) ==
  /\ pc[w] = "opened"
  /\ \/ content' = [content EXCEPT ![fd[w]] = copy[w]]
     \/ content[fd[w]] # Torn /\ content' = [content EXCEPT ![fd[w]] = Torn]
  /\ fd' = [fd EXCEPT ![w] = Missing]
  /\ IF doing[w] = "settings"
     THEN pc' = [pc EXCEPT ![w] = "idle"] /\ Completed(w)
     ELSE pc' = [pc EXCEPT ![w] = "written"] /\ UNCHANGED saved
  /\ UNCHANGED <<file, doing, copy, overlap, cut, updates, crashes>>

\* set_permissions and rename: both fail when another writer's rename has taken
\* the temporary file away.
Renames(w) ==
  /\ pc[w] = "written"
  /\ IF file["temp"] = Missing
     THEN UNCHANGED <<file, saved>>
     ELSE /\ file' = [file EXCEPT !["credentials"] = file["temp"], !["temp"] = Missing]
          /\ Completed(w)
  /\ pc' = [pc EXCEPT ![w] = "idle"]
  /\ UNCHANGED <<content, doing, copy, fd, overlap, cut, updates, crashes>>

\* The process is killed; what it wrote stays.
Crash(w) ==
  /\ pc[w] # "idle" /\ crashes < MaxCrashes
  /\ crashes' = crashes + 1
  /\ cut' = (cut \/ (pc[w] = "opened" /\ doing[w] = "settings"))
  /\ pc' = [pc EXCEPT ![w] = "idle"]
  /\ fd' = [fd EXCEPT ![w] = Missing]
  /\ UNCHANGED <<file, content, doing, copy, saved, overlap, updates>>

Next == \E w \in Writer :
  \/ \E s \in Store : Loads(w, s)
  \/ Opens(w) \/ Writes(w) \/ Renames(w) \/ Crash(w)

Spec == Init /\ [][Next]_vars

--------------------------------------------------------------------------
Quiet(s) == \A w \in Writer : pc[w] # "idle" => doing[w] # s

\* As long as no two updates of a file have run at once, the file holds what the
\* completed updates add up to, every writer's entry among them; and a writer
\* killed at any point costs credentials.json nothing.  settings.json, which is
\* written in place, survives a kill everywhere but inside its write.
EntriesSurvive ==
  \A s \in Store : Quiet(s) /\ s \notin overlap /\ ~(cut /\ s = "settings") =>
    Parsed(s) = saved[s]

=============================================================================
