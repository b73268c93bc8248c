--------------------------- MODULE Notifications ---------------------------
(***************************************************************************)
(* The notification store: entries are the notifications in memory, oldest *)
(* first, and file is notifications.jsonl.  Every operation holds the      *)
(* mutex of the store from its first line to its last, the file included.  *)
(* Texts, severities, sources and times are left out, and so is "read":    *)
(* apart from notification.drain, which no client of the repository calls, *)
(* it only changes with "resolved".                                        *)
(***************************************************************************)
EXTENDS Integers, Sequences, SequencesExt

CONSTANT NotesCap   \* notifications kept in memory (1000)

ASSUME NotesAssumption == NotesCap \in Nat \ {0}

Note(id) == [id |-> id, resolved |-> FALSE]

(* The newest NotesCap of a sequence of notifications.                     *)
Newest(notes) ==
  IF Len(notes) > NotesCap
  THEN SubSeq(notes, Len(notes) - NotesCap + 1, Len(notes))
  ELSE notes

(* Mutant: the store is full one notification later.                       *)
AddBeyond(store, note) ==
  [entries |-> IF Len(store.entries) > NotesCap
               THEN Append(Tail(store.entries), note)
               ELSE Append(store.entries, note),
   file    |-> Append(store.file, note)]

(* What is pushed out of memory stays in the file until the next rewrite.  *)
Add(store, note) ==
  [entries |-> Newest(Append(store.entries, note)),
   file    |-> Append(store.file, note)]

Rewrite(entries) == [entries |-> entries, file |-> entries]

(* What a client is shown: List with UnreadOnly.                           *)
Pending(store) == {n \in ToSet(store.entries) : ~n.resolved}

(* The ids are unique, so the first entry that matches is the only one.    *)
Resolve(store, id) ==
  IF \E n \in ToSet(store.entries) : n.id = id
  THEN Rewrite([i \in DOMAIN store.entries |->
                 IF store.entries[i].id = id
                 THEN [store.entries[i] EXCEPT !.resolved = TRUE]
                 ELSE store.entries[i]])
  ELSE store

(* A restarted daemon reads the file.                                      *)
Load(file) == [entries |-> Newest(file), file |-> file]
=============================================================================
