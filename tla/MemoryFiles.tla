----------------------------- MODULE MemoryFiles -----------------------------
(***************************************************************************)
(* MEMORY.md in the folder of a project (hooks/lib/sync-memory-files.js).  *)
(* Every session start in that folder writes the index anew from the       *)
(* server's memories, or marks it as out of date when they cannot be had.  *)
(* The file may also be one the person, or an AI, wrote.  Two sessions     *)
(* start at once, and a file is emptied before it is written.              *)
(*                                                                         *)
(* The memories' own files are left out, and so is what somebody adds to   *)
(* an index that keeps its marker, which says that it will be overwritten. *)
(***************************************************************************)
EXTENDS Naturals

CONSTANTS
  Openings,        \* the session starts that may be under way
  MaxTexts,        \* bound: texts the person writes
  MaxMirrorFaults  \* bound: session starts that are killed or cannot write

ASSUME MemoryFilesConstants == MaxTexts \in Nat /\ MaxMirrorFaults \in Nat

VARIABLES
  index,     \* MEMORY.md: the text of the person in it, and the marks it carries
  texts,     \* how many texts the person has written; the last is theirs to keep
  backups,   \* the texts in MEMORY.md.pre-sync-backup-*
  opening,   \* each session start: where it is, and what it has read or will write
  mirrorFaults,
  exposed    \* history: the last text was put, or met, where nobody looks after it

mirrorVars == <<index, texts, backups, opening, mirrorFaults, exposed>>

NoText  == 0
Blanked == [own |-> NoText, auto |-> FALSE, failed |-> FALSE]
Synced  == [Blanked EXCEPT !.auto = TRUE]
NotOpening == [at |-> "idle", holds |-> Blanked]

MemoryFilesInit ==
  /\ index = Blanked /\ texts = 0 /\ backups = {} /\ exposed = FALSE /\ mirrorFaults = 0
  /\ opening = [s \in Openings |-> NotOpening]

Proceeds(s, where, what) == opening' = [opening EXCEPT ![s] = [at |-> where, holds |-> what]]

\* The file has been emptied, and the last text is still to be written to it.
Emptied(s) == opening[s].at = "fill" /\ opening[s].holds.own = texts /\ texts > 0

\* The person replaces the file: whole, and on top of whatever is under way.
WriteOwn ==
  /\ texts < MaxTexts /\ texts' = texts + 1
  /\ index' = [Blanked EXCEPT !.own = texts']
  /\ exposed' = \E s \in Openings : opening[s].at # "idle"
  /\ UNCHANGED <<backups, opening, mirrorFaults>>

\* Whoever reads the file while it is empty finds nothing to keep.
Reads == exposed' = (exposed \/ \E s \in Openings : Emptied(s))

\* syncMemoryFiles: what does not carry the marker is set aside first.
StartSync(s) ==
  /\ opening[s].at = "idle" /\ Reads
  /\ IF index.auto \/ index.own = NoText THEN Proceeds(s, "write", Synced) ELSE Proceeds(s, "backup", index)
  /\ UNCHANGED <<index, texts, backups, mirrorFaults>>

BackUp(s) ==
  /\ opening[s].at = "backup"
  /\ backups' = backups \cup {opening[s].holds.own}
  /\ Proceeds(s, "write", Synced)
  /\ UNCHANGED <<index, texts, mirrorFaults, exposed>>

MirrorFault == mirrorFaults < MaxMirrorFaults /\ mirrorFaults' = mirrorFaults + 1

\* A backup that cannot be written is swallowed, and the sync goes on.
BackUpFails(s) ==
  /\ opening[s].at = "backup" /\ MirrorFault
  /\ exposed' = (exposed \/ opening[s].holds.own = texts)
  /\ Proceeds(s, "write", Synced)
  /\ UNCHANGED <<index, texts, backups>>

\* Mutant: a text of the person's gets the marker of the sync as well.
MarkedAsSynced == [index EXCEPT !.auto = TRUE, !.failed = TRUE]

\* applyFailMode: the mark goes on top of what the file holds, and an empty one
\* becomes an index that says so.
MarkedFailed == [index EXCEPT !.auto = @ \/ index.own = NoText, !.failed = TRUE]
StartMark(s) ==
  /\ opening[s].at = "idle" /\ ~index.failed /\ Reads
  /\ Proceeds(s, "write", MarkedFailed)
  /\ UNCHANGED <<index, texts, backups, mirrorFaults>>

\* fs.writeFileSync: the file is emptied, then written.
EmptyIndex(s) ==
  /\ opening[s].at = "write"
  /\ index' = Blanked
  /\ Proceeds(s, "fill", opening[s].holds)
  /\ UNCHANGED <<texts, backups, mirrorFaults, exposed>>
FillIndex(s) ==
  /\ opening[s].at = "fill"
  /\ index' = opening[s].holds
  /\ Proceeds(s, "idle", Blanked)
  /\ UNCHANGED <<texts, backups, mirrorFaults, exposed>>

\* The hook is killed or a write throws.  The Node hook then marks the index,
\* which is a StartMark of its own; the shell hook does not.
OpeningStops(s) ==
  /\ opening[s].at # "idle" /\ MirrorFault
  /\ exposed' = (exposed \/ Emptied(s))
  /\ Proceeds(s, "idle", Blanked)
  /\ UNCHANGED <<index, texts, backups>>

MirrorStep(s) == StartSync(s) \/ BackUp(s) \/ StartMark(s) \/ EmptyIndex(s) \/ FillIndex(s)
MemoryFilesNext == WriteOwn \/ \E s \in Openings : MirrorStep(s) \/ BackUpFails(s) \/ OpeningStops(s)
MemoryFilesSpec == MemoryFilesInit /\ [][MemoryFilesNext]_mirrorVars

MemoryFilesTypeOK ==
  LET File == [own : 0..texts, auto : BOOLEAN, failed : BOOLEAN] IN
  /\ texts \in 0..MaxTexts /\ index \in File /\ backups \subseteq 1..texts /\ exposed \in BOOLEAN
  /\ opening \in [Openings -> [at : {"idle", "backup", "write", "fill"}, holds : File]]
  /\ mirrorFaults \in 0..MaxMirrorFaults

\* The text a person wrote into MEMORY.md is there, or in a backup, or about to
\* be put back, however syncs and marks of two sessions follow and overlap one
\* another: until its backup fails, it is written in the middle of a session
\* start, or the file is met or left empty while a mark rewrites it.
OwnTextKept ==
  \/ texts = 0 \/ exposed
  \/ index.own = texts \/ texts \in backups
  \/ \E s \in Openings : Emptied(s)
=============================================================================
