---------------------------- MODULE SessionCache ----------------------------
(***************************************************************************)
(* The client's cache of one terminal on disk (CacheStore), down to the    *)
(* files: data files that are appended to or replaced, the manifest        *)
(* current.json that commits them, the live directory of the session, its  *)
(* archive, and the renames between them.  Every operation holds the lock  *)
(* of the store, so it is one step; it may fail, or the process may be     *)
(* killed, after any of its file operations, and then the step is some of  *)
(* them.                                                                   *)
(*                                                                         *)
(* A byte of output scrolls one row off the screen, so that the history of *)
(* a terminal at sequence s is made of the rows 0 .. s - 1, the newest     *)
(* last.  A resize scrolls none.  The session has one pane, so that        *)
(* select_primary has nobody to demote.                                    *)
(***************************************************************************)
EXTENDS Naturals, FiniteSets, SequencesExt

CONSTANTS
    Limit,      \* MAX_PROJECTION_ROWS, in rows
    CompactAt,  \* MAX_PHYSICAL_HISTORY_BYTES, in rows that were dropped
    MaxReplay,  \* MAX_REPLAY_BYTES
    MaxIncidents, \* faults, requests of the user and other unusual events
    None

\* Current, without the contents of the screen.  The history is the rows
\* start + 1 .. end of a data file, of text lines or of physical rows; the
\* replay is the output since the manifest's sequence unless truncated.
Current ==
    [version : {1, 2}, seq : Nat, file : Nat \cup {None}, kind : {"lines", "rows"}, start : Nat,
     end : Nat, manifest : [id : Nat, seq : Nat] \cup {None}, synced : BOOLEAN,
     truncated : BOOLEAN, gap : BOOLEAN, preserved : BOOLEAN]

ASSUME SessionCacheAssumption ==
    /\ Limit \in Nat \ {0} /\ CompactAt \in Nat \ {0} /\ MaxReplay \in Nat
    /\ MaxIncidents \in Nat
    /\ None \notin Nat /\ None \notin Seq(Nat) /\ None \notin Current
    /\ None \notin [id : Nat, seq : Nat] /\ None \notin [current : Current, history : Seq(Nat)]

VARIABLES
    disk,       \* the files
    incidents

storeVars == <<disk, incidents>>

(***************************************************************************)
(* What is on disk: the directory live/<session>, its archive              *)
(* archives/<session>, the archive that is being replaced                  *)
(* (archives/<session>.previous), and the read-only archive of a legacy    *)
(* transcript.  For the properties, saved is what was committed last and   *)
(* transcript the legacy transcript.                                       *)
(***************************************************************************)
\* A directory: whether it exists, its data files, and current.json if it has
\* been written.
NoDirectory == [exists |-> FALSE, files |-> <<>>, current |-> None]
EmptyDirectory == [NoDirectory EXCEPT !.exists = TRUE]
LegacyFile == 0  \* history.jsonl

EmptyDisk ==
    [live |-> NoDirectory, archived |-> NoDirectory, previous |-> NoDirectory, preserved |-> None,
     saved |-> None, transcript |-> <<>>]

\* The rows from .. to - 1, and the newest n of some.
Rows(from, to) == [i \in 1 .. to - from |-> from + i - 1]
Newest(rows, n) == IF Len(rows) > n THEN SubSeq(rows, Len(rows) - n + 1, Len(rows)) ELSE rows

\* The record of a terminal that has none.
NewCurrent ==
    [version |-> 2, seq |-> 0, file |-> None, kind |-> "lines", start |-> 0, end |-> 0,
     manifest |-> None, synced |-> FALSE, truncated |-> FALSE, gap |-> FALSE, preserved |-> FALSE]

\* The directory has a current.json.
Found(d) == d.current # None

\* A name that no file has and no record names, in memory or on disk.
Fresh(d) ==
    LET used == DOMAIN d.files \cup {d.current.file}
                    \cup {r.current.file : r \in {r \in {disk.live, disk.archived, disk.previous} : Found(r)}} IN
    CHOOSE f \in 1 .. Cardinality(used) + 1 : f \notin used

Content(d) == IF d.current.file \in DOMAIN d.files THEN d.files[d.current.file] ELSE <<>>

\* The data file has everything that current.json says it has.
Intact(d) == d.current.end <= Len(Content(d))

\* history, physical_rows
History(d) == SubSeq(Content(d), d.current.start + 1, d.current.end)

\* load and archives: the history is shown as incomplete.
ShownGap(c) == c.gap \/ (c.manifest # None /\ ~c.synced)

\* What a reader is shown of a directory, if its files are intact.
View(d) == IF Found(d) /\ Intact(d) THEN [current |-> d.current, history |-> History(d)] ELSE None

\* What a reader finds: load looks into the live directory first, after
\* recover_archive.
Visible ==
    IF Found(disk.live) THEN disk.live
    ELSE IF disk.archived.exists THEN disk.archived ELSE disk.previous

(***************************************************************************)
(* Data files                                                              *)
(***************************************************************************)
\* A file has these rows now.
WriteFile(files, f, rows) == [g \in DOMAIN files \cup {f} |-> IF g = f THEN rows ELSE files[g]]

\* write_lines, and the assignments of replace_lines and replace_rows
Replace(d, rows, kind) ==
    LET f == Fresh(d) IN
    [d EXCEPT !.files = WriteFile(@, f, rows),
              !.current = [@ EXCEPT !.file = f, !.kind = kind, !.start = 0, !.end = Len(rows)]]

\* replace_lines
ReplaceLines(d, rows) ==
    LET kept == Replace(d, Newest(rows, Limit), "lines") IN
    [kept EXCEPT !.current.gap = @ \/ Len(rows) > Limit]

\* Mutant: what an interrupted append has left is kept.
ExtendUncut(d, rows) ==
    [d EXCEPT !.files = WriteFile(@, d.current.file, Content(d) \o rows),
              !.current.end = @ + Len(rows)]

\* The uncommitted tail is cut off and the rows are written in its place.
Extend(d, rows) ==
    [d EXCEPT !.files = WriteFile(@, d.current.file, SubSeq(Content(d), 1, d.current.end) \o rows),
              !.current.end = @ + Len(rows)]

\* append_lines
AppendLines(d, rows) ==
    LET longer == Extend(d, rows) IN
    CASE rows = <<>> -> d
      [] rows # <<>> /\ d.current.file = None -> ReplaceLines(d, rows)
      [] OTHER -> IF longer.current.end > Limit THEN ReplaceLines(longer, History(longer)) ELSE longer

\* append_rows: the window moves on in the file, which is rewritten once enough
\* of it has been dropped.
AppendRows(d, rows) ==
    LET longer == Extend(d, rows)
        excess == IF longer.current.end - longer.current.start > Limit
                  THEN longer.current.end - longer.current.start - Limit ELSE 0
        moved == [longer EXCEPT !.current.start = @ + excess, !.current.gap = @ \/ excess > 0] IN
    IF moved.current.start >= CompactAt THEN Replace(moved, History(moved), "rows") ELSE moved

(***************************************************************************)
(* Events.  A checkpoint [seq, first, id, gap] has the rows from first on; *)
(* the rest of the server's history is transferred later, under that id,   *)
(* unless there is none.  A synced [id, from, gap] brings all of it from   *)
(* from on.  An output [from, to, clear] may clear the history.  A resize  *)
(* is [seq].                                                               *)
(***************************************************************************)
\* The event is older than the record, or not for it: nothing is saved.
Ignored(c, has, e) ==
    CASE e.kind = "checkpoint" -> has /\ e.seq < c.seq
      [] e.kind = "synced" -> IF c.manifest = None THEN TRUE ELSE c.synced \/ c.manifest.id # e.id
      [] e.kind = "output" -> has /\ e.to <= c.seq
      [] e.kind = "resize" -> e.seq < c.seq

\* update_current, sync_history, update_output and bound_legacy_history return
\* an error: there is a gap, or the legacy transcript cannot be read.
Refused(d, e) ==
    \/ e.kind = "synced" /\ d.current.truncated
    \/ e.kind = "output" /\ e.from > d.current.seq
    \/ e.kind \in {"output", "resize"} /\ d.current.version = 1 /\ ~Intact(d)

\* bound_legacy_history
BoundLegacy(d) ==
    IF d.current.version = 1
    THEN ReplaceLines([d EXCEPT !.current.version = 2, !.current.gap = TRUE], Newest(History(d), Limit))
    ELSE d

\* The rest of the server's history cannot be joined to the record any more.
Unjoined(c) == [c EXCEPT !.manifest = None, !.truncated = TRUE, !.gap = TRUE]

\* update_current, Checkpoint
WithCheckpoint(d, e) ==
    LET bounded == [d EXCEPT !.current.version = 2, !.current.gap = e.gap]
        replaced == ReplaceLines(bounded, Rows(e.first, e.seq)) IN
    [replaced EXCEPT !.current.seq = e.seq,
                     !.current.manifest = IF e.id = None THEN None ELSE [id |-> e.id, seq |-> e.seq],
                     !.current.synced = (e.id = None),
                     !.current.truncated = FALSE]

\* sync_history: the snapshot and what was replayed since.
WithHistory(d, e) ==
    LET rows == Rows(e.from, d.current.seq)
        complete == Replace(d, Newest(rows, Limit), "rows") IN
    [complete EXCEPT !.current.gap = e.gap \/ Len(rows) > Limit, !.current.synced = TRUE]

\* retain_replay of n more bytes
RetainReplay(c, n) ==
    IF c.manifest # None /\ ~c.synced /\ ~c.truncated /\ c.seq - c.manifest.seq + n > MaxReplay
    THEN [c EXCEPT !.truncated = TRUE, !.gap = TRUE]
    ELSE c

\* The rows that output scrolls off the screen.
Scrolled(c, e) == IF e.kind = "output" /\ ~e.clear THEN Rows(c.seq, e.to) ELSE <<>>

\* update_output with bound_delta, apart from the rows to append
WithOutput(d, e) ==
    LET retained == [d EXCEPT !.current = RetainReplay(d.current, e.to - d.current.seq)]
        bounded == [retained EXCEPT !.current.gap = @ \/ Len(Scrolled(d.current, e)) > Limit]
        cleared == ReplaceLines([retained EXCEPT !.current = Unjoined(@), !.current.synced = FALSE], <<>>) IN
    [(IF e.clear THEN cleared ELSE bounded) EXCEPT !.current.seq = e.to]

\* update_current: the files, with the record in memory, after event e.
Updated(d, e) ==
    CASE e.kind = "checkpoint" -> WithCheckpoint(d, e)
      [] e.kind = "synced" -> WithHistory(d, e)
      [] e.kind = "output" -> WithOutput(BoundLegacy(d), e)
      [] e.kind = "resize" -> [BoundLegacy(d) EXCEPT !.current = Unjoined(@)]

(***************************************************************************)
(* Operations, each as the sequence of what is on disk after its file      *)
(* operations.                                                             *)
(***************************************************************************)
\* recover_archive
RecoverArchive(k) ==
    [k EXCEPT !.archived = IF @.exists THEN @ ELSE k.previous, !.previous = NoDirectory]

\* copy_record: only the files that current.json names.
Copy(d) == [d EXCEPT !.files = Restrict(@, DOMAIN @ \cap {d.current.file})]

\* resume_archive if there is no live directory, and private_directory
Resume(k) ==
    [k EXCEPT !.live = CASE @.exists -> @
                         [] ~@.exists /\ Found(k.archived) -> Copy(k.archived)
                         [] OTHER -> EmptyDirectory]

\* preserve_legacy copies the whole session under another identifier ...
Preserve(k) ==
    [k EXCEPT !.preserved = IF @ # None THEN @ ELSE IF Intact(k.live) THEN History(k.live) ELSE <<>>]

\* atomic_json: the record replaces the one on disk.
Commit(k, c) ==
    LET d == [k.live EXCEPT !.current = c] IN
    [k EXCEPT !.live = d, !.saved = View(d)]

\* ... and the record says so.
MarkPreserved(k) == Commit(k, [k.live.current EXCEPT !.preserved = TRUE])

Legacy(k) == Found(k.live) /\ k.live.current.version = 1

\* apply up to update_current
Opened(k) ==
    LET recovered == RecoverArchive(k)
        resumed == Resume(recovered)
        copied == Preserve(resumed) IN
    <<k, recovered, resumed>>
        \o (IF Legacy(resumed) /\ (~resumed.live.current.preserved \/ resumed.preserved = None)
            THEN <<copied, MarkPreserved(copied)>> ELSE <<>>)

\* append_rows or append_lines
AppendHistory(d, rows) == IF d.current.kind = "rows" THEN AppendRows(d, rows) ELSE AppendLines(d, rows)

\* An append is written to the file that is there.
InPlace(d, rows) == d.current.kind = "rows" \/ (rows # <<>> /\ d.current.file # None)

\* The rows of an append that were written when it failed.
Partly(k, d, rows) ==
    IF InPlace(d, rows)
    THEN [i \in 1 .. Len(rows) + 1 |-> [k EXCEPT !.live.files = Extend(d, SubSeq(rows, 1, i - 1)).files]]
    ELSE <<>>

\* Mutant: files are deleted before the record that does not need them is saved.
SavedCleaned(k, c) ==
    LET cleaned == [k EXCEPT !.live.files = Copy([k.live EXCEPT !.current = c]).files] IN
    <<cleaned, Commit(cleaned, c)>>

\* atomic_json and cleanup_data_files
Saved(k, c) ==
    LET committed == Commit(k, c) IN
    <<committed, [committed EXCEPT !.live = Copy(@)]>>

\* apply, and whether it returns without an error: the record in memory was read
\* before preserve_legacy.
Apply(k, e) ==
    LET opened == Opened(k)
        at == Last(opened)
        read == opened[3].live.current
        has == read # None
        before == [at.live EXCEPT !.current = IF has THEN read ELSE NewCurrent]
        updated == Updated(before, e)
        written == [at EXCEPT !.live.files = updated.files]
        rows == Newest(Scrolled(before.current, e), Limit)
        appended == AppendHistory(updated, rows)
        whole == [at EXCEPT !.live.files = appended.files] IN
    CASE Ignored(before.current, has, e) -> [ok |-> TRUE, steps |-> opened]
      [] ~Ignored(before.current, has, e) /\ Refused(before, e) -> [ok |-> FALSE, steps |-> opened]
      [] OTHER ->
           IF InPlace(updated, rows) /\ ~Intact(updated)
           THEN [ok |-> FALSE, steps |-> Append(opened, written)]
           ELSE [ok |-> TRUE,
                 steps |-> Append(opened, written) \o Partly(written, updated, rows)
                               \o <<whole>> \o Saved(whole, appended.current)]

\* mark_history_gap
MarkHistoryGap(k) == Commit(k, [Unjoined(k.live.current) EXCEPT !.synced = FALSE])

\* archive: the records are sealed; the archive that is there steps aside, the
\* live directory takes its place, and the old archive is removed.
Archive(k) ==
    LET recovered == RecoverArchive(k)
        aside == [recovered EXCEPT !.previous = recovered.archived, !.archived = NoDirectory]
        moved == [aside EXCEPT !.archived = aside.live, !.live = NoDirectory] IN
    <<k, recovered, aside, moved, [moved EXCEPT !.previous = NoDirectory]>>

\* The archive was all there was to read: nothing is saved any more.
Forget(k) ==
    IF Found(k.live) THEN k ELSE [k EXCEPT !.saved = None, !.transcript = <<>>]

\* remove_dir_all takes one file after the other: what may be left of a directory.
Remaining(d) ==
    {[d EXCEPT !.files = Restrict(@, left[1]), !.current = left[2]] :
        left \in (SUBSET DOMAIN d.files) \X {d.current, None}}

(***************************************************************************)
(* Actions                                                                 *)
(***************************************************************************)
\* Something unusual happens: a file operation fails, the process is killed, the
\* user asks for something.
Incident == incidents < MaxIncidents /\ incidents' = incidents + 1

Perform(steps) == disk' = Last(steps)
Interrupt(steps) == \E i \in 1 .. Len(steps) - 1 : disk' = steps[i]

\* load and the other readers change nothing else.
Load ==
    /\ disk.previous.exists
    /\ disk' = RecoverArchive(disk)
    /\ UNCHANGED incidents

ArchiveSession ==
    /\ disk.live.exists
    /\ Incident
    /\ Perform(Archive(disk)) \/ Interrupt(Archive(disk))

\* delete_archive
DeleteArchive ==
    LET recovered == RecoverArchive(disk) IN
    /\ recovered.archived.exists
    /\ Incident
    /\ \E left \in {NoDirectory} \cup Remaining(recovered.archived) :
         disk' = [Forget(recovered) EXCEPT !.archived = left]

StoreStep == Load \/ ArchiveSession \/ DeleteArchive
=============================================================================
